------------------------------- MODULE Tablet -------------------------------
(***************************************************************************)
(* The application with what its threads do to the native library: an      *)
(* upload of the server publishes books, a session of the server or of the *)
(* application's own thread scans, a server that starts sweeps the part    *)
(* files, and a process that ends, or dies, leaves all of it as it is.     *)
(***************************************************************************)
EXTENDS Application, BookPublication

vars == <<appVars, bookVars>>

Init == AppInit /\ BookInit

App(A) == A /\ UNCHANGED bookVars
Lib(A) == A /\ UNCHANGED appVars

\* An upload of a book, from the last byte of its body to its answer.
Upload == \E b \in Book : Receive(b) /\ Serve("upload")
Publish == Lib(PublicationStep)
Uploaded == PublicationEnd /\ Served("upload")
\* A session scans: a peer's, or one that was called for.
InSession == "session" \in serving \/ sync_worker = "running"
Scan == InSession /\ Lib(ScanBegin)
Scanned == Lib(ScanCommit \/ ScanFail)
\* A session ends; one that was called for while another was under way was
\* turned away and never scanned.
SessionOver ==
  \/ Forget /\ Served("session")
  \/ /\ WorkerEnds
     /\ IF "session" \in serving THEN UNCHANGED bookVars ELSE Forget

Start == Started /\ Sweep
End == Ended /\ Tear
Die == running /\ Exit /\ Tear

Next ==
  \/ App(\E c \in Command : Send(c)) \/ App(Launch)
  \/ App(LoopStep) \/ App(Tick) \/ App(Serve("session")) \/ App(Progress)
  \/ Start \/ End \/ Die
  \/ Upload \/ Publish \/ Uploaded
  \/ Scan \/ Scanned \/ SessionOver

Fairness ==
  /\ WF_vars(App(LoopStep) \/ Start \/ End)
  /\ WF_vars(App(Tick))
  /\ WF_vars(Publish \/ Uploaded)
  /\ WF_vars(Scanned)
  /\ WF_vars(SessionOver)

Spec == Init /\ [][Next]_vars /\ Fairness
-----------------------------------------------------------------------------
\* Whenever the application waits in the background, no server listens, no
\* address is announced, no credentials are valid, no session is under way
\* and no book is half published by a thread of this process.
BackgroundIsSilent ==
  at = "commands" /\ ~foreground =>
    /\ ~server /\ ~discovery /\ ~credentials
    /\ serving = {} /\ sync_worker = "none"
    /\ ~Publishing /\ scanning = "no"
=============================================================================
