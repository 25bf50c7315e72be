----------------------------- MODULE Application -----------------------------
(***************************************************************************)
(* The application (app.rs): one thread that takes the launcher's commands *)
(* and the touches in turn, and starts, replaces and stops everything else *)
(* (the HTTP server with its connections, the discovery, the thread of a   *)
(* session) while these change the status it has to show.                  *)
(*                                                                         *)
(* Abstractions.  A press and its release are one step, and a pass of the  *)
(* loop has at most one.  Which peers were found, whether the first of     *)
(* them is trusted and which items are ticked decide what a press of the   *)
(* sync button does, by choice.  The status is known by whether it is what *)
(* last_snapshot holds and what the screen shows; a change may return to   *)
(* either of them.                                                         *)
(***************************************************************************)
EXTENDS Naturals

VARIABLES
  running,      \* whether the process is
  command,      \* the launcher's command that is not answered
  at,           \* where the loop is
  foreground, credentials, discovery,
  server,       \* whether there is a server
  serving,      \* what its connections do, of what matters here
  sync_worker,  \* "none", "running", "finished"
  noted,        \* last_snapshot is the status: "no", "yes", "returned" (again)
  shown,        \* the screen shows the status
  recent        \* last_status_paint is less than 250 ms ago

threads == <<serving, sync_worker>>
display == <<noted, shown, recent>>
services == <<foreground, credentials, discovery, server>>
appVars == <<running, command, at, services, threads, display>>

Command == {"enter", "background", "shutdown"}

AppInit ==
  /\ running = TRUE
  /\ command = "enter"
  /\ at = "commands"
  /\ foreground = FALSE /\ credentials = FALSE /\ discovery = FALSE
  /\ server = FALSE /\ serving = {} /\ sync_worker = "none"
  /\ noted = "no" /\ shown = FALSE /\ recent = TRUE

\* A thread changes the status, perhaps back to one that was noted or shown.
StatusChanges ==
  /\ noted' \in {"no", "returned"} /\ shown' \in BOOLEAN
  /\ UNCHANGED recent

\* render() of all or of the status region: what is shown is the status now.
Paint == shown' = TRUE /\ UNCHANGED <<noted, recent>>

\* The loop has set the status itself and paints it.
PaintNew == shown' = TRUE /\ noted' \in {"no", "returned"} /\ UNCHANGED recent
\* DiscoveryService: start, which may fail; peers are found while it lasts; drop.
Announce == discovery' \in BOOLEAN
PeersFound == discovery
Withdraw == discovery' = FALSE
-----------------------------------------------------------------------------
(* The launcher, which waits for the answer to a command. *)

Send(c) ==
  /\ running /\ command = "none"
  /\ command' = c
  /\ UNCHANGED <<running, at, services, threads, display>>

\* The process is started again after it has ended.
Launch ==
  /\ ~running
  /\ running' = TRUE /\ command' = "enter" /\ at' = "commands"
  /\ noted' = "no" /\ shown' = FALSE /\ recent' = TRUE
  /\ UNCHANGED <<services, threads>>

\* run() returns, and with it the process and all its threads.
Exit ==
  /\ running' = FALSE /\ command' = "none" /\ at' = "commands"
  /\ foreground' = FALSE /\ credentials' = FALSE /\ discovery' = FALSE
  /\ server' = FALSE /\ serving' = {} /\ sync_worker' = "none"
  /\ noted' = "no" /\ shown' = FALSE /\ recent' = TRUE
-----------------------------------------------------------------------------
(* Commands. *)

NoCommand ==
  /\ running /\ at = "commands" /\ command = "none"
  /\ at' = IF foreground THEN "touch" ELSE "commands"
  /\ UNCHANGED <<running, command, services, threads, display>>

\* Fault: an application that is in the foreground has nothing to answer.
EnterAgainSilent ==
  /\ running /\ at = "commands" /\ command = "enter" /\ foreground
  /\ at' = "touch"
  /\ UNCHANGED <<running, command, services, threads, display>>

\* enter_foreground() returns early; the frame is painted and answered.
EnterAgain ==
  /\ running /\ at = "commands" /\ command = "enter" /\ foreground
  /\ command' = "none"
  /\ Paint
  /\ UNCHANGED <<running, at, services, threads>>

Enter ==
  /\ running /\ at = "commands" /\ command = "enter" /\ ~foreground
  /\ foreground' = TRUE
  /\ at' = "entering"
  /\ UNCHANGED <<running, command, credentials, discovery, server, threads, display>>

\* leave_foreground() up to server.stop().
Leave ==
  /\ running /\ at = "commands" /\ command \in {"background", "shutdown"}
  /\ foreground' = FALSE /\ credentials' = FALSE /\ Withdraw
  /\ at' = "leaving"
  /\ UNCHANGED <<running, command, server, threads, display>>

\* server.stop() joins the server, which joins its connections.
StopToLeave ==
  /\ at = "leaving" /\ serving = {}
  /\ server' = FALSE
  /\ at' = "joining"
  /\ UNCHANGED <<running, command, foreground, credentials, discovery, threads, display>>

\* Fault: a session that is still under way is left to itself.
BackgroundDetached ==
  /\ at = "joining" /\ command = "background"
  /\ command' = "none" /\ at' = "commands"
  /\ UNCHANGED <<running, services, threads, display>>

\* The session's thread is joined, then background_ready.
Background ==
  /\ at = "joining" /\ sync_worker # "running" /\ command = "background"
  /\ sync_worker' = "none"
  /\ command' = "none" /\ at' = "commands"
  /\ UNCHANGED <<running, services, serving, display>>

Shutdown ==
  /\ at = "joining" /\ sync_worker # "running" /\ command = "shutdown"
  /\ Exit
-----------------------------------------------------------------------------
(* rotate_server(): a new server with new credentials. *)

StopToRotate ==
  /\ at = "rotating" /\ serving = {}
  /\ server' = FALSE
  /\ at' = "opening"
  /\ UNCHANGED <<running, command, foreground, credentials, discovery, threads, display>>

StartServer ==
  /\ server' = TRUE /\ credentials' = TRUE
  /\ UNCHANGED <<running, foreground, threads>>

\* A discovery that does not start is said in the status.
Entered ==
  /\ at = "entering"
  /\ StartServer
  /\ Announce
  /\ command' = "none" /\ at' = "commands"
  /\ IF discovery' THEN Paint ELSE PaintNew

Rotated ==
  /\ at = "opening"
  /\ StartServer
  /\ at' = "poll"
  /\ Paint
  /\ UNCHANGED <<command, discovery>>

\* No random numbers, no address, no directory, the port is taken.
StartFails ==
  /\ at \in {"entering", "opening"}
  /\ Exit
-----------------------------------------------------------------------------
(* Touches and the rest of a pass. *)

NoTouch ==
  /\ at = "touch"
  /\ at' = "poll"
  /\ UNCHANGED <<running, command, services, threads, display>>

PressRefresh ==
  /\ at = "touch"
  /\ at' = "rotating"
  /\ UNCHANGED <<running, command, services, threads, display>>

\* toggle_sync_item, and activate_sync when all it does is to set a message
\* (a session is under way, no item, no peer, one that has to be confirmed).
PressOther ==
  /\ at = "touch"
  /\ at' = "poll"
  /\ Paint \/ PaintNew
  /\ UNCHANGED <<running, command, services, threads>>

PressSync ==
  /\ at = "touch" /\ sync_worker = "none" /\ PeersFound
  /\ sync_worker' = "running"
  /\ at' = "poll"
  /\ Paint
  /\ UNCHANGED <<running, command, services, serving>>

Reap == sync_worker' = IF sync_worker = "finished" THEN "none" ELSE sync_worker

\* Fault: last_snapshot is stored before the time of the last paint is looked at.
PollNoting ==
  /\ at = "poll"
  /\ at' = "commands"
  /\ Reap
  /\ noted' = "yes"
  /\ IF noted = "no" /\ ~recent
       THEN shown' = TRUE /\ recent' = TRUE
       ELSE UNCHANGED <<shown, recent>>
  /\ UNCHANGED <<running, command, services, serving>>

\* Peers that were found are another reason to paint.
Poll ==
  /\ at = "poll"
  /\ at' = "commands"
  /\ Reap
  /\ \/ /\ ~recent
        /\ noted' = "yes" /\ shown' = TRUE /\ recent' = TRUE
     \/ /\ noted # "no" \/ recent
        /\ UNCHANGED display
  /\ UNCHANGED <<running, command, services, serving>>

\* 250 ms after the paint.
Tick ==
  /\ recent
  /\ recent' = FALSE
  /\ UNCHANGED <<running, command, at, services, threads, noted, shown>>
-----------------------------------------------------------------------------
(* The other threads. *)

Listening == server /\ at \notin {"leaving", "rotating"}

\* A connection turns into an upload or a peer's session.
Serve(what) ==
  /\ Listening /\ what \notin serving
  /\ what = "session" => sync_worker # "running"
  /\ serving' = serving \cup {what}
  /\ StatusChanges
  /\ UNCHANGED <<running, command, at, services, sync_worker>>

Served(what) ==
  /\ what \in serving
  /\ serving' = serving \ {what}
  /\ StatusChanges
  /\ UNCHANGED <<running, command, at, services, sync_worker>>

WorkerEnds ==
  /\ sync_worker = "running"
  /\ sync_worker' = "finished"
  /\ StatusChanges
  /\ UNCHANGED <<running, command, at, services, serving>>

Progress ==
  /\ serving # {} \/ sync_worker = "running"
  /\ StatusChanges
  /\ UNCHANGED <<running, command, at, services, threads>>

\* The steps of the loop that start no server and end no process.
LoopStep ==
  \/ NoCommand \/ EnterAgain \/ Enter \/ Leave
  \/ StopToLeave \/ Background \/ StopToRotate
  \/ NoTouch \/ PressRefresh \/ PressOther \/ PressSync \/ Poll

Started == Entered \/ Rotated
Ended == Shutdown \/ StartFails
-----------------------------------------------------------------------------
(* Properties. *)

AppTypeOK ==
  /\ running \in BOOLEAN
  /\ command \in Command \cup {"none"}
  /\ at \in {"commands", "entering", "leaving", "joining", "rotating", "opening",
             "touch", "poll"}
  /\ foreground \in BOOLEAN /\ credentials \in BOOLEAN
  /\ discovery \in BOOLEAN /\ server \in BOOLEAN
  /\ serving \subseteq {"upload", "session"}
  /\ sync_worker \in {"none", "running", "finished"}
  /\ noted \in {"no", "yes", "returned"}
  /\ shown \in BOOLEAN /\ recent \in BOOLEAN

\* The launcher gets an answer to every command, or the process ends, though
\* leaving and replacing the server wait for every connection and session.
CommandsAnswered == command # "none" ~> command = "none"

\* A status the screen does not show is painted, unless another thread takes
\* it back to the one noted or the application leaves the foreground first.
StatusIsShown ==
  foreground /\ ~shown /\ noted # "returned" ~>
    shown \/ noted = "returned" \/ ~foreground
=============================================================================
