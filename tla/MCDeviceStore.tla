---------------------------- MODULE MCDeviceStore ----------------------------
(* Small instances of DeviceStore for TLC: contents of different sizes. *)
EXTENDS DeviceStore

TwoContents == {1, 2}
OwnSize == [c \in Content |-> 10 * c]
SameSize == [c \in Content |-> 10]
=============================================================================
