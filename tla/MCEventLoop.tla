---------------------------- MODULE MCEventLoop ----------------------------
(* Small instances of EventLoop for TLC. *)
EXTENDS EventLoop, TLC

CONSTANTS f1, f2, h1

TwoFds == {f1, f2}
OneHandler == {h1}
AllEvents == {"file", "time"}
MainFlags == {AllEvents}
=============================================================================
