------------------------------- MODULE MCUi -------------------------------
(* One clip, an event buffer of one event, two changes or commands, one     *)
(* fetch of a window that opens before the daemon answers, and one stop of  *)
(* the daemon. Any page may be too large for a frame, and any kind of       *)
(* listener may be registered late.                                         *)
EXTENDS Ui

Clips == {1}

=============================================================================
