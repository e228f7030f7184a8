-------------------------------- MODULE MCHlc --------------------------------
(* Small instances of HlcClock for TLC. *)
EXTENDS HlcClock

\* Remote timestamps behind, level with and ahead of every reading, near
\* enough and not, with counters at both ends of their range.
MCRemote == [wall : {0, 1, 2, 3}, counter : {0, MaxCounter}, device : Device \ {Self}]
==============================================================================
