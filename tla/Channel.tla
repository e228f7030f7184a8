------------------------------ MODULE Channel ------------------------------
(***************************************************************************)
(* What a link between two devices promises a session: a conversation in   *)
(* which one end speaks at a time, and what is said is heard once, in      *)
(* order, as it was said, until the connection is lost.  Of a blob that is *)
(* cut short by the loss the listener knows that it was.                   *)
(***************************************************************************)
EXTENDS Naturals, Sequences

VARIABLES script,  \* who says what, in order (a session fixes it)
          said,    \* items said, or begun
          heard,   \* what was heard, item by item
          lost     \* the connection is gone

vars == <<script, said, heard, lost>>

Init == said = 0 /\ heard = <<>> /\ lost = FALSE

(* The other end only begins to speak when it has heard everything.         *)
Say ==
    /\ ~lost
    /\ said < Len(script)
    /\ said > 0 /\ script[said + 1].from # script[said].from => Len(heard) = said
    /\ said' = said + 1
    /\ UNCHANGED <<script, heard, lost>>

Heard(i, frames, whole) == [item |-> i, frames |-> frames, whole |-> whole]

Hear ==
    /\ Len(heard) < said
    /\ LET i == Len(heard) + 1 IN heard' = Append(heard, Heard(i, script[i].frames, TRUE))
    /\ UNCHANGED <<script, said, lost>>

HearTorn ==
    /\ lost
    /\ Len(heard) < said
    /\ LET i == Len(heard) + 1 IN
       /\ script[i].kind = "blob"
       /\ \E n \in 0..(script[i].frames - 1) : heard' = Append(heard, Heard(i, n, FALSE))
    /\ UNCHANGED <<script, said, lost>>

Lose == ~lost /\ lost' = TRUE /\ UNCHANGED <<script, said, heard>>

Next == Say \/ Hear \/ HearTorn \/ Lose

Spec == Init /\ [][Next]_vars

=============================================================================
