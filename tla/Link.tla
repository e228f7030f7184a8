-------------------------------- MODULE Link --------------------------------
(***************************************************************************)
(* One PeerLink between a dialler and an acceptor: messages split into     *)
(* Noise frames on a bidirectional QUIC stream, every blob in frames on a  *)
(* stream of its own, one nonce counter per direction for all of them, the *)
(* limit after which a session wants new keys, and the two ways to hang    *)
(* up.  The session above is a script: who says what, in order.            *)
(***************************************************************************)
EXTENDS Naturals, Sequences

CONSTANTS Scripts,    \* the conversations sessions may hold
          RekeyAfter, \* REKEY_AFTER_MESSAGES (and _BYTES), in frames
          MaxFrames   \* MAX_MESSAGE_BYTES, in frames

End == {"dialler", "acceptor"}
Other(e) == IF e = "dialler" THEN "acceptor" ELSE "dialler"
Item == [from : End, kind : {"message", "blob"}, frames : Nat]

(* run_session ends with the dialler's Ack.                                 *)
ASSUME LinkAssumption ==
    /\ RekeyAfter \in Nat /\ MaxFrames \in Nat
    /\ \A s \in Scripts :
          /\ s \in Seq(Item) /\ s # <<>>
          /\ s[Len(s)].from = "dialler" /\ s[Len(s)].kind = "message"
          /\ \A i \in DOMAIN s : s[i].kind = "message" => s[i].frames > 0

VARIABLES
    script,
    pos,     \* the item an end is at
    sealed,  \* nonce of the next frame an end seals
    opened,  \* nonce of the next frame it opens
    count,   \* messages_since_rekey, both directions
    outbox,  \* frames encoded and not written
    part,    \* frames of the item written (blob) or read
    bi,      \* frames an end wrote on the main stream
    uni,     \* blob streams an end opened
    open,    \* the connection
    status, why,
    broke,   \* the network lost the connection (history)
    late,    \* CLOSE_GRACE ran out (history)
    said, heard  \* the conversation (history)

vars == <<script, pos, sealed, opened, count, outbox, part, bi, uni, open, status, why,
          broke, late, said, heard>>

Init ==
    /\ script \in Scripts
    /\ pos = [e \in End |-> 1]
    /\ sealed = [e \in End |-> 0] /\ opened = [e \in End |-> 0] /\ count = [e \in End |-> 0]
    /\ outbox = [e \in End |-> <<>>] /\ part = [e \in End |-> 0]
    /\ bi = [e \in End |-> <<>>] /\ uni = [e \in End |-> <<>>]
    /\ open = TRUE
    /\ status = [e \in End |-> "run"] /\ why = [e \in End |-> "none"]
    /\ broke = FALSE /\ late = FALSE
    /\ said = 0 /\ heard = <<>>

----------------------------------------------------------------------------
(* External: QUIC.  A stream delivers in order, streams are accepted in the *)
(* order they were opened, and when an end closes what the other has not    *)
(* received of a stream is discarded; an end that is gone reads no more.    *)

Cuts(s) == {SubSeq(s, 1, n) : n \in 0..Len(s)}
Shorter(stream) ==
    {[stream EXCEPT !.frames = f, !.fin = FALSE] : f \in Cuts(stream.frames)} \cup {stream}
StreamCuts(s) ==
    UNION {{t \in [1..k -> UNION {Shorter(s[i]) : i \in 1..k}] :
                \A i \in 1..k : t[i] \in Shorter(s[i])} : k \in 0..Len(s)}

(* The connection closes; of what these ends wrote a part still arrives.    *)
CloseKeeping(ends) ==
    /\ open' = FALSE
    /\ \E b \in Cuts(bi["dialler"]), c \in Cuts(bi["acceptor"]),
          u \in StreamCuts(uni["dialler"]), v \in StreamCuts(uni["acceptor"]) :
          /\ bi' = [e \in End |-> IF e \notin ends THEN <<>> ELSE IF e = "dialler" THEN b ELSE c]
          /\ uni' = [e \in End |-> IF e \notin ends THEN <<>> ELSE IF e = "dialler" THEN u ELSE v]

Break ==
    /\ open
    /\ CloseKeeping(End)
    /\ broke' = TRUE
    /\ UNCHANGED <<script, pos, sealed, opened, count, outbox, part, status, why, late, said, heard>>

(* Connection::close, and the end of a PeerLink that is dropped.            *)
HangUp(e) == IF open THEN CloseKeeping({e}) ELSE UNCHANGED <<open, bi, uni>>

----------------------------------------------------------------------------
Running(e) == status[e] = "run" /\ pos[e] <= Len(script)
At(e) == script[pos[e]]
Speaks(e, kind) == Running(e) /\ At(e).from = e /\ At(e).kind = kind
Listens(e, kind) == Running(e) /\ At(e).from # e /\ At(e).kind = kind

(* A call returns an error: the session is over and drops its link.         *)
FailQuietly(e, reason) ==
    /\ status' = [status EXCEPT ![e] = "failed"]
    /\ why' = [why EXCEPT ![e] = reason]
    /\ UNCHANGED <<script, pos, sealed, opened, count, outbox, part, bi, uni, open, broke, late,
                   said, heard>>

Fail(e, reason) ==
    /\ status' = [status EXCEPT ![e] = "failed"]
    /\ why' = [why EXCEPT ![e] = reason]
    /\ HangUp(e)
    /\ UNCHANGED <<script, pos, sealed, opened, count, outbox, part, broke, late, said, heard>>

(* needs_rekey *)
NeedsRekey(e, n) == count[e] + n >= RekeyAfter

(* Session::write_message, n times.                                         *)
SealUncounted(e, n) ==
    /\ sealed' = [sealed EXCEPT ![e] = @ + n]
    /\ UNCHANGED count
Seal(e, n) ==
    /\ sealed' = [sealed EXCEPT ![e] = @ + n]
    /\ count' = [count EXCEPT ![e] = @ + n]
SealedPerStream(e, n) == [i \in 1..n |-> [nonce |-> i - 1, item |-> pos[e]]]
Sealed(e, n) == [i \in 1..n |-> [nonce |-> sealed[e] + i - 1, item |-> pos[e]]]

Began(e) == said' = IF pos[e] > said THEN pos[e] ELSE said

(* framing::encode: all frames of the message are sealed before the first   *)
(* is written.                                                              *)
Encode(e) ==
    /\ Speaks(e, "message")
    /\ outbox[e] = <<>>
    /\ LET n == At(e).frames IN
       \/ /\ n <= MaxFrames /\ ~NeedsRekey(e, n - 1)
          /\ outbox' = [outbox EXCEPT ![e] = Sealed(e, n)]
          /\ Seal(e, n)
          /\ UNCHANGED <<script, pos, opened, part, bi, uni, open, status, why, broke, late, said, heard>>
       \/ n > MaxFrames /\ Fail(e, "too_large")
       \/ n <= MaxFrames /\ NeedsRekey(e, n - 1) /\ Fail(e, "rekey")

(* PeerLink::send, frame by frame.                                          *)
WriteFrame(e) ==
    /\ Speaks(e, "message")
    /\ outbox[e] # <<>>
    /\ \/ /\ open
          /\ bi' = [bi EXCEPT ![e] = Append(@, Head(outbox[e]))]
          /\ outbox' = [outbox EXCEPT ![e] = Tail(@)]
          /\ pos' = [pos EXCEPT ![e] = IF Len(outbox[e]) = 1 THEN @ + 1 ELSE @]
          /\ Began(e)
          /\ UNCHANGED <<script, sealed, opened, count, part, uni, open, status, why, broke, late, heard>>
       \/ ~open /\ Fail(e, "closed")

(* PeerLink::send_blob: a stream of its own, each segment sealed when it is *)
(* written.                                                                 *)
OpenUni(e) ==
    /\ Speaks(e, "blob")
    /\ said < pos[e]
    /\ \/ /\ open
          /\ uni' = [uni EXCEPT ![e] = Append(@, [item |-> pos[e], frames |-> <<>>, fin |-> FALSE])]
          /\ Began(e)
          /\ UNCHANGED <<script, pos, sealed, opened, count, outbox, part, bi, open, status, why,
                         broke, late, heard>>
       \/ ~open /\ Fail(e, "closed")

WriteSegment(e) ==
    /\ Speaks(e, "blob")
    /\ said = pos[e] /\ part[e] < At(e).frames
    /\ \/ /\ open /\ ~NeedsRekey(e, 0)
          /\ uni' = [uni EXCEPT ![e][Len(uni[e])].frames = @ \o Sealed(e, 1)]
          /\ Seal(e, 1)
          /\ part' = [part EXCEPT ![e] = @ + 1]
          /\ UNCHANGED <<script, pos, opened, outbox, bi, open, status, why, broke, late, said, heard>>
       \/ NeedsRekey(e, 0) /\ Fail(e, "rekey")
       \/ ~open /\ ~NeedsRekey(e, 0) /\ Fail(e, "closed")

FinishUni(e) ==
    /\ Speaks(e, "blob")
    /\ said = pos[e] /\ part[e] = At(e).frames
    /\ \/ /\ open
          /\ uni' = [uni EXCEPT ![e][Len(uni[e])].fin = TRUE]
          /\ part' = [part EXCEPT ![e] = 0]
          /\ pos' = [pos EXCEPT ![e] = @ + 1]
          /\ UNCHANGED <<script, sealed, opened, count, outbox, bi, open, status, why, broke, late,
                         said, heard>>
       \/ ~open /\ Fail(e, "closed")

----------------------------------------------------------------------------
(* Session::read_message                                                    *)
Opens(e, frame) == frame.nonce = opened[e]
Opened(e) ==
    /\ opened' = [opened EXCEPT ![e] = @ + 1]
    /\ count' = [count EXCEPT ![e] = @ + 1]

Hears(e, item, frames, whole) ==
    /\ heard' = Append(heard, [item |-> item, frames |-> frames, whole |-> whole])
    /\ pos' = [pos EXCEPT ![e] = @ + 1]
    /\ part' = [part EXCEPT ![e] = 0]

(* PeerLink::recv and Decoder::accept: the length in front of the message   *)
(* says how many segments it has.                                           *)
ReadFrame(e) ==
    /\ Listens(e, "message")
    /\ LET from == bi[Other(e)] IN
       \/ /\ from # <<>> /\ ~NeedsRekey(e, 0) /\ Opens(e, Head(from))
          /\ bi' = [bi EXCEPT ![Other(e)] = Tail(@)]
          /\ Opened(e)
          /\ IF part[e] + 1 < script[Head(from).item].frames
             THEN part' = [part EXCEPT ![e] = @ + 1] /\ UNCHANGED <<pos, heard>>
             ELSE Hears(e, Head(from).item, part[e] + 1, TRUE)
          /\ UNCHANGED <<script, sealed, outbox, uni, open, status, why, broke, late, said>>
       \/ from # <<>> /\ NeedsRekey(e, 0) /\ Fail(e, "rekey")
       \/ from # <<>> /\ ~NeedsRekey(e, 0) /\ ~Opens(e, Head(from)) /\ Fail(e, "decrypt")
       \/ from = <<>> /\ ~open /\ Fail(e, "closed")

(* PeerLink::recv_blob, from the stream opened first.                       *)
ReadSegment(e) ==
    /\ Listens(e, "blob")
    /\ LET from == uni[Other(e)] IN
       \/ /\ from # <<>> /\ Head(from).frames # <<>>
          /\ LET frame == Head(Head(from).frames) IN
             \/ /\ ~NeedsRekey(e, 0) /\ Opens(e, frame)
                /\ uni' = [uni EXCEPT ![Other(e)][1].frames = Tail(@)]
                /\ Opened(e)
                /\ part' = [part EXCEPT ![e] = @ + 1]
                /\ UNCHANGED <<script, pos, sealed, outbox, bi, open, status, why, broke, late,
                               said, heard>>
             \/ NeedsRekey(e, 0) /\ Fail(e, "rekey")
             \/ ~NeedsRekey(e, 0) /\ ~Opens(e, frame) /\ Fail(e, "decrypt")
       \/ from = <<>> /\ ~open /\ Fail(e, "closed")

(* read_frame_from says Closed at the end of the stream and when the        *)
(* connection is gone alike; the digest of the blob tells which.            *)
DigestAny(e) == TRUE
Digest(e) == part[e] = At(e).frames

BlobEnds(e) ==
    /\ Listens(e, "blob")
    /\ LET from == uni[Other(e)] IN
       /\ from # <<>> /\ Head(from).frames = <<>>
       /\ Head(from).fin \/ ~open
       /\ Hears(e, Head(from).item, part[e], Digest(e))
    /\ uni' = [uni EXCEPT ![Other(e)] = Tail(@)]
    /\ UNCHANGED <<script, sealed, opened, count, outbox, bi, open, status, why, broke, late, said>>

----------------------------------------------------------------------------
Over(e) == status[e] = "run" /\ pos[e] > Len(script)

(* PeerLink::close, for the end whose last act was a read.                  *)
Close(e) ==
    /\ HangUp(e)
    /\ status' = [status EXCEPT ![e] = "done"]

(* PeerLink::close_gracefully: wait for the other end to hang up.           *)
CloseGracefully(e) ==
    /\ status' = [status EXCEPT ![e] = "grace"]
    /\ UNCHANGED <<open, bi, uni>>

(* The dialler ends on a send, the acceptor on a read.                      *)
Ends(e) ==
    /\ Over(e)
    /\ IF e = "dialler" THEN CloseGracefully(e) ELSE Close(e)
    /\ UNCHANGED <<script, pos, sealed, opened, count, outbox, part, why, broke, late, said, heard>>

GraceEnds(e) ==
    /\ status[e] = "grace"
    /\ late' = (late \/ open)
    /\ Close(e)
    /\ UNCHANGED <<script, pos, sealed, opened, count, outbox, part, why, broke, said, heard>>

----------------------------------------------------------------------------
Step(e) ==
    \/ Encode(e) \/ WriteFrame(e) \/ OpenUni(e) \/ WriteSegment(e) \/ FinishUni(e)
    \/ ReadFrame(e) \/ ReadSegment(e) \/ BlobEnds(e)
    \/ Ends(e) \/ GraceEnds(e)

Next == Break \/ \E e \in End : Step(e)

Spec == Init /\ [][Next]_vars

(* The task that drives a link is polled, and QUIC delivers.                *)
FairSpec == Spec /\ \A e \in End : WF_vars(Step(e))

----------------------------------------------------------------------------
Frame == [nonce : Nat, item : Nat]

TypeOK ==
    /\ script \in Scripts
    /\ pos \in [End -> 1..(Len(script) + 1)]
    /\ sealed \in [End -> Nat] /\ opened \in [End -> Nat]
    /\ count \in [End -> 0..RekeyAfter] /\ part \in [End -> Nat]
    /\ \A e \in End :
          /\ outbox[e] \in Seq(Frame) /\ bi[e] \in Seq(Frame)
          /\ uni[e] \in Seq([item : Nat, frames : Seq(Frame), fin : BOOLEAN])
    /\ open \in BOOLEAN /\ broke \in BOOLEAN /\ late \in BOOLEAN
    /\ status \in [End -> {"run", "grace", "done", "failed"}]
    /\ why \in [End -> {"none", "closed", "rekey", "decrypt", "too_large"}]
    /\ said \in 0..Len(script) /\ heard \in Seq([item : Nat, frames : Nat, whole : BOOLEAN])

(* Every frame is opened with the nonce it was sealed with, although        *)
(* messages and blobs travel on streams that QUIC does not order among each *)
(* other and share one counter.  Only what is left of a connection that was *)
(* lost in the middle of a blob cannot be decrypted.                        *)
NoncesAgree ==
    \A e \in End : why[e] = "decrypt" => ~open /\ \E i \in DOMAIN heard : ~heard[i].whole

(* Both ends count the frames of both directions, and the listener is never *)
(* ahead: only an end that is about to speak finds the keys used up, so no  *)
(* frame that was sent is refused for it.                                   *)
LimitMeetsTheSpeaker ==
    \A e \in End : why[e] = "rekey" => At(e).from = e

(* The last word is heard: the acceptor fails only if the network broke, if *)
(* the dialler failed, or if it was not read before the dialler's patience  *)
(* ran out (close_gracefully: "the peer reports a session that in fact      *)
(* moved every clip as a failure").                                         *)
LastWordHeard ==
    status["acceptor"] = "failed" =>
        broke \/ late \/ status["dialler"] = "failed" \/ why["acceptor"] \in {"rekey", "too_large"}

(* The link is the channel a session expects: one conversation, in order,   *)
(* nothing heard that was not said, nothing torn that is taken for whole.   *)
Conversation == INSTANCE Channel WITH lost <- ~open
ImplementsChannel == Conversation!Spec

(* Both ends come to an end, whatever breaks.                               *)
BothEnd == <>(\A e \in End : status[e] \in {"done", "failed"})

=============================================================================
