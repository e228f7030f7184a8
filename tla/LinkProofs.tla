---------------------------- MODULE LinkProofs ----------------------------
(***************************************************************************)
(* Theorems about Link, for every conversation: any number of messages and *)
(* blobs of any number of frames, any limit on the keys and any break.     *)
(***************************************************************************)
EXTENDS Link, NaturalsInduction, WellFoundedInduction, TLAPS

----------------------------------------------------------------------------
(* The invariant.                                                           *)

Stream == [item : Nat, frames : Seq(Frame), fin : BOOLEAN]
Word == [item : Nat, frames : Nat, whole : BOOLEAN]

Types ==
    /\ script \in Scripts
    /\ pos \in [End -> 1..(Len(script) + 1)]
    /\ sealed \in [End -> Nat] /\ opened \in [End -> Nat] /\ count \in [End -> Nat]
    /\ part \in [End -> Nat]
    /\ outbox \in [End -> Seq(Frame)] /\ bi \in [End -> Seq(Frame)] /\ uni \in [End -> Seq(Stream)]
    /\ open \in BOOLEAN /\ broke \in BOOLEAN /\ late \in BOOLEAN
    /\ status \in [End -> {"run", "grace", "done", "failed"}]
    /\ why \in [End -> {"none", "closed", "rekey", "decrypt", "too_large"}]
    /\ said \in 0..Len(script) /\ heard \in Seq(Word)

(* b[e][i] is the number of frames end e has in the items before i.          *)
IsTally(b, s) ==
    /\ b \in [End -> [Nat -> Nat]]
    /\ \A e \in End : b[e][1] = 0
    /\ \A e \in End : \A i \in 1..Len(s) :
          b[e][i + 1] = b[e][i] + (IF s[i].from = e THEN s[i].frames ELSE 0)

(* Where an end is in the conversation.                                     *)
Own(e) == pos[e] <= Len(script) /\ At(e).from = e
Reads(e) == pos[e] <= Len(script) /\ At(e).from # e
From(i, s, kind) == script[i].from = s /\ script[i].kind = kind

(* The nonce of the next frame to write, and of the next frame an end would  *)
(* open if nothing were lost.                                               *)
Sent(e) == sealed[e] - Len(outbox[e])
Expect(b, e) == b[Other(e)][pos[e]] + (IF Reads(e) THEN part[e] ELSE 0)

AllWhole == \A i \in DOMAIN heard : heard[i].whole

(* What has been heard, and said, is the conversation up to some item; an    *)
(* end cannot be past an item that is not said while the connection lasts.   *)
Places ==
    /\ \A i \in 1..Len(script) : i <= Len(heard) <=> pos[Other(script[i].from)] > i
    /\ Len(heard) <= said
    /\ \A i \in 1..Len(script) : pos[script[i].from] > i => i <= said
    /\ \A i \in 1..Len(script) : i <= said => pos[script[i].from] >= i
    /\ open => \A i \in 1..Len(script) :
                  pos[Other(script[i].from)] > i => pos[script[i].from] > i
    /\ open => AllWhole

(* How far an end is in its item, and the nonces that fit.                   *)
PartFits(e) ==
    /\ Own(e) /\ At(e).kind = "message" => part[e] = 0
    /\ pos[e] > Len(script) => part[e] = 0
    /\ Own(e) /\ At(e).kind = "blob" => part[e] <= At(e).frames /\ (said < pos[e] => part[e] = 0)
    /\ Reads(e) => part[e] <= At(e).frames
    /\ Reads(e) /\ At(e).kind = "message" => part[e] < At(e).frames

OutboxFits(b, e) ==
    /\ outbox[e] # <<>> =>
          /\ Own(e) /\ At(e).kind = "message" /\ Len(outbox[e]) <= At(e).frames
          /\ sealed[e] = b[e][pos[e]] + At(e).frames
          /\ open => sealed[e] - 1 + b[Other(e)][pos[e]] < RekeyAfter
    /\ outbox[e] = <<>> =>
          sealed[e] = b[e][pos[e]] + (IF Own(e) /\ At(e).kind = "blob" THEN part[e] ELSE 0)
    /\ \A k \in DOMAIN outbox[e] :
          outbox[e][k].nonce = Sent(e) + k - 1 /\ outbox[e][k].item = pos[e]

Sealing(b) == \A e \in End : PartFits(e) /\ OutboxFits(b, e)

(* A frame that an end has opened is the next of those that were sealed; of  *)
(* a torn blob the rest stays missing.                                       *)
OpenedFits(b, e) ==
    /\ opened[e] <= Expect(b, e)
    /\ AllWhole => opened[e] = Expect(b, e)
    /\ count[e] = sealed[e] + opened[e]
    /\ open => Expect(b, Other(e)) <= Sent(e)

Opening(b) == \A e \in End : OpenedFits(b, e)

(* The main stream from s: the frames of its messages from where the other    *)
(* end is, in order and without a gap.                                       *)
FrameFits(b, s, f) ==
    /\ f.item \in pos[Other(s)]..Len(script) /\ f.item <= pos[s] /\ f.item <= said
    /\ From(f.item, s, "message")
    /\ b[s][f.item] <= f.nonce /\ f.nonce < b[s][f.item + 1]
    /\ Expect(b, Other(s)) <= f.nonce /\ f.nonce < Sent(s)
    /\ f.nonce + b[Other(s)][f.item] < RekeyAfter

Due(b, s, n) ==
    /\ Expect(b, Other(s)) <= n
    /\ \E i \in 1..Len(script) : From(i, s, "message") /\ b[s][i] <= n /\ n < b[s][i + 1]

FramesFit(b, s) == \A k \in DOMAIN bi[s] : FrameFits(b, s, bi[s][k])
FramesInOrder(s) == \A j, k \in DOMAIN bi[s] : j < k => bi[s][j].nonce < bi[s][k].nonce
HasFrame(s, n) == \E j \in DOMAIN bi[s] : bi[s][j].nonce = n
NoFrameMissing(b, s) ==
    \A k \in DOMAIN bi[s] : \A n \in Nat : Due(b, s, n) /\ n < bi[s][k].nonce => HasFrame(s, n)
AllFramesThere(b, s) == \A n \in Nat : Due(b, s, n) /\ n < Sent(s) => HasFrame(s, n)

Written(b) ==
    \A s \in End : /\ FramesFit(b, s) /\ FramesInOrder(s) /\ NoFrameMissing(b, s)
                   /\ open => AllFramesThere(b, s)

(* The blob streams from s: one for each blob, in order and without a gap.    *)
Done(e, i) == IF pos[e] = i THEN part[e] ELSE 0

StreamFits(b, s, t) ==
    /\ t.item \in pos[Other(s)]..Len(script) /\ t.item <= pos[s] /\ t.item <= said
    /\ From(t.item, s, "blob")
    /\ Done(Other(s), t.item) + Len(t.frames) <= script[t.item].frames
    /\ t.item = pos[s] => Done(Other(s), t.item) + Len(t.frames) <= part[s]
    /\ t.fin => t.item < pos[s] /\ Done(Other(s), t.item) + Len(t.frames) = script[t.item].frames
    /\ \A k \in DOMAIN t.frames :
          /\ t.frames[k].nonce = b[s][t.item] + Done(Other(s), t.item) + k - 1
          /\ t.frames[k].nonce + b[Other(s)][t.item] < RekeyAfter

StreamsFit(b, s) == \A k \in DOMAIN uni[s] : StreamFits(b, s, uni[s][k])
StreamsInOrder(s) == \A j, k \in DOMAIN uni[s] : j < k => uni[s][j].item < uni[s][k].item
HasStream(s, i) == \E j \in DOMAIN uni[s] : uni[s][j].item = i
NoStreamMissing(s) ==
    \A k \in DOMAIN uni[s] : \A i \in pos[Other(s)]..Len(script) :
        From(i, s, "blob") /\ i < uni[s][k].item => HasStream(s, i)
AllStreamsThere(s) ==
    \A i \in pos[Other(s)]..Len(script) : From(i, s, "blob") /\ i < pos[s] => HasStream(s, i)
LastIsOpen(s) ==
    Own(s) /\ At(s).kind = "blob" /\ said >= pos[s] =>
        /\ uni[s] # <<>>
        /\ LET t == uni[s][Len(uni[s])] IN
           /\ t.item = pos[s] /\ ~t.fin
           /\ Done(Other(s), t.item) + Len(t.frames) = part[s]

Streams(b) ==
    \A s \in End : /\ StreamsFit(b, s) /\ StreamsInOrder(s) /\ NoStreamMissing(s)
                   /\ open => AllStreamsThere(s) /\ LastIsOpen(s)

LinkInv(b) == Types /\ Places /\ Sealing(b) /\ Opening(b) /\ Written(b) /\ Streams(b)

(* Who closed the connection, and how an end failed.                         *)
Endings ==
    /\ \A e \in End : why[e] # "none" => status[e] = "failed"
    /\ ~open => \/ broke \/ late \/ status["dialler"] = "failed"
                \/ status["acceptor"] \in {"done", "failed"}
    /\ status["acceptor"] # "grace"
    /\ NoncesAgree /\ LimitMeetsTheSpeaker /\ LastWordHeard

----------------------------------------------------------------------------
(* Counting frames.                                                         *)

LEMMA Least ==
    ASSUME NEW T, T \subseteq Nat, T # {}
    PROVE  \E x \in T : \A y \in T : x <= y
<1>1. PICK x \in T : \A y \in T : ~(<<y, x>> \in OpToRel(<, Nat))
  BY NatLessThanWellFounded, WFMin, Zenon
<1>2. \A y \in T : ~(y < x)  BY <1>1, Zenon DEF OpToRel
<1>3. \A y \in T : x <= y  BY <1>2
<1> QED  BY <1>3

Share(s, e, i) == IF s[i].from = e THEN s[i].frames ELSE 0
Counts(f, s, e, n) ==
    f \in [Nat -> Nat] /\ f[1] = 0 /\ \A i \in 1..n : f[i + 1] = f[i] + Share(s, e, i)

LEMMA ScriptType ==
    ASSUME NEW s \in Scripts
    PROVE  /\ s \in Seq(Item) /\ Len(s) \in Nat /\ Len(s) > 0
           /\ \A i \in 1..Len(s) : s[i] \in Item /\ (s[i].kind = "message" => s[i].frames > 0)
           /\ s[Len(s)].from = "dialler" /\ s[Len(s)].kind = "message"
<1>1. s \in Seq(Item) /\ s # <<>>  BY LinkAssumption
<1>2. Len(s) \in Nat /\ Len(s) > 0 /\ DOMAIN s = 1..Len(s) /\ \A i \in 1..Len(s) : s[i] \in Item
  BY <1>1
<1>3. \A i \in DOMAIN s : s[i].kind = "message" => s[i].frames > 0  BY LinkAssumption
<1>4. s[Len(s)].from = "dialler" /\ s[Len(s)].kind = "message"  BY LinkAssumption
<1> QED  BY <1>1, <1>2, <1>3, <1>4

LEMMA ShareType ==
    ASSUME NEW s \in Scripts, NEW e, NEW i \in 1..Len(s)
    PROVE  Share(s, e, i) \in Nat
BY ScriptType DEF Share, Item

LEMMA CountsExist ==
    ASSUME NEW s \in Scripts, NEW e
    PROVE  \E f : Counts(f, s, e, Len(s))
<1> DEFINE T == {n \in 0..Len(s) : ~\E f : Counts(f, s, e, n)}
<1>1. Len(s) \in Nat /\ T \subseteq Nat  BY ScriptType
<1>2. SUFFICES ASSUME T # {} PROVE FALSE  BY <1>1
<1>3. PICK n \in T : \A m \in T : n <= m  BY <1>1, <1>2, Least
<1>4. n \in Nat /\ n <= Len(s) /\ ~\E f : Counts(f, s, e, n)  BY <1>1
<1>5. CASE n = 0
  <2>1. Counts([i \in Nat |-> 0], s, e, 0)  BY DEF Counts
  <2> QED  BY <1>4, <1>5, <2>1
<1>6. CASE n # 0
  <2>1. n - 1 \in 0..Len(s) /\ n - 1 \notin T  BY <1>1, <1>3, <1>4, <1>6
  <2>2. PICK f : Counts(f, s, e, n - 1)  BY <2>1
  <2> DEFINE g == [f EXCEPT ![n + 1] = f[n] + Share(s, e, n)]
  <2>3. Share(s, e, n) \in Nat  BY <1>1, <1>4, <1>6, ShareType
  <2>4. g \in [Nat -> Nat] /\ g[1] = 0  BY SMTT(30), <1>4, <1>6, <2>2, <2>3 DEF Counts
  <2>5. ASSUME NEW i \in 1..n PROVE g[i + 1] = g[i] + Share(s, e, i)
    <3>1. CASE i = n  BY <1>4, <1>6, <2>2, <2>3, <3>1 DEF Counts
    <3>2. CASE i # n
      <4>1. i \in 1..(n - 1) /\ i # n + 1 /\ i + 1 # n + 1  BY <1>4, <3>2
      <4> QED  BY <2>2, <4>1 DEF Counts
    <3> QED  BY <3>1, <3>2
  <2>6. Counts(g, s, e, n)  BY <2>4, <2>5 DEF Counts
  <2> QED  BY <1>4, <2>6
<1> QED  BY <1>5, <1>6

LEMMA TallyExists ==
    ASSUME NEW s \in Scripts
    PROVE  \E b : IsTally(b, s)
<1> DEFINE b == [e \in End |-> CHOOSE f : Counts(f, s, e, Len(s))]
<1>1. \A e \in End : Counts(b[e], s, e, Len(s))  BY CountsExist
<1>2. IsTally(b, s)  BY <1>1 DEF Counts, IsTally, Share
<1> QED  BY <1>2

LEMMA TallyCounts ==
    ASSUME NEW s, NEW b, IsTally(b, s), NEW e \in End
    PROVE  /\ \A i \in Nat : b[e][i] \in Nat
           /\ b[e][1] = 0
           /\ \A i \in 1..Len(s) : b[e][i + 1] = b[e][i] + Share(s, e, i)
<1>1. b \in [End -> [Nat -> Nat]]  BY DEF IsTally
<1>2. b[e] \in [Nat -> Nat]  BY <1>1
<1>3. \A i \in Nat : b[e][i] \in Nat  BY <1>2
<1>4. b[e][1] = 0 /\ \A i \in 1..Len(s) : b[e][i + 1] = b[e][i] + Share(s, e, i)
  BY DEF IsTally, Share
<1> QED  BY <1>3, <1>4

LEMMA TallyGrows ==
    ASSUME NEW s \in Scripts, NEW b, IsTally(b, s), NEW e \in End,
           NEW i \in 1..(Len(s) + 1), NEW j \in 1..(Len(s) + 1), i <= j
    PROVE  b[e][i] <= b[e][j]
<1> DEFINE f == b[e]
<1>1. Len(s) \in Nat  BY ScriptType
<1>2. \A k \in Nat : f[k] \in Nat  BY TallyCounts
<1>3. \A k \in 1..Len(s) : f[k + 1] = f[k] + Share(s, e, k) /\ Share(s, e, k) \in Nat
  BY TallyCounts, ShareType
<1> HIDE DEF f
<1> DEFINE T == {n \in i..(Len(s) + 1) : ~(f[i] <= f[n])}
<1>4. SUFFICES ASSUME T # {} PROVE FALSE
  <2>1. j \in i..(Len(s) + 1) /\ j \notin T  BY <1>1, <1>4
  <2> QED  BY <2>1 DEF f
<1>5. T \subseteq Nat  BY <1>1
<1>6. PICK n \in T : \A m \in T : n <= m  BY <1>4, <1>5, Least
<1>7. n \in i..(Len(s) + 1) /\ ~(f[i] <= f[n])  BY <1>1
<1>8. n # i  BY <1>1, <1>2, <1>7
<1>9. n - 1 \in i..(Len(s) + 1) /\ n - 1 \notin T /\ n - 1 \in 1..Len(s)
  BY <1>1, <1>6, <1>7, <1>8
<1>10. f[i] <= f[n - 1]  BY <1>9
<1>11. f[n] = f[n - 1] + Share(s, e, n - 1) /\ Share(s, e, n - 1) \in Nat
  <2>1. (n - 1) + 1 = n  BY <1>1, <1>7
  <2> QED  BY <1>3, <1>9, <2>1
<1>12. f[i] \in Nat /\ f[n - 1] \in Nat /\ f[n] \in Nat  BY <1>1, <1>2, <1>7, <1>9
<1> QED  BY <1>7, <1>10, <1>11, <1>12

(* What every step may assume of the script and the tally.                  *)
Ground(b) ==
    /\ Len(script) \in Nat /\ Len(script) > 0
    /\ \A i \in 1..Len(script) :
          /\ script[i].from \in End /\ script[i].kind \in {"message", "blob"}
          /\ script[i].frames \in Nat
          /\ script[i].kind = "message" => script[i].frames > 0
    /\ \A e \in End : \A i \in 1..(Len(script) + 1) : b[e][i] \in Nat
    /\ \A e \in End : \A i \in 1..Len(script) :
          /\ script[i].from = e => b[e][i + 1] = b[e][i] + script[i].frames
          /\ script[i].from # e => b[e][i + 1] = b[e][i]
    /\ \A e \in End : \A i, j \in 1..(Len(script) + 1) : i <= j => b[e][i] <= b[e][j]

LEMMA Others ==
    /\ \A e \in End : Other(e) \in End /\ Other(e) # e /\ Other(Other(e)) = e
    /\ \A d, e \in End : d # e => d = Other(e)
BY DEF End, Other

LEMMA Grounded ==
    ASSUME NEW b, Types, IsTally(b, script)
    PROVE  Ground(b)
<1>1. script \in Scripts  BY DEF Types
<1>2. Len(script) \in Nat /\ Len(script) > 0  BY <1>1, ScriptType
<1>3. \A i \in 1..Len(script) :
        /\ script[i].from \in End /\ script[i].kind \in {"message", "blob"}
        /\ script[i].frames \in Nat
        /\ script[i].kind = "message" => script[i].frames > 0
  BY <1>1, ScriptType DEF Item
<1>4. \A e \in End : \A i \in 1..(Len(script) + 1) : b[e][i] \in Nat
  BY <1>2, TallyCounts
<1>5. \A e \in End : \A i \in 1..Len(script) :
          /\ script[i].from = e => b[e][i + 1] = b[e][i] + script[i].frames
          /\ script[i].from # e => b[e][i + 1] = b[e][i]
  <2> SUFFICES ASSUME NEW e \in End, NEW i \in 1..Len(script)
               PROVE  /\ script[i].from = e => b[e][i + 1] = b[e][i] + script[i].frames
                      /\ script[i].from # e => b[e][i + 1] = b[e][i]
    OBVIOUS
  <2>1. b[e][i + 1] = b[e][i] + Share(script, e, i)  BY TallyCounts
  <2>2. b[e][i] \in Nat  BY <1>2, <1>4
  <2> QED  BY <2>1, <2>2 DEF Share
<1>6. \A e \in End : \A i, j \in 1..(Len(script) + 1) : i <= j => b[e][i] <= b[e][j]
  BY <1>1, TallyGrows
<1> QED  BY <1>2, <1>3, <1>4, <1>5, <1>6 DEF Ground

----------------------------------------------------------------------------
(* The connection closes.                                                   *)

LEMMA FramesCut ==
    ASSUME Types, NEW ends, CloseKeeping(ends), NEW s \in End
    PROVE  \E n \in 0..Len(bi[s]) : bi'[s] = SubSeq(bi[s], 1, n)
<1>1. PICK x \in Cuts(bi["dialler"]), y \in Cuts(bi["acceptor"]) :
        bi' = [e \in End |-> IF e \notin ends THEN <<>> ELSE IF e = "dialler" THEN x ELSE y]
  BY DEF CloseKeeping
<1>2. bi[s] \in Seq(Frame)  BY DEF Types
<1>3. bi'[s] = <<>> \/ bi'[s] \in Cuts(bi[s])  BY <1>1 DEF End
<1>4. <<>> = SubSeq(bi[s], 1, 0) /\ 0 \in 0..Len(bi[s])  BY <1>2
<1> QED  BY <1>3, <1>4 DEF Cuts

LEMMA StreamsCut ==
    ASSUME Types, NEW ends, CloseKeeping(ends), NEW s \in End
    PROVE  \E n \in 0..Len(uni[s]) :
              /\ uni'[s] \in [1..n -> UNION {Shorter(uni[s][i]) : i \in 1..n}]
              /\ \A i \in 1..n : uni'[s][i] \in Shorter(uni[s][i])
<1>1. PICK x \in StreamCuts(uni["dialler"]), y \in StreamCuts(uni["acceptor"]) :
        uni' = [e \in End |-> IF e \notin ends THEN <<>> ELSE IF e = "dialler" THEN x ELSE y]
  BY DEF CloseKeeping
<1>2. uni[s] \in Seq(Stream)  BY DEF Types
<1>3. CASE uni'[s] = <<>>
  <2>1. uni'[s] \in [1..0 -> UNION {Shorter(uni[s][i]) : i \in 1..0}]  BY <1>3
  <2>2. 0 \in 0..Len(uni[s])  BY <1>2
  <2> QED  BY <2>1, <2>2
<1>4. CASE uni'[s] \in StreamCuts(uni[s])
  <2>1. PICK n \in 0..Len(uni[s]) :
          uni'[s] \in {t \in [1..n -> UNION {Shorter(uni[s][i]) : i \in 1..n}] :
                          \A i \in 1..n : t[i] \in Shorter(uni[s][i])}
    BY <1>4 DEF StreamCuts
  <2> QED  BY <2>1
<1> QED  BY <1>1, <1>3, <1>4 DEF End

LEMMA ShorterStream ==
    ASSUME NEW t \in Stream, NEW u \in Shorter(t)
    PROVE  /\ u \in Stream /\ u.item = t.item
           /\ Len(u.frames) <= Len(t.frames)
           /\ u.fin => t.fin /\ Len(u.frames) = Len(t.frames)
           /\ DOMAIN u.frames \subseteq DOMAIN t.frames
           /\ \A k \in DOMAIN u.frames : u.frames[k] = t.frames[k]
<1>1. t.frames \in Seq(Frame)  BY DEF Stream
<1>2. CASE u = t  BY <1>1, <1>2
<1>3. ASSUME NEW n \in 0..Len(t.frames),
             u = [t EXCEPT !.frames = SubSeq(t.frames, 1, n), !.fin = FALSE]
      PROVE  /\ u \in Stream /\ u.item = t.item
             /\ Len(u.frames) <= Len(t.frames)
             /\ u.fin => t.fin /\ Len(u.frames) = Len(t.frames)
             /\ DOMAIN u.frames \subseteq DOMAIN t.frames
             /\ \A k \in DOMAIN u.frames : u.frames[k] = t.frames[k]
  <2> DEFINE f == SubSeq(t.frames, 1, n)
  <2>1. f \in Seq(Frame) /\ Len(f) = n /\ \A k \in 1..n : f[k] = t.frames[k]  BY <1>1
  <2>2. u.frames = f /\ u.fin = FALSE /\ u.item = t.item  BY <1>3 DEF Stream
  <2>3. u \in Stream  BY <1>3, <2>1 DEF Stream
  <2> QED  BY <1>1, <2>1, <2>2, <2>3
<1> QED  BY <1>2, <1>3 DEF Shorter, Cuts

(* Breaking, failing and hanging up: the conversation stays where it is.     *)
Flags ==
    /\ broke' \in BOOLEAN /\ late' \in BOOLEAN
    /\ status' \in [End -> {"run", "grace", "done", "failed"}]
    /\ why' \in [End -> {"none", "closed", "rekey", "decrypt", "too_large"}]

Closes ==
    /\ UNCHANGED <<script, pos, sealed, opened, count, outbox, part, said, heard>>
    /\ UNCHANGED <<open, bi, uni>> \/ \E ends \in SUBSET End : CloseKeeping(ends)
    /\ Flags

LEMMA ClosesTypes ==
    ASSUME Types, Closes
    PROVE  Types'
<1>1. CASE UNCHANGED <<open, bi, uni>>  BY <1>1 DEF Types, Closes, Flags
<1>2. ASSUME NEW ends, CloseKeeping(ends)  PROVE Types'
  <2>1. bi' \in [End -> Seq(Frame)]
    <3>1. \A s \in End : bi'[s] \in Seq(Frame)
      <4> SUFFICES ASSUME NEW s \in End PROVE bi'[s] \in Seq(Frame)  OBVIOUS
      <4>1. PICK n \in 0..Len(bi[s]) : bi'[s] = SubSeq(bi[s], 1, n)  BY <1>2, FramesCut
      <4>2. bi[s] \in Seq(Frame)  BY DEF Types
      <4> QED  BY <4>1, <4>2
    <3>2. bi' = [e \in End |-> bi'[e]]  BY <1>2 DEF CloseKeeping
    <3> QED  BY <3>1, <3>2
  <2>2. uni' \in [End -> Seq(Stream)]
    <3>1. \A s \in End : uni'[s] \in Seq(Stream)
      <4> SUFFICES ASSUME NEW s \in End PROVE uni'[s] \in Seq(Stream)  OBVIOUS
      <4>1. PICK n \in 0..Len(uni[s]) :
              /\ uni'[s] \in [1..n -> UNION {Shorter(uni[s][i]) : i \in 1..n}]
              /\ \A i \in 1..n : uni'[s][i] \in Shorter(uni[s][i])
        BY <1>2, StreamsCut
      <4>2. uni[s] \in Seq(Stream)  BY DEF Types
      <4>3. n \in Nat /\ \A i \in 1..n : uni[s][i] \in Stream  BY <4>2
      <4>4. \A i \in 1..n : uni'[s][i] \in Stream  BY <4>1, <4>3, ShorterStream
      <4>5. uni'[s] \in [1..n -> Stream]  BY <4>1, <4>4
      <4> QED  BY <4>3, <4>5
    <3>2. uni' = [e \in End |-> uni'[e]]  BY <1>2 DEF CloseKeeping
    <3> QED  BY <3>1, <3>2
  <2>3. open' = FALSE  BY <1>2 DEF CloseKeeping
  <2> QED  BY <2>1, <2>2, <2>3 DEF Types, Closes, Flags
<1> QED  BY <1>1, <1>2 DEF Closes

LEMMA ClosesWritten ==
    ASSUME NEW b, Types, Written(b), NEW ends, CloseKeeping(ends),
           UNCHANGED <<script, pos, sealed, opened, count, outbox, part, said, heard>>
    PROVE  Written(b)'
<1>1. ASSUME NEW s \in End
      PROVE  FramesFit(b, s)' /\ FramesInOrder(s)' /\ NoFrameMissing(b, s)'
  <2>1. PICK m \in 0..Len(bi[s]) : bi'[s] = SubSeq(bi[s], 1, m)  BY <1>1, FramesCut
  <2>2. bi[s] \in Seq(Frame)  BY <1>1 DEF Types
  <2>3. DOMAIN bi[s] = 1..Len(bi[s]) /\ DOMAIN bi'[s] = 1..m /\ m \in Nat /\ m <= Len(bi[s])
    BY <2>1, <2>2
  <2>4. \A k \in 1..m : bi'[s][k] = bi[s][k]  BY <2>1, <2>2
  <2>5. \A k \in 1..Len(bi[s]) : bi[s][k].nonce \in Nat
    <3>1. \A k \in 1..Len(bi[s]) : bi[s][k] \in Frame  BY <2>2
    <3> QED  BY <3>1 DEF Frame
  <2>6. FramesFit(b, s) /\ FramesInOrder(s) /\ NoFrameMissing(b, s)  BY <1>1 DEF Written
  <2>7. FramesFit(b, s)'
    BY SMTT(30), <2>3, <2>4, <2>6 DEF FramesFit, FrameFits, Expect, Reads, At, Sent, From
  <2>8. FramesInOrder(s)'  BY <2>3, <2>4, <2>6 DEF FramesInOrder
  <2>9. NoFrameMissing(b, s)'
    <3> SUFFICES ASSUME NEW k \in 1..m, NEW n \in Nat, Due(b, s, n), n < bi[s][k].nonce
                 PROVE  HasFrame(s, n)'
      BY <2>3, <2>4 DEF NoFrameMissing, Due, Expect, Reads, At, From
    <3>1. PICK j \in DOMAIN bi[s] : bi[s][j].nonce = n
      BY <2>3, <2>6 DEF NoFrameMissing, HasFrame
    <3>2. j < k
      <4>1. k \in 1..Len(bi[s]) /\ bi[s][k].nonce \in Nat  BY <2>3, <2>5
      <4> QED  BY <2>3, <2>6, <3>1, <4>1 DEF FramesInOrder
    <3>3. j \in 1..m /\ bi'[s][j].nonce = n  BY <2>3, <2>4, <3>1, <3>2
    <3> QED  BY <2>3, <3>3 DEF HasFrame
  <2> QED  BY <2>7, <2>8, <2>9
<1>2. ~open'  BY DEF CloseKeeping
<1> QED  BY <1>1, <1>2 DEF Written

LEMMA ClosesStreams ==
    ASSUME NEW b, Ground(b), Types, Streams(b), NEW ends, CloseKeeping(ends),
           UNCHANGED <<script, pos, sealed, opened, count, outbox, part, said, heard>>
    PROVE  Streams(b)'
<1>1. ASSUME NEW s \in End
      PROVE  StreamsFit(b, s)' /\ StreamsInOrder(s)' /\ NoStreamMissing(s)'
  <2>1. PICK m \in 0..Len(uni[s]) :
          /\ uni'[s] \in [1..m -> UNION {Shorter(uni[s][i]) : i \in 1..m}]
          /\ \A i \in 1..m : uni'[s][i] \in Shorter(uni[s][i])
    BY <1>1, StreamsCut
  <2>2. uni[s] \in Seq(Stream)  BY <1>1 DEF Types
  <2>3. DOMAIN uni[s] = 1..Len(uni[s]) /\ DOMAIN uni'[s] = 1..m /\ m \in Nat /\ m <= Len(uni[s])
    BY <2>1, <2>2
  <2>4. \A k \in 1..Len(uni[s]) : uni[s][k] \in Stream  BY <2>2
  <2>5. StreamsFit(b, s) /\ StreamsInOrder(s) /\ NoStreamMissing(s)  BY <1>1 DEF Streams
  <2>6. ASSUME NEW k \in 1..m
        PROVE  uni'[s][k].item = uni[s][k].item /\ StreamFits(b, s, uni[s][k])'
    <3>1. k \in DOMAIN uni[s] /\ uni[s][k] \in Stream  BY <2>3, <2>4, <2>6
    <3> DEFINE t == uni[s][k]
               u == uni'[s][k]
    <3>2. StreamFits(b, s, t)  BY <2>5, <3>1 DEF StreamsFit
    <3>3. u \in Shorter(t)  BY <2>1, <2>6
    <3>4. /\ u \in Stream /\ u.item = t.item
          /\ Len(u.frames) <= Len(t.frames)
          /\ u.fin => t.fin /\ Len(u.frames) = Len(t.frames)
          /\ DOMAIN u.frames \subseteq DOMAIN t.frames
          /\ \A j \in DOMAIN u.frames : u.frames[j] = t.frames[j]
      BY <3>1, <3>3, ShorterStream
    <3>5. Len(u.frames) \in Nat /\ Len(t.frames) \in Nat  BY <3>1, <3>4 DEF Stream
    <3>6. Done(Other(s), t.item) \in Nat /\ part[s] \in Nat
      BY <1>1, Others DEF Done, Types
    <3>7. script[t.item].frames \in Nat /\ Len(script) \in Nat /\ pos[Other(s)] \in Nat
      <4>1. Len(script) \in Nat  BY DEF Ground
      <4>2. pos[Other(s)] \in 1..(Len(script) + 1)  BY <1>1, Others DEF Types
      <4>3. t.item \in pos[Other(s)]..Len(script)  BY <3>2 DEF StreamFits
      <4>4. t.item \in 1..Len(script)  BY <4>1, <4>2, <4>3
      <4> QED  BY <4>1, <4>2, <4>4 DEF Ground
    <3> HIDE DEF t, u
    <3>8. /\ u.item \in pos[Other(s)]..Len(script) /\ u.item <= pos[s] /\ u.item <= said
          /\ From(u.item, s, "blob")
      BY <3>2, <3>4 DEF StreamFits
    <3>9. /\ Done(Other(s), u.item) + Len(u.frames) <= script[u.item].frames
          /\ u.item = pos[s] => Done(Other(s), u.item) + Len(u.frames) <= part[s]
          /\ u.fin => /\ u.item < pos[s]
                      /\ Done(Other(s), u.item) + Len(u.frames) = script[u.item].frames
      <4> DEFINE d == Done(Other(s), t.item)
      <4>1. /\ d + Len(t.frames) <= script[t.item].frames
            /\ t.item = pos[s] => d + Len(t.frames) <= part[s]
            /\ t.fin => t.item < pos[s] /\ d + Len(t.frames) = script[t.item].frames
        BY <3>2 DEF StreamFits
      <4>2. d \in Nat  BY <3>6
      <4> HIDE DEF d
      <4>3. /\ d + Len(u.frames) <= script[t.item].frames
            /\ t.item = pos[s] => d + Len(u.frames) <= part[s]
        BY SMTT(30), <3>4, <3>5, <3>6, <3>7, <4>1, <4>2
      <4>4. u.fin => t.item < pos[s] /\ d + Len(u.frames) = script[t.item].frames
        BY <3>4, <4>1
      <4> QED  BY <3>4, <4>3, <4>4 DEF d
    <3>10. \A j \in DOMAIN u.frames :
             /\ u.frames[j].nonce = b[s][u.item] + Done(Other(s), u.item) + j - 1
             /\ u.frames[j].nonce + b[Other(s)][u.item] < RekeyAfter
      BY <3>2, <3>4 DEF StreamFits
    <3>11. (StreamFits(b, s, uni[s][k]))'
      BY <3>8, <3>9, <3>10 DEF StreamFits, Done, From, u
    <3> QED  BY <3>4, <3>11 DEF t, u
  <2>7. StreamsFit(b, s)'  BY <2>3, <2>6 DEF StreamsFit
  <2>8. StreamsInOrder(s)'  BY <2>3, <2>5, <2>6 DEF StreamsInOrder
  <2>9. NoStreamMissing(s)'
    <3> SUFFICES ASSUME NEW k \in 1..m, NEW i \in pos[Other(s)]..Len(script),
                        From(i, s, "blob"), i < uni[s][k].item
                 PROVE  HasStream(s, i)'
      BY <2>3, <2>6 DEF NoStreamMissing, From
    <3>1. k \in DOMAIN uni[s]  BY <2>3
    <3>2. PICK j \in DOMAIN uni[s] : uni[s][j].item = i
      BY <2>5, <3>1 DEF NoStreamMissing, HasStream
    <3>3. j < k
      <4>1. uni[s][k].item \in Nat /\ i \in Nat
        BY <2>3, <2>4, <3>1, <3>2 DEF Stream
      <4> QED  BY SMTT(30), <2>3, <2>5, <3>1, <3>2, <4>1 DEF StreamsInOrder
    <3>4. j \in 1..m /\ uni'[s][j].item = i  BY <2>3, <2>6, <3>2, <3>3
    <3> QED  BY <2>3, <3>4 DEF HasStream
  <2> QED  BY <2>7, <2>8, <2>9
<1>2. ~open'  BY DEF CloseKeeping
<1> QED  BY <1>1, <1>2 DEF Streams

LEMMA ClosesInv ==
    ASSUME NEW b, Ground(b), LinkInv(b), Closes
    PROVE  LinkInv(b)'
<1>1. Types'  BY ClosesTypes DEF LinkInv
<1>2. UNCHANGED <<script, pos, sealed, opened, count, outbox, part, said, heard>>
  BY DEF Closes
<1>3. open' => open /\ UNCHANGED <<bi, uni>>  BY DEF Closes, CloseKeeping
<1>4. Places'  BY <1>2, <1>3 DEF LinkInv, Places, AllWhole
<1>5. Sealing(b)'
  BY <1>2, <1>3 DEF LinkInv, Sealing, PartFits, OutboxFits, Own, Reads, At, Sent
<1>6. Opening(b)'
  BY <1>2, <1>3 DEF LinkInv, Opening, OpenedFits, AllWhole, Expect, Reads, At, Sent
<1>7. Written(b)'
  <2>1. CASE UNCHANGED <<open, bi, uni>>
    BY <1>2, <2>1 DEF LinkInv, Written, FramesFit, FrameFits, FramesInOrder, NoFrameMissing,
                      AllFramesThere, HasFrame, Due, Expect, Reads, At, Sent, From
  <2>2. CASE \E ends : CloseKeeping(ends)
    BY <1>2, <2>2, ClosesWritten DEF LinkInv
  <2> QED  BY <2>1, <2>2 DEF Closes
<1>8. Streams(b)'
  <2>1. CASE UNCHANGED <<open, bi, uni>>
    BY <1>2, <2>1 DEF LinkInv, Streams, StreamsFit, StreamFits, StreamsInOrder, NoStreamMissing,
                      AllStreamsThere, HasStream, LastIsOpen, Done, Own, At, From
  <2>2. CASE \E ends : CloseKeeping(ends)
    BY <1>2, <2>2, ClosesStreams DEF LinkInv
  <2> QED  BY <2>1, <2>2 DEF Closes
<1> QED  BY <1>1, <1>4, <1>5, <1>6, <1>7, <1>8 DEF LinkInv

----------------------------------------------------------------------------
(* Speaking.                                                                *)

(* Two ends share nothing that a step of one changes by itself.              *)
Still(e) ==
    /\ pos'[e] = pos[e] /\ sealed'[e] = sealed[e] /\ opened'[e] = opened[e]
    /\ count'[e] = count[e] /\ outbox'[e] = outbox[e] /\ part'[e] = part[e]

LEMMA StillFits ==
    ASSUME NEW b, NEW e \in End, Still(e), script' = script, open' => open, said' >= said,
           said \in Nat, said' \in Nat, pos[e] \in Nat, PartFits(e), OutboxFits(b, e)
    PROVE  PartFits(e)' /\ OutboxFits(b, e)'
<1>1. PartFits(e)'  BY DEF Still, PartFits, Own, Reads, At
<1>2. OutboxFits(b, e)'  BY DEF Still, OutboxFits, Own, At, Sent
<1> QED  BY <1>1, <1>2

LEMMA LimitType == RekeyAfter \in Nat
BY LinkAssumption

(* The nonces as numbers.                                                   *)
LEMMA Numbers ==
    ASSUME NEW b, Ground(b), LinkInv(b), NEW e \in End
    PROVE  /\ pos[e] \in 1..(Len(script) + 1) /\ Len(script) \in Nat /\ said \in Nat
           /\ sealed[e] \in Nat /\ opened[e] \in Nat /\ count[e] \in Nat /\ part[e] \in Nat
           /\ outbox[e] \in Seq(Frame) /\ bi[e] \in Seq(Frame) /\ uni[e] \in Seq(Stream)
           /\ Other(e) \in End /\ Other(e) # e /\ Other(Other(e)) = e
           /\ \A i \in 1..(Len(script) + 1) : b[e][i] \in Nat /\ b[Other(e)][i] \in Nat
           /\ Sent(e) \in Nat /\ b[e][pos[e]] <= Sent(e)
           /\ Expect(b, e) \in Nat
<1>1. /\ pos[e] \in 1..(Len(script) + 1) /\ Len(script) \in Nat /\ said \in Nat
      /\ sealed[e] \in Nat /\ opened[e] \in Nat /\ count[e] \in Nat /\ part[e] \in Nat
      /\ outbox[e] \in Seq(Frame) /\ bi[e] \in Seq(Frame) /\ uni[e] \in Seq(Stream)
  BY DEF LinkInv, Types, Ground
<1>2. Other(e) \in End /\ Other(e) # e /\ Other(Other(e)) = e  BY Others
<1>3. \A i \in 1..(Len(script) + 1) : b[e][i] \in Nat /\ b[Other(e)][i] \in Nat
  BY <1>2 DEF Ground
<1>4. b[e][pos[e]] \in Nat /\ b[Other(e)][pos[e]] \in Nat  BY <1>1, <1>3
<1>5. Sent(e) \in Nat /\ b[e][pos[e]] <= Sent(e)
  <2>1. OutboxFits(b, e)  BY DEF LinkInv, Sealing
  <2>2. CASE outbox[e] = <<>>  BY <1>1, <1>4, <2>1, <2>2 DEF OutboxFits, Sent
  <2>3. CASE outbox[e] # <<>>
    <3>1. /\ Own(e) /\ Len(outbox[e]) <= At(e).frames
          /\ sealed[e] = b[e][pos[e]] + At(e).frames
      BY <2>1, <2>3 DEF OutboxFits
    <3>2. At(e).frames \in Nat  BY <1>1, <3>1 DEF Own, At, Ground
    <3> QED  BY SMTT(30), <1>1, <1>4, <3>1, <3>2 DEF Sent
  <2> QED  BY <2>2, <2>3
<1>6. Expect(b, e) \in Nat  BY <1>1, <1>4 DEF Expect
<1> QED  BY <1>1, <1>2, <1>3, <1>5, <1>6

Encodes(e) ==
    /\ Speaks(e, "message") /\ outbox[e] = <<>>
    /\ ~NeedsRekey(e, At(e).frames - 1)
    /\ outbox' = [outbox EXCEPT ![e] = Sealed(e, At(e).frames)]
    /\ Seal(e, At(e).frames)
    /\ UNCHANGED <<script, pos, opened, part, bi, uni, open, status, why, broke, late, said, heard>>

LEMMA EncodesInv ==
    ASSUME NEW b, Ground(b), LinkInv(b), NEW e \in End, Encodes(e)
    PROVE  LinkInv(b)'
<1> DEFINE n == At(e).frames
           o == Other(e)
<1>0. /\ pos[e] \in 1..(Len(script) + 1) /\ Len(script) \in Nat /\ said \in Nat
      /\ sealed[e] \in Nat /\ opened[e] \in Nat /\ count[e] \in Nat
      /\ b[e][pos[e]] \in Nat /\ b[o][pos[e]] \in Nat /\ outbox[e] = <<>>
  BY Numbers DEF Encodes
<1>1. Own(e) /\ At(e).kind = "message" /\ n \in Nat /\ n > 0
  <2>1. pos[e] \in 1..Len(script) /\ Own(e) /\ At(e).kind = "message"
    BY <1>0 DEF Encodes, Speaks, Running, Own
  <2> QED  BY <2>1 DEF At, Ground
<1>2. UNCHANGED <<script, pos, opened, part, bi, uni, open, said, heard>>  BY DEF Encodes
<1>3. Sealed(e, n) \in Seq(Frame) /\ Len(Sealed(e, n)) = n
      /\ \A k \in 1..n : Sealed(e, n)[k] = [nonce |-> sealed[e] + k - 1, item |-> pos[e]]
  <2>1. \A k \in 1..n : [nonce |-> sealed[e] + k - 1, item |-> pos[e]] \in Frame
    BY <1>0, <1>1 DEF Frame
  <2>2. Sealed(e, n) = [k \in 1..n |-> [nonce |-> sealed[e] + k - 1, item |-> pos[e]]]
    BY DEF Sealed
  <2> DEFINE q == Sealed(e, n)
             m == n
  <2>3. q \in [1..n -> Frame]  BY <2>1, <2>2
  <2>4. m \in Nat /\ q \in [1..m -> Frame]  BY <1>1, <2>3
  <2>5. q \in Seq(Frame) /\ Len(q) = m
    <3> HIDE DEF q, m
    <3> QED  BY <2>4
  <2>6. \A k \in 1..n : q[k] = [nonce |-> sealed[e] + k - 1, item |-> pos[e]]  BY <2>2, Zenon
  <2> QED  BY <2>5, <2>6
<1>4. /\ outbox'[e] = Sealed(e, n) /\ sealed'[e] = sealed[e] + n /\ count'[e] = count[e] + n
      /\ outbox'[o] = outbox[o] /\ sealed'[o] = sealed[o] /\ count'[o] = count[o]
  BY Others DEF Encodes, Seal, LinkInv, Types
<1>5. Types'
  <2>1. outbox' \in [End -> Seq(Frame)]  BY <1>3 DEF Encodes, LinkInv, Types
  <2>2. sealed[e] + n \in Nat /\ count[e] + n \in Nat  BY SMTT(30), <1>0, <1>1
  <2>3. sealed' \in [End -> Nat] /\ count' \in [End -> Nat]
    <3>1. sealed \in [End -> Nat] /\ count \in [End -> Nat]  BY DEF LinkInv, Types
    <3>2. /\ sealed' = [sealed EXCEPT ![e] = sealed[e] + n]
          /\ count' = [count EXCEPT ![e] = count[e] + n]
      BY DEF Encodes, Seal
    <3> QED  BY <2>2, <3>1, <3>2, Zenon
  <2> QED  BY <2>1, <2>3 DEF Encodes, LinkInv, Types
<1>6. \A s \in End : Sent(s)' = Sent(s)
  <2>1. Sent(e)' = Sent(e)  BY <1>0, <1>1, <1>3, <1>4 DEF Sent
  <2>2. Sent(o)' = Sent(o)  BY <1>4 DEF Sent
  <2> QED  BY <2>1, <2>2, Others
<1>7. Places'  BY <1>2 DEF LinkInv, Places, AllWhole
<1>8. \A s \in End : Expect(b, s)' = Expect(b, s)  BY <1>2 DEF Expect, Reads, At
<1>9. Opening(b)'
  <2>1. ASSUME NEW s \in End PROVE OpenedFits(b, s)'
    <3>1. count'[s] = sealed'[s] + opened'[s]
      <4>1. CASE s = e
        BY <1>1, <1>2, <1>4, <4>1, <1>0 DEF LinkInv, Opening, OpenedFits
      <4>2. CASE s = o
        BY <1>2, <1>4, <4>2, Others DEF LinkInv, Opening, OpenedFits
      <4> QED  BY <4>1, <4>2, <2>1, Others
    <3>2. Other(s) \in End  BY Others
    <3> QED
      BY <1>2, <1>6, <1>8, <2>1, <3>1, <3>2 DEF LinkInv, Opening, OpenedFits, AllWhole
  <2> QED  BY <2>1 DEF Opening
<1>10. Sealing(b)'
  <2>1. PartFits(o)' /\ OutboxFits(b, o)'
    <3>1. PartFits(o) /\ OutboxFits(b, o)  BY Others DEF LinkInv, Sealing
    <3>2. Still(o)  BY <1>2, <1>4 DEF Still
    <3>3. said \in Nat /\ pos[o] \in Nat  BY Others, Numbers
    <3> QED  BY <1>2, <3>1, <3>2, <3>3, Others, StillFits
  <2>2. PartFits(e)'
    BY <1>1, <1>2 DEF LinkInv, Sealing, PartFits, Own, Reads, At
  <2>3. sealed[e] = b[e][pos[e]]
    BY <1>0, <1>1 DEF LinkInv, Sealing, OutboxFits
  <2>4. open => sealed'[e] - 1 + b[o][pos[e]] < RekeyAfter
    <3> SUFFICES ASSUME open PROVE sealed'[e] - 1 + b[o][pos[e]] < RekeyAfter  OBVIOUS
    <3>1. opened[e] = b[o][pos[e]]
      <4>1. opened[e] = Expect(b, e)  BY DEF LinkInv, Places, Opening, OpenedFits
      <4> QED  BY <1>1, <4>1, <1>0 DEF Expect, Reads, Own
    <3>2. count[e] = sealed[e] + opened[e]  BY DEF LinkInv, Opening, OpenedFits
    <3>3. ~(count[e] + (n - 1) >= RekeyAfter)  BY DEF Encodes, NeedsRekey
    <3> QED  BY SMTT(30), <1>0, <1>1, <1>4, <3>1, <3>2, <3>3, LimitType
  <2>5. OutboxFits(b, e)'
    <3>1. Sent(e)' = sealed[e]  BY <1>6, <1>0 DEF Sent, Encodes
    <3>2. \A k \in DOMAIN outbox'[e] :
            outbox'[e][k].nonce = sealed[e] + k - 1 /\ outbox'[e][k].item = pos'[e]
      <4>1. DOMAIN outbox'[e] = 1..n  BY <1>1, <1>3, <1>4
      <4>2. \A k \in 1..n : outbox'[e][k] = [nonce |-> sealed[e] + k - 1, item |-> pos'[e]]
        BY <1>2, <1>3, <1>4, Zenon
      <4>3. ASSUME NEW k \in 1..n
            PROVE  outbox'[e][k].nonce = sealed[e] + k - 1 /\ outbox'[e][k].item = pos'[e]
        <5>1. outbox'[e][k] = [nonce |-> sealed[e] + k - 1, item |-> pos'[e]]  BY <4>2, <4>3, Zenon
        <5> QED  BY <5>1
      <4> QED  BY <4>1, <4>3, Zenon
    <3>3. outbox'[e] # <<>> /\ Len(outbox'[e]) = n  BY <1>1, <1>3, <1>4
    <3>4. Own(e)' /\ At(e)'.kind = "message" /\ At(e)' = At(e)  BY <1>1, <1>2 DEF Own, At
    <3> QED  BY <1>1, <1>2, <1>4, <2>3, <2>4, <3>1, <3>2, <3>3, <3>4, <1>0 DEF OutboxFits
  <2> QED  BY <2>1, <2>2, <2>5, Others DEF Sealing
<1>11. Written(b)'
  BY SMTT(30), <1>2, <1>6, <1>8, Others DEF LinkInv, Written, FramesFit, FrameFits, FramesInOrder,
     NoFrameMissing, AllFramesThere, HasFrame, Due, From
<1>12. Streams(b)'
  BY <1>2 DEF LinkInv, Streams, StreamsFit, StreamFits, StreamsInOrder, NoStreamMissing,
     AllStreamsThere, HasStream, LastIsOpen, Done, Own, At, From
<1> QED  BY <1>5, <1>7, <1>9, <1>10, <1>11, <1>12 DEF LinkInv

(* A step of the end that has the word: it may finish its item, and what is  *)
(* on the way to it stays as it is.                                          *)
SpeaksOn(e) ==
    /\ Own(e) /\ script' = script /\ Still(Other(e)) /\ opened'[e] = opened[e]
    /\ bi'[Other(e)] = bi[Other(e)] /\ uni'[Other(e)] = uni[Other(e)]
    /\ open' = open /\ heard' = heard /\ said' \in Nat /\ said' >= said
    /\ \/ pos'[e] = pos[e]
       \/ pos'[e] = pos[e] + 1 /\ part'[e] = 0 /\ pos[e] <= said'
    /\ \A i \in 1..Len(script) : i <= said' => i <= said \/ i = pos[e]

LEMMA SpeaksExpect ==
    ASSUME NEW b, Ground(b), LinkInv(b), NEW e \in End, SpeaksOn(e)
    PROVE  Expect(b, e)' = Expect(b, e) /\ Expect(b, Other(e))' = Expect(b, Other(e))
<1> DEFINE o == Other(e)
<1>0. /\ pos[e] \in 1..(Len(script) + 1) /\ Len(script) \in Nat /\ o \in End /\ o # e
      /\ \A i \in 1..(Len(script) + 1) : b[o][i] \in Nat
  BY Numbers
<1>1. pos[e] \in 1..Len(script) /\ script[pos[e]].from = e  BY <1>0 DEF SpeaksOn, Own, At
<1>2. Expect(b, e) = b[o][pos[e]]  BY <1>0, <1>1 DEF Expect, Reads, At
<1>3. b[o][pos[e] + 1] = b[o][pos[e]]  BY <1>0, <1>1 DEF Ground
<1>4. Expect(b, e)' = b[o][pos[e]]
  <2>1. CASE pos'[e] = pos[e]  BY <1>0, <1>1, <2>1 DEF SpeaksOn, Expect, Reads, At
  <2>2. CASE pos'[e] = pos[e] + 1 /\ part'[e] = 0
    <3>1. pos[e] + 1 \in 1..(Len(script) + 1)  BY <1>0, <1>1
    <3>2. b[o][pos[e] + 1] \in Nat  BY <1>0, <3>1
    <3>3. Expect(b, e)' = b[o][pos[e] + 1] + 0  BY <2>2 DEF Expect
    <3> QED  BY <1>3, <3>2, <3>3
  <2> QED  BY <2>1, <2>2 DEF SpeaksOn
<1>5. Expect(b, o)' = Expect(b, o)  BY DEF SpeaksOn, Still, Expect, Reads, At
<1> QED  BY <1>2, <1>4, <1>5

LEMMA SpeaksPlaces ==
    ASSUME NEW b, Ground(b), LinkInv(b), NEW e \in End, SpeaksOn(e)
    PROVE  Places'
<1> DEFINE o == Other(e)
<1>0. /\ pos[e] \in 1..(Len(script) + 1) /\ Len(script) \in Nat /\ o \in End /\ o # e
      /\ Other(o) = e /\ said \in Nat /\ pos[o] \in 1..(Len(script) + 1)
  BY Numbers
<1>1. pos[e] \in 1..Len(script) /\ script[pos[e]].from = e  BY <1>0 DEF SpeaksOn, Own, At
<1>2. /\ script' = script /\ heard' = heard /\ open' = open /\ pos'[o] = pos[o]
      /\ said' \in Nat /\ said' >= said
      /\ pos'[e] = pos[e] \/ (pos'[e] = pos[e] + 1 /\ pos[e] <= said')
      /\ \A i \in 1..Len(script) : i <= said' => i <= said \/ i = pos[e]
  BY Zenon DEF SpeaksOn, Still
<1>3. \A i \in 1..Len(script) :
        \/ script[i].from = e /\ Other(script[i].from) = o
        \/ script[i].from = o /\ Other(script[i].from) = e /\ i # pos[e]
  BY <1>0, <1>1, Others DEF Ground
<1>4. Len(heard) \in Nat  BY DEF LinkInv, Types
<1>5. \A i \in 1..Len(script) : i <= Len(heard) <=> pos[Other(script[i].from)] > i
  BY DEF LinkInv, Places
<1>6. \A i \in 1..Len(script) : i <= Len(heard) <=> pos'[Other(script[i].from)] > i
  BY <1>0, <1>2, <1>3, <1>5
<1>7. Len(heard) <= said'  BY <1>0, <1>2, <1>4 DEF LinkInv, Places
<1>8. \A i \in 1..Len(script) : pos'[script[i].from] > i => i <= said'
  <2>1. \A i \in 1..Len(script) : pos[script[i].from] > i => i <= said  BY DEF LinkInv, Places
  <2> QED  BY <1>0, <1>2, <1>3, <2>1
<1>9. \A i \in 1..Len(script) : i <= said' => pos'[script[i].from] >= i
  <2>1. \A i \in 1..Len(script) : i <= said => pos[script[i].from] >= i  BY DEF LinkInv, Places
  <2> QED  BY <1>0, <1>1, <1>2, <1>3, <2>1
<1>10. open => \A i \in 1..Len(script) :
                  pos'[Other(script[i].from)] > i => pos'[script[i].from] > i
  <2>1. open => \A i \in 1..Len(script) :
                  pos[Other(script[i].from)] > i => pos[script[i].from] > i
    BY DEF LinkInv, Places
  <2> QED  BY <1>0, <1>2, <1>3, <2>1
<1>11. open => AllWhole'  BY <1>2 DEF LinkInv, Places, AllWhole
<1> QED  BY <1>2, <1>6, <1>7, <1>8, <1>9, <1>10, <1>11 DEF Places

(* What is on its way to the speaker is of later items, as it was.           *)
LEMMA SpeaksWritten ==
    ASSUME NEW b, Ground(b), LinkInv(b), NEW e \in End, SpeaksOn(e), NEW o, o = Other(e)
    PROVE  /\ FramesFit(b, o)' /\ FramesInOrder(o)' /\ NoFrameMissing(b, o)'
           /\ open => AllFramesThere(b, o)'
<1>0. /\ pos[e] \in 1..(Len(script) + 1) /\ Len(script) \in Nat /\ o \in End /\ o # e
      /\ Other(o) = e /\ said \in Nat /\ bi[o] \in Seq(Frame)
  BY Numbers
<1>1. pos[e] \in 1..Len(script) /\ script[pos[e]].from = e  BY <1>0 DEF SpeaksOn, Own, At
<1>2. /\ script' = script /\ bi'[o] = bi[o] /\ pos'[o] = pos[o] /\ said' \in Nat /\ said' >= said
      /\ Sent(o)' = Sent(o) /\ Expect(b, e)' = Expect(b, e)
      /\ pos'[e] = pos[e] \/ pos'[e] = pos[e] + 1
  BY SpeaksExpect DEF SpeaksOn, Still, Sent
<1>3. FramesFit(b, o) /\ FramesInOrder(o) /\ NoFrameMissing(b, o) /\ (open => AllFramesThere(b, o))
  BY <1>0 DEF LinkInv, Written
<1>4. FramesFit(b, o)'
  <2> SUFFICES ASSUME NEW k \in DOMAIN bi[o] PROVE FrameFits(b, o, bi[o][k])'
    BY <1>2 DEF FramesFit, FrameFits, Expect, Reads, At, Sent, From
  <2> DEFINE f == bi[o][k]
  <2>1. FrameFits(b, o, f)  BY <1>3 DEF FramesFit
  <2>2. f.item \in pos'[e]..Len(script)
    <3>1. f.item \in pos[e]..Len(script) /\ f.item # pos[e]
      BY <1>0, <1>1, <2>1 DEF FrameFits, From
    <3> QED  BY <1>0, <1>2, <3>1
  <2>3. f.item \in Nat  BY <1>0, <2>1 DEF FrameFits
  <2>4. f.item <= said'  BY <1>0, <1>2, <2>1, <2>3 DEF FrameFits
  <2>5. bi'[o][k] = f  BY <1>2
  <2> QED  BY <1>0, <1>2, <2>1, <2>2, <2>4, <2>5 DEF FrameFits, From
<1>5. FramesInOrder(o)'  BY <1>2, <1>3 DEF FramesInOrder
<1>6. \A n \in Nat : Due(b, o, n)' => Due(b, o, n)
  BY <1>0, <1>2 DEF Due, From
<1>7. NoFrameMissing(b, o)'  BY <1>2, <1>3, <1>6 DEF NoFrameMissing, HasFrame
<1>8. open => AllFramesThere(b, o)'  BY <1>2, <1>3, <1>6 DEF AllFramesThere, HasFrame
<1> QED  BY <1>4, <1>5, <1>7, <1>8

LEMMA SpeaksStreams ==
    ASSUME NEW b, Ground(b), LinkInv(b), NEW e \in End, SpeaksOn(e), NEW o, o = Other(e)
    PROVE  /\ StreamsFit(b, o)' /\ StreamsInOrder(o)' /\ NoStreamMissing(o)'
           /\ open => AllStreamsThere(o)' /\ LastIsOpen(o)'
<1>0. /\ pos[e] \in 1..(Len(script) + 1) /\ Len(script) \in Nat /\ o \in End /\ o # e
      /\ Other(o) = e /\ said \in Nat /\ uni[o] \in Seq(Stream) /\ pos[o] \in 1..(Len(script) + 1)
  BY Numbers
<1>1. pos[e] \in 1..Len(script) /\ script[pos[e]].from = e  BY <1>0 DEF SpeaksOn, Own, At
<1>2. /\ script' = script /\ uni'[o] = uni[o] /\ pos'[o] = pos[o] /\ part'[o] = part[o]
      /\ said' \in Nat /\ said' >= said
      /\ \A i \in 1..Len(script) : i <= said' => i <= said \/ i = pos[e]
      /\ pos'[e] = pos[e] \/ (pos'[e] = pos[e] + 1 /\ part'[e] = 0)
  BY Zenon DEF SpeaksOn, Still
<1>3. /\ StreamsFit(b, o) /\ StreamsInOrder(o) /\ NoStreamMissing(o)
      /\ open => AllStreamsThere(o) /\ LastIsOpen(o)
  BY <1>0 DEF LinkInv, Streams
<1>4. ASSUME NEW i \in pos[e]..Len(script), script[i].from = o
      PROVE  i \in pos'[e]..Len(script) /\ Done(e, i)' = Done(e, i)
  <2>1. i # pos[e]  BY <1>0, <1>1, <1>4
  <2>2. i \in pos'[e]..Len(script)  BY <1>0, <1>2, <1>4, <2>1
  <2>3. Done(e, i) = 0 /\ Done(e, i)' = 0  BY <1>0, <1>2, <2>1 DEF Done
  <2> QED  BY <2>2, <2>3
<1>5. StreamsFit(b, o)'
  <2> SUFFICES ASSUME NEW k \in DOMAIN uni[o] PROVE StreamFits(b, o, uni[o][k])'
    BY <1>2 DEF StreamsFit, StreamFits, Done, From
  <2> DEFINE t == uni[o][k]
  <2>1. StreamFits(b, o, t) /\ t = uni'[o][k]  BY <1>2, <1>3 DEF StreamsFit
  <2>2. t.item \in pos'[e]..Len(script) /\ Done(e, t.item)' = Done(e, t.item)
    BY <1>0, <1>4, <2>1 DEF StreamFits, From
  <2>3. t.item \in Nat /\ t.item <= said  BY <1>0, <2>1 DEF StreamFits
  <2>4. t.item <= said'  BY <1>0, <1>2, <2>3
  <2> QED  BY <1>0, <1>2, <2>1, <2>2, <2>4 DEF StreamFits, From
<1>6. StreamsInOrder(o)'  BY <1>2, <1>3 DEF StreamsInOrder
<1>7. pos'[e]..Len(script) \subseteq pos[e]..Len(script)  BY <1>0, <1>2
<1>8. NoStreamMissing(o)'
  BY <1>0, <1>2, <1>3, <1>7 DEF NoStreamMissing, HasStream, From
<1>9. open => AllStreamsThere(o)'
  BY <1>0, <1>2, <1>3, <1>7 DEF AllStreamsThere, HasStream, From
<1>10. open => LastIsOpen(o)'
  <2> SUFFICES ASSUME open, Own(o), At(o).kind = "blob", said' >= pos[o]
               PROVE  LastIsOpen(o)'
    BY <1>2 DEF LastIsOpen, Own, At
  <2>1. pos[o] \in 1..Len(script) /\ script[pos[o]].from = o  BY <1>0 DEF Own, At
  <2>2. said >= pos[o]  BY <1>0, <1>1, <1>2, <2>1
  <2> DEFINE t == uni[o][Len(uni[o])]
  <2>3. /\ uni[o] # <<>> /\ t.item = pos[o] /\ ~t.fin /\ Done(e, t.item) + Len(t.frames) = part[o]
    BY <1>0, <1>3, <2>2 DEF LastIsOpen
  <2>4. Len(uni[o]) \in DOMAIN uni[o]  BY <1>0, <2>3
  <2>5. StreamFits(b, o, t)  BY <1>3, <2>4 DEF StreamsFit
  <2>6. t.item \in pos[e]..Len(script) /\ script[t.item].from = o
    BY <1>0, <2>5 DEF StreamFits, From
  <2>7. Done(e, t.item)' = Done(e, t.item)  BY <1>2, <1>4, <2>6 DEF Done
  <2> QED  BY <1>0, <1>2, <2>3, <2>7 DEF LastIsOpen
<1> QED  BY <1>5, <1>6, <1>8, <1>9, <1>10

LEMMA SpeaksInv ==
    ASSUME NEW b, Ground(b), LinkInv(b), NEW e \in End, SpeaksOn(e),
           Types', PartFits(e)', OutboxFits(b, e)',
           Sent(e)' \in Nat, Sent(e)' >= Sent(e), count'[e] = sealed'[e] + opened[e],
           FramesFit(b, e)', FramesInOrder(e)', NoFrameMissing(b, e)',
           open => AllFramesThere(b, e)',
           StreamsFit(b, e)', StreamsInOrder(e)', NoStreamMissing(e)',
           open => AllStreamsThere(e)' /\ LastIsOpen(e)'
    PROVE  LinkInv(b)'
<1> DEFINE o == Other(e)
<1>0. /\ o \in End /\ o # e /\ Other(o) = e /\ said \in Nat /\ pos[o] \in Nat
      /\ Sent(e) \in Nat /\ Expect(b, o) \in Nat
  <2>1. o \in End /\ o # e /\ Other(o) = e /\ said \in Nat /\ Sent(e) \in Nat  BY Numbers
  <2>2. pos[o] \in Nat /\ Expect(b, o) \in Nat  BY <2>1, Numbers
  <2> QED  BY <2>1, <2>2
<1>1. \A s \in End : s = e \/ s = o  BY Others
<1>2. Places'  BY SpeaksPlaces
<1>3. Sealing(b)'
  <2>1. PartFits(o)' /\ OutboxFits(b, o)'
    <3>1. PartFits(o) /\ OutboxFits(b, o)  BY <1>0 DEF LinkInv, Sealing
    <3> QED  BY <1>0, <3>1, StillFits DEF SpeaksOn
  <2> QED  BY <1>1, <2>1 DEF Sealing
<1>4. Opening(b)'
  <2>1. Expect(b, e)' = Expect(b, e) /\ Expect(b, o)' = Expect(b, o)  BY SpeaksExpect
  <2>2. OpenedFits(b, e) /\ OpenedFits(b, o)  BY <1>0 DEF LinkInv, Opening
  <2>3. AllWhole' <=> AllWhole  BY DEF SpeaksOn, AllWhole
  <2>4. OpenedFits(b, e)'
    <3>1. open => Expect(b, o) <= Sent(e)'  BY <1>0, <2>2 DEF OpenedFits
    <3> QED  BY <2>1, <2>2, <2>3, <3>1 DEF SpeaksOn, OpenedFits
  <2>5. OpenedFits(b, o)'
    <3>1. Sent(o)' = Sent(o)  BY DEF SpeaksOn, Still, Sent
    <3> QED  BY <1>0, <2>1, <2>2, <2>3, <3>1 DEF SpeaksOn, Still, OpenedFits
  <2> QED  BY <1>1, <2>4, <2>5 DEF Opening
<1>5. Written(b)'
  <2>1. /\ FramesFit(b, o)' /\ FramesInOrder(o)' /\ NoFrameMissing(b, o)'
        /\ open => AllFramesThere(b, o)'
    BY SpeaksWritten
  <2>2. open' = open  BY DEF SpeaksOn
  <2> QED  BY <1>1, <2>1, <2>2 DEF Written
<1>6. Streams(b)'
  <2>1. /\ StreamsFit(b, o)' /\ StreamsInOrder(o)' /\ NoStreamMissing(o)'
        /\ open => AllStreamsThere(o)' /\ LastIsOpen(o)'
    BY SpeaksStreams
  <2>2. open' = open  BY DEF SpeaksOn
  <2> QED  BY <1>1, <2>1, <2>2 DEF Streams
<1> QED  BY <1>2, <1>3, <1>4, <1>5, <1>6 DEF LinkInv

LEMMA TallyOrder ==
    ASSUME NEW b, Ground(b), NEW e \in End,
           NEW i \in 1..(Len(script) + 1), NEW j \in 1..(Len(script) + 1), i <= j
    PROVE  b[e][i] \in Nat /\ b[e][j] \in Nat /\ b[e][i] <= b[e][j]
BY DEF Ground

LEMMA TailSeq ==
    ASSUME NEW S, NEW q \in Seq(S), q # <<>>
    PROVE  /\ Tail(q) \in Seq(S) /\ Len(Tail(q)) = Len(q) - 1 /\ Len(q) - 1 \in Nat
           /\ DOMAIN q = 1..Len(q) /\ DOMAIN Tail(q) = 1..(Len(q) - 1)
           /\ \A k \in 1..(Len(q) - 1) : k + 1 \in 1..Len(q) /\ Tail(q)[k] = q[k + 1]
           /\ 1 \in 1..Len(q) /\ Head(q) = q[1] /\ q[1] \in S
<1>1. Len(q) \in Nat /\ Len(q) > 0  OBVIOUS
<1>2. Tail(q) \in Seq(S) /\ Len(Tail(q)) = Len(q) - 1  OBVIOUS
<1>3. \A k \in 1..(Len(q) - 1) : Tail(q)[k] = q[k + 1]  BY <1>1
<1>4. \A k \in 1..(Len(q) - 1) : k + 1 \in 1..Len(q)  BY <1>1
<1>5. DOMAIN q = 1..Len(q) /\ DOMAIN Tail(q) = 1..(Len(q) - 1)  BY <1>1, <1>2
<1> QED  BY <1>1, <1>2, <1>3, <1>4, <1>5

LEMMA AppendSeq ==
    ASSUME NEW S, NEW q \in Seq(S), NEW x \in S
    PROVE  /\ Append(q, x) \in Seq(S) /\ Append(q, x) # <<>>
           /\ Len(Append(q, x)) = Len(q) + 1 /\ Len(q) \in Nat
           /\ DOMAIN q = 1..Len(q) /\ DOMAIN Append(q, x) = 1..(Len(q) + 1)
           /\ Append(q, x)[Len(q) + 1] = x
           /\ \A k \in 1..Len(q) : Append(q, x)[k] = q[k]
OBVIOUS

(* The items before an end's place have been said.                           *)
LEMMA SaidBefore ==
    ASSUME NEW b, Ground(b), LinkInv(b), NEW e \in End
    PROVE  \A i \in 1..Len(script) : i < pos[e] => i <= said
<1> SUFFICES ASSUME NEW i \in 1..Len(script), i < pos[e] PROVE i <= said  OBVIOUS
<1>0. /\ pos[e] \in 1..(Len(script) + 1) /\ Len(script) \in Nat /\ said \in Nat
      /\ script[i].from \in End
  BY Numbers DEF Ground
<1>1. Len(heard) \in Nat  BY DEF LinkInv, Types
<1>2. CASE script[i].from = e  BY <1>0, <1>2 DEF LinkInv, Places
<1>3. CASE script[i].from # e
  <2>1. Other(script[i].from) = e  BY <1>0, <1>3, Others
  <2>2. i <= Len(heard)  BY <1>0, <2>1 DEF LinkInv, Places
  <2>3. Len(heard) <= said  BY DEF LinkInv, Places
  <2> QED  BY <1>0, <1>1, <2>2, <2>3
<1> QED  BY <1>2, <1>3

(* While the connection lasts nobody is ahead of the end that has the word.  *)
LEMMA HasTheWord ==
    ASSUME NEW b, Ground(b), LinkInv(b), NEW e \in End, open, Own(e)
    PROVE  /\ pos[e] \in 1..Len(script) /\ pos[Other(e)] <= pos[e] /\ said <= pos[e]
           /\ script[pos[e]].from = e
<1> DEFINE o == Other(e)
<1>0. /\ pos[e] \in 1..(Len(script) + 1) /\ Len(script) \in Nat /\ said \in Nat /\ o \in End
      /\ Other(o) = e
  BY Numbers
<1>1. pos[o] \in 1..(Len(script) + 1)  BY <1>0, Numbers
<1>2. pos[e] \in 1..Len(script) /\ script[pos[e]].from = e  BY <1>0 DEF Own, At
<1>3. \A i \in 1..Len(script) : pos[Other(script[i].from)] > i => pos[script[i].from] > i
  BY DEF LinkInv, Places
<1>4. pos[o] <= pos[e]  BY <1>0, <1>1, <1>2, <1>3
<1>5. ASSUME said > pos[e] PROVE FALSE
  <2> DEFINE i == pos[e] + 1
  <2>1. said \in 0..Len(script)  BY DEF LinkInv, Types
  <2>2. i \in 1..Len(script) /\ i <= said  BY <1>0, <1>2, <1>5, <2>1
  <2>3. pos[script[i].from] >= i  BY <2>2 DEF LinkInv, Places
  <2>4. script[i].from \in End  BY <2>2 DEF Ground
  <2>5. script[i].from = e \/ script[i].from = o  BY <2>4, Others
  <2> QED  BY <1>0, <1>1, <1>4, <2>3, <2>5
<1> QED  BY <1>0, <1>2, <1>4, <1>5

Writes(e) ==
    /\ Speaks(e, "message") /\ outbox[e] # <<>> /\ open
    /\ bi' = [bi EXCEPT ![e] = Append(@, Head(outbox[e]))]
    /\ outbox' = [outbox EXCEPT ![e] = Tail(@)]
    /\ pos' = [pos EXCEPT ![e] = IF Len(outbox[e]) = 1 THEN @ + 1 ELSE @]
    /\ Began(e)
    /\ UNCHANGED <<script, sealed, opened, count, part, uni, open, status, why, broke, late, heard>>

LEMMA WritesInv ==
    ASSUME NEW b, Ground(b), LinkInv(b), NEW e \in End, Writes(e)
    PROVE  LinkInv(b)'
<1> DEFINE o == Other(e)
           p == pos[e]
           f == Head(outbox[e])
           n == At(e).frames
<1>0. /\ p \in 1..Len(script) /\ Len(script) \in Nat /\ said \in Nat /\ said <= p
      /\ sealed[e] \in Nat /\ opened[e] \in Nat /\ part[e] \in Nat
      /\ outbox[e] \in Seq(Frame) /\ bi[e] \in Seq(Frame) /\ uni[e] \in Seq(Stream)
      /\ o \in End /\ o # e /\ Other(o) = e
      /\ Sent(e) \in Nat /\ b[e][p] <= Sent(e) /\ b[e][p] \in Nat /\ b[o][p] \in Nat
      /\ pos[o] <= p /\ script[p].from = e /\ Own(e) /\ script[p].kind = "message"
  <2>1. Own(e) /\ open /\ script[p].kind = "message"
    BY DEF Writes, Speaks, Running, Own, At
  <2> QED  BY <2>1, Numbers, HasTheWord
<1>1. /\ pos[o] \in 1..(Len(script) + 1) /\ Expect(b, o) \in Nat /\ Expect(b, o) <= Sent(e)
  <2>1. pos[o] \in 1..(Len(script) + 1) /\ Expect(b, o) \in Nat  BY <1>0, Numbers
  <2>2. Expect(b, o) <= Sent(e)  BY DEF Writes, LinkInv, Opening, OpenedFits
  <2> QED  BY <2>1, <2>2
<1>2. n \in Nat /\ n > 0 /\ n = script[p].frames /\ b[e][p + 1] = b[e][p] + n
  BY <1>0 DEF At, Ground
<1>3. /\ Len(outbox[e]) \in Nat /\ Len(outbox[e]) > 0 /\ Len(outbox[e]) <= n
      /\ sealed[e] = b[e][p] + n /\ sealed[e] - 1 + b[o][p] < RekeyAfter
      /\ \A k \in DOMAIN outbox[e] : outbox[e][k].nonce = Sent(e) + k - 1 /\ outbox[e][k].item = p
  <2>1. OutboxFits(b, e) /\ outbox[e] # <<>> /\ open  BY DEF Writes, LinkInv, Sealing
  <2>2. Len(outbox[e]) \in Nat /\ Len(outbox[e]) > 0  BY <1>0, <2>1
  <2> QED  BY <2>1, <2>2 DEF OutboxFits
<1>4. f \in Frame /\ f.nonce = Sent(e) /\ f.item = p
  <2>1. 1 \in DOMAIN outbox[e] /\ f = outbox[e][1] /\ f \in Frame  BY <1>0, <1>3
  <2>2. f.nonce = Sent(e) + 1 - 1 /\ f.item = p  BY <1>3, <2>1
  <2> QED  BY <1>0, <2>1, <2>2
<1>5. /\ bi'[e] = Append(bi[e], f) /\ bi'[o] = bi[o]
      /\ outbox'[e] = Tail(outbox[e]) /\ outbox'[o] = outbox[o] /\ pos'[o] = pos[o]
      /\ pos'[e] = IF Len(outbox[e]) = 1 THEN p + 1 ELSE p
  BY <1>0 DEF Writes, LinkInv, Types
<1>6. /\ script' = script /\ sealed' = sealed /\ opened' = opened /\ count' = count
      /\ part' = part /\ uni' = uni /\ open' = open /\ heard' = heard
  BY DEF Writes
<1>7. said' = p
  <2>1. said' = IF p > said THEN p ELSE said  BY DEF Writes, Began
  <2> QED  BY <1>0, <2>1
<1>8. part[e] = 0  BY <1>0 DEF LinkInv, Sealing, PartFits, At
<1>9. SpeaksOn(e)
  <2>1. Still(o)  BY <1>5, <1>6 DEF Still
  <2>2. \A i \in 1..Len(script) : i <= said' => i <= said \/ i = pos[e]
    <3>1. \A i \in 1..Len(script) : i < p => i <= said  BY SaidBefore
    <3> QED  BY <1>0, <1>7, <3>1
  <2>3. said' \in Nat /\ said' >= said /\ p <= said'  BY <1>0, <1>7
  <2>4. pos'[e] = p \/ pos'[e] = p + 1  BY <1>5
  <2> QED  BY <1>0, <1>5, <1>6, <1>8, <2>1, <2>2, <2>3, <2>4 DEF SpeaksOn
<1>10. /\ outbox'[e] \in Seq(Frame) /\ Len(outbox'[e]) = Len(outbox[e]) - 1
       /\ \A k \in DOMAIN outbox'[e] : k + 1 \in DOMAIN outbox[e] /\ outbox'[e][k] = outbox[e][k + 1]
  <2>1. outbox[e] # <<>>  BY DEF Writes
  <2>2. /\ outbox'[e] \in Seq(Frame) /\ Len(outbox'[e]) = Len(outbox[e]) - 1
        /\ DOMAIN outbox[e] = 1..Len(outbox[e]) /\ DOMAIN outbox'[e] = 1..(Len(outbox[e]) - 1)
        /\ \A k \in 1..(Len(outbox[e]) - 1) :
              k + 1 \in 1..Len(outbox[e]) /\ outbox'[e][k] = outbox[e][k + 1]
    BY SMTT(30), <1>0, <1>5, <2>1, TailSeq
  <2> QED  BY <2>2
<1>11. Sent(e)' = Sent(e) + 1
  BY <1>0, <1>3, <1>6, <1>10 DEF Sent
<1>12. Types'
  <2>1. bi' \in [End -> Seq(Frame)]
    <3>1. Append(bi[e], f) \in Seq(Frame)  BY <1>0, <1>4
    <3> QED  BY <3>1 DEF Writes, LinkInv, Types
  <2>2. outbox' \in [End -> Seq(Frame)]
    <3>1. Tail(outbox[e]) \in Seq(Frame)  BY <1>5, <1>10
    <3> QED  BY <3>1 DEF Writes, LinkInv, Types
  <2>3. pos' \in [End -> 1..(Len(script) + 1)]
    <3>1. p + 1 \in 1..(Len(script) + 1) /\ p \in 1..(Len(script) + 1)  BY SMTT(30), <1>0
    <3> QED  BY <3>1 DEF Writes, LinkInv, Types
  <2>4. said' \in 0..Len(script)  BY <1>0, <1>7
  <2> QED  BY <2>1, <2>2, <2>3, <2>4 DEF Writes, LinkInv, Types
<1>13. PartFits(e)'
  <2>1. CASE pos'[e] = p
    BY <1>0, <1>6, <1>8, <2>1 DEF PartFits, Own, Reads, At
  <2>2. CASE pos'[e] = p + 1
    <3>1. part'[e] = 0  BY <1>6, <1>8
    <3>2. p + 1 <= Len(script) => /\ script[p + 1].frames \in Nat
                                  /\ script[p + 1].kind = "message" => script[p + 1].frames > 0
      BY SMTT(30), <1>0 DEF Ground
    <3> QED  BY <1>6, <2>2, <3>1, <3>2 DEF PartFits, Own, Reads, At
  <2> QED  BY <1>5, <2>1, <2>2
<1>14. OutboxFits(b, e)'
  <2>1. \A k \in DOMAIN outbox'[e] : outbox'[e][k].nonce = Sent(e)' + k - 1
    <3> SUFFICES ASSUME NEW k \in DOMAIN outbox'[e] PROVE outbox'[e][k].nonce = Sent(e)' + k - 1
      OBVIOUS
    <3>1. k \in Nat  BY <1>10
    <3>2. outbox'[e][k].nonce = Sent(e) + (k + 1) - 1  BY <1>3, <1>10
    <3> QED  BY <1>0, <1>11, <3>1, <3>2
  <2>2. CASE Len(outbox[e]) = 1
    <3>1. outbox'[e] = <<>> /\ pos'[e] = p + 1  BY <1>5, <1>10, <2>2
    <3>2. sealed'[e] = b[e][p + 1] + 0 /\ part'[e] = 0  BY <1>0, <1>2, <1>3, <1>6, <1>8
    <3>3. sealed'[e] = b[e][pos'[e]] + (IF Own(e)' /\ At(e)'.kind = "blob" THEN part'[e] ELSE 0)
      BY <3>1, <3>2
    <3> QED  BY <3>1, <3>3 DEF OutboxFits
  <2>3. CASE Len(outbox[e]) # 1
    <3>1. outbox'[e] # <<>> /\ pos'[e] = p
      <4>1. Len(outbox'[e]) # 0  BY <1>3, <1>10, <2>3
      <4>2. outbox'[e] # <<>>  BY <4>1
      <4>3. pos'[e] = p  BY <1>5, <2>3, Zenon
      <4> QED  BY <4>2, <4>3
    <3>2. Own(e)' /\ At(e)' = At(e)  BY <1>0, <1>6, <3>1 DEF Own, At
    <3>3. \A k \in DOMAIN outbox'[e] : outbox'[e][k].item = pos'[e]  BY <1>3, <1>10, <3>1
    <3>4. Len(outbox'[e]) <= n  BY <1>2, <1>3, <1>10
    <3>5. At(e).kind = "message"  BY <1>0 DEF At
    <3> QED  BY <1>3, <1>6, <2>1, <3>1, <3>2, <3>3, <3>4, <3>5 DEF OutboxFits
  <2> QED  BY <2>2, <2>3
<1>15. /\ FramesFit(b, e) /\ FramesInOrder(e) /\ NoFrameMissing(b, e) /\ AllFramesThere(b, e)
       /\ StreamsFit(b, e) /\ StreamsInOrder(e) /\ NoStreamMissing(e)
       /\ AllStreamsThere(e) /\ LastIsOpen(e)
  BY DEF Writes, LinkInv, Written, Streams
<1>16. /\ Len(bi[e]) \in Nat /\ DOMAIN bi[e] = 1..Len(bi[e])
       /\ DOMAIN bi'[e] = 1..(Len(bi[e]) + 1)
       /\ \A k \in 1..Len(bi[e]) : bi'[e][k] = bi[e][k]
       /\ bi'[e][Len(bi[e]) + 1] = f
  BY SMTT(30), <1>0, <1>4, <1>5
<1>17. Expect(b, o)' = Expect(b, o)  BY <1>9, SpeaksExpect
<1>18. \A k \in 1..Len(bi[e]) : bi[e][k].nonce \in Nat /\ bi[e][k].nonce < Sent(e)
  <2>1. \A k \in 1..Len(bi[e]) : bi[e][k] \in Frame  BY <1>0
  <2> QED  BY <1>15, <1>16, <2>1 DEF Frame, FramesFit, FrameFits
<1>19. FramesFit(b, e)'
  <2>1. ASSUME NEW k \in 1..Len(bi[e]) PROVE FrameFits(b, e, bi[e][k])'
    <3> DEFINE g == bi[e][k]
    <3>1. FrameFits(b, e, g) /\ g = bi'[e][k]  BY <1>15, <1>16, <2>1 DEF FramesFit
    <3>2. g.item \in pos[o]..Len(script)  BY <1>0, <3>1 DEF FrameFits
    <3>3. g.item <= pos'[e] /\ g.item <= said'
      <4>1. g.item <= p /\ g.item \in Nat  BY <1>1, <3>1, <3>2 DEF FrameFits
      <4> QED  BY SMTT(30), <1>0, <1>5, <1>7, <4>1
    <3>4. g.nonce < Sent(e)'  BY SMTT(30), <1>0, <1>11, <1>18, <2>1
    <3> QED  BY <1>0, <1>5, <1>6, <1>17, <3>1, <3>2, <3>3, <3>4 DEF FrameFits, From
  <2>2. ASSUME NEW k, k = Len(bi[e]) + 1 PROVE FrameFits(b, e, bi[e][k])'
    <3>1. Sent(e) < b[e][p + 1]  BY <1>0, <1>2, <1>3 DEF Sent
    <3>2. Sent(e) + b[o][p] < RekeyAfter  BY SMTT(30), <1>0, <1>3, LimitType DEF Sent
    <3>3. Sent(e) < Sent(e)'  BY <1>0, <1>11
    <3>4. p \in pos[o]..Len(script) /\ p <= pos'[e] /\ p <= said'
      BY SMTT(30), <1>0, <1>1, <1>5, <1>7
    <3> DEFINE g == bi'[e][k]
    <3>5. g.nonce = Sent(e) /\ g.item = p  BY <1>4, <1>16, <2>2
    <3>6. /\ g.item \in pos'[o]..Len(script') /\ g.item <= pos'[e] /\ g.item <= said'
          /\ script'[g.item].from = e /\ script'[g.item].kind = "message"
      BY <1>0, <1>5, <1>6, <3>4, <3>5
    <3>7. /\ b[e][g.item] <= g.nonce /\ g.nonce < b[e][g.item + 1]
          /\ g.nonce + b[o][g.item] < RekeyAfter
      BY <1>0, <3>1, <3>2, <3>5
    <3>8. Expect(b, o)' <= g.nonce /\ g.nonce < Sent(e)'  BY <1>1, <1>17, <3>3, <3>5
    <3> HIDE DEF g
    <3> QED  BY <1>0, <3>6, <3>7, <3>8 DEF FrameFits, From, g
  <2>3. \A k \in 1..(Len(bi[e]) + 1) : k \in 1..Len(bi[e]) \/ k = Len(bi[e]) + 1  BY <1>16
  <2> QED  BY <1>16, <2>1, <2>2, <2>3 DEF FramesFit
<1>20. FramesInOrder(e)'
  <2> SUFFICES ASSUME NEW j \in DOMAIN bi'[e], NEW k \in DOMAIN bi'[e], j < k
               PROVE  bi'[e][j].nonce < bi'[e][k].nonce
    BY DEF FramesInOrder
  <2>1. j \in 1..Len(bi[e])  BY <1>16
  <2>2. CASE k \in 1..Len(bi[e])  BY <1>15, <1>16, <2>1, <2>2 DEF FramesInOrder
  <2>3. CASE k = Len(bi[e]) + 1
    <3>1. bi'[e][k].nonce = Sent(e)  BY <1>4, <1>16, <2>3
    <3> QED  BY <1>16, <1>18, <2>1, <3>1
  <2> QED  BY <1>16, <2>2, <2>3
<1>21. \A m \in Nat : HasFrame(e, m) \/ m = Sent(e) => HasFrame(e, m)'
  <2> SUFFICES ASSUME NEW m \in Nat, HasFrame(e, m) \/ m = Sent(e) PROVE HasFrame(e, m)'
    OBVIOUS
  <2>1. CASE HasFrame(e, m)  BY <1>16, <2>1 DEF HasFrame
  <2>2. CASE m = Sent(e)  BY <1>4, <1>16, <2>2 DEF HasFrame
  <2> QED  BY <2>1, <2>2
<1>22. AllFramesThere(b, e)'
  <2> SUFFICES ASSUME NEW m \in Nat, Due(b, e, m)', m < Sent(e)' PROVE HasFrame(e, m)'
    BY DEF AllFramesThere
  <2>1. Due(b, e, m)  BY <1>0, <1>6, <1>17 DEF Due, From
  <2>2. m < Sent(e) \/ m = Sent(e)  BY <1>0, <1>11
  <2> QED  BY <1>15, <1>21, <2>1, <2>2 DEF AllFramesThere
<1>23. NoFrameMissing(b, e)'
  <2> SUFFICES ASSUME NEW k \in DOMAIN bi'[e], NEW m \in Nat, Due(b, e, m)', m < bi'[e][k].nonce
               PROVE  HasFrame(e, m)'
    BY DEF NoFrameMissing
  <2>1. bi'[e][k].nonce \in Nat /\ bi'[e][k].nonce <= Sent(e)
    <3>1. CASE k \in 1..Len(bi[e])
      <4>1. bi'[e][k].nonce \in Nat /\ bi'[e][k].nonce < Sent(e)  BY <1>16, <1>18, <3>1
      <4> QED  BY <1>0, <4>1
    <3>2. CASE k = Len(bi[e]) + 1
      <4>1. bi'[e][k].nonce = Sent(e)  BY <1>4, <1>16, <3>2
      <4> QED  BY <1>0, <4>1
    <3> QED  BY <1>16, <3>1, <3>2
  <2>2. m < Sent(e)'  BY <1>0, <1>11, <2>1
  <2> QED  BY <1>22, <2>2 DEF AllFramesThere
<1>24. StreamsFit(b, e)'
  <2> SUFFICES ASSUME NEW k \in DOMAIN uni[e] PROVE StreamFits(b, e, uni[e][k])'
    BY <1>6 DEF StreamsFit, StreamFits, Done, From
  <2> DEFINE t == uni[e][k]
  <2>1. StreamFits(b, e, t) /\ t = uni'[e][k]  BY <1>6, <1>15 DEF StreamsFit
  <2>2. Done(o, t.item)' = Done(o, t.item)  BY <1>5, <1>6 DEF Done
  <2>3. t.item \in Nat /\ t.item <= p /\ t.item # p
    BY SMTT(30), <1>0, <1>1, <2>1 DEF StreamFits, From
  <2>4. t.item < pos'[e] /\ t.item <= said'
    <3>1. pos'[e] = p \/ pos'[e] = p + 1  BY <1>5
    <3> QED  BY SMTT(30), <1>0, <1>7, <2>3, <3>1
  <2>5. t.item <= pos'[e] /\ t.item # pos'[e]  BY SMTT(30), <1>0, <1>5, <2>3, <2>4
  <2> QED  BY <1>0, <1>5, <1>6, <2>1, <2>2, <2>4, <2>5 DEF StreamFits, From
<1>25. StreamsInOrder(e)' /\ NoStreamMissing(e)'
  BY <1>0, <1>5, <1>6, <1>15 DEF StreamsInOrder, NoStreamMissing, HasStream, From
<1>26. AllStreamsThere(e)'
  BY <1>0, <1>5, <1>6, <1>15 DEF AllStreamsThere, HasStream, From
<1>27. LastIsOpen(e)'
  <2>1. CASE pos'[e] = p  BY <1>0, <1>6, <2>1 DEF LastIsOpen, Own, At
  <2>2. CASE pos'[e] = p + 1  BY <1>0, <1>7, <2>2 DEF LastIsOpen
  <2> QED  BY <1>5, <2>1, <2>2
<1>28. count'[e] = sealed'[e] + opened[e]  BY <1>6 DEF LinkInv, Opening, OpenedFits
<1>29. Sent(e)' \in Nat /\ Sent(e)' >= Sent(e)  BY <1>0, <1>11
<1> QED
  BY <1>9, <1>12, <1>13, <1>14, <1>19, <1>20, <1>22, <1>23, <1>24, <1>25, <1>26, <1>27, <1>28,
     <1>29, SpeaksInv

OpensUni(e) ==
    /\ Speaks(e, "blob") /\ said < pos[e] /\ open
    /\ uni' = [uni EXCEPT ![e] = Append(@, [item |-> pos[e], frames |-> <<>>, fin |-> FALSE])]
    /\ Began(e)
    /\ UNCHANGED <<script, pos, sealed, opened, count, outbox, part, bi, open, status, why,
                   broke, late, heard>>

LEMMA OpensUniInv ==
    ASSUME NEW b, Ground(b), LinkInv(b), NEW e \in End, OpensUni(e)
    PROVE  LinkInv(b)'
<1> DEFINE o == Other(e)
           p == pos[e]
           t == [item |-> pos[e], frames |-> <<>>, fin |-> FALSE]
<1>0. /\ p \in 1..Len(script) /\ Len(script) \in Nat /\ said \in Nat /\ said < p
      /\ sealed[e] \in Nat /\ part[e] \in Nat /\ uni[e] \in Seq(Stream)
      /\ o \in End /\ o # e /\ Other(o) = e /\ b[e][p] \in Nat
      /\ pos[o] <= p /\ script[p].from = e /\ Own(e) /\ script[p].kind = "blob"
      /\ Sent(e) \in Nat
  <2>1. Own(e) /\ open /\ script[p].kind = "blob" /\ said < p
    BY DEF OpensUni, Speaks, Running, Own, At
  <2> QED  BY <2>1, Numbers, HasTheWord
<1>1. pos[o] \in 1..(Len(script) + 1) /\ part[o] \in Nat  BY <1>0, Numbers
<1>2. /\ script' = script /\ sealed' = sealed /\ opened' = opened /\ count' = count
      /\ part' = part /\ bi' = bi /\ open' = open /\ heard' = heard /\ pos' = pos
      /\ outbox' = outbox /\ open
  BY DEF OpensUni
<1>3. said' = p  BY DEF OpensUni, Began
<1>4. PartFits(e) /\ OutboxFits(b, e) /\ OpenedFits(b, e)
  BY DEF LinkInv, Sealing, Opening
<1>5. part[e] = 0 /\ script[p].frames \in Nat
  BY <1>0, <1>4 DEF PartFits, At, Ground
<1>6. outbox[e] = <<>> /\ sealed[e] = b[e][p]
  <2>1. outbox[e] = <<>>  BY <1>0, <1>4 DEF OutboxFits, At
  <2>2. sealed[e] = b[e][p] + 0  BY <1>0, <1>4, <1>5, <2>1 DEF OutboxFits, At
  <2> QED  BY <1>0, <2>1, <2>2
<1>7. Done(o, p) = 0
  <2>1. CASE pos[o] # p  BY <2>1 DEF Done
  <2>2. CASE pos[o] = p
    <3>1. Sent(e) = b[e][p]  BY <1>0, <1>6 DEF Sent
    <3>2. Reads(o)  BY <1>0, <2>2 DEF Reads, At
    <3>3. b[e][p] + part[o] <= b[e][p]
      BY <1>0, <1>2, <1>4, <2>2, <3>1, <3>2 DEF OpenedFits, Expect
    <3> QED  BY <1>0, <1>1, <2>2, <3>3 DEF Done
  <2> QED  BY <2>1, <2>2
<1>8. SpeaksOn(e)
  <2>1. Still(o)  BY <1>2 DEF Still
  <2>2. \A i \in 1..Len(script) : i <= said' => i <= said \/ i = pos[e]
    <3>1. \A i \in 1..Len(script) : i < p => i <= said  BY SaidBefore
    <3> QED  BY <1>0, <1>3, <3>1
  <2>3. said' \in Nat /\ said' >= said  BY <1>0, <1>3
  <2>4. uni'[o] = uni[o]  BY <1>0 DEF OpensUni, LinkInv, Types
  <2> QED  BY <1>0, <1>2, <2>1, <2>2, <2>3, <2>4 DEF SpeaksOn
<1>9. t \in Stream  BY <1>0 DEF Stream
<1>10. uni'[e] = Append(uni[e], t)  BY DEF OpensUni, LinkInv, Types
<1>11. Types'
  <2>1. uni' \in [End -> Seq(Stream)]
    <3>1. Append(uni[e], t) \in Seq(Stream)  BY <1>0, <1>9, AppendSeq
    <3>2. uni \in [End -> Seq(Stream)]  BY DEF LinkInv, Types
    <3>3. uni' = [uni EXCEPT ![e] = Append(uni[e], t)]  BY DEF OpensUni
    <3> QED  BY <3>1, <3>2, <3>3, Zenon
  <2>2. said' \in 0..Len(script)  BY <1>0, <1>3
  <2> QED  BY <2>1, <2>2 DEF OpensUni, LinkInv, Types
<1>12. PartFits(e)' /\ OutboxFits(b, e)'
  <2>1. PartFits(e)'  BY <1>0, <1>2, <1>4, <1>5 DEF PartFits, Own, Reads, At
  <2>2. OutboxFits(b, e)'  BY <1>2, <1>4 DEF OutboxFits, Own, At, Sent
  <2> QED  BY <2>1, <2>2
<1>13. /\ FramesFit(b, e) /\ FramesInOrder(e) /\ NoFrameMissing(b, e) /\ AllFramesThere(b, e)
       /\ StreamsFit(b, e) /\ StreamsInOrder(e) /\ NoStreamMissing(e) /\ AllStreamsThere(e)
  BY <1>2 DEF LinkInv, Written, Streams
<1>14. Sent(e)' = Sent(e)  BY <1>2 DEF Sent
<1>15. Expect(b, o)' = Expect(b, o)  BY <1>8, SpeaksExpect
<1>16. FramesFit(b, e)'
  <2> SUFFICES ASSUME NEW k \in DOMAIN bi[e] PROVE FrameFits(b, e, bi[e][k])'
    BY <1>2 DEF FramesFit
  <2>1. FrameFits(b, e, bi[e][k])  BY <1>13 DEF FramesFit
  <2>2. bi[e][k].item <= said'
    <3>1. bi[e][k].item \in pos[o]..Len(script) /\ bi[e][k].item <= said  BY <1>0, <2>1 DEF FrameFits
    <3> QED  BY <1>0, <1>1, <1>3, <3>1
  <2> QED  BY <1>0, <1>2, <1>14, <1>15, <2>1, <2>2 DEF FrameFits, From
<1>17. FramesInOrder(e)'  BY <1>2, <1>13 DEF FramesInOrder
<1>18. \A n \in Nat : Due(b, e, n)' => Due(b, e, n)  BY <1>0, <1>2, <1>15 DEF Due, From
<1>19. NoFrameMissing(b, e)' /\ AllFramesThere(b, e)'
  BY <1>2, <1>13, <1>14, <1>18 DEF NoFrameMissing, AllFramesThere, HasFrame
<1>20. /\ Len(uni[e]) \in Nat /\ DOMAIN uni[e] = 1..Len(uni[e]) /\ uni'[e] # <<>>
       /\ Len(uni'[e]) = Len(uni[e]) + 1
       /\ uni'[e][Len(uni[e]) + 1] = t
       /\ \A k \in 1..Len(uni[e]) :
             k \in DOMAIN uni'[e] /\ k # Len(uni[e]) + 1 /\ uni'[e][k] = uni[e][k]
       /\ \A k \in DOMAIN uni'[e] : k \in 1..Len(uni[e]) \/ k = Len(uni[e]) + 1
       /\ DOMAIN uni'[e] = 1..(Len(uni[e]) + 1)
  <2> HIDE DEF t
  <2>1. uni[e] \in Seq(Stream)  BY <1>0
  <2>2. /\ Len(uni[e]) \in Nat /\ DOMAIN uni[e] = 1..Len(uni[e]) /\ uni'[e] # <<>>
        /\ Len(uni'[e]) = Len(uni[e]) + 1
        /\ uni'[e][Len(uni[e]) + 1] = t
        /\ \A k \in 1..Len(uni[e]) : uni'[e][k] = uni[e][k]
        /\ DOMAIN uni'[e] = 1..(Len(uni[e]) + 1)
    BY <1>9, <1>10, <2>1, AppendSeq
  <2> QED  BY <2>2
<1>21. \A i : Done(o, i)' = Done(o, i)  BY <1>2 DEF Done
<1>22. \A k \in 1..Len(uni[e]) : uni[e][k].item \in Nat /\ uni[e][k].item <= said
  <2> SUFFICES ASSUME NEW k \in 1..Len(uni[e])
               PROVE  uni[e][k].item \in Nat /\ uni[e][k].item <= said
    OBVIOUS
  <2>1. StreamFits(b, e, uni[e][k])  BY <1>13, <1>20 DEF StreamsFit
  <2>2. uni[e][k].item \in pos[o]..Len(script) /\ uni[e][k].item <= said  BY <2>1 DEF StreamFits
  <2> QED  BY <1>0, <1>1, <2>2
<1>23. StreamsFit(b, e)'
  <2>1. ASSUME NEW k \in 1..Len(uni[e]) PROVE StreamFits(b, e, uni[e][k])'
    <3> DEFINE u == uni[e][k]
    <3>1. StreamFits(b, e, u) /\ u = uni'[e][k]  BY <1>13, <1>20, <2>1 DEF StreamsFit
    <3>2. u.item <= said'
      <4>1. u.item \in Nat /\ u.item <= said  BY <1>22, <2>1
      <4> QED  BY <1>0, <1>3, <4>1
    <3>3. Done(o, u.item)' = Done(o, u.item)  BY <1>2, <3>1 DEF Done
    <3> QED  BY <1>0, <1>2, <3>1, <3>2, <3>3 DEF StreamFits, From
  <2>2. ASSUME NEW k, k = Len(uni[e]) + 1 PROVE StreamFits(b, e, uni[e][k])'
    <3> DEFINE u == uni'[e][k]
    <3>1. u = t  BY <1>20, <2>2
    <3>2. u.item = p /\ u.frames = <<>> /\ u.fin = FALSE  BY <3>1
    <3>3. Len(u.frames) = 0 /\ DOMAIN u.frames = {}  BY <3>2
    <3>4. p \in pos[o]..Len(script) /\ p <= said'  BY <1>0, <1>1, <1>3
    <3>5. IF pos'[o] = p THEN part'[o] = 0 ELSE TRUE  BY <1>1, <1>2, <1>7 DEF Done
    <3>6. (IF pos'[o] = p THEN part'[o] ELSE 0) = 0  BY <3>5
    <3> HIDE DEF u
    <3>7. /\ u.item \in pos'[Other(e)]..Len(script') /\ u.item <= pos'[e] /\ u.item <= said'
          /\ script'[u.item].from = e /\ script'[u.item].kind = "blob"
      BY <1>0, <1>2, <3>2, <3>4
    <3>8. (IF pos'[o] = u.item THEN part'[o] ELSE 0) + Len(u.frames) = 0
      BY <3>2, <3>3, <3>6
    <3>9. 0 <= script'[u.item].frames /\ 0 <= part'[e]  BY <1>2, <1>5, <3>2
    <3> QED  BY <3>2, <3>3, <3>7, <3>8, <3>9 DEF StreamFits, From, Done, u
  <2> QED  BY <1>20, <2>1, <2>2 DEF StreamsFit
<1>24. StreamsInOrder(e)'
  <2> SUFFICES ASSUME NEW j \in DOMAIN uni'[e], NEW k \in DOMAIN uni'[e], j < k
               PROVE  uni'[e][j].item < uni'[e][k].item
    BY DEF StreamsInOrder
  <2>1. j \in 1..Len(uni[e])  BY <1>20
  <2>2. CASE k \in 1..Len(uni[e])  BY <1>13, <1>20, <2>1, <2>2 DEF StreamsInOrder
  <2>3. CASE k = Len(uni[e]) + 1
    <3>1. uni'[e][k].item = p  BY <1>20, <2>3
    <3>2. uni'[e][j].item \in Nat /\ uni'[e][j].item <= said  BY <1>20, <1>22, <2>1
    <3> QED  BY <1>0, <3>1, <3>2
  <2> QED  BY <1>20, <2>2, <2>3
<1>25. AllStreamsThere(e)'
  <2>1. \A i : HasStream(e, i) => HasStream(e, i)'  BY <1>20 DEF HasStream
  <2> QED  BY <1>2, <1>13, <2>1 DEF AllStreamsThere, From
<1>26. NoStreamMissing(e)'
  <2> SUFFICES ASSUME NEW k \in DOMAIN uni'[e], NEW i \in pos'[Other(e)]..Len(script'),
                      From(i, e, "blob")', i < uni'[e][k].item
               PROVE  HasStream(e, i)'
    BY DEF NoStreamMissing
  <2>1. uni'[e][k].item \in Nat /\ uni'[e][k].item <= p
    <3>1. CASE k \in 1..Len(uni[e])
      <4>1. uni'[e][k].item \in Nat /\ uni'[e][k].item <= said  BY <1>20, <1>22, <3>1
      <4> QED  BY <1>0, <4>1
    <3>2. CASE k = Len(uni[e]) + 1
      <4>1. uni'[e][k].item = p  BY <1>20, <3>2
      <4> QED  BY <1>0, <4>1
    <3> QED  BY <1>20, <3>1, <3>2
  <2>2. i < pos'[e]  BY <1>0, <1>1, <1>2, <2>1
  <2> QED  BY <1>25, <2>2 DEF AllStreamsThere
<1>27. LastIsOpen(e)'
  <2> DEFINE u == uni'[e][Len(uni'[e])]
  <2>1. u = t  BY <1>20
  <2>2. u.item = p /\ Len(u.frames) = 0 /\ u.fin = FALSE  BY <2>1
  <2>3. pos'[e] = p /\ part'[e] = 0 /\ uni'[e] # <<>>  BY <1>2, <1>5, <1>20
  <2>4. (IF pos'[o] = p THEN part'[o] ELSE 0) = 0  BY <1>1, <1>2, <1>7 DEF Done
  <2> HIDE DEF u
  <2>5. (IF pos'[o] = u.item THEN part'[o] ELSE 0) + Len(u.frames) = part'[e]
    BY <2>2, <2>3, <2>4
  <2> QED  BY <2>2, <2>3, <2>5 DEF LastIsOpen, Done, u
<1>28. count'[e] = sealed'[e] + opened[e]  BY <1>2, <1>4 DEF OpenedFits
<1>29. Sent(e)' \in Nat /\ Sent(e)' >= Sent(e)  BY <1>0, <1>14
<1> QED
  BY <1>8, <1>11, <1>12, <1>16, <1>17, <1>19, <1>23, <1>24, <1>25, <1>26, <1>27, <1>28, <1>29,
     SpeaksInv

LEMMA LastSeq ==
    ASSUME NEW S, NEW q \in Seq(S), q # <<>>, NEW x \in S
    PROVE  LET r == [q EXCEPT ![Len(q)] = x] IN
           /\ r \in Seq(S) /\ r # <<>> /\ Len(r) = Len(q) /\ Len(q) \in Nat /\ Len(q) > 0
           /\ DOMAIN q = 1..Len(q) /\ DOMAIN r = 1..Len(q) /\ r[Len(q)] = x
           /\ \A k \in 1..Len(q) : k # Len(q) => r[k] = q[k]
<1>1. Len(q) \in Nat /\ Len(q) > 0 /\ DOMAIN q = 1..Len(q)  OBVIOUS
<1> DEFINE r == [q EXCEPT ![Len(q)] = x]
<1>2. DOMAIN r = 1..Len(q) /\ r[Len(q)] = x /\ \A k \in 1..Len(q) : k # Len(q) => r[k] = q[k]
  <2>1. Len(q) \in DOMAIN q  BY <1>1
  <2> QED  BY <1>1, <2>1, Zenon
<1>3. \A k \in 1..Len(q) : r[k] \in S
  <2>1. \A k \in 1..Len(q) : q[k] \in S  OBVIOUS
  <2> HIDE DEF r
  <2> QED  BY <1>2, <2>1
<1>4. r \in [1..Len(q) -> S]  BY <1>2, <1>3
<1>5. r \in Seq(S) /\ Len(r) = Len(q)  BY <1>1, <1>4
<1>6. r # <<>>  BY <1>1, <1>5
<1> QED  BY <1>1, <1>2, <1>5, <1>6

(* An end writes to, or finishes, the stream it opened last.                 *)
LastStream(e) == uni[e][Len(uni[e])]
OnLast(e, x) == uni' = [uni EXCEPT ![e] = [uni[e] EXCEPT ![Len(uni[e])] = x]]

(* What the two have in common: the streams before the last stay.            *)
LEMMA OnLastStreams ==
    ASSUME NEW b, Ground(b), LinkInv(b), NEW e \in End, SpeaksOn(e), open,
           At(e).kind = "blob", said = pos[e], said' = said, part'[e] \in Nat,
           NEW x \in Stream, OnLast(e, x), x.item = pos[e],
           LET d == Done(Other(e), pos[e]) IN
           /\ d + Len(x.frames) <= At(e).frames
           /\ \A k \in DOMAIN x.frames :
                 /\ x.frames[k].nonce = b[e][pos[e]] + d + k - 1
                 /\ x.frames[k].nonce + b[Other(e)][pos[e]] < RekeyAfter
           /\ \/ pos'[e] = pos[e] /\ ~x.fin /\ d + Len(x.frames) = part'[e]
              \/ pos'[e] = pos[e] + 1 /\ d + Len(x.frames) = At(e).frames
    PROVE  /\ uni' \in [End -> Seq(Stream)]
           /\ StreamsFit(b, e)' /\ StreamsInOrder(e)' /\ NoStreamMissing(e)'
           /\ AllStreamsThere(e)' /\ LastIsOpen(e)'
<1> DEFINE o == Other(e)
           p == pos[e]
           z == Len(uni[e])
           d == Done(Other(e), pos[e])
<1>0. /\ p \in 1..Len(script) /\ Len(script) \in Nat /\ said \in Nat
      /\ uni[e] \in Seq(Stream) /\ o \in End /\ o # e /\ Other(o) = e
      /\ pos[o] <= p /\ script[p].from = e /\ Own(e) /\ script[p].kind = "blob"
  <2>1. Own(e) /\ script[p].kind = "blob"  BY DEF SpeaksOn, At
  <2> QED  BY <2>1, Numbers, HasTheWord
<1>1. pos[o] \in 1..(Len(script) + 1) /\ part[o] \in Nat  BY <1>0, Numbers
<1>2. /\ script' = script /\ pos'[o] = pos[o] /\ part'[o] = part[o] /\ open' = open
      /\ \A i : Done(o, i)' = Done(o, i)
  BY DEF SpeaksOn, Still, Done
<1>3. /\ StreamsFit(b, e) /\ StreamsInOrder(e) /\ NoStreamMissing(e) /\ AllStreamsThere(e)
      /\ uni[e] # <<>> /\ uni[e][z].item = p
  <2>1. /\ StreamsFit(b, e) /\ StreamsInOrder(e) /\ NoStreamMissing(e) /\ AllStreamsThere(e)
        /\ LastIsOpen(e)
    BY DEF LinkInv, Streams
  <2>2. said >= p  BY <1>0
  <2> QED  BY <1>0, <2>1, <2>2 DEF LastIsOpen, At
<1>4. uni'[e] = [uni[e] EXCEPT ![z] = x]  BY DEF OnLast, LinkInv, Types
<1>5. /\ uni'[e] \in Seq(Stream) /\ uni'[e] # <<>> /\ Len(uni'[e]) = z /\ z \in Nat /\ z > 0
      /\ DOMAIN uni[e] = 1..z /\ DOMAIN uni'[e] = 1..z /\ uni'[e][z] = x
      /\ \A k \in 1..z : k # z => uni'[e][k] = uni[e][k]
  BY <1>0, <1>3, <1>4, LastSeq
<1>6. uni' \in [End -> Seq(Stream)]
  <2>1. uni \in [End -> Seq(Stream)]  BY DEF LinkInv, Types
  <2>2. uni' = [uni EXCEPT ![e] = uni'[e]]  BY <1>4 DEF OnLast
  <2>3. uni'[e] \in Seq(Stream)  BY <1>5
  <2> QED  BY <2>1, <2>2, <2>3, Zenon
<1>7. \A k \in 1..z : uni'[e][k].item = uni[e][k].item
  <2> SUFFICES ASSUME NEW k \in 1..z PROVE uni'[e][k].item = uni[e][k].item  OBVIOUS
  <2>1. CASE k = z  BY <1>3, <1>5, <2>1
  <2>2. CASE k # z  BY <1>5, <2>2
  <2> QED  BY <2>1, <2>2
<1>8. \A i : HasStream(e, i)' <=> HasStream(e, i)  BY <1>5, <1>7 DEF HasStream
<1>9. pos'[e] = p \/ pos'[e] = p + 1  OBVIOUS
<1>10. \A k \in 1..z : k # z => uni[e][k].item \in Nat /\ uni[e][k].item < p
  <2> SUFFICES ASSUME NEW k \in 1..z, k # z PROVE uni[e][k].item \in Nat /\ uni[e][k].item < p
    OBVIOUS
  <2>1. StreamFits(b, e, uni[e][k])  BY <1>3, <1>5 DEF StreamsFit
  <2>2. uni[e][k].item \in pos[o]..Len(script)  BY <2>1 DEF StreamFits
  <2>3. k < z /\ z \in DOMAIN uni[e] /\ k \in DOMAIN uni[e]  BY <1>5
  <2>4. uni[e][k].item < uni[e][z].item  BY <1>3, <2>3 DEF StreamsInOrder
  <2> QED  BY <1>0, <1>1, <1>3, <2>2, <2>4
<1>11. StreamsFit(b, e)'
  <2>1. ASSUME NEW k \in 1..z, k # z PROVE StreamFits(b, e, uni[e][k])'
    <3> DEFINE u == uni[e][k]
    <3>1. StreamFits(b, e, u) /\ u = uni'[e][k]  BY <1>3, <1>5, <2>1 DEF StreamsFit
    <3>2. u.item \in Nat /\ u.item < p  BY <1>10, <2>1
    <3>3. u.item < pos'[e] /\ u.item <= pos'[e] /\ u.item # pos'[e]  BY <1>0, <1>9, <3>2
    <3>4. Done(o, u.item)' = Done(o, u.item)  BY <1>2, <3>1 DEF Done
    <3> QED  BY <1>0, <1>2, <3>1, <3>3, <3>4 DEF StreamFits, From
  <2>2. ASSUME NEW k, k = z PROVE StreamFits(b, e, uni[e][k])'
    <3> DEFINE u == uni'[e][k]
    <3>1. u = x  BY <1>5, <2>2
    <3>2. p \in pos[o]..Len(script) /\ p <= pos'[e] /\ p <= said'  BY <1>0, <1>1, <1>9
    <3>3. d = IF pos'[o] = x.item THEN part'[o] ELSE 0  BY <1>2 DEF Done
    <3> DEFINE c == IF pos'[o] = x.item THEN part'[o] ELSE 0
    <3>4. /\ c + Len(x.frames) <= script'[x.item].frames
          /\ \A j \in DOMAIN x.frames :
                 /\ x.frames[j].nonce = b[e][x.item] + c + j - 1
                 /\ x.frames[j].nonce + b[o][x.item] < RekeyAfter
      BY <1>2, <3>3 DEF At
    <3>5. x.item = pos'[e] => c + Len(x.frames) <= part'[e]
      <4>1. CASE pos'[e] = p
        <5>1. c + Len(x.frames) = part'[e]  BY <1>0, <3>3, <4>1
        <5> QED  BY <5>1
      <4>2. CASE pos'[e] = p + 1  BY <1>0, <4>2
      <4> QED  BY <1>9, <4>1, <4>2
    <3>6. x.fin => x.item < pos'[e] /\ c + Len(x.frames) = script'[x.item].frames
      <4>1. CASE pos'[e] = p  BY <1>0, <4>1
      <4>2. CASE pos'[e] = p + 1  BY <1>0, <1>2, <3>3, <4>2 DEF At
      <4> QED  BY <1>9, <4>1, <4>2
    <3>7. /\ x.item \in pos'[o]..Len(script') /\ x.item <= pos'[e] /\ x.item <= said'
          /\ script'[x.item].from = e /\ script'[x.item].kind = "blob"
      BY <1>0, <1>2, <3>2
    <3> QED  BY <3>1, <3>4, <3>5, <3>6, <3>7 DEF StreamFits, From, Done
  <2> QED  BY <1>5, <2>1, <2>2 DEF StreamsFit
<1>12. StreamsInOrder(e)'  BY <1>3, <1>5, <1>7 DEF StreamsInOrder
<1>13. NoStreamMissing(e)'
  BY <1>2, <1>3, <1>5, <1>7, <1>8 DEF NoStreamMissing, From
<1>14. AllStreamsThere(e)'
  <2> SUFFICES ASSUME NEW i \in pos[o]..Len(script), From(i, e, "blob"), i < pos'[e]
               PROVE  HasStream(e, i)
    BY <1>2, <1>8 DEF AllStreamsThere, From
  <2>1. CASE i = p
    <3>1. z \in DOMAIN uni[e]  BY <1>5
    <3> QED  BY <1>3, <2>1, <3>1 DEF HasStream
  <2>2. CASE i # p
    <3>1. i < p  BY <1>0, <1>1, <1>9, <2>2
    <3> QED  BY <1>3, <3>1 DEF AllStreamsThere
  <2> QED  BY <2>1, <2>2
<1>15. LastIsOpen(e)'
  <2>1. CASE pos'[e] = p + 1  BY <1>0, <2>1 DEF LastIsOpen
  <2>2. CASE pos'[e] = p
    <3>1. uni'[e][Len(uni'[e])] = x  BY <1>5
    <3>2. x.item = pos'[e] /\ ~x.fin /\ d + Len(x.frames) = part'[e]  BY <1>0, <2>2
    <3>3. d = IF pos'[o] = x.item THEN part'[o] ELSE 0  BY <1>2 DEF Done
    <3> QED  BY <1>5, <3>1, <3>2, <3>3 DEF LastIsOpen, Done
  <2> QED  BY <1>9, <2>1, <2>2
<1> QED  BY <1>6, <1>11, <1>12, <1>13, <1>14, <1>15

Segments(e) ==
    /\ Speaks(e, "blob") /\ said = pos[e] /\ part[e] < At(e).frames
    /\ open /\ ~NeedsRekey(e, 0)
    /\ uni' = [uni EXCEPT ![e][Len(uni[e])].frames = @ \o Sealed(e, 1)]
    /\ Seal(e, 1)
    /\ part' = [part EXCEPT ![e] = @ + 1]
    /\ UNCHANGED <<script, pos, opened, outbox, bi, open, status, why, broke, late, said, heard>>

LEMMA SegmentsInv ==
    ASSUME NEW b, Ground(b), LinkInv(b), NEW e \in End, Segments(e)
    PROVE  LinkInv(b)'
<1> DEFINE o == Other(e)
           p == pos[e]
           t == LastStream(e)
           f == [nonce |-> sealed[e], item |-> pos[e]]
           x == [t EXCEPT !.frames = Append(t.frames, f)]
           d == Done(Other(e), pos[e])
<1>0. /\ p \in 1..Len(script) /\ Len(script) \in Nat /\ said \in Nat /\ said = p
      /\ sealed[e] \in Nat /\ opened[e] \in Nat /\ count[e] \in Nat /\ part[e] \in Nat
      /\ uni[e] \in Seq(Stream) /\ bi[e] \in Seq(Frame)
      /\ o \in End /\ o # e /\ Other(o) = e /\ b[e][p] \in Nat /\ b[o][p] \in Nat
      /\ pos[o] <= p /\ script[p].from = e /\ Own(e) /\ script[p].kind = "blob"
      /\ Sent(e) \in Nat /\ open
  <2>1. Own(e) /\ open /\ script[p].kind = "blob" /\ said = p
    BY DEF Segments, Speaks, Running, Own, At
  <2> QED  BY <2>1, Numbers, HasTheWord
<1>1. pos[o] \in 1..(Len(script) + 1) /\ part[o] \in Nat /\ Expect(b, o) \in Nat
  BY <1>0, Numbers
<1>2. /\ script' = script /\ opened' = opened /\ bi' = bi /\ open' = open /\ heard' = heard
      /\ pos' = pos /\ outbox' = outbox /\ said' = said
  BY DEF Segments
<1>3. /\ sealed'[e] = sealed[e] + 1 /\ count'[e] = count[e] + 1 /\ part'[e] = part[e] + 1
      /\ sealed'[o] = sealed[o] /\ count'[o] = count[o] /\ part'[o] = part[o]
      /\ uni'[o] = uni[o]
  BY <1>0 DEF Segments, Seal, LinkInv, Types
<1>4. PartFits(e) /\ OutboxFits(b, e) /\ OpenedFits(b, e)  BY DEF LinkInv, Sealing, Opening
<1>5. /\ script[p].frames \in Nat /\ part[e] < script[p].frames
      /\ b[e][p + 1] = b[e][p] + script[p].frames
  BY <1>0 DEF Segments, At, Ground
<1>6. outbox[e] = <<>> /\ sealed[e] = b[e][p] + part[e]
  <2>1. outbox[e] = <<>>  BY <1>0, <1>4 DEF OutboxFits, At
  <2> QED  BY <1>0, <1>4, <2>1 DEF OutboxFits, At
<1>7. Sent(e) = sealed[e] /\ Sent(e)' = sealed[e] + 1  BY <1>0, <1>2, <1>3, <1>6 DEF Sent
<1>8. opened[e] = b[o][p] /\ count[e] = sealed[e] + opened[e]
  <2>1. opened[e] = Expect(b, e)  BY <1>0, <1>4 DEF LinkInv, Places, OpenedFits
  <2> QED  BY <1>0, <1>4, <2>1 DEF Expect, Reads, At, OpenedFits
<1>9. sealed[e] + b[o][p] < RekeyAfter
  <2>1. ~(count[e] + 0 >= RekeyAfter)  BY DEF Segments, NeedsRekey
  <2> QED  BY <1>0, <1>8, <2>1, LimitType
<1>10. SpeaksOn(e)
  <2>1. Still(o)  BY <1>2, <1>3 DEF Still
  <2>2. said' \in Nat /\ said' >= said  BY <1>0, <1>2
  <2> QED  BY <1>0, <1>2, <1>3, <2>1, <2>2 DEF SpeaksOn
<1>11. /\ uni[e] # <<>> /\ t.item = p /\ ~t.fin /\ d + Len(t.frames) = part[e] /\ t \in Stream
       /\ StreamFits(b, e, t)
  <2>1. LastIsOpen(e) /\ StreamsFit(b, e)  BY <1>0 DEF LinkInv, Streams
  <2>2. said >= p  BY <1>0
  <2>3. /\ uni[e] # <<>> /\ t.item = p /\ ~t.fin /\ Done(o, t.item) + Len(t.frames) = part[e]
    BY <1>0, <2>1, <2>2 DEF LastIsOpen, At, LastStream
  <2>4. Len(uni[e]) \in DOMAIN uni[e] /\ t \in Stream  BY <1>0, <2>3 DEF LastStream
  <2> QED  BY <2>1, <2>3, <2>4 DEF StreamsFit, LastStream
<1>12. f \in Frame /\ t.frames \in Seq(Frame) /\ Len(t.frames) \in Nat /\ d \in Nat
  BY <1>0, <1>1, <1>11 DEF Frame, Stream, Done
<1>13. /\ Append(t.frames, f) \in Seq(Frame) /\ Len(Append(t.frames, f)) = Len(t.frames) + 1
       /\ DOMAIN t.frames = 1..Len(t.frames)
       /\ DOMAIN Append(t.frames, f) = 1..(Len(t.frames) + 1)
       /\ Append(t.frames, f)[Len(t.frames) + 1] = f
       /\ \A k \in 1..Len(t.frames) : Append(t.frames, f)[k] = t.frames[k]
  <2> HIDE DEF f, t
  <2> QED  BY <1>12, AppendSeq
<1>14. x \in Stream /\ x.item = p /\ ~x.fin /\ x.frames = Append(t.frames, f)
  <2> HIDE DEF f, t
  <2> QED  BY <1>11, <1>13 DEF Stream
<1>15. OnLast(e, x)
  <2>1. Sealed(e, 1) = <<f>>
    <3>1. sealed[e] + 1 - 1 = sealed[e]  BY <1>0
    <3>2. Sealed(e, 1) = [i \in 1..1 |-> [nonce |-> sealed[e] + i - 1, item |-> pos[e]]]
      BY DEF Sealed
    <3>3. DOMAIN Sealed(e, 1) = 1..1 /\ Sealed(e, 1)[1] = f  BY <3>1, <3>2
    <3>4. Sealed(e, 1) \in Seq(Frame) /\ Len(Sealed(e, 1)) = 1
      <4>1. Sealed(e, 1) \in [1..1 -> Frame]  BY <1>12, <3>1, <3>2, <3>3
      <4> DEFINE q == Sealed(e, 1)
                 m == 1
      <4>2. m \in Nat /\ q \in [1..m -> Frame]  BY <4>1
      <4> HIDE DEF q, m
      <4>3. q \in Seq(Frame) /\ Len(q) = m  BY <4>2
      <4> QED  BY <4>3 DEF q, m
    <3> QED  BY <3>3, <3>4
  <2>2. t.frames \o Sealed(e, 1) = Append(t.frames, f)
    <3>1. t.frames \o <<f>> = Append(t.frames, f)
      <4> DEFINE q == t.frames
      <4>1. f \in Frame /\ q \in Seq(Frame)  BY <1>12
      <4> HIDE DEF f, q
      <4>2. q \o <<f>> = Append(q, f)  BY <4>1
      <4> QED  BY <4>2 DEF q
    <3> QED  BY <2>1, <3>1, Zenon
  <2>3. uni' = [uni EXCEPT ![e] = [uni[e] EXCEPT ![Len(uni[e])] =
                  [t EXCEPT !.frames = t.frames \o Sealed(e, 1)]]]
    BY DEF Segments, LastStream
  <2> QED  BY <2>2, <2>3, Zenon DEF OnLast
<1>16. /\ d + Len(x.frames) = part[e] + 1 /\ d + Len(x.frames) <= At(e).frames
  <2>1. Len(x.frames) = Len(t.frames) + 1  BY <1>13, <1>14, Zenon
  <2>2. At(e).frames = script[p].frames  BY DEF At
  <2>3. d + Len(t.frames) = part[e] /\ part[e] \in Nat  BY <1>0, <1>11
  <2>4. d \in Nat /\ Len(t.frames) \in Nat  BY <1>12
  <2> HIDE DEF d, x, t
  <2> QED  BY <1>5, <2>1, <2>2, <2>3, <2>4
<1>17. \A k \in DOMAIN x.frames :
         /\ x.frames[k].nonce = b[e][pos[e]] + d + k - 1
         /\ x.frames[k].nonce + b[Other(e)][pos[e]] < RekeyAfter
  <2> SUFFICES ASSUME NEW k \in 1..(Len(t.frames) + 1)
               PROVE  /\ Append(t.frames, f)[k].nonce = b[e][p] + d + k - 1
                      /\ Append(t.frames, f)[k].nonce + b[o][p] < RekeyAfter
    BY <1>13, <1>14
  <2>1. CASE k \in 1..Len(t.frames)
    <3>1. /\ t.frames[k].nonce = b[e][t.item] + Done(o, t.item) + k - 1
          /\ t.frames[k].nonce + b[o][t.item] < RekeyAfter
      BY <1>11, <1>13, <2>1 DEF StreamFits
    <3> QED  BY <1>11, <1>13, <2>1, <3>1
  <2>2. CASE k = Len(t.frames) + 1
    <3>1. Append(t.frames, f)[k].nonce = sealed[e]  BY <1>13, <2>2
    <3>2. sealed[e] = b[e][p] + d + k - 1  BY <1>0, <1>6, <1>11, <1>12, <2>2
    <3> QED  BY <1>9, <3>1, <3>2
  <2> QED  BY <1>12, <2>1, <2>2
<1>18. /\ uni' \in [End -> Seq(Stream)]
       /\ StreamsFit(b, e)' /\ StreamsInOrder(e)' /\ NoStreamMissing(e)'
       /\ AllStreamsThere(e)' /\ LastIsOpen(e)'
  <2>1. part'[e] \in Nat /\ pos'[e] = pos[e] /\ said = pos[e] /\ said' = said
    BY SMTT(30), <1>0, <1>2, <1>3
  <2>2. d + Len(x.frames) = part'[e]  BY <1>3, <1>16
  <2>3. At(e).kind = "blob"  BY <1>0 DEF At
  <2> HIDE DEF x, d
  <2> QED
    BY <1>0, <1>10, <1>14, <1>15, <1>16, <1>17, <2>1, <2>2, <2>3, OnLastStreams DEF d
<1>19. Types'
  <2>1. sealed[e] + 1 \in Nat /\ count[e] + 1 \in Nat /\ part[e] + 1 \in Nat  BY SMTT(30), <1>0
  <2>2. sealed' \in [End -> Nat] /\ count' \in [End -> Nat] /\ part' \in [End -> Nat]
    <3>1. sealed \in [End -> Nat] /\ count \in [End -> Nat] /\ part \in [End -> Nat]
      BY DEF LinkInv, Types
    <3>2. /\ sealed' = [sealed EXCEPT ![e] = sealed[e] + 1]
          /\ count' = [count EXCEPT ![e] = count[e] + 1]
          /\ part' = [part EXCEPT ![e] = part[e] + 1]
      BY DEF Segments, Seal
    <3> QED  BY <2>1, <3>1, <3>2, Zenon
  <2> QED  BY <1>18, <2>2 DEF Segments, LinkInv, Types
<1>20. PartFits(e)'
  <2>1. part'[e] <= script[p].frames  BY SMTT(30), <1>0, <1>3, <1>5
  <2>2. ~(said < p)  BY <1>0
  <2> QED  BY <1>0, <1>2, <2>1, <2>2 DEF PartFits, Own, Reads, At
<1>21. OutboxFits(b, e)'
  <2>1. outbox'[e] = <<>> /\ DOMAIN outbox'[e] = {}  BY <1>2, <1>6
  <2>2. sealed'[e] = b[e][p] + part'[e]
    <3>1. b[e][p] \in Nat /\ part[e] \in Nat /\ sealed[e] \in Nat  BY <1>0
    <3> QED  BY <1>3, <1>6, <3>1
  <2> QED  BY <1>0, <1>2, <2>1, <2>2 DEF OutboxFits, Own, At
<1>22. /\ FramesFit(b, e) /\ FramesInOrder(e) /\ NoFrameMissing(b, e) /\ AllFramesThere(b, e)
  BY <1>0 DEF LinkInv, Written
<1>23. Expect(b, o)' = Expect(b, o)  BY <1>10, SpeaksExpect
<1>24. FramesFit(b, e)'
  <2> SUFFICES ASSUME NEW k \in DOMAIN bi[e] PROVE FrameFits(b, e, bi[e][k])'
    BY <1>2 DEF FramesFit
  <2>1. FrameFits(b, e, bi[e][k])  BY <1>22 DEF FramesFit
  <2>2. bi[e][k] \in Frame  BY <1>0
  <2>3. bi[e][k].nonce < Sent(e)'
    <3>1. bi[e][k].nonce \in Nat /\ bi[e][k].nonce < Sent(e)  BY <2>1, <2>2 DEF Frame, FrameFits
    <3> QED  BY <1>0, <1>7, <3>1
  <2> QED  BY <1>0, <1>2, <1>23, <2>1, <2>3 DEF FrameFits, From
<1>25. FramesInOrder(e)'  BY <1>2, <1>22 DEF FramesInOrder
<1>26. \A n \in Nat : Due(b, e, n)' => Due(b, e, n)  BY <1>0, <1>2, <1>23 DEF Due, From
<1>27. NoFrameMissing(b, e)'  BY <1>2, <1>22, <1>26 DEF NoFrameMissing, HasFrame
<1>28. ~Due(b, e, sealed[e])
  <2> SUFFICES ASSUME NEW i \in 1..Len(script), From(i, e, "message"),
                      b[e][i] <= sealed[e], sealed[e] < b[e][i + 1]
               PROVE  FALSE
    BY DEF Due
  <2>1. i # p  BY <1>0 DEF From
  <2>2. /\ i \in 1..(Len(script) + 1) /\ i + 1 \in 1..(Len(script) + 1) /\ i \in Nat
        /\ p \in 1..(Len(script) + 1) /\ p + 1 \in 1..(Len(script) + 1) /\ p \in Nat
    BY SMTT(30), <1>0
  <2>3. b[e][p] \in Nat /\ part[e] \in Nat /\ sealed[e] \in Nat  BY <1>0
  <2>4. CASE i < p
    <3>1. i + 1 <= p  BY <2>2, <2>4
    <3>2. b[e][i + 1] \in Nat /\ b[e][i + 1] <= b[e][p]  BY <2>2, <3>1, TallyOrder
    <3> QED  BY <1>6, <2>3, <3>2
  <2>5. CASE i > p
    <3>1. p + 1 <= i  BY <2>2, <2>5
    <3>2. b[e][i] \in Nat /\ b[e][p + 1] \in Nat /\ b[e][p + 1] <= b[e][i]
      BY <2>2, <3>1, TallyOrder
    <3> QED  BY SMTT(30), <1>5, <1>6, <2>3, <3>2
  <2> QED  BY <2>1, <2>2, <2>4, <2>5
<1>29. AllFramesThere(b, e)'
  <2> SUFFICES ASSUME NEW m \in Nat, Due(b, e, m)', m < Sent(e)' PROVE HasFrame(e, m)'
    BY DEF AllFramesThere
  <2>1. Due(b, e, m)  BY <1>26
  <2>2. m # sealed[e]  BY <1>28, <2>1
  <2>3. m < Sent(e)  BY <1>0, <1>7, <2>2
  <2>4. HasFrame(e, m)  BY <1>22, <2>1, <2>3 DEF AllFramesThere
  <2> QED  BY <1>2, <2>4 DEF HasFrame
<1>30. count'[e] = sealed'[e] + opened[e]
  <2>1. count[e] \in Nat /\ opened[e] \in Nat /\ sealed[e] \in Nat  BY <1>0
  <2> QED  BY <1>3, <1>8, <2>1
<1>31. Sent(e)' \in Nat /\ Sent(e)' >= Sent(e)  BY SMTT(30), <1>0, <1>7
<1> QED
  BY <1>10, <1>18, <1>19, <1>20, <1>21, <1>24, <1>25, <1>27, <1>29, <1>30, <1>31, SpeaksInv

Finishes(e) ==
    /\ Speaks(e, "blob") /\ said = pos[e] /\ part[e] = At(e).frames /\ open
    /\ uni' = [uni EXCEPT ![e][Len(uni[e])].fin = TRUE]
    /\ part' = [part EXCEPT ![e] = 0]
    /\ pos' = [pos EXCEPT ![e] = @ + 1]
    /\ UNCHANGED <<script, sealed, opened, count, outbox, bi, open, status, why, broke, late,
                   said, heard>>

LEMMA FinishesInv ==
    ASSUME NEW b, Ground(b), LinkInv(b), NEW e \in End, Finishes(e)
    PROVE  LinkInv(b)'
<1> DEFINE o == Other(e)
           p == pos[e]
           t == LastStream(e)
           x == [t EXCEPT !.fin = TRUE]
           d == Done(Other(e), pos[e])
<1>0. /\ p \in 1..Len(script) /\ Len(script) \in Nat /\ said \in Nat /\ said = p
      /\ sealed[e] \in Nat /\ part[e] \in Nat
      /\ uni[e] \in Seq(Stream) /\ bi[e] \in Seq(Frame)
      /\ o \in End /\ o # e /\ Other(o) = e /\ b[e][p] \in Nat
      /\ script[p].from = e /\ Own(e) /\ script[p].kind = "blob"
      /\ Sent(e) \in Nat /\ open
  <2>1. Own(e) /\ open /\ script[p].kind = "blob" /\ said = p
    BY DEF Finishes, Speaks, Running, Own, At
  <2> QED  BY <2>1, Numbers, HasTheWord
<1>1. pos[o] \in 1..(Len(script) + 1)  BY <1>0, Numbers
<1>2. /\ script' = script /\ opened' = opened /\ bi' = bi /\ open' = open /\ heard' = heard
      /\ outbox' = outbox /\ said' = said /\ sealed' = sealed /\ count' = count
  BY DEF Finishes
<1>3. /\ pos'[e] = p + 1 /\ part'[e] = 0 /\ pos'[o] = pos[o] /\ part'[o] = part[o]
      /\ uni'[o] = uni[o]
  BY <1>0 DEF Finishes, LinkInv, Types
<1>4. OutboxFits(b, e) /\ OpenedFits(b, e)  BY DEF LinkInv, Sealing, Opening
<1>5. /\ script[p].frames \in Nat /\ part[e] = script[p].frames
      /\ b[e][p + 1] = b[e][p] + script[p].frames
  BY <1>0 DEF Finishes, At, Ground
<1>6. outbox[e] = <<>> /\ sealed[e] = b[e][p] + part[e]
  <2>1. outbox[e] = <<>>  BY <1>0, <1>4 DEF OutboxFits, At
  <2> QED  BY <1>0, <1>4, <2>1 DEF OutboxFits, At
<1>7. SpeaksOn(e)
  <2>1. Still(o)  BY <1>2, <1>3 DEF Still
  <2>2. said' \in Nat /\ said' >= said /\ p <= said'  BY <1>0, <1>2
  <2> QED  BY <1>0, <1>2, <1>3, <2>1, <2>2 DEF SpeaksOn
<1>8. /\ uni[e] # <<>> /\ t.item = p /\ d + Len(t.frames) = part[e] /\ t \in Stream
      /\ StreamFits(b, e, t)
  <2>1. LastIsOpen(e) /\ StreamsFit(b, e)  BY <1>0 DEF LinkInv, Streams
  <2>2. said >= p  BY <1>0
  <2>3. /\ uni[e] # <<>> /\ t.item = p /\ Done(o, t.item) + Len(t.frames) = part[e]
    BY <1>0, <2>1, <2>2 DEF LastIsOpen, At, LastStream
  <2>4. Len(uni[e]) \in DOMAIN uni[e] /\ t \in Stream  BY <1>0, <2>3 DEF LastStream
  <2> QED  BY <2>1, <2>3, <2>4 DEF StreamsFit, LastStream
<1>9. x \in Stream /\ x.item = p /\ x.frames = t.frames
  <2> HIDE DEF t
  <2> QED  BY <1>8 DEF Stream
<1>10. OnLast(e, x)  BY DEF Finishes, LastStream, OnLast
<1>11. d + Len(x.frames) = At(e).frames /\ At(e).frames \in Nat
  BY <1>5, <1>8, <1>9 DEF At
<1>12. \A k \in DOMAIN x.frames :
         /\ x.frames[k].nonce = b[e][pos[e]] + d + k - 1
         /\ x.frames[k].nonce + b[Other(e)][pos[e]] < RekeyAfter
  BY <1>8, <1>9 DEF StreamFits
<1>13. /\ uni' \in [End -> Seq(Stream)]
       /\ StreamsFit(b, e)' /\ StreamsInOrder(e)' /\ NoStreamMissing(e)'
       /\ AllStreamsThere(e)' /\ LastIsOpen(e)'
  <2>1. part'[e] \in Nat /\ pos'[e] = pos[e] + 1 /\ said = pos[e] /\ said' = said
    BY <1>0, <1>2, <1>3
  <2>2. At(e).kind = "blob"  BY <1>0 DEF At
  <2>3. d + Len(x.frames) <= At(e).frames  BY <1>11
  <2> HIDE DEF x, d
  <2> QED
    BY <1>0, <1>7, <1>9, <1>10, <1>11, <1>12, <2>1, <2>2, <2>3, OnLastStreams DEF d
<1>14. Types'
  <2>1. pos' \in [End -> 1..(Len(script) + 1)]
    <3>1. p + 1 \in 1..(Len(script) + 1)  BY <1>0
    <3> QED  BY <3>1 DEF Finishes, LinkInv, Types
  <2>2. part' \in [End -> Nat]  BY DEF Finishes, LinkInv, Types
  <2> QED  BY <1>13, <2>1, <2>2 DEF Finishes, LinkInv, Types
<1>15. PartFits(e)'
  <2>1. p + 1 <= Len(script) => /\ script[p + 1].frames \in Nat
                                /\ script[p + 1].kind = "message" => script[p + 1].frames > 0
    BY <1>0 DEF Ground
  <2> QED  BY <1>2, <1>3, <2>1 DEF PartFits, Own, Reads, At
<1>16. OutboxFits(b, e)'
  <2>1. outbox'[e] = <<>> /\ DOMAIN outbox'[e] = {}  BY <1>2, <1>6
  <2>2. sealed'[e] = b[e][pos'[e]] + 0 /\ part'[e] = 0
    <3>1. b[e][p] \in Nat /\ sealed[e] \in Nat  BY <1>0
    <3> QED  BY <1>2, <1>3, <1>5, <1>6, <3>1
  <2>3. sealed'[e] = b[e][pos'[e]] + (IF Own(e)' /\ At(e)'.kind = "blob" THEN part'[e] ELSE 0)
    BY <2>2
  <2> QED  BY <2>1, <2>3 DEF OutboxFits
<1>17. /\ FramesFit(b, e) /\ FramesInOrder(e) /\ NoFrameMissing(b, e) /\ AllFramesThere(b, e)
  BY <1>0 DEF LinkInv, Written
<1>18. Expect(b, o)' = Expect(b, o) /\ Sent(e)' = Sent(e)  BY <1>2, <1>7, SpeaksExpect DEF Sent
<1>19. FramesFit(b, e)'
  <2> SUFFICES ASSUME NEW k \in DOMAIN bi[e] PROVE FrameFits(b, e, bi[e][k])'
    BY <1>2 DEF FramesFit
  <2>1. FrameFits(b, e, bi[e][k])  BY <1>17 DEF FramesFit
  <2>2. bi[e][k].item <= pos'[e]
    <3>1. bi[e][k].item \in pos[o]..Len(script) /\ bi[e][k].item <= p  BY <2>1 DEF FrameFits
    <3> QED  BY SMTT(30), <1>0, <1>1, <1>3, <3>1
  <2> QED  BY <1>0, <1>2, <1>3, <1>18, <2>1, <2>2 DEF FrameFits, From
<1>20. FramesInOrder(e)'  BY <1>2, <1>17 DEF FramesInOrder
<1>21. \A n \in Nat : Due(b, e, n)' => Due(b, e, n)  BY <1>0, <1>2, <1>18 DEF Due, From
<1>22. NoFrameMissing(b, e)' /\ AllFramesThere(b, e)'
  BY <1>2, <1>17, <1>18, <1>21 DEF NoFrameMissing, AllFramesThere, HasFrame
<1>23. count'[e] = sealed'[e] + opened[e]  BY <1>2, <1>4 DEF OpenedFits
<1>24. Sent(e)' \in Nat /\ Sent(e)' >= Sent(e)  BY <1>0, <1>18
<1> QED
  BY <1>7, <1>13, <1>14, <1>15, <1>16, <1>19, <1>20, <1>22, <1>23, <1>24, SpeaksInv

----------------------------------------------------------------------------
(* Listening.                                                               *)

(* A step of an end that reads an item the other has begun: it reads on, or  *)
(* has heard the item.                                                       *)
ListensOn(e) ==
    /\ Reads(e) /\ script' = script /\ Still(Other(e))
    /\ sealed'[e] = sealed[e] /\ outbox'[e] = outbox[e]
    /\ bi'[e] = bi[e] /\ uni'[e] = uni[e] /\ open' = open /\ said' = said
    /\ pos[e] <= pos[Other(e)] /\ pos[e] <= said
    /\ \/ /\ pos'[e] = pos[e] /\ heard' = heard
          /\ part'[e] \in Nat /\ part'[e] <= At(e).frames
          /\ At(e).kind = "message" => part'[e] < At(e).frames
       \/ /\ pos'[e] = pos[e] + 1 /\ part'[e] = 0
          /\ open => pos[Other(e)] > pos[e]
          /\ \E w \in Word : heard' = Append(heard, w) /\ (open => w.whole)

LEMMA ListensPlaces ==
    ASSUME NEW b, Ground(b), LinkInv(b), NEW e \in End, ListensOn(e)
    PROVE  Places'
<1> DEFINE o == Other(e)
           p == pos[e]
<1>0. /\ p \in 1..(Len(script) + 1) /\ Len(script) \in Nat /\ o \in End /\ o # e
      /\ Other(o) = e /\ said \in Nat
  BY Numbers
<1>1. pos[o] \in 1..(Len(script) + 1)  BY <1>0, Numbers
<1>2. p \in 1..Len(script) /\ script[p].from = o
  <2>1. p \in 1..Len(script) /\ script[p].from # e  BY <1>0 DEF ListensOn, Reads, At
  <2>2. script[p].from \in End  BY <2>1 DEF Ground
  <2> QED  BY <2>1, <2>2, Others
<1>3. /\ script' = script /\ open' = open /\ said' = said /\ pos'[o] = pos[o]
      /\ p <= pos[o] /\ p <= said
  BY DEF ListensOn, Still
<1>4. \A i \in 1..Len(script) :
        \/ script[i].from = o /\ Other(script[i].from) = e
        \/ script[i].from = e /\ Other(script[i].from) = o /\ i # p
  BY <1>0, <1>2, Others DEF Ground
<1>5. Len(heard) \in Nat /\ heard \in Seq(Word)  BY DEF LinkInv, Types
<1>6. /\ \A i \in 1..Len(script) : i <= Len(heard) <=> pos[Other(script[i].from)] > i
      /\ Len(heard) <= said
      /\ \A i \in 1..Len(script) : pos[script[i].from] > i => i <= said
      /\ \A i \in 1..Len(script) : i <= said => pos[script[i].from] >= i
      /\ open => \A i \in 1..Len(script) :
                    pos[Other(script[i].from)] > i => pos[script[i].from] > i
      /\ open => AllWhole
  BY DEF LinkInv, Places
<1>7. CASE pos'[e] = p /\ heard' = heard
  <2>1. \A i \in 1..Len(script) : /\ pos'[script[i].from] = pos[script[i].from]
                                  /\ pos'[Other(script[i].from)] = pos[Other(script[i].from)]
    BY <1>3, <1>4, <1>7
  <2>2. AllWhole' <=> AllWhole  BY <1>7 DEF AllWhole
  <2> QED  BY <1>3, <1>6, <1>7, <2>1, <2>2 DEF Places
<1>8. CASE /\ pos'[e] = p + 1
           /\ open => pos[o] > p
           /\ \E w \in Word : heard' = Append(heard, w) /\ (open => w.whole)
  <2>1. PICK w \in Word : heard' = Append(heard, w) /\ (open => w.whole)  BY <1>8
  <2>2. /\ Len(heard') = Len(heard) + 1 /\ DOMAIN heard = 1..Len(heard)
        /\ DOMAIN heard' = 1..(Len(heard) + 1)
        /\ heard'[Len(heard) + 1] = w /\ \A k \in 1..Len(heard) : heard'[k] = heard[k]
    BY <1>5, <2>1, AppendSeq
  <2>3. Len(heard) = p - 1
    <3>1. ~(p <= Len(heard))  BY <1>0, <1>2, <1>6
    <3>2. CASE p = 1  BY <1>5, <3>1, <3>2
    <3>3. CASE p # 1
      <4> DEFINE i == p - 1
      <4>1. i \in 1..Len(script) /\ i < p /\ i < pos[o]  BY <1>0, <1>1, <1>2, <1>3, <3>3
      <4>2. pos[Other(script[i].from)] > i  BY <1>0, <1>1, <1>4, <4>1
      <4>3. i <= Len(heard)  BY <1>6, <4>1, <4>2
      <4> QED  BY <1>0, <1>5, <3>1, <4>3
    <3> QED  BY <3>2, <3>3
  <2>4. \A i \in 1..Len(script) : i <= Len(heard') <=> pos'[Other(script[i].from)] > i
    <3> SUFFICES ASSUME NEW i \in 1..Len(script)
                 PROVE  i <= Len(heard) + 1 <=> pos'[Other(script[i].from)] > i
      BY <2>2
    <3>1. i <= Len(heard) <=> pos[Other(script[i].from)] > i  BY <1>6
    <3>2. CASE i = p
      <4>1. pos'[Other(script[i].from)] = p + 1  BY <1>0, <1>2, <1>8, <3>2
      <4> QED  BY <1>0, <2>3, <3>2, <4>1
    <3>3. CASE i # p
      <4>1. CASE script[i].from = o
        <5>1. p > i <=> pos'[Other(script[i].from)] > i  BY <1>0, <1>8, <3>3, <4>1
        <5>2. pos[Other(script[i].from)] = p  BY <1>0, <4>1
        <5> QED  BY <1>0, <1>5, <2>3, <3>1, <3>3, <5>1, <5>2
      <4>2. CASE script[i].from = e
        <5>1. pos'[Other(script[i].from)] = pos[Other(script[i].from)]  BY <1>3, <4>2
        <5> QED  BY <1>0, <1>5, <2>3, <3>1, <3>3, <5>1
      <4> QED  BY <1>4, <4>1, <4>2
    <3> QED  BY <3>2, <3>3
  <2>5. Len(heard') <= said'  BY <1>0, <1>3, <1>5, <2>2, <2>3
  <2>6. \A i \in 1..Len(script) : pos'[script[i].from] > i => i <= said'
    BY <1>0, <1>3, <1>4, <1>6, <1>8
  <2>7. \A i \in 1..Len(script) : i <= said' => pos'[script[i].from] >= i
    BY <1>0, <1>3, <1>4, <1>6, <1>8
  <2>8. open => \A i \in 1..Len(script) :
                  pos'[Other(script[i].from)] > i => pos'[script[i].from] > i
    <3> SUFFICES ASSUME open, NEW i \in 1..Len(script), pos'[Other(script[i].from)] > i
                 PROVE  pos'[script[i].from] > i
      OBVIOUS
    <3>1. CASE i = p  BY <1>0, <1>2, <1>3, <1>8, <3>1
    <3>2. CASE i # p
      <4>1. pos[Other(script[i].from)] > i  BY <1>0, <1>1, <1>3, <1>4, <1>8, <3>2
      <4>2. pos[script[i].from] > i  BY <1>6, <4>1
      <4> QED  BY <1>0, <1>1, <1>3, <1>4, <1>8, <4>2
    <3> QED  BY <3>1, <3>2
  <2>9. open => AllWhole'
    <3> SUFFICES ASSUME open, NEW k \in 1..(Len(heard) + 1) PROVE heard'[k].whole
      BY <2>2 DEF AllWhole
    <3>1. CASE k = Len(heard) + 1  BY <2>1, <2>2, <3>1
    <3>2. CASE k \in 1..Len(heard)  BY <1>6, <2>2, <3>2 DEF AllWhole
    <3> QED  BY <1>5, <3>1, <3>2
  <2> QED  BY <1>3, <2>4, <2>5, <2>6, <2>7, <2>8, <2>9 DEF Places
<1> QED  BY <1>7, <1>8 DEF ListensOn

(* What the listener itself has sent stays as it is.                         *)
LEMMA ListensSelf ==
    ASSUME NEW b, Ground(b), LinkInv(b), NEW e \in End, ListensOn(e)
    PROVE  /\ PartFits(e)' /\ OutboxFits(b, e)'
           /\ FramesFit(b, e)' /\ FramesInOrder(e)' /\ NoFrameMissing(b, e)'
           /\ open => AllFramesThere(b, e)'
           /\ StreamsFit(b, e)' /\ StreamsInOrder(e)' /\ NoStreamMissing(e)'
           /\ open => AllStreamsThere(e)' /\ LastIsOpen(e)'
           /\ Expect(b, Other(e))' = Expect(b, Other(e)) /\ Sent(e)' = Sent(e)
<1> DEFINE o == Other(e)
           p == pos[e]
<1>0. /\ p \in 1..(Len(script) + 1) /\ Len(script) \in Nat /\ o \in End /\ o # e
      /\ Other(o) = e /\ said \in Nat /\ sealed[e] \in Nat /\ part[e] \in Nat
      /\ \A i \in 1..(Len(script) + 1) : b[e][i] \in Nat
  BY Numbers
<1>1. pos[o] \in 1..(Len(script) + 1)  BY <1>0, Numbers
<1>2. p \in 1..Len(script) /\ script[p].from # e /\ Reads(e) /\ ~Own(e)
  BY <1>0 DEF ListensOn, Reads, Own, At
<1>3. /\ script' = script /\ open' = open /\ said' = said
      /\ pos'[o] = pos[o] /\ part'[o] = part[o]
      /\ sealed'[e] = sealed[e] /\ outbox'[e] = outbox[e] /\ bi'[e] = bi[e] /\ uni'[e] = uni[e]
  BY DEF ListensOn, Still
<1>4. \/ pos'[e] = p /\ part'[e] \in Nat /\ part'[e] <= At(e).frames
         /\ (At(e).kind = "message" => part'[e] < At(e).frames)
      \/ pos'[e] = p + 1 /\ part'[e] = 0
  BY DEF ListensOn
<1>5. /\ PartFits(e) /\ OutboxFits(b, e)
      /\ FramesFit(b, e) /\ FramesInOrder(e) /\ NoFrameMissing(b, e)
      /\ open => AllFramesThere(b, e)
      /\ StreamsFit(b, e) /\ StreamsInOrder(e) /\ NoStreamMissing(e)
      /\ open => AllStreamsThere(e) /\ LastIsOpen(e)
  BY DEF LinkInv, Sealing, Written, Streams
<1>6. Expect(b, o)' = Expect(b, o) /\ Sent(e)' = Sent(e)
  BY <1>3 DEF Expect, Reads, At, Sent
<1>7. PartFits(e)'
  <2>1. CASE pos'[e] = p
    BY <1>0, <1>2, <1>3, <1>4, <2>1 DEF PartFits, Own, Reads, At
  <2>2. CASE pos'[e] = p + 1 /\ part'[e] = 0
    <3>1. p + 1 <= Len(script) => /\ script[p + 1].frames \in Nat
                                  /\ script[p + 1].kind = "message" => script[p + 1].frames > 0
      BY <1>0 DEF Ground
    <3> QED  BY <1>3, <2>2, <3>1 DEF PartFits, Own, Reads, At
  <2> QED  BY <1>4, <2>1, <2>2
<1>8. outbox[e] = <<>> /\ sealed[e] = b[e][p]
  <2>1. outbox[e] = <<>>  BY <1>2, <1>5 DEF OutboxFits
  <2>2. sealed[e] = b[e][p] + 0  BY <1>2, <1>5, <2>1 DEF OutboxFits
  <2> QED  BY <1>0, <2>1, <2>2
<1>9. OutboxFits(b, e)'
  <2>1. outbox'[e] = <<>> /\ DOMAIN outbox'[e] = {}  BY <1>3, <1>8
  <2>2. sealed'[e] = b[e][pos'[e]] + (IF Own(e)' /\ At(e)'.kind = "blob" THEN part'[e] ELSE 0)
    <3>1. CASE pos'[e] = p
      <4>1. ~Own(e)'  BY <1>2, <1>3, <3>1 DEF Own, At
      <4> QED  BY <1>0, <1>3, <1>8, <3>1, <4>1
    <3>2. CASE pos'[e] = p + 1 /\ part'[e] = 0
      <4>1. b[e][p + 1] = b[e][p] /\ b[e][p] \in Nat  BY <1>0, <1>2 DEF Ground
      <4>2. sealed'[e] = b[e][pos'[e]] + 0  BY <1>3, <1>8, <3>2, <4>1
      <4> QED  BY <3>2, <4>2
    <3> QED  BY <1>4, <3>1, <3>2
  <2> QED  BY <2>1, <2>2 DEF OutboxFits
<1>10. pos'[e] = p \/ pos'[e] = p + 1  BY <1>4
<1>11. FramesFit(b, e)'
  <2> SUFFICES ASSUME NEW k \in DOMAIN bi[e] PROVE FrameFits(b, e, bi[e][k])'
    BY <1>3 DEF FramesFit
  <2>1. FrameFits(b, e, bi[e][k])  BY <1>5 DEF FramesFit
  <2>2. bi[e][k].item <= pos'[e]
    <3>1. bi[e][k].item \in pos[o]..Len(script) /\ bi[e][k].item <= p  BY <2>1 DEF FrameFits
    <3> QED  BY <1>0, <1>1, <1>10, <3>1
  <2>3. bi'[e][k] = bi[e][k]  BY <1>3
  <2> QED  BY <1>0, <1>3, <1>6, <2>1, <2>2, <2>3 DEF FrameFits, From
<1>12. FramesInOrder(e)'  BY <1>3, <1>5 DEF FramesInOrder
<1>13. \A n \in Nat : Due(b, e, n)' => Due(b, e, n)  BY <1>0, <1>3, <1>6 DEF Due, From
<1>14. NoFrameMissing(b, e)'  BY <1>3, <1>5, <1>13 DEF NoFrameMissing, HasFrame
<1>15. open => AllFramesThere(b, e)'
  BY <1>3, <1>5, <1>6, <1>13 DEF AllFramesThere, HasFrame
<1>16. StreamsFit(b, e)'
  <2> SUFFICES ASSUME NEW k \in DOMAIN uni[e] PROVE StreamFits(b, e, uni[e][k])'
    BY <1>3 DEF StreamsFit
  <2> DEFINE t == uni[e][k]
  <2>1. StreamFits(b, e, t) /\ t = uni'[e][k]  BY <1>3, <1>5 DEF StreamsFit
  <2>2. t.item \in pos[o]..Len(script) /\ t.item <= p /\ t.item # p
    BY <1>2, <2>1 DEF StreamFits, From
  <2>3. t.item < pos'[e] /\ t.item <= pos'[e] /\ t.item # pos'[e]  BY <1>0, <1>1, <1>10, <2>2
  <2>4. Done(o, t.item)' = Done(o, t.item)  BY <1>3, <2>1 DEF Done
  <2> QED  BY <1>0, <1>3, <2>1, <2>3, <2>4 DEF StreamFits, From
<1>17. StreamsInOrder(e)'  BY <1>3, <1>5 DEF StreamsInOrder
<1>18. NoStreamMissing(e)'  BY <1>3, <1>5 DEF NoStreamMissing, HasStream, From
<1>19. open => AllStreamsThere(e)'
  <2> SUFFICES ASSUME open, NEW i \in pos[o]..Len(script), From(i, e, "blob"), i < pos'[e]
               PROVE  HasStream(e, i)
    BY <1>3 DEF AllStreamsThere, HasStream, From
  <2>1. i # p  BY <1>2 DEF From
  <2>2. i < p  BY <1>0, <1>1, <1>10, <2>1
  <2> QED  BY <1>5, <2>2 DEF AllStreamsThere
<1>20. LastIsOpen(e)'
  <2>1. CASE pos'[e] = p
    <3>1. ~Own(e)'  BY <1>2, <1>3, <2>1 DEF Own, At
    <3> QED  BY <3>1 DEF LastIsOpen
  <2>2. CASE pos'[e] = p + 1
    <3> SUFFICES ASSUME Own(e)', said' >= pos'[e] PROVE FALSE  BY DEF LastIsOpen
    <3>1. p + 1 \in 1..Len(script) /\ script[p + 1].from = e /\ p + 1 <= said
      BY <1>0, <1>3, <2>2 DEF Own, At
    <3>2. pos[e] >= p + 1  BY <3>1 DEF LinkInv, Places
    <3> QED  BY <1>0, <3>2
  <2> QED  BY <1>10, <2>1, <2>2
<1> QED
  BY <1>6, <1>7, <1>9, <1>11, <1>12, <1>14, <1>15, <1>16, <1>17, <1>18, <1>19, <1>20

LEMMA ListensInv ==
    ASSUME NEW b, Ground(b), LinkInv(b), NEW e \in End, ListensOn(e), NEW o, o = Other(e),
           Types', opened'[e] <= Expect(b, e)', AllWhole' => opened'[e] = Expect(b, e)',
           count'[e] = sealed[e] + opened'[e], open => Expect(b, e)' <= Sent(o),
           FramesFit(b, o)', FramesInOrder(o)', NoFrameMissing(b, o)',
           open => AllFramesThere(b, o)',
           StreamsFit(b, o)', StreamsInOrder(o)', NoStreamMissing(o)',
           open => AllStreamsThere(o)' /\ LastIsOpen(o)'
    PROVE  LinkInv(b)'
<1>0. /\ o \in End /\ o # e /\ Other(o) = e /\ said \in Nat  BY Numbers
<1>1. pos[o] \in Nat  BY <1>0, Numbers
<1>2. \A s \in End : s = e \/ s = o  BY <1>0, Others
<1>3. open' = open /\ script' = script /\ said' = said /\ Still(o) /\ sealed'[e] = sealed[e]
  BY DEF ListensOn
<1>4. /\ PartFits(e)' /\ OutboxFits(b, e)'
      /\ FramesFit(b, e)' /\ FramesInOrder(e)' /\ NoFrameMissing(b, e)'
      /\ open => AllFramesThere(b, e)'
      /\ StreamsFit(b, e)' /\ StreamsInOrder(e)' /\ NoStreamMissing(e)'
      /\ open => AllStreamsThere(e)' /\ LastIsOpen(e)'
      /\ Expect(b, o)' = Expect(b, o) /\ Sent(e)' = Sent(e)
  BY ListensSelf
<1>5. Places'  BY ListensPlaces
<1>6. Sealing(b)'
  <2>1. PartFits(o) /\ OutboxFits(b, o)  BY <1>0 DEF LinkInv, Sealing
  <2>2. said' >= said  BY <1>0, <1>3
  <2>3. PartFits(o)' /\ OutboxFits(b, o)'  BY <1>0, <1>1, <1>3, <2>1, <2>2, StillFits
  <2> QED  BY <1>2, <1>4, <2>3 DEF Sealing
<1>7. AllWhole' => AllWhole
  <2>1. CASE heard' = heard  BY <2>1 DEF AllWhole
  <2>2. CASE \E w \in Word : heard' = Append(heard, w)
    <3>1. PICK w \in Word : heard' = Append(heard, w)  BY <2>2
    <3>2. heard \in Seq(Word)  BY DEF LinkInv, Types
    <3>3. /\ Len(heard) \in Nat /\ DOMAIN heard = 1..Len(heard)
          /\ DOMAIN heard' = 1..(Len(heard) + 1) /\ \A k \in 1..Len(heard) : heard'[k] = heard[k]
      BY <3>1, <3>2, AppendSeq
    <3>4. \A k \in 1..Len(heard) : k \in 1..(Len(heard) + 1)  BY <3>3
    <3> QED  BY <3>3, <3>4 DEF AllWhole
  <2> QED  BY <2>1, <2>2 DEF ListensOn
<1>8. Opening(b)'
  <2>1. OpenedFits(b, e) /\ OpenedFits(b, o)  BY <1>0 DEF LinkInv, Opening
  <2>2. OpenedFits(b, e)'  BY <1>3, <1>4, <2>1 DEF OpenedFits
  <2>3. Sent(o)' = Sent(o) /\ opened'[o] = opened[o] /\ count'[o] = count[o] /\ sealed'[o] = sealed[o]
    BY <1>3 DEF Still, Sent
  <2>4. OpenedFits(b, o)'  BY <1>0, <1>3, <1>4, <1>7, <2>1, <2>3 DEF OpenedFits
  <2> QED  BY <1>2, <2>2, <2>4 DEF Opening
<1>9. Written(b)'  BY <1>2, <1>3, <1>4 DEF Written
<1>10. Streams(b)'  BY <1>2, <1>3, <1>4 DEF Streams
<1> QED  BY <1>5, <1>6, <1>8, <1>9, <1>10 DEF LinkInv

(* The end that listens, and the numbers it has to do with.                  *)
LEMMA Listener ==
    ASSUME NEW b, Ground(b), LinkInv(b), NEW e \in End, Reads(e), NEW o, o = Other(e)
    PROVE  /\ pos[e] \in 1..Len(script) /\ Len(script) \in Nat /\ said \in Nat
           /\ script[pos[e]].from = o /\ script[pos[e]].frames \in Nat
           /\ sealed[e] \in Nat /\ opened[e] \in Nat /\ count[e] \in Nat /\ part[e] \in Nat
           /\ o \in End /\ o # e /\ Other(o) = e
           /\ bi[o] \in Seq(Frame) /\ uni[o] \in Seq(Stream) /\ pos[o] \in 1..(Len(script) + 1)
           /\ b[o][pos[e]] \in Nat /\ b[o][pos[e] + 1] = b[o][pos[e]] + script[pos[e]].frames
           /\ Expect(b, e) = b[o][pos[e]] + part[e] /\ part[e] <= script[pos[e]].frames
           /\ script[pos[e]].kind = "message" => part[e] < script[pos[e]].frames
           /\ Sent(o) \in Nat /\ b[o][pos[o]] <= Sent(o)
           /\ count[e] = sealed[e] + opened[e] /\ opened[e] <= Expect(b, e)
           /\ AllWhole => opened[e] = Expect(b, e)
<1>1. /\ pos[e] \in 1..(Len(script) + 1) /\ Len(script) \in Nat /\ said \in Nat
      /\ sealed[e] \in Nat /\ opened[e] \in Nat /\ count[e] \in Nat /\ part[e] \in Nat
      /\ o \in End /\ o # e /\ Other(o) = e
  BY Numbers
<1>2. /\ bi[o] \in Seq(Frame) /\ uni[o] \in Seq(Stream) /\ pos[o] \in 1..(Len(script) + 1)
      /\ Sent(o) \in Nat /\ b[o][pos[o]] <= Sent(o)
  BY <1>1, Numbers
<1>3. pos[e] \in 1..Len(script) /\ script[pos[e]].from # e  BY <1>1 DEF Reads, At
<1>4. script[pos[e]].from = o /\ script[pos[e]].frames \in Nat
  BY <1>1, <1>3, Others DEF Ground
<1>5. b[o][pos[e]] \in Nat /\ b[o][pos[e] + 1] = b[o][pos[e]] + script[pos[e]].frames
  BY <1>1, <1>3, <1>4 DEF Ground
<1>6. Expect(b, e) = b[o][pos[e]] + part[e]  BY DEF Expect
<1>7. PartFits(e) /\ OpenedFits(b, e)  BY DEF LinkInv, Sealing, Opening
<1>8. /\ part[e] <= script[pos[e]].frames
      /\ script[pos[e]].kind = "message" => part[e] < script[pos[e]].frames
  BY <1>7 DEF PartFits, At
<1>9. /\ count[e] = sealed[e] + opened[e] /\ opened[e] <= Expect(b, e)
      /\ AllWhole => opened[e] = Expect(b, e)
  BY <1>7 DEF OpenedFits
<1> QED  BY <1>1, <1>2, <1>3, <1>4, <1>5, <1>6, <1>8, <1>9

(* The first frame on the main stream is the one the listener needs.         *)
LEMMA HeadFrame ==
    ASSUME NEW b, Ground(b), LinkInv(b), NEW e \in End, Reads(e), At(e).kind = "message",
           NEW o, o = Other(e), bi[o] # <<>>
    PROVE  /\ Head(bi[o]) \in Frame /\ Head(bi[o]).item = pos[e]
           /\ Head(bi[o]).nonce = b[o][pos[e]] + part[e]
           /\ FrameFits(b, o, Head(bi[o]))
<1> DEFINE p == pos[e]
           f == Head(bi[o])
           n == b[o][p] + part[e]
<1>0. /\ p \in 1..Len(script) /\ Len(script) \in Nat /\ script[p].from = o
      /\ o \in End /\ Other(o) = e /\ bi[o] \in Seq(Frame)
      /\ b[o][p] \in Nat /\ b[o][p + 1] = b[o][p] + script[p].frames
      /\ Expect(b, e) = n /\ part[e] \in Nat /\ part[e] < script[p].frames
      /\ script[p].frames \in Nat /\ script[p].kind = "message"
  BY Listener DEF At
<1>1. /\ DOMAIN bi[o] = 1..Len(bi[o]) /\ 1 \in 1..Len(bi[o]) /\ f = bi[o][1] /\ f \in Frame
  BY <1>0, TailSeq
<1>2. FramesFit(b, o) /\ FramesInOrder(o) /\ NoFrameMissing(b, o)
  BY <1>0 DEF LinkInv, Written
<1>3. FrameFits(b, o, f)  BY <1>1, <1>2 DEF FramesFit
<1>4. n \in Nat /\ b[o][p] <= n /\ n < b[o][p + 1] /\ f.nonce \in Nat /\ f.item \in Nat
  <2>1. f.nonce \in Nat /\ f.item \in Nat  BY <1>1 DEF Frame
  <2>2. b[o][p] \in Nat /\ part[e] \in Nat /\ script[p].frames \in Nat  BY <1>0
  <2>3. b[o][p + 1] = b[o][p] + script[p].frames /\ part[e] < script[p].frames  BY <1>0
  <2> QED  BY <2>1, <2>2, <2>3
<1>5. n <= f.nonce  BY <1>0, <1>3 DEF FrameFits
<1>6. Due(b, o, n)
  <2>1. From(p, o, "message")  BY <1>0 DEF From
  <2>2. Expect(b, Other(o)) <= n  BY <1>0, <1>4
  <2> QED  BY <1>0, <1>4, <2>1, <2>2 DEF Due
<1>7. f.nonce = n
  <2> SUFFICES ASSUME n < f.nonce PROVE FALSE  BY <1>4, <1>5
  <2>1. PICK j \in DOMAIN bi[o] : bi[o][j].nonce = n
    <3>1. HasFrame(o, n)  BY <1>1, <1>2, <1>4, <1>6 DEF NoFrameMissing
    <3> QED  BY <3>1 DEF HasFrame
  <2>2. j # 1  BY <1>1, <1>4, <2>1
  <2>3. 1 < j  BY <1>1, <2>2
  <2>4. bi[o][1].nonce < bi[o][j].nonce  BY <1>1, <1>2, <2>3 DEF FramesInOrder
  <2> QED  BY <1>1, <1>4, <2>1, <2>4
<1>8. f.item = p
  <2>1. f.item \in p..Len(script) /\ b[o][f.item] <= f.nonce  BY <1>0, <1>3 DEF FrameFits
  <2> SUFFICES ASSUME f.item > p PROVE FALSE  BY <1>0, <2>1
  <2>2. p + 1 \in 1..(Len(script) + 1) /\ f.item \in 1..(Len(script) + 1) /\ p + 1 <= f.item
    BY SMTT(30), <1>0, <1>4, <2>1
  <2>3. b[o][p + 1] \in Nat /\ b[o][f.item] \in Nat /\ b[o][p + 1] <= b[o][f.item]
    BY <1>0, <2>2, TallyOrder
  <2> QED  BY <1>4, <1>7, <2>1, <2>3
<1> QED  BY <1>1, <1>3, <1>7, <1>8

(* The first blob stream is the one the listener needs.                      *)
LEMMA HeadStream ==
    ASSUME NEW b, Ground(b), LinkInv(b), NEW e \in End, Reads(e), At(e).kind = "blob",
           NEW o, o = Other(e), uni[o] # <<>>
    PROVE  /\ Head(uni[o]) \in Stream /\ Head(uni[o]).item = pos[e]
           /\ StreamFits(b, o, Head(uni[o]))
           /\ \A k \in 1..Len(uni[o]) : k # 1 => uni[o][k].item \in Nat /\ uni[o][k].item > pos[e]
<1> DEFINE p == pos[e]
           t == Head(uni[o])
<1>0. /\ p \in 1..Len(script) /\ Len(script) \in Nat /\ script[p].from = o
      /\ o \in End /\ Other(o) = e /\ uni[o] \in Seq(Stream) /\ script[p].kind = "blob"
  BY Listener DEF At
<1>1. /\ DOMAIN uni[o] = 1..Len(uni[o]) /\ 1 \in 1..Len(uni[o]) /\ t = uni[o][1] /\ t \in Stream
  BY <1>0, TailSeq
<1>2. StreamsFit(b, o) /\ StreamsInOrder(o) /\ NoStreamMissing(o)
  BY <1>0 DEF LinkInv, Streams
<1>3. StreamFits(b, o, t)  BY <1>1, <1>2 DEF StreamsFit
<1>4. t.item \in p..Len(script)  BY <1>0, <1>3 DEF StreamFits
<1>5. t.item = p
  <2> SUFFICES ASSUME p < t.item PROVE FALSE  BY <1>0, <1>4
  <2>1. p \in pos[Other(o)]..Len(script) /\ From(p, o, "blob")  BY <1>0 DEF From
  <2>2. PICK j \in DOMAIN uni[o] : uni[o][j].item = p
    <3>1. HasStream(o, p)  BY <1>1, <1>2, <2>1 DEF NoStreamMissing
    <3> QED  BY <3>1 DEF HasStream
  <2>3. j # 1  BY <1>0, <1>1, <1>4, <2>2
  <2>4. 1 < j  BY <1>1, <2>3
  <2>5. uni[o][1].item < uni[o][j].item  BY <1>1, <1>2, <2>4 DEF StreamsInOrder
  <2> QED  BY <1>0, <1>1, <1>4, <2>2, <2>5
<1>6. ASSUME NEW k \in 1..Len(uni[o]), k # 1
      PROVE  uni[o][k].item \in Nat /\ uni[o][k].item > p
  <2>1. uni[o][k] \in Stream  BY <1>0, <1>6
  <2>2. 1 < k  BY <1>6
  <2>3. uni[o][1].item < uni[o][k].item  BY <1>1, <1>2, <1>6, <2>2 DEF StreamsInOrder
  <2> QED  BY <1>0, <1>1, <1>5, <2>1, <2>3 DEF Stream
<1> QED  BY <1>1, <1>3, <1>5, <1>6

ReadsFrame(e) ==
    /\ Listens(e, "message") /\ bi[Other(e)] # <<>> /\ Opens(e, Head(bi[Other(e)]))
    /\ bi' = [bi EXCEPT ![Other(e)] = Tail(@)]
    /\ Opened(e)
    /\ IF part[e] + 1 < script[Head(bi[Other(e)]).item].frames
       THEN part' = [part EXCEPT ![e] = @ + 1] /\ UNCHANGED <<pos, heard>>
       ELSE Hears(e, Head(bi[Other(e)]).item, part[e] + 1, TRUE)
    /\ UNCHANGED <<script, sealed, outbox, uni, open, status, why, broke, late, said>>

(* A blob stream does not mind what its listener does with other items.      *)
LEMMA StreamsElsewhere ==
    ASSUME NEW b, Ground(b), LinkInv(b), NEW e \in End, ListensOn(e), At(e).kind = "message",
           NEW o, o = Other(e), uni'[o] = uni[o]
    PROVE  /\ StreamsFit(b, o)' /\ StreamsInOrder(o)' /\ NoStreamMissing(o)'
           /\ open => AllStreamsThere(o)' /\ LastIsOpen(o)'
<1> DEFINE p == pos[e]
<1>0. /\ p \in 1..Len(script) /\ Len(script) \in Nat
      /\ o \in End /\ Other(o) = e /\ uni[o] \in Seq(Stream) /\ script[p].kind = "message"
  <2>1. Reads(e)  BY DEF ListensOn
  <2> QED  BY <2>1, Listener DEF At
<1>1. /\ script' = script /\ pos'[o] = pos[o] /\ part'[o] = part[o] /\ said' = said
      /\ pos'[e] = p \/ (pos'[e] = p + 1 /\ part'[e] = 0)
  BY DEF ListensOn, Still
<1>2. /\ StreamsFit(b, o) /\ StreamsInOrder(o) /\ NoStreamMissing(o)
      /\ open => AllStreamsThere(o) /\ LastIsOpen(o)
  BY <1>0 DEF LinkInv, Streams
<1>3. ASSUME NEW i \in p..Len(script), script[i].kind = "blob"
      PROVE  i \in pos'[e]..Len(script) /\ Done(e, i)' = Done(e, i)
  <2>1. i # p  BY <1>0, <1>3
  <2>2. i \in pos'[e]..Len(script)  BY <1>0, <1>1, <1>3, <2>1
  <2>3. Done(e, i) = 0 /\ Done(e, i)' = 0  BY <1>0, <1>1, <2>1 DEF Done
  <2> QED  BY <2>2, <2>3
<1>4. StreamsFit(b, o)'
  <2> SUFFICES ASSUME NEW k \in DOMAIN uni[o] PROVE StreamFits(b, o, uni[o][k])'
    BY DEF StreamsFit
  <2> DEFINE t == uni[o][k]
  <2>1. StreamFits(b, o, t) /\ t = uni'[o][k]  BY <1>2 DEF StreamsFit
  <2>2. t.item \in pos'[e]..Len(script) /\ Done(e, t.item)' = Done(e, t.item)
    BY <1>0, <1>3, <2>1 DEF StreamFits, From
  <2> QED  BY <1>0, <1>1, <2>1, <2>2 DEF StreamFits, From
<1>5. StreamsInOrder(o)'  BY <1>2 DEF StreamsInOrder
<1>6. pos'[e]..Len(script) \subseteq p..Len(script)  BY <1>0, <1>1
<1>7. NoStreamMissing(o)'  BY <1>0, <1>1, <1>2, <1>6 DEF NoStreamMissing, HasStream, From
<1>8. open => AllStreamsThere(o)'
  BY <1>0, <1>1, <1>2, <1>6 DEF AllStreamsThere, HasStream, From
<1>9. open => LastIsOpen(o)'
  <2> SUFFICES ASSUME open, Own(o), At(o).kind = "blob", said >= pos[o] PROVE LastIsOpen(o)'
    BY <1>1 DEF LastIsOpen, Own, At
  <2> DEFINE t == uni[o][Len(uni[o])]
  <2>1. /\ uni[o] # <<>> /\ t.item = pos[o] /\ ~t.fin /\ Done(e, t.item) + Len(t.frames) = part[o]
    BY <1>0, <1>2 DEF LastIsOpen
  <2>2. Len(uni[o]) \in DOMAIN uni[o]  BY <1>0, <2>1
  <2>3. StreamFits(b, o, t)  BY <1>2, <2>2 DEF StreamsFit
  <2>4. t.item \in p..Len(script) /\ script[t.item].kind = "blob"
    BY <1>0, <2>3 DEF StreamFits, From
  <2>5. Done(e, t.item)' = Done(e, t.item)  BY <1>3, <2>4 DEF Done
  <2> QED  BY <1>0, <1>1, <2>1, <2>5 DEF LastIsOpen
<1> QED  BY <1>4, <1>5, <1>7, <1>8, <1>9

LEMMA ReadsFrameInv ==
    ASSUME NEW b, Ground(b), LinkInv(b), NEW e \in End, ReadsFrame(e)
    PROVE  LinkInv(b)'
<1> DEFINE o == Other(e)
           p == pos[e]
           f == Head(bi[o])
           n == b[o][p] + part[e]
           w == [item |-> f.item, frames |-> part[e] + 1, whole |-> TRUE]
<1>0. Reads(e) /\ At(e).kind = "message" /\ bi[o] # <<>>
  BY DEF ReadsFrame, Listens, Running, Reads
<1>1. /\ p \in 1..Len(script) /\ Len(script) \in Nat /\ said \in Nat
      /\ script[p].from = o /\ script[p].frames \in Nat /\ script[p].kind = "message"
      /\ sealed[e] \in Nat /\ opened[e] \in Nat /\ count[e] \in Nat /\ part[e] \in Nat
      /\ o \in End /\ o # e /\ Other(o) = e
      /\ bi[o] \in Seq(Frame) /\ pos[o] \in 1..(Len(script) + 1)
      /\ b[o][p] \in Nat /\ b[o][p + 1] = b[o][p] + script[p].frames
      /\ Expect(b, e) = n /\ part[e] < script[p].frames
      /\ Sent(o) \in Nat /\ b[o][pos[o]] <= Sent(o)
      /\ count[e] = sealed[e] + opened[e]
  BY <1>0, Listener DEF At
<1>a. /\ p \in 1..Len(script) /\ Len(script) \in Nat /\ part[e] \in Nat
      /\ opened[e] \in Nat /\ count[e] \in Nat /\ script[p].frames \in Nat
  BY <1>1
<1>2. f \in Frame /\ f.item = p /\ f.nonce = n /\ FrameFits(b, o, f)
  BY <1>0, HeadFrame
<1>3. /\ script' = script /\ sealed' = sealed /\ outbox' = outbox /\ uni' = uni /\ open' = open
      /\ said' = said
  BY DEF ReadsFrame
<1>4. /\ opened'[e] = opened[e] + 1 /\ count'[e] = count[e] + 1
      /\ opened'[o] = opened[o] /\ count'[o] = count[o]
      /\ bi'[o] = Tail(bi[o]) /\ bi'[e] = bi[e] /\ opened[e] = n
  <2>1. opened[e] = n  BY <1>2 DEF ReadsFrame, Opens
  <2> QED  BY <1>1, <2>1 DEF ReadsFrame, Opened, LinkInv, Types
<1>5. \/ /\ part[e] + 1 < script[p].frames
         /\ part' = [part EXCEPT ![e] = @ + 1] /\ pos' = pos /\ heard' = heard
      \/ /\ ~(part[e] + 1 < script[p].frames)
         /\ pos' = [pos EXCEPT ![e] = @ + 1] /\ part' = [part EXCEPT ![e] = 0]
         /\ heard' = Append(heard, w)
  BY <1>2 DEF ReadsFrame, Hears
<1>6. \/ /\ part[e] + 1 < script[p].frames /\ pos'[e] = p /\ part'[e] = part[e] + 1
         /\ heard' = heard
      \/ /\ part[e] + 1 = script[p].frames /\ pos'[e] = p + 1 /\ part'[e] = 0
         /\ heard' = Append(heard, w)
  <2>1. pos \in [End -> 1..(Len(script) + 1)] /\ part \in [End -> Nat]  BY DEF LinkInv, Types
  <2>2. ~(part[e] + 1 < script[p].frames) => part[e] + 1 = script[p].frames  BY SMTT(30), <1>1
  <2> QED  BY <1>5, <2>1, <2>2
<1>7. pos'[o] = pos[o] /\ part'[o] = part[o]
  <2>1. pos \in [End -> 1..(Len(script) + 1)] /\ part \in [End -> Nat]  BY DEF LinkInv, Types
  <2> QED  BY <1>1, <1>5, <2>1
<1>8. w \in Word /\ w.whole
  <2>1. part[e] + 1 \in Nat /\ f.item \in Nat  BY <1>a, <1>2 DEF Frame
  <2> QED  BY <2>1 DEF Word
<1>9. p <= pos[o] /\ p <= said /\ n < Sent(o)  BY <1>2 DEF FrameFits
<1>10. part[e] + 1 = script[p].frames /\ open => pos[o] > p
  <2> SUFFICES ASSUME part[e] + 1 = script[p].frames, pos[o] = p PROVE FALSE
    BY SMTT(30), <1>1, <1>9
  <2>1. Own(o) /\ At(o) = script[p]  BY <1>1 DEF Own, At
  <2>2. OutboxFits(b, o) /\ sealed[o] \in Nat /\ outbox[o] \in Seq(Frame)
    BY <1>1 DEF LinkInv, Sealing, Types
  <2>3. CASE outbox[o] = <<>>
    <3>1. sealed[o] = b[o][p] + 0  BY <1>1, <2>1, <2>2, <2>3 DEF OutboxFits
    <3>2. Sent(o) = b[o][p]  BY <1>1, <2>2, <2>3, <3>1 DEF Sent
    <3> QED  BY <1>1, <1>9, <3>2
  <2>4. CASE outbox[o] # <<>>
    <3>1. sealed[o] = b[o][p] + script[p].frames  BY <2>1, <2>2, <2>4 DEF OutboxFits
    <3>2. Len(outbox[o]) \in Nat /\ Len(outbox[o]) > 0  BY <2>2, <2>4
    <3>3. Sent(o) = b[o][p] + script[p].frames - Len(outbox[o])
      <4>1. b[o][p] \in Nat /\ script[p].frames \in Nat  BY <1>1
      <4> QED  BY <3>1, <3>2, <4>1 DEF Sent
    <3>4. b[o][p] \in Nat /\ part[e] \in Nat  BY <1>1
    <3> QED  BY <1>9, <3>2, <3>3, <3>4
  <2> QED  BY <2>3, <2>4
<1>11. ListensOn(e)
  <2>1. Still(o)  BY <1>3, <1>4, <1>7 DEF Still
  <2>2. CASE /\ part[e] + 1 < script[p].frames /\ pos'[e] = p /\ part'[e] = part[e] + 1
             /\ heard' = heard
    <3>1. part'[e] \in Nat /\ part'[e] < script[p].frames /\ part'[e] <= script[p].frames
      BY <1>a, <2>2
    <3> QED  BY <1>0, <1>3, <1>4, <1>9, <2>1, <2>2, <3>1 DEF ListensOn, At
  <2>3. CASE /\ part[e] + 1 = script[p].frames /\ pos'[e] = p + 1 /\ part'[e] = 0
             /\ heard' = Append(heard, w)
    <3>1. \E v \in Word : heard' = Append(heard, v) /\ (open => v.whole)  BY <1>8, <2>3
    <3>2. open => pos[o] > p  BY <1>10, <2>3
    <3> QED  BY <1>0, <1>3, <1>4, <1>9, <2>1, <2>3, <3>1, <3>2 DEF ListensOn
  <2> QED  BY <1>6, <2>2, <2>3
<1>12. Expect(b, e)' = n + 1
  <2>1. CASE pos'[e] = p /\ part'[e] = part[e] + 1
    <3>1. Expect(b, e)' = b[o][p] + (part[e] + 1)
      BY <1>0, <1>3, <2>1 DEF Expect, Reads, At
    <3>2. b[o][p] \in Nat /\ part[e] \in Nat  BY <1>1
    <3> QED  BY <3>1, <3>2
  <2>2. CASE part[e] + 1 = script[p].frames /\ pos'[e] = p + 1 /\ part'[e] = 0
    <3>1. Expect(b, e)' = b[o][p + 1] + 0  BY <2>2 DEF Expect
    <3>2. b[o][p] \in Nat /\ part[e] \in Nat /\ b[o][p + 1] = b[o][p] + script[p].frames  BY <1>1
    <3> QED  BY <2>2, <3>1, <3>2
  <2> QED  BY <1>6, <2>1, <2>2
<1>13. n \in Nat  BY SMTT(30), <1>1
<1>14. Types'
  <2>1. bi' \in [End -> Seq(Frame)]
    <3>1. Tail(bi[o]) \in Seq(Frame)  BY <1>0, <1>1, TailSeq
    <3> QED  BY <1>1, <3>1 DEF ReadsFrame, LinkInv, Types
  <2>2. opened' \in [End -> Nat] /\ count' \in [End -> Nat]
    <3>1. opened[e] + 1 \in Nat /\ count[e] + 1 \in Nat  BY <1>a
    <3> QED  BY <3>1 DEF ReadsFrame, Opened, LinkInv, Types
  <2>3. /\ pos' \in [End -> 1..(Len(script) + 1)] /\ part' \in [End -> Nat]
        /\ heard' \in Seq(Word)
    <3>1. /\ pos \in [End -> 1..(Len(script) + 1)] /\ part \in [End -> Nat] /\ heard \in Seq(Word)
      BY DEF LinkInv, Types
    <3>2. p + 1 \in 1..(Len(script) + 1) /\ part[e] + 1 \in Nat  BY <1>a
    <3>3. Append(heard, w) \in Seq(Word)  BY <1>8, <3>1, AppendSeq
    <3> HIDE DEF w
    <3>4. CASE part' = [part EXCEPT ![e] = @ + 1] /\ pos' = pos /\ heard' = heard
      BY <3>1, <3>2, <3>4
    <3>5. CASE /\ pos' = [pos EXCEPT ![e] = @ + 1] /\ part' = [part EXCEPT ![e] = 0]
               /\ heard' = Append(heard, w)
      BY <3>1, <3>2, <3>3, <3>5
    <3> QED  BY <1>5, <3>4, <3>5
  <2> QED  BY <2>1, <2>2, <2>3 DEF ReadsFrame, LinkInv, Types
<1>15. /\ FramesFit(b, o) /\ FramesInOrder(o) /\ NoFrameMissing(b, o)
       /\ open => AllFramesThere(b, o)
  BY <1>1 DEF LinkInv, Written
<1>16. /\ Len(bi[o]) - 1 \in Nat /\ DOMAIN bi[o] = 1..Len(bi[o])
       /\ DOMAIN bi'[o] = 1..(Len(bi[o]) - 1)
       /\ \A k \in 1..(Len(bi[o]) - 1) : k + 1 \in 1..Len(bi[o]) /\ bi'[o][k] = bi[o][k + 1]
       /\ 1 \in 1..Len(bi[o]) /\ f = bi[o][1]
  <2>1. bi[o] \in Seq(Frame) /\ bi[o] # <<>> /\ bi'[o] = Tail(bi[o])  BY <1>0, <1>1, <1>4
  <2> QED  BY <2>1, TailSeq
<1>17. \A k \in 1..Len(bi[o]) : k # 1 => bi[o][k].nonce \in Nat /\ bi[o][k].nonce >= n + 1
  <2> SUFFICES ASSUME NEW k \in 1..Len(bi[o]), k # 1
               PROVE  bi[o][k].nonce \in Nat /\ bi[o][k].nonce >= n + 1
    OBVIOUS
  <2>1. 1 < k /\ bi[o][k] \in Frame  BY <1>1, <1>16
  <2>2. bi[o][1].nonce < bi[o][k].nonce  BY <1>15, <1>16, <2>1 DEF FramesInOrder
  <2>3. bi[o][k].nonce \in Nat  BY <2>1 DEF Frame
  <2> QED  BY <1>2, <1>13, <1>16, <2>2, <2>3
<1>18. FramesFit(b, o)'
  <2> SUFFICES ASSUME NEW k \in DOMAIN bi'[o] PROVE FrameFits(b, o, bi[o][k])'
    BY DEF FramesFit
  <2> DEFINE g == bi[o][k + 1]
  <2>1. k \in 1..(Len(bi[o]) - 1) /\ g = bi'[o][k] /\ k + 1 \in 1..Len(bi[o])  BY <1>16
  <2>2. k + 1 # 1  BY <1>16, <2>1
  <2>3. g.nonce \in Nat /\ g.nonce >= n + 1  BY <1>17, <2>1, <2>2
  <2>4. FrameFits(b, o, g)  BY <1>15, <1>16, <2>1 DEF FramesFit
  <2>5. g.item \in p..Len(script) /\ b[o][g.item] <= g.nonce /\ g.nonce < b[o][g.item + 1]
    BY <1>1, <2>4 DEF FrameFits
  <2>6. g.item \in pos'[e]..Len(script)
    <3>1. CASE pos'[e] = p  BY <2>5, <3>1
    <3>2. CASE part[e] + 1 = script[p].frames /\ pos'[e] = p + 1
      <4>1. g.item # p
        <5> SUFFICES ASSUME g.item = p PROVE FALSE  OBVIOUS
        <5>1. g.nonce < b[o][p + 1]  BY <2>5
        <5>2. b[o][p] \in Nat /\ part[e] \in Nat /\ b[o][p + 1] = b[o][p] + script[p].frames
          BY <1>1
        <5> QED  BY <2>3, <3>2, <5>1, <5>2
      <4> QED  BY SMTT(30), <1>1, <2>5, <3>2, <4>1
    <3> QED  BY <1>6, <3>1, <3>2
  <2>7. Sent(o)' = Sent(o)  BY <1>3 DEF Sent
  <2>8. Expect(b, e)' <= g.nonce  BY <1>12, <2>3
  <2> QED
    BY <1>1, <1>3, <1>7, <2>1, <2>4, <2>6, <2>7, <2>8 DEF FrameFits, From
<1>19. FramesInOrder(o)'
  <2> SUFFICES ASSUME NEW j \in DOMAIN bi'[o], NEW k \in DOMAIN bi'[o], j < k
               PROVE  bi'[o][j].nonce < bi'[o][k].nonce
    BY DEF FramesInOrder
  <2>1. j + 1 \in DOMAIN bi[o] /\ k + 1 \in DOMAIN bi[o] /\ j + 1 < k + 1  BY <1>16
  <2>2. bi[o][j + 1].nonce < bi[o][k + 1].nonce  BY <1>15, <2>1 DEF FramesInOrder
  <2> QED  BY <1>16, <2>2
<1>20. ASSUME NEW m \in Nat, Due(b, o, m)' PROVE Due(b, o, m) /\ m # n
  <2>1. Expect(b, e)' <= m  BY <1>1, <1>20 DEF Due
  <2>2. Expect(b, e) = n  BY <1>1
  <2>3. Expect(b, e) <= m /\ m # n  BY <1>12, <1>13, <1>20, <2>1, <2>2
  <2> QED  BY <1>1, <1>3, <1>20, <2>3 DEF Due, From
<1>21. ASSUME NEW m \in Nat, HasFrame(o, m), m # n PROVE HasFrame(o, m)'
  <2>1. PICK j \in DOMAIN bi[o] : bi[o][j].nonce = m  BY <1>21 DEF HasFrame
  <2>2. j # 1  BY <1>2, <1>16, <1>21, <2>1
  <2>3. j - 1 \in DOMAIN bi'[o] /\ (j - 1) + 1 = j  BY <1>16, <2>2
  <2>4. bi'[o][j - 1] = bi[o][j]
    <3>1. bi'[o][j - 1] = bi[o][(j - 1) + 1]  BY <1>16, <2>3
    <3> QED  BY <2>3, <3>1
  <2> QED  BY <2>1, <2>3, <2>4 DEF HasFrame
<1>22. NoFrameMissing(b, o)'
  <2> SUFFICES ASSUME NEW k \in DOMAIN bi'[o], NEW m \in Nat, Due(b, o, m)', m < bi'[o][k].nonce
               PROVE  HasFrame(o, m)'
    BY DEF NoFrameMissing
  <2>1. k + 1 \in DOMAIN bi[o] /\ bi'[o][k] = bi[o][k + 1]  BY <1>16
  <2>2. HasFrame(o, m)  BY <1>15, <1>20, <2>1 DEF NoFrameMissing
  <2> QED  BY <1>20, <1>21, <2>2
<1>23. open => AllFramesThere(b, o)'
  <2>1. Sent(o)' = Sent(o)  BY <1>3 DEF Sent
  <2> QED  BY <1>15, <1>20, <1>21, <2>1 DEF AllFramesThere
<1>24. /\ StreamsFit(b, o)' /\ StreamsInOrder(o)' /\ NoStreamMissing(o)'
       /\ open => AllStreamsThere(o)' /\ LastIsOpen(o)'
  BY <1>0, <1>3, <1>11, StreamsElsewhere
<1>25. opened'[e] = Expect(b, e)' /\ opened'[e] <= Expect(b, e)'
  BY <1>4, <1>12, <1>13
<1>26. count'[e] = sealed[e] + opened'[e]
  <2>1. count[e] = sealed[e] + opened[e] /\ sealed[e] \in Nat /\ opened[e] \in Nat  BY <1>1
  <2> QED  BY <1>4, <2>1
<1>27. Expect(b, e)' <= Sent(o)  BY <1>1, <1>9, <1>12, <1>13
<1> QED
  BY <1>11, <1>14, <1>18, <1>19, <1>22, <1>23, <1>24, <1>25, <1>26, <1>27, ListensInv

(* The main stream does not mind what its listener does with a blob.         *)
LEMMA FramesElsewhere ==
    ASSUME NEW b, Ground(b), LinkInv(b), NEW e \in End, ListensOn(e), At(e).kind = "blob",
           NEW o, o = Other(e), bi'[o] = bi[o],
           Expect(b, e)' \in Nat, Expect(b, e) <= Expect(b, e)', Expect(b, e)' <= b[o][pos[e] + 1]
    PROVE  /\ FramesFit(b, o)' /\ FramesInOrder(o)' /\ NoFrameMissing(b, o)'
           /\ open => AllFramesThere(b, o)'
<1> DEFINE p == pos[e]
<1>0. /\ p \in 1..Len(script) /\ Len(script) \in Nat
      /\ o \in End /\ Other(o) = e /\ bi[o] \in Seq(Frame) /\ script[p].kind = "blob"
  <2>1. Reads(e)  BY DEF ListensOn
  <2> QED  BY <2>1, Listener DEF At
<1>1. Expect(b, e) \in Nat  BY Numbers
<1>2. /\ script' = script /\ pos'[o] = pos[o] /\ said' = said /\ Sent(o)' = Sent(o)
      /\ pos'[e] = p \/ pos'[e] = p + 1
  BY DEF ListensOn, Still, Sent
<1>3. /\ FramesFit(b, o) /\ FramesInOrder(o) /\ NoFrameMissing(b, o)
      /\ open => AllFramesThere(b, o)
  BY <1>0 DEF LinkInv, Written
<1>4. FramesFit(b, o)'
  <2> SUFFICES ASSUME NEW k \in DOMAIN bi[o] PROVE FrameFits(b, o, bi[o][k])'
    BY DEF FramesFit
  <2> DEFINE g == bi[o][k]
  <2>1. FrameFits(b, o, g) /\ g \in Frame  BY <1>0, <1>3 DEF FramesFit
  <2>2. g.item \in p..Len(script) /\ g.item # p /\ b[o][g.item] <= g.nonce
    BY <1>0, <2>1 DEF FrameFits, From
  <2>3. g.item \in pos'[e]..Len(script)  BY <1>0, <1>2, <2>2
  <2>4. /\ p + 1 \in 1..(Len(script) + 1) /\ g.item \in 1..(Len(script) + 1) /\ p + 1 <= g.item
    BY SMTT(30), <1>0, <2>2
  <2>5. b[o][p + 1] \in Nat /\ b[o][g.item] \in Nat /\ b[o][p + 1] <= b[o][g.item]
    BY <1>0, <2>4, TallyOrder
  <2>6. Expect(b, e)' <= g.nonce
    <3>1. g.nonce \in Nat  BY <2>1 DEF Frame
    <3> QED  BY <2>2, <2>5, <3>1
  <2>7. bi'[o][k] = g  OBVIOUS
  <2> QED  BY <1>0, <1>2, <2>1, <2>3, <2>6, <2>7 DEF FrameFits, From
<1>5. FramesInOrder(o)'  BY <1>3 DEF FramesInOrder
<1>6. ASSUME NEW m \in Nat, Due(b, o, m)' PROVE Due(b, o, m)
  <2>1. Expect(b, e)' <= m  BY <1>0, <1>6 DEF Due
  <2>2. Expect(b, e) <= m  BY <1>1, <1>6, <2>1
  <2> QED  BY <1>0, <1>2, <1>6, <2>2 DEF Due, From
<1>7. NoFrameMissing(b, o)'  BY <1>3, <1>6 DEF NoFrameMissing, HasFrame
<1>8. open => AllFramesThere(b, o)'  BY <1>2, <1>3, <1>6 DEF AllFramesThere, HasFrame
<1> QED  BY <1>4, <1>5, <1>7, <1>8

ReadsSegment(e) ==
    /\ Listens(e, "blob") /\ uni[Other(e)] # <<>> /\ Head(uni[Other(e)]).frames # <<>>
    /\ Opens(e, Head(Head(uni[Other(e)]).frames))
    /\ uni' = [uni EXCEPT ![Other(e)][1].frames = Tail(@)]
    /\ Opened(e)
    /\ part' = [part EXCEPT ![e] = @ + 1]
    /\ UNCHANGED <<script, pos, sealed, outbox, bi, open, status, why, broke, late, said, heard>>

LEMMA FirstSeq ==
    ASSUME NEW S, NEW q \in Seq(S), q # <<>>, NEW x \in S
    PROVE  LET r == [q EXCEPT ![1] = x] IN
           /\ r \in Seq(S) /\ r # <<>> /\ Len(r) = Len(q) /\ Len(q) \in Nat /\ Len(q) > 0
           /\ DOMAIN q = 1..Len(q) /\ DOMAIN r = 1..Len(q) /\ r[1] = x
           /\ \A k \in 1..Len(q) : k # 1 => r[k] = q[k]
<1>1. Len(q) \in Nat /\ Len(q) > 0 /\ DOMAIN q = 1..Len(q)  OBVIOUS
<1> DEFINE r == [q EXCEPT ![1] = x]
<1>2. DOMAIN r = 1..Len(q) /\ r[1] = x /\ \A k \in 1..Len(q) : k # 1 => r[k] = q[k]
  <2>1. 1 \in DOMAIN q  BY <1>1
  <2> QED  BY <1>1, <2>1, Zenon
<1>3. \A k \in 1..Len(q) : r[k] \in S
  <2>1. \A k \in 1..Len(q) : q[k] \in S  OBVIOUS
  <2> HIDE DEF r
  <2> QED  BY <1>2, <2>1
<1>4. r \in [1..Len(q) -> S]  BY <1>2, <1>3
<1>5. r \in Seq(S) /\ Len(r) = Len(q)  BY <1>1, <1>4
<1>6. r # <<>>  BY <1>1, <1>5
<1> QED  BY <1>1, <1>2, <1>5, <1>6

LEMMA ReadsSegmentInv ==
    ASSUME NEW b, Ground(b), LinkInv(b), NEW e \in End, ReadsSegment(e)
    PROVE  LinkInv(b)'
<1> DEFINE o == Other(e)
           p == pos[e]
           t == uni[o][1]
           x == [t EXCEPT !.frames = Tail(t.frames)]
           n == b[o][p] + part[e]
           z == Len(uni[o])
<1>0. Reads(e) /\ At(e).kind = "blob" /\ uni[o] # <<>>
  BY DEF ReadsSegment, Listens, Running, Reads
<1>1. /\ p \in 1..Len(script) /\ Len(script) \in Nat /\ said \in Nat
      /\ script[p].from = o /\ script[p].frames \in Nat /\ script[p].kind = "blob"
      /\ sealed[e] \in Nat /\ opened[e] \in Nat /\ count[e] \in Nat /\ part[e] \in Nat
      /\ o \in End /\ o # e /\ Other(o) = e
      /\ uni[o] \in Seq(Stream) /\ pos[o] \in 1..(Len(script) + 1)
      /\ b[o][p] \in Nat /\ b[o][p + 1] = b[o][p] + script[p].frames
      /\ Expect(b, e) = n /\ Sent(o) \in Nat /\ b[o][pos[o]] <= Sent(o)
      /\ count[e] = sealed[e] + opened[e]
  BY <1>0, Listener DEF At
<1>a. /\ p \in 1..Len(script) /\ Len(script) \in Nat /\ part[e] \in Nat /\ n \in Nat
      /\ opened[e] \in Nat /\ count[e] \in Nat /\ script[p].frames \in Nat /\ b[o][p] \in Nat
  BY SMTT(30), <1>1
<1>2. /\ t = Head(uni[o]) /\ t \in Stream /\ t.item = p /\ StreamFits(b, o, t)
      /\ \A k \in 1..z : k # 1 => uni[o][k].item \in Nat /\ uni[o][k].item > p
  <2>1. t = Head(uni[o])  BY <1>0, <1>1, TailSeq
  <2> QED  BY <1>0, <2>1, HeadStream
<1>3. /\ script' = script /\ sealed' = sealed /\ outbox' = outbox /\ bi' = bi /\ open' = open
      /\ said' = said /\ pos' = pos /\ heard' = heard
  BY DEF ReadsSegment
<1>4. /\ opened'[e] = opened[e] + 1 /\ count'[e] = count[e] + 1 /\ part'[e] = part[e] + 1
      /\ opened'[o] = opened[o] /\ count'[o] = count[o] /\ part'[o] = part[o]
      /\ uni'[e] = uni[e]
  BY <1>1 DEF ReadsSegment, Opened, LinkInv, Types
<1>5. /\ t.frames \in Seq(Frame) /\ t.frames # <<>> /\ Len(t.frames) \in Nat /\ Len(t.frames) > 0
      /\ Head(t.frames) = t.frames[1] /\ 1 \in DOMAIN t.frames
      /\ DOMAIN t.frames = 1..Len(t.frames)
      /\ Tail(t.frames) \in Seq(Frame) /\ Len(Tail(t.frames)) = Len(t.frames) - 1
      /\ DOMAIN Tail(t.frames) = 1..(Len(t.frames) - 1)
      /\ \A k \in 1..(Len(t.frames) - 1) :
            k + 1 \in 1..Len(t.frames) /\ Tail(t.frames)[k] = t.frames[k + 1]
  <2> DEFINE q == t.frames
  <2>1. q \in Seq(Frame) /\ q # <<>>
    <3>1. Head(uni[o]).frames # <<>>  BY DEF ReadsSegment
    <3> QED  BY <1>2, <3>1 DEF Stream
  <2> HIDE DEF q
  <2>2. Len(q) \in Nat /\ Len(q) > 0  BY <2>1
  <2>3. /\ Head(q) = q[1] /\ 1 \in DOMAIN q
        /\ DOMAIN q = 1..Len(q) /\ Tail(q) \in Seq(Frame) /\ Len(Tail(q)) = Len(q) - 1
        /\ DOMAIN Tail(q) = 1..(Len(q) - 1)
        /\ \A k \in 1..(Len(q) - 1) : k + 1 \in 1..Len(q) /\ Tail(q)[k] = q[k + 1]
    BY <2>1, TailSeq
  <2> QED  BY <2>1, <2>2, <2>3 DEF q
<1>6. Done(o, p)' = Done(o, p) /\ Done(e, p) = part[e] /\ Done(e, p)' = part[e] + 1
  BY <1>3, <1>4 DEF Done
<1>7. /\ p <= pos[o] /\ p <= said
      /\ part[e] + Len(t.frames) <= script[p].frames
      /\ p = pos[o] => part[e] + Len(t.frames) <= part[o]
      /\ t.fin => p < pos[o] /\ part[e] + Len(t.frames) = script[p].frames
      /\ \A k \in DOMAIN t.frames :
            /\ t.frames[k].nonce = b[o][p] + part[e] + k - 1
            /\ t.frames[k].nonce + b[e][p] < RekeyAfter
  <2>1. Done(Other(o), p) = part[e]  BY <1>1, <1>6
  <2> QED  BY <1>1, <1>2, <2>1 DEF StreamFits
<1>8. opened[e] = n
  <2>1. Head(t.frames).nonce = opened[e]  BY <1>2 DEF ReadsSegment, Opens
  <2>2. t.frames[1].nonce = b[o][p] + part[e] + 1 - 1  BY <1>5, <1>7
  <2> QED  BY <1>a, <1>5, <2>1, <2>2
<1>9. part'[e] \in Nat /\ part'[e] <= script[p].frames
  <2>1. part[e] \in Nat /\ Len(t.frames) \in Nat /\ Len(t.frames) > 0  BY <1>a, <1>5
  <2>2. part'[e] = part[e] + 1 /\ script[p].frames \in Nat  BY <1>a, <1>4
  <2>3. part[e] + Len(t.frames) <= script[p].frames  BY <1>7
  <2> HIDE DEF t
  <2> QED  BY <2>1, <2>2, <2>3
<1>10. ListensOn(e)
  <2>1. Still(o)  BY <1>3, <1>4 DEF Still
  <2> QED  BY <1>0, <1>1, <1>3, <1>4, <1>7, <1>9, <2>1 DEF ListensOn, At
<1>11. Expect(b, e)' = n + 1
  <2>1. Expect(b, e)' = b[o][p] + (part[e] + 1)
    BY <1>0, <1>3, <1>4 DEF Expect, Reads, At
  <2> QED  BY <1>a, <2>1
<1>12. x \in Stream /\ x.item = p /\ x.frames = Tail(t.frames) /\ x.fin = t.fin
  <2> HIDE DEF t
  <2> QED  BY <1>2, <1>5 DEF Stream
<1>13. uni' = [uni EXCEPT ![o] = [uni[o] EXCEPT ![1] = x]]
  BY DEF ReadsSegment
<1>14. uni'[o] = [uni[o] EXCEPT ![1] = x]
  <2> HIDE DEF x
  <2> QED  BY <1>1, <1>13 DEF LinkInv, Types
<1>15. /\ uni'[o] \in Seq(Stream) /\ uni'[o] # <<>> /\ Len(uni'[o]) = z /\ z \in Nat /\ z > 0
       /\ DOMAIN uni[o] = 1..z /\ DOMAIN uni'[o] = 1..z /\ uni'[o][1] = x
       /\ \A k \in 1..z : k # 1 => uni'[o][k] = uni[o][k]
  <2> HIDE DEF x
  <2>1. uni[o] \in Seq(Stream) /\ uni[o] # <<>> /\ x \in Stream  BY <1>0, <1>1, <1>12
  <2> QED  BY <1>14, <2>1, FirstSeq
<1>16. Types'
  <2>1. uni' \in [End -> Seq(Stream)]
    <3>1. uni \in [End -> Seq(Stream)]  BY DEF LinkInv, Types
    <3>2. uni' = [uni EXCEPT ![o] = uni'[o]] /\ uni'[o] \in Seq(Stream)  BY <1>13, <1>14, <1>15
    <3> QED  BY <3>1, <3>2, Zenon
  <2>2. opened[e] + 1 \in Nat /\ count[e] + 1 \in Nat /\ part[e] + 1 \in Nat  BY SMTT(30), <1>a
  <2>3. opened' \in [End -> Nat] /\ count' \in [End -> Nat] /\ part' \in [End -> Nat]
    BY <2>2 DEF ReadsSegment, Opened, LinkInv, Types
  <2> QED  BY <2>1, <2>3 DEF ReadsSegment, LinkInv, Types
<1>17. /\ StreamsFit(b, o) /\ StreamsInOrder(o) /\ NoStreamMissing(o)
       /\ open => AllStreamsThere(o) /\ LastIsOpen(o)
  BY <1>1 DEF LinkInv, Streams
<1>18. \A k \in 1..z : uni'[o][k].item = uni[o][k].item
  <2> SUFFICES ASSUME NEW k \in 1..z PROVE uni'[o][k].item = uni[o][k].item  OBVIOUS
  <2>1. CASE k = 1  BY <1>2, <1>12, <1>15, <2>1
  <2>2. CASE k # 1  BY <1>15, <2>2
  <2> QED  BY <2>1, <2>2
<1>19. \A i : HasStream(o, i)' <=> HasStream(o, i)  BY <1>15, <1>18 DEF HasStream
<1>20. StreamsFit(b, o)'
  <2>1. ASSUME NEW k \in 1..z, k # 1 PROVE StreamFits(b, o, uni[o][k])'
    <3> DEFINE u == uni[o][k]
    <3>1. StreamFits(b, o, u) /\ u = uni'[o][k]  BY <1>15, <1>17, <2>1 DEF StreamsFit
    <3>2. u.item # p
      <4>1. u.item \in Nat /\ u.item > p  BY <1>2, <2>1
      <4> QED  BY <1>a, <4>1
    <3>3. Done(e, u.item)' = Done(e, u.item)  BY <1>3, <3>1, <3>2 DEF Done
    <3> QED  BY <1>1, <1>3, <1>4, <3>1, <3>3 DEF StreamFits, From
  <2>2. ASSUME NEW k, k = 1 PROVE StreamFits(b, o, uni[o][k])'
    <3>1. uni'[o][k] = x  BY <1>15, <2>2
    <3>2. Len(x.frames) = Len(t.frames) - 1 /\ DOMAIN x.frames = 1..(Len(t.frames) - 1)
      BY <1>5, <1>12
    <3>3. part'[e] + Len(x.frames) = part[e] + Len(t.frames)
      <4>1. part[e] \in Nat /\ Len(t.frames) \in Nat /\ part'[e] = part[e] + 1
        BY <1>a, <1>4, <1>5
      <4>2. Len(x.frames) = Len(t.frames) - 1  BY <3>2
      <4> HIDE DEF x, t
      <4> QED  BY <4>1, <4>2
    <3>4. ASSUME NEW j \in DOMAIN x.frames
          PROVE  /\ x.frames[j].nonce = b[o][p] + part'[e] + j - 1
                 /\ x.frames[j].nonce + b[e][p] < RekeyAfter
      <4>1. j \in Nat /\ j + 1 \in DOMAIN t.frames /\ x.frames[j] = t.frames[j + 1]
        BY <1>5, <1>12, <3>2, <3>4
      <4>2. /\ x.frames[j].nonce = b[o][p] + part[e] + (j + 1) - 1
            /\ x.frames[j].nonce + b[e][p] < RekeyAfter
        BY <1>7, <4>1
      <4>3. part[e] \in Nat /\ b[o][p] \in Nat /\ part'[e] = part[e] + 1  BY <1>a, <1>4
      <4> HIDE DEF x
      <4>4. j \in Nat  BY <4>1
      <4>5. b[o][p] + part[e] + (j + 1) - 1 = b[o][p] + part'[e] + j - 1  BY <4>3, <4>4
      <4> QED  BY <4>2, <4>5
    <3>5. pos'[e] = p /\ pos'[o] = pos[o] /\ script' = script /\ said' = said /\ part'[o] = part[o]
      BY <1>3, <1>4
    <3>6. p \in pos'[e]..Len(script)  BY <1>a, <1>3
    <3> HIDE DEF x, t
    <3>7. /\ x.item \in pos'[e]..Len(script') /\ x.item <= pos'[o] /\ x.item <= said'
          /\ script'[x.item].from = o /\ script'[x.item].kind = "blob"
      BY <1>1, <1>7, <1>12, <3>5, <3>6
    <3>8. (IF pos'[e] = x.item THEN part'[e] ELSE 0) = part'[e]  BY <1>12, <3>5
    <3>9. /\ part'[e] + Len(x.frames) <= script'[x.item].frames
          /\ x.item = pos'[o] => part'[e] + Len(x.frames) <= part'[o]
          /\ x.fin => x.item < pos'[o] /\ part'[e] + Len(x.frames) = script'[x.item].frames
      BY <1>7, <1>12, <3>3, <3>5
    <3>10. \A j \in DOMAIN x.frames :
             /\ x.frames[j].nonce = b[o][x.item] + part'[e] + j - 1
             /\ x.frames[j].nonce + b[e][x.item] < RekeyAfter
      BY <1>12, <3>4
    <3> QED  BY <1>1, <3>1, <3>7, <3>8, <3>9, <3>10 DEF StreamFits, From, Done
  <2> QED  BY <1>15, <2>1, <2>2 DEF StreamsFit
<1>21. StreamsInOrder(o)'  BY <1>15, <1>17, <1>18 DEF StreamsInOrder
<1>22. NoStreamMissing(o)'
  BY <1>3, <1>15, <1>17, <1>18, <1>19 DEF NoStreamMissing, From
<1>23. open => AllStreamsThere(o)'  BY <1>3, <1>17, <1>19 DEF AllStreamsThere, From
<1>24. open => LastIsOpen(o)'
  <2> SUFFICES ASSUME open, Own(o), At(o).kind = "blob", said >= pos[o] PROVE LastIsOpen(o)'
    BY <1>3 DEF LastIsOpen, Own, At
  <2> DEFINE u == uni[o][z]
             v == uni'[o][Len(uni'[o])]
  <2>1. /\ u.item = pos[o] /\ ~u.fin /\ Done(e, u.item) + Len(u.frames) = part[o]
    BY <1>1, <1>17 DEF LastIsOpen
  <2>2. v = uni'[o][z]  BY <1>15
  <2>3. CASE z = 1
    <3>1. v = x /\ u = t  BY <1>15, <2>2, <2>3
    <3>2. part[e] + Len(t.frames) = part[o] /\ ~t.fin /\ p = pos[o]
      <4>1. u = t  BY <3>1
      <4> QED  BY <1>2, <1>6, <2>1, <4>1
    <3>3. Len(x.frames) = Len(t.frames) - 1  BY <1>5, <1>12
    <3>4. part[e] \in Nat /\ Len(t.frames) \in Nat  BY <1>a, <1>5
    <3> HIDE DEF x, t, v
    <3>5. (part[e] + 1) + Len(x.frames) = part[o]  BY <3>2, <3>3, <3>4
    <3>6. /\ v.item = pos'[o] /\ ~v.fin
          /\ (IF pos'[e] = v.item THEN part'[e] ELSE 0) + Len(v.frames) = part'[o]
      BY <1>3, <1>4, <1>12, <3>1, <3>2, <3>5
    <3> QED  BY <1>1, <1>15, <3>6 DEF LastIsOpen, Done, v
  <2>4. CASE z # 1
    <3>1. v = u /\ u.item # p
      <4>1. z \in 1..z  BY <1>15
      <4>2. v = u  BY <1>15, <2>2, <2>4, <4>1
      <4>3. u.item \in Nat /\ u.item > p  BY <1>2, <2>4, <4>1
      <4> QED  BY <1>a, <4>2, <4>3
    <3>2. 0 + Len(u.frames) = part[o]  BY <2>1, <3>1 DEF Done
    <3> HIDE DEF u, v
    <3>3. /\ v.item = pos'[o] /\ ~v.fin
          /\ (IF pos'[e] = v.item THEN part'[e] ELSE 0) + Len(v.frames) = part'[o]
      BY <1>3, <1>4, <2>1, <3>1, <3>2
    <3> QED  BY <1>1, <1>15, <3>3 DEF LastIsOpen, Done, v
  <2> QED  BY <2>3, <2>4
<1>25. n + 1 \in Nat /\ n <= n + 1 /\ n + 1 <= b[o][p + 1]
  <2>1. b[o][p + 1] = b[o][p] + script[p].frames  BY <1>1
  <2>2. part[e] + 1 <= script[p].frames  BY <1>4, <1>9
  <2>3. b[o][p] \in Nat /\ part[e] \in Nat /\ script[p].frames \in Nat  BY <1>a
  <2> QED  BY <2>1, <2>2, <2>3
<1>26. /\ FramesFit(b, o)' /\ FramesInOrder(o)' /\ NoFrameMissing(b, o)'
       /\ open => AllFramesThere(b, o)'
  <2>1. Expect(b, e)' \in Nat /\ Expect(b, e) <= Expect(b, e)' /\ Expect(b, e)' <= b[o][p + 1]
    BY <1>1, <1>11, <1>25
  <2> QED  BY <1>0, <1>3, <1>10, <2>1, FramesElsewhere
<1>27. opened'[e] = Expect(b, e)' /\ opened'[e] <= Expect(b, e)'
  BY <1>4, <1>8, <1>11, <1>25
<1>28. count'[e] = sealed[e] + opened'[e]
  <2>1. count[e] = sealed[e] + opened[e] /\ sealed[e] \in Nat /\ opened[e] \in Nat  BY <1>1
  <2> QED  BY <1>4, <2>1
<1>29. Expect(b, e)' <= Sent(o)
  <2>1. Sent(o) \in Nat /\ b[o][pos[o]] <= Sent(o) /\ pos[o] \in 1..(Len(script) + 1)  BY <1>1
  <2>2. CASE pos[o] = p
    <3>1. Own(o) /\ At(o) = script[p]  BY <1>1, <2>2 DEF Own, At
    <3>2. OutboxFits(b, o) /\ sealed[o] \in Nat /\ part[o] \in Nat
      BY <1>1 DEF LinkInv, Sealing, Types
    <3>3. outbox[o] = <<>>  BY <1>1, <3>1, <3>2 DEF OutboxFits
    <3>4. sealed[o] = b[o][p] + part[o]  BY <1>1, <2>2, <3>1, <3>2, <3>3 DEF OutboxFits
    <3>5. Sent(o) = b[o][p] + part[o]  BY <3>2, <3>3, <3>4 DEF Sent
    <3>6. part[e] + 1 <= part[o]  BY SMTT(30), <1>a, <1>5, <1>7, <2>2, <3>2
    <3> QED  BY SMTT(30), <1>a, <1>11, <3>2, <3>5, <3>6
  <2>3. CASE pos[o] # p
    <3>1. p + 1 \in 1..(Len(script) + 1) /\ p + 1 <= pos[o]  BY SMTT(30), <1>a, <1>7, <2>1, <2>3
    <3>2. b[o][p + 1] \in Nat /\ b[o][pos[o]] \in Nat /\ b[o][p + 1] <= b[o][pos[o]]
      BY <1>1, <3>1, TallyOrder
    <3> QED  BY <1>11, <1>25, <2>1, <3>2
  <2> QED  BY <2>2, <2>3
<1> QED
  BY <1>10, <1>16, <1>20, <1>21, <1>22, <1>23, <1>24, <1>26, <1>27, <1>28, <1>29, ListensInv

LEMMA BlobEndsInv ==
    ASSUME NEW b, Ground(b), LinkInv(b), NEW e \in End, BlobEnds(e)
    PROVE  LinkInv(b)'
<1> DEFINE o == Other(e)
           p == pos[e]
           t == Head(uni[o])
           w == [item |-> t.item, frames |-> part[e], whole |-> part[e] = At(e).frames]
           z == Len(uni[o])
<1>0. Reads(e) /\ At(e).kind = "blob" /\ uni[o] # <<>>
  BY DEF BlobEnds, Listens, Running, Reads
<1>1. /\ p \in 1..Len(script) /\ Len(script) \in Nat /\ said \in Nat
      /\ script[p].from = o /\ script[p].frames \in Nat /\ script[p].kind = "blob"
      /\ part[e] \in Nat /\ o \in End /\ o # e /\ Other(o) = e
      /\ uni[o] \in Seq(Stream) /\ pos[o] \in 1..(Len(script) + 1)
      /\ b[o][p] \in Nat /\ b[o][p + 1] = b[o][p] + script[p].frames
      /\ Expect(b, e) = b[o][p] + part[e] /\ part[e] <= script[p].frames
      /\ Sent(o) \in Nat /\ b[o][pos[o]] <= Sent(o)
      /\ opened[e] \in Nat /\ count[e] = sealed[e] + opened[e] /\ opened[e] <= Expect(b, e)
      /\ AllWhole => opened[e] = Expect(b, e)
  BY <1>0, Listener DEF At
<1>a. /\ p \in 1..Len(script) /\ Len(script) \in Nat /\ part[e] \in Nat
      /\ script[p].frames \in Nat /\ b[o][p] \in Nat
  BY <1>1
<1>2. /\ t \in Stream /\ t.item = p /\ StreamFits(b, o, t)
      /\ \A k \in 1..z : k # 1 => uni[o][k].item \in Nat /\ uni[o][k].item > p
  BY <1>0, HeadStream
<1>3. /\ script' = script /\ sealed' = sealed /\ outbox' = outbox /\ bi' = bi /\ open' = open
      /\ said' = said /\ opened' = opened /\ count' = count
      /\ t.frames = <<>> /\ (t.fin \/ ~open)
  BY DEF BlobEnds
<1>4. /\ heard' = Append(heard, w) /\ pos' = [pos EXCEPT ![e] = @ + 1]
      /\ part' = [part EXCEPT ![e] = 0]
  BY DEF BlobEnds, Hears, Digest
<1>5. /\ pos'[e] = p + 1 /\ part'[e] = 0 /\ pos'[o] = pos[o] /\ part'[o] = part[o]
      /\ uni'[o] = Tail(uni[o]) /\ uni'[e] = uni[e]
  <2>1. /\ pos \in [End -> 1..(Len(script) + 1)] /\ part \in [End -> Nat]
        /\ uni \in [End -> Seq(Stream)]
    BY DEF LinkInv, Types
  <2>2. uni' = [uni EXCEPT ![o] = Tail(@)]  BY DEF BlobEnds
  <2> QED  BY <1>1, <1>4, <2>1, <2>2
<1>6. p <= pos[o] /\ p <= said /\ (open => p < pos[o] /\ part[e] = script[p].frames)
  <2>1. Done(Other(o), t.item) = part[e] /\ Len(t.frames) = 0  BY <1>1, <1>2, <1>3 DEF Done
  <2>2. p <= pos[o] /\ p <= said  BY <1>2 DEF StreamFits
  <2>3. t.fin => p < pos[o] /\ part[e] + 0 = script[p].frames  BY <1>2, <2>1 DEF StreamFits
  <2> QED  BY <1>a, <1>3, <2>2, <2>3
<1>7. w \in Word /\ (open => w.whole)
  <2>1. t.item \in Nat /\ part[e] \in Nat /\ (part[e] = At(e).frames) \in BOOLEAN  BY <1>a, <1>2
  <2>2. w \in Word  BY <2>1 DEF Word
  <2>3. open => part[e] = At(e).frames  BY <1>6 DEF At
  <2> QED  BY <2>2, <2>3
<1>8. ListensOn(e)
  <2>1. Still(o)  BY <1>3, <1>5 DEF Still
  <2>2. \E v \in Word : heard' = Append(heard, v) /\ (open => v.whole)  BY <1>4, <1>7
  <2> QED  BY <1>0, <1>3, <1>5, <1>6, <2>1, <2>2 DEF ListensOn
<1>9. Expect(b, e)' = b[o][p + 1] /\ b[o][p + 1] \in Nat
  <2>1. b[o][p + 1] \in Nat  BY <1>1
  <2>2. Expect(b, e)' = b[o][p + 1] + 0  BY <1>5 DEF Expect
  <2> QED  BY <2>1, <2>2
<1>10. Types'
  <2>1. uni' \in [End -> Seq(Stream)]
    <3>1. Tail(uni[o]) \in Seq(Stream)  BY <1>0, <1>1, TailSeq
    <3> QED  BY <1>1, <3>1 DEF BlobEnds, LinkInv, Types
  <2>2. pos' \in [End -> 1..(Len(script) + 1)]
    <3>1. p + 1 \in 1..(Len(script) + 1)  BY <1>a
    <3> QED  BY <1>4, <3>1 DEF LinkInv, Types
  <2>3. part' \in [End -> Nat]  BY <1>4 DEF LinkInv, Types
  <2>4. heard' \in Seq(Word)
    <3>1. heard \in Seq(Word)  BY DEF LinkInv, Types
    <3> HIDE DEF w
    <3> QED  BY <1>4, <1>7, <3>1, AppendSeq
  <2> QED  BY <2>1, <2>2, <2>3, <2>4 DEF BlobEnds, LinkInv, Types
<1>11. /\ StreamsFit(b, o) /\ StreamsInOrder(o) /\ NoStreamMissing(o)
       /\ open => AllStreamsThere(o) /\ LastIsOpen(o)
  BY <1>1 DEF LinkInv, Streams
<1>12. /\ z - 1 \in Nat /\ Len(uni'[o]) = z - 1 /\ DOMAIN uni[o] = 1..z
       /\ DOMAIN uni'[o] = 1..(z - 1) /\ uni'[o] \in Seq(Stream)
       /\ \A k \in 1..(z - 1) : k + 1 \in 1..z /\ uni'[o][k] = uni[o][k + 1]
       /\ 1 \in 1..z /\ t = uni[o][1]
  <2>1. uni[o] \in Seq(Stream) /\ uni[o] # <<>> /\ uni'[o] = Tail(uni[o])  BY <1>0, <1>1, <1>5
  <2> QED  BY <2>1, TailSeq
<1>13. ASSUME NEW i \in Nat, i > p PROVE Done(e, i)' = 0 /\ Done(e, i) = 0 /\ i >= pos'[e] /\ i # p
  BY <1>a, <1>5, <1>13 DEF Done
<1>14. StreamsFit(b, o)'
  <2> SUFFICES ASSUME NEW k \in DOMAIN uni'[o] PROVE StreamFits(b, o, uni[o][k])'
    BY DEF StreamsFit
  <2> DEFINE u == uni[o][k + 1]
  <2>1. k \in 1..(z - 1) /\ u = uni'[o][k] /\ k + 1 \in 1..z  BY <1>12
  <2>2. k + 1 # 1  BY <1>12, <2>1
  <2>3. u.item \in Nat /\ u.item > p  BY <1>2, <2>1, <2>2
  <2>4. StreamFits(b, o, u)  BY <1>11, <1>12, <2>1 DEF StreamsFit
  <2>5. u.item \in pos'[e]..Len(script)
    <3>1. u.item \in p..Len(script)  BY <1>1, <2>4 DEF StreamFits
    <3> QED  BY <1>a, <1>5, <2>3, <3>1
  <2>6. /\ (IF pos'[e] = u.item THEN part'[e] ELSE 0) = 0
        /\ (IF pos[e] = u.item THEN part[e] ELSE 0) = 0
    BY <1>a, <1>5, <2>3
  <2>7. /\ u.item <= pos[o] /\ u.item <= said
        /\ script[u.item].from = o /\ script[u.item].kind = "blob"
        /\ 0 + Len(u.frames) <= script[u.item].frames
        /\ u.item = pos[o] => 0 + Len(u.frames) <= part[o]
        /\ u.fin => u.item < pos[o] /\ 0 + Len(u.frames) = script[u.item].frames
        /\ \A j \in DOMAIN u.frames :
              /\ u.frames[j].nonce = b[o][u.item] + 0 + j - 1
              /\ u.frames[j].nonce + b[e][u.item] < RekeyAfter
    <3>1. Done(Other(o), u.item) = 0 /\ Other(o) = e  BY <1>1, <2>6 DEF Done
    <3> QED  BY <2>4, <3>1 DEF StreamFits, From
  <2>8. /\ pos'[o] = pos[o] /\ said' = said /\ script' = script /\ part'[o] = part[o]
        /\ Other(o) = e /\ uni'[o][k] = u
    BY <1>1, <1>3, <1>5, <2>1
  <2> HIDE DEF u
  <2> QED  BY <2>5, <2>6, <2>7, <2>8 DEF StreamFits, From, Done
<1>15. StreamsInOrder(o)'
  <2> SUFFICES ASSUME NEW j \in DOMAIN uni'[o], NEW k \in DOMAIN uni'[o], j < k
               PROVE  uni'[o][j].item < uni'[o][k].item
    BY DEF StreamsInOrder
  <2>1. j + 1 \in DOMAIN uni[o] /\ k + 1 \in DOMAIN uni[o] /\ j + 1 < k + 1  BY <1>12
  <2>2. uni[o][j + 1].item < uni[o][k + 1].item  BY <1>11, <2>1 DEF StreamsInOrder
  <2> QED  BY <1>12, <2>2
<1>16. ASSUME NEW i, HasStream(o, i), i # p PROVE HasStream(o, i)'
  <2>1. PICK j \in DOMAIN uni[o] : uni[o][j].item = i  BY <1>16 DEF HasStream
  <2>2. j # 1  BY <1>2, <1>12, <1>16, <2>1
  <2>3. j - 1 \in DOMAIN uni'[o] /\ (j - 1) + 1 = j  BY <1>12, <2>2
  <2>4. uni'[o][j - 1] = uni[o][j]
    <3>1. uni'[o][j - 1] = uni[o][(j - 1) + 1]  BY <1>12, <2>3
    <3> QED  BY <2>3, <3>1
  <2> QED  BY <2>1, <2>3, <2>4 DEF HasStream
<1>17. \A i \in pos'[e]..Len(script) : i \in p..Len(script) /\ i # p  BY <1>a, <1>5
<1>18. NoStreamMissing(o)'
  <2> SUFFICES ASSUME NEW k \in DOMAIN uni'[o], NEW i \in pos'[e]..Len(script),
                      From(i, o, "blob"), i < uni'[o][k].item
               PROVE  HasStream(o, i)'
    BY <1>1, <1>3 DEF NoStreamMissing, From
  <2>1. k + 1 \in DOMAIN uni[o] /\ uni'[o][k] = uni[o][k + 1]  BY <1>12
  <2>2. HasStream(o, i)  BY <1>1, <1>11, <1>17, <2>1 DEF NoStreamMissing
  <2> QED  BY <1>16, <1>17, <2>2
<1>19. open => AllStreamsThere(o)'
  <2> SUFFICES ASSUME open, NEW i \in pos'[e]..Len(script), From(i, o, "blob"), i < pos[o]
               PROVE  HasStream(o, i)'
    BY <1>1, <1>3, <1>5 DEF AllStreamsThere, From
  <2>1. HasStream(o, i)  BY <1>1, <1>11, <1>17 DEF AllStreamsThere
  <2> QED  BY <1>16, <1>17, <2>1
<1>20. open => LastIsOpen(o)'
  <2> SUFFICES ASSUME open, Own(o), At(o).kind = "blob", said >= pos[o] PROVE LastIsOpen(o)'
    BY <1>3, <1>5 DEF LastIsOpen, Own, At
  <2> DEFINE u == uni[o][z]
             v == uni'[o][Len(uni'[o])]
  <2>1. /\ u.item = pos[o] /\ ~u.fin /\ Done(e, u.item) + Len(u.frames) = part[o]
    BY <1>1, <1>11 DEF LastIsOpen
  <2>2. z # 1
    <3> SUFFICES ASSUME z = 1 PROVE FALSE  OBVIOUS
    <3>1. u.item = p  BY <1>2, <1>12
    <3> QED  BY <1>1, <1>6, <2>1, <3>1
  <2>3. z - 1 \in 1..(z - 1) /\ (z - 1) + 1 = z /\ z - 1 # 0 /\ z \in 1..z
    <3>1. z \in Nat /\ 1 \in 1..z  BY <1>1, <1>12
    <3> HIDE DEF z
    <3> QED  BY <2>2, <3>1
  <2>4. v = u /\ uni'[o] # <<>>
    <3>1. v = uni'[o][z - 1]  BY <1>12
    <3>2. uni'[o][z - 1] = uni[o][(z - 1) + 1]  BY <1>12, <2>3
    <3>3. uni'[o] # <<>>  BY <1>12, <2>3
    <3> QED  BY <2>3, <3>1, <3>2, <3>3
  <2>5. u.item \in Nat /\ u.item > p  BY <1>2, <2>2, <2>3
  <2>6. /\ (IF pos'[e] = u.item THEN part'[e] ELSE 0) = 0
        /\ (IF pos[e] = u.item THEN part[e] ELSE 0) = 0
    BY <1>a, <1>5, <2>5
  <2>7. 0 + Len(u.frames) = part[o]  BY <2>1, <2>6 DEF Done
  <2> HIDE DEF u, v
  <2>8. /\ v.item = pos'[o] /\ ~v.fin
        /\ (IF pos'[e] = v.item THEN part'[e] ELSE 0) + Len(v.frames) = part'[o]
    BY <1>5, <2>1, <2>4, <2>6, <2>7
  <2> QED  BY <1>1, <2>4, <2>8 DEF LastIsOpen, Done, v
<1>21. Expect(b, e) <= b[o][p + 1] /\ (part[e] = script[p].frames => Expect(b, e) = b[o][p + 1])
  <2>1. /\ Expect(b, e) = b[o][p] + part[e] /\ b[o][p + 1] = b[o][p] + script[p].frames
        /\ part[e] <= script[p].frames
    BY <1>1
  <2>2. part[e] \in Nat /\ script[p].frames \in Nat /\ b[o][p] \in Nat  BY <1>a
  <2> QED  BY <2>1, <2>2
<1>22. /\ FramesFit(b, o)' /\ FramesInOrder(o)' /\ NoFrameMissing(b, o)'
       /\ open => AllFramesThere(b, o)'
  <2>1. /\ Expect(b, e)' \in Nat /\ Expect(b, e) <= Expect(b, e)' /\ Expect(b, e)' <= b[o][p + 1]
    BY <1>9, <1>21
  <2> QED  BY <1>0, <1>3, <1>8, <2>1, FramesElsewhere
<1>23. opened'[e] <= Expect(b, e)'
  <2>1. opened[e] \in Nat /\ opened[e] <= Expect(b, e)  BY <1>1
  <2>2. Expect(b, e) \in Nat  BY Numbers
  <2>3. opened'[e] = opened[e]  BY <1>3
  <2> QED  BY <1>9, <1>21, <2>1, <2>2, <2>3
<1>24. AllWhole' => opened'[e] = Expect(b, e)'
  <2> SUFFICES ASSUME AllWhole' PROVE opened[e] = b[o][p + 1]  BY <1>3, <1>9
  <2>1. heard \in Seq(Word) /\ w \in Word  BY <1>7 DEF LinkInv, Types
  <2>2. /\ Len(heard) \in Nat /\ DOMAIN heard = 1..Len(heard) /\ DOMAIN heard' = 1..(Len(heard) + 1)
        /\ heard'[Len(heard) + 1] = w /\ \A k \in 1..Len(heard) : heard'[k] = heard[k]
    <3> HIDE DEF w
    <3> QED  BY <1>4, <2>1, AppendSeq
  <2>3. AllWhole
    <3>1. \A k \in 1..Len(heard) : k \in 1..(Len(heard) + 1)  BY <2>2
    <3> QED  BY <2>2, <3>1 DEF AllWhole
  <2>4. w.whole
    <3>1. Len(heard) + 1 \in DOMAIN heard'  BY <2>2
    <3>2. heard'[Len(heard) + 1].whole  BY <3>1 DEF AllWhole
    <3> QED  BY <2>2, <3>2
  <2>5. part[e] = script[p].frames  BY <2>4 DEF At
  <2>6. opened[e] = Expect(b, e)  BY <1>1, <2>3
  <2> QED  BY <1>21, <2>5, <2>6
<1>25. count'[e] = sealed[e] + opened'[e]  BY <1>1, <1>3
<1>26. open => Expect(b, e)' <= Sent(o)
  <2> SUFFICES ASSUME open PROVE b[o][p + 1] <= Sent(o)  BY <1>9
  <2>1. pos[o] \in 1..(Len(script) + 1) /\ Sent(o) \in Nat /\ b[o][pos[o]] <= Sent(o)  BY <1>1
  <2>2. p + 1 \in 1..(Len(script) + 1) /\ p + 1 <= pos[o]  BY <1>a, <1>6, <2>1
  <2>3. b[o][p + 1] \in Nat /\ b[o][pos[o]] \in Nat /\ b[o][p + 1] <= b[o][pos[o]]
    BY <1>1, <2>2, TallyOrder
  <2> QED  BY <2>1, <2>3
<1> QED
  BY <1>8, <1>10, <1>14, <1>15, <1>18, <1>19, <1>20, <1>22, <1>23, <1>24, <1>25, <1>26, ListensInv

----------------------------------------------------------------------------
(* Every step.                                                              *)

Moves(e) ==
    \/ Encodes(e) \/ Writes(e) \/ OpensUni(e) \/ Segments(e) \/ Finishes(e)
    \/ ReadsFrame(e) \/ ReadsSegment(e) \/ BlobEnds(e)

(* An end gives up only for a reason that the invariant leaves it.           *)
Reasons(e, reason) ==
    \/ reason = "closed" /\ ~open
    \/ reason = "too_large"
    \/ reason = "rekey" /\ At(e).from = e
    \/ reason = "decrypt" /\ ~AllWhole
Fails(e) ==
    Running(e) /\ \E reason \in {"closed", "rekey", "decrypt", "too_large"} :
                      Fail(e, reason) /\ Reasons(e, reason)

(* A listener that finds a frame has not used up its keys.                   *)
LEMMA ListenerUnderLimit ==
    ASSUME NEW b, Ground(b), LinkInv(b), NEW e \in End, Reads(e),
           NEW n \in Nat, n = Expect(b, e), n + b[e][pos[e]] < RekeyAfter
    PROVE  ~NeedsRekey(e, 0)
<1>1. /\ count[e] = sealed[e] + opened[e] /\ opened[e] <= Expect(b, e)
      /\ sealed[e] \in Nat /\ opened[e] \in Nat
  BY Listener
<1>2. pos[e] \in 1..(Len(script) + 1) /\ b[e][pos[e]] \in Nat /\ RekeyAfter \in Nat
  BY Numbers, LimitType
<1>3. sealed[e] = b[e][pos[e]]
  <2>1. OutboxFits(b, e)  BY DEF LinkInv, Sealing
  <2>2. ~Own(e)  BY DEF Own, Reads
  <2>3. outbox[e] = <<>>  BY <2>1, <2>2 DEF OutboxFits
  <2>4. sealed[e] = b[e][pos[e]] + 0  BY <2>1, <2>2, <2>3 DEF OutboxFits
  <2> QED  BY <1>2, <2>4
<1>4. count[e] + 0 < RekeyAfter  BY <1>1, <1>2, <1>3
<1>5. ~(count[e] + 0 >= RekeyAfter)  BY <1>1, <1>2, <1>4
<1> QED  BY <1>5 DEF NeedsRekey

LEMMA EncodeCases ==
    ASSUME NEW e \in End, Encode(e)
    PROVE  Encodes(e) \/ Fails(e)
BY DEF Encode, Encodes, Fails, Reasons, Speaks

LEMMA WriteCases ==
    ASSUME NEW e \in End, WriteFrame(e)
    PROVE  Writes(e) \/ Fails(e)
BY DEF WriteFrame, Writes, Fails, Reasons, Speaks

LEMMA OpenUniCases ==
    ASSUME NEW e \in End, OpenUni(e)
    PROVE  OpensUni(e) \/ Fails(e)
BY DEF OpenUni, OpensUni, Fails, Reasons, Speaks

LEMMA SegmentCases ==
    ASSUME NEW e \in End, WriteSegment(e)
    PROVE  Segments(e) \/ Fails(e)
BY DEF WriteSegment, Segments, Fails, Reasons, Speaks

LEMMA FinishCases ==
    ASSUME NEW e \in End, FinishUni(e)
    PROVE  Finishes(e) \/ Fails(e)
BY DEF FinishUni, Finishes, Fails, Reasons, Speaks

LEMMA ReadFrameCases ==
    ASSUME NEW b, Ground(b), LinkInv(b), NEW e \in End, ReadFrame(e)
    PROVE  ReadsFrame(e) \/ Fails(e)
<1> DEFINE o == Other(e)
<1>1. Running(e) /\ Reads(e) /\ At(e).kind = "message"
  BY DEF ReadFrame, Listens, Running, Reads
<1>2. CASE bi[o] = <<>>
  <2>1. ~open /\ Fail(e, "closed")  BY <1>2 DEF ReadFrame
  <2> QED  BY <1>1, <2>1 DEF Fails, Reasons
<1>3. CASE bi[o] # <<>>
  <2> DEFINE f == Head(bi[o])
  <2>1. /\ f \in Frame /\ f.item = pos[e] /\ f.nonce = b[o][pos[e]] + part[e]
        /\ FrameFits(b, o, f)
    BY <1>1, <1>3, HeadFrame
  <2>2. /\ Expect(b, e) = b[o][pos[e]] + part[e] /\ Expect(b, e) \in Nat /\ Other(o) = e
        /\ AllWhole => opened[e] = Expect(b, e)
    BY <1>1, Listener, Numbers
  <2>3. f.nonce + b[e][pos[e]] < RekeyAfter  BY <2>1, <2>2 DEF FrameFits
  <2>4. ~NeedsRekey(e, 0)  BY <1>1, <2>1, <2>2, <2>3, ListenerUnderLimit
  <2>5. CASE Opens(e, f)
    <3>1. /\ bi' = [bi EXCEPT ![o] = Tail(@)] /\ Opened(e)
          /\ IF part[e] + 1 < script[f.item].frames
             THEN part' = [part EXCEPT ![e] = @ + 1] /\ UNCHANGED <<pos, heard>>
             ELSE Hears(e, f.item, part[e] + 1, TRUE)
          /\ UNCHANGED <<script, sealed, outbox, uni, open, status, why, broke, late, said>>
      BY <1>3, <2>4, <2>5 DEF ReadFrame
    <3> QED  BY <1>3, <2>5, <3>1 DEF ReadFrame, ReadsFrame
  <2>6. CASE ~Opens(e, f)
    <3>1. Fail(e, "decrypt")  BY <1>3, <2>4, <2>6 DEF ReadFrame
    <3>2. ~AllWhole  BY <2>1, <2>2, <2>6 DEF Opens
    <3> QED  BY <1>1, <3>1, <3>2 DEF Fails, Reasons
  <2> QED  BY <2>5, <2>6
<1> QED  BY <1>2, <1>3

LEMMA ReadSegmentCases ==
    ASSUME NEW b, Ground(b), LinkInv(b), NEW e \in End, ReadSegment(e)
    PROVE  ReadsSegment(e) \/ Fails(e)
<1> DEFINE o == Other(e)
<1>1. Running(e) /\ Reads(e) /\ At(e).kind = "blob"
  BY DEF ReadSegment, Listens, Running, Reads
<1>2. CASE uni[o] = <<>>
  <2>1. ~open /\ Fail(e, "closed")  BY <1>2 DEF ReadSegment
  <2> QED  BY <1>1, <2>1 DEF Fails, Reasons
<1>3. CASE uni[o] # <<>>
  <2> DEFINE t == Head(uni[o])
             f == Head(t.frames)
  <2>1. t \in Stream /\ t.item = pos[e] /\ StreamFits(b, o, t)
    BY <1>1, <1>3, HeadStream
  <2>2. t.frames # <<>>  BY <1>3 DEF ReadSegment
  <2>3. t.frames \in Seq(Frame)  BY <2>1 DEF Stream
  <2>4. 1 \in DOMAIN t.frames /\ f = t.frames[1] /\ f \in Frame  BY <2>2, <2>3, TailSeq
  <2>5. /\ Expect(b, e) = b[o][pos[e]] + part[e] /\ Expect(b, e) \in Nat /\ Other(o) = e
        /\ b[o][pos[e]] \in Nat /\ part[e] \in Nat
        /\ AllWhole => opened[e] = Expect(b, e)
    BY <1>1, Listener, Numbers
  <2>6. /\ f.nonce = b[o][pos[e]] + part[e] + 1 - 1
        /\ f.nonce + b[e][pos[e]] < RekeyAfter
    BY <2>1, <2>4, <2>5 DEF StreamFits, Done
  <2>7. f.nonce = Expect(b, e)  BY <2>5, <2>6
  <2>8. ~NeedsRekey(e, 0)  BY <1>1, <2>5, <2>6, <2>7, ListenerUnderLimit
  <2>9. CASE Opens(e, f)
    <3>1. /\ uni' = [uni EXCEPT ![o][1].frames = Tail(@)] /\ Opened(e)
          /\ part' = [part EXCEPT ![e] = @ + 1]
          /\ UNCHANGED <<script, pos, sealed, outbox, bi, open, status, why, broke, late,
                         said, heard>>
      BY <1>3, <2>2, <2>8, <2>9 DEF ReadSegment
    <3> QED  BY <1>3, <2>2, <2>9, <3>1 DEF ReadSegment, ReadsSegment
  <2>10. CASE ~Opens(e, f)
    <3>1. Fail(e, "decrypt")  BY <1>3, <2>2, <2>8, <2>10 DEF ReadSegment
    <3>2. ~AllWhole  BY <2>5, <2>7, <2>10 DEF Opens
    <3> QED  BY <1>1, <3>1, <3>2 DEF Fails, Reasons
  <2> QED  BY <2>9, <2>10
<1> QED  BY <1>2, <1>3

LEMMA StepCases ==
    ASSUME NEW b, Ground(b), LinkInv(b), NEW e \in End, Step(e)
    PROVE  Moves(e) \/ Fails(e) \/ Ends(e) \/ GraceEnds(e)
<1>1. CASE Encode(e)  BY <1>1, EncodeCases DEF Moves
<1>2. CASE WriteFrame(e)  BY <1>2, WriteCases DEF Moves
<1>3. CASE OpenUni(e)  BY <1>3, OpenUniCases DEF Moves
<1>4. CASE WriteSegment(e)  BY <1>4, SegmentCases DEF Moves
<1>5. CASE FinishUni(e)  BY <1>5, FinishCases DEF Moves
<1>6. CASE ReadFrame(e)  BY <1>6, ReadFrameCases DEF Moves
<1>7. CASE ReadSegment(e)  BY <1>7, ReadSegmentCases DEF Moves
<1>8. CASE BlobEnds(e)  BY <1>8 DEF Moves
<1> QED  BY <1>1, <1>2, <1>3, <1>4, <1>5, <1>6, <1>7, <1>8 DEF Step

LEMMA HangUpCloses ==
    ASSUME NEW e \in End, HangUp(e)
    PROVE  /\ UNCHANGED <<open, bi, uni>> \/ \E ends \in SUBSET End : CloseKeeping(ends)
           /\ open' = FALSE \/ ~open
<1>1. {e} \in SUBSET End  OBVIOUS
<1> QED  BY <1>1 DEF HangUp, CloseKeeping

LEMMA FailCloses ==
    ASSUME Types, NEW e \in End, Fails(e)
    PROVE  Closes
<1>1. PICK reason \in {"closed", "rekey", "decrypt", "too_large"} : Fail(e, reason)  BY DEF Fails
<1>2. UNCHANGED <<open, bi, uni>> \/ \E ends \in SUBSET End : CloseKeeping(ends)
  BY <1>1, HangUpCloses DEF Fail
<1>3. Flags  BY <1>1 DEF Fail, Flags, Types
<1> QED  BY <1>1, <1>2, <1>3 DEF Fail, Closes

LEMMA EndsCloses ==
    ASSUME Types, NEW e \in End, Ends(e) \/ GraceEnds(e)
    PROVE  Closes
<1>1. CASE Ends(e)
  <2>1. UNCHANGED <<open, bi, uni>> \/ \E ends \in SUBSET End : CloseKeeping(ends)
    BY <1>1, HangUpCloses DEF Ends, Close, CloseGracefully
  <2>2. Flags  BY <1>1 DEF Ends, Close, CloseGracefully, Flags, Types
  <2> QED  BY <1>1, <2>1, <2>2 DEF Ends, Closes
<1>2. CASE GraceEnds(e)
  <2>1. UNCHANGED <<open, bi, uni>> \/ \E ends \in SUBSET End : CloseKeeping(ends)
    BY <1>2, HangUpCloses DEF GraceEnds, Close
  <2>2. Flags  BY <1>2 DEF GraceEnds, Close, Flags, Types
  <2> QED  BY <1>2, <2>1, <2>2 DEF GraceEnds, Closes
<1> QED  BY <1>1, <1>2

LEMMA BreakCloses ==
    ASSUME Types, Break
    PROVE  Closes
<1>1. CloseKeeping(End) /\ End \in SUBSET End  BY DEF Break
<1>2. Flags  BY DEF Break, Flags, Types
<1> QED  BY <1>1, <1>2 DEF Break, Closes

LEMMA NextInv ==
    ASSUME NEW b, Ground(b), LinkInv(b), [Next]_vars
    PROVE  LinkInv(b)'
<1>0. Types  BY DEF LinkInv
<1>1. CASE Break  BY <1>0, <1>1, BreakCloses, ClosesInv
<1>2. ASSUME NEW e \in End, Step(e) PROVE LinkInv(b)'
  <2>1. CASE Moves(e)
    BY <2>1, EncodesInv, WritesInv, OpensUniInv, SegmentsInv, FinishesInv, ReadsFrameInv,
       ReadsSegmentInv, BlobEndsInv DEF Moves
  <2>2. CASE Fails(e)  BY <1>0, <2>2, FailCloses, ClosesInv
  <2>3. CASE Ends(e) \/ GraceEnds(e)  BY <1>0, <2>3, EndsCloses, ClosesInv
  <2> QED  BY <1>2, <2>1, <2>2, <2>3, StepCases
<1>3. CASE UNCHANGED vars
  <2>1. Closes  BY <1>0, <1>3 DEF vars, Closes, Flags, Types
  <2> QED  BY <2>1, ClosesInv
<1> QED  BY <1>1, <1>2, <1>3 DEF Next

LEMMA InitTypes ==
    ASSUME Init
    PROVE  Types
<1>1. script \in Scripts /\ Len(script) \in Nat  BY ScriptType DEF Init
<1>2. 1 \in 1..(Len(script) + 1) /\ 0 \in 0..Len(script)  BY <1>1
<1>3. <<>> \in Seq(Frame) /\ <<>> \in Seq(Stream) /\ <<>> \in Seq(Word)  OBVIOUS
<1> QED  BY <1>1, <1>2, <1>3 DEF Init, Types

LEMMA InitInv ==
    ASSUME NEW b, Init, IsTally(b, script)
    PROVE  LinkInv(b)
<1>1. Types  BY InitTypes
<1>2. Ground(b)  BY <1>1, Grounded
<1>3. /\ Len(heard) = 0 /\ DOMAIN heard = {} /\ said = 0
      /\ \A e \in End : /\ pos[e] = 1 /\ sealed[e] = 0 /\ opened[e] = 0 /\ count[e] = 0
                        /\ outbox[e] = <<>> /\ part[e] = 0 /\ bi[e] = <<>> /\ uni[e] = <<>>
  BY DEF Init
<1>4. \A e \in End : b[e][1] = 0 /\ Other(e) \in End  BY Others DEF IsTally
<1>5. Len(script) \in Nat /\ Len(script) > 0  BY <1>2 DEF Ground
<1>6. \A i \in 1..Len(script) : script[i].from \in End /\ Other(script[i].from) \in End
  BY <1>2, Others DEF Ground
<1>7. Places
  <2>1. \A i \in 1..Len(script) : pos[script[i].from] = 1 /\ pos[Other(script[i].from)] = 1
    BY <1>3, <1>6
  <2> QED  BY <1>3, <1>5, <2>1 DEF Places, AllWhole
<1>8. \A e \in End : Sent(e) = 0 /\ Expect(b, e) = 0
  <2> SUFFICES ASSUME NEW e \in End PROVE Sent(e) = 0 /\ Expect(b, e) = 0  OBVIOUS
  <2>1. b[Other(e)][pos[e]] = 0 /\ part[e] = 0  BY <1>3, <1>4
  <2>2. sealed[e] = 0 /\ Len(outbox[e]) = 0  BY <1>3
  <2> QED  BY <2>1, <2>2 DEF Sent, Expect
<1>9. Sealing(b)
  <2> SUFFICES ASSUME NEW e \in End PROVE PartFits(e) /\ OutboxFits(b, e)  BY DEF Sealing
  <2>1. pos[e] = 1 /\ part[e] = 0 /\ outbox[e] = <<>> /\ sealed[e] = 0 /\ b[e][1] = 0
    BY <1>3, <1>4
  <2>2. 1 \in 1..Len(script) /\ At(e) = script[1]  BY <1>5, <2>1 DEF At
  <2>3. At(e).frames \in Nat /\ (At(e).kind = "message" => At(e).frames > 0)
    BY <1>2, <2>2 DEF Ground
  <2>4. PartFits(e)  BY <2>1, <2>3 DEF PartFits
  <2>5. OutboxFits(b, e)  BY <2>1 DEF OutboxFits
  <2> QED  BY <2>4, <2>5
<1>10. Opening(b)  BY <1>3, <1>4, <1>8 DEF Opening, OpenedFits
<1>11. \A s \in End : DOMAIN bi[s] = {} /\ DOMAIN uni[s] = {}  BY <1>3
<1>12. Written(b)
  <2>1. ASSUME NEW s \in End PROVE AllFramesThere(b, s)
    <3>1. Sent(s) = 0  BY <1>8
    <3> QED  BY <3>1 DEF AllFramesThere
  <2> QED  BY <1>11, <2>1 DEF Written, FramesFit, FramesInOrder, NoFrameMissing
<1>13. Streams(b)
  <2>1. ASSUME NEW s \in End PROVE AllStreamsThere(s) /\ LastIsOpen(s)
    <3>1. pos[s] = 1 /\ pos[Other(s)] = 1 /\ said = 0  BY <1>3, <1>4
    <3>2. AllStreamsThere(s)  BY <1>5, <3>1 DEF AllStreamsThere
    <3>3. LastIsOpen(s)  BY <3>1 DEF LastIsOpen
    <3> QED  BY <3>2, <3>3
  <2> QED  BY <1>11, <2>1 DEF Streams, StreamsFit, StreamsInOrder, NoStreamMissing
<1> QED  BY <1>1, <1>7, <1>9, <1>10, <1>12, <1>13 DEF LinkInv

----------------------------------------------------------------------------
(* How a session ends.                                                      *)

(* A step that moves the conversation on ends nothing.                       *)
LEMMA MovesLeaves ==
    ASSUME NEW b, LinkInv(b), NEW e \in End, Moves(e)
    PROVE  /\ UNCHANGED <<script, open, status, why, broke, late>> /\ status[e] = "run"
           /\ \A d \in End : d # e => pos'[d] = pos[d]
           /\ heard' = heard \/ \E w : heard' = Append(heard, w)
<1>1. pos \in [End -> 1..(Len(script) + 1)]  BY DEF LinkInv, Types
<1>2. UNCHANGED <<script, open, status, why, broke, late>> /\ status[e] = "run"
  BY DEF Moves, Encodes, Writes, OpensUni, Segments, Finishes, ReadsFrame, ReadsSegment, BlobEnds,
         Speaks, Listens, Running
<1>3. heard' = heard \/ \E w : heard' = Append(heard, w)
  BY DEF Moves, Encodes, Writes, OpensUni, Segments, Finishes, ReadsFrame, ReadsSegment, BlobEnds,
         Hears
<1>4. pos' = pos \/ \E p : pos' = [pos EXCEPT ![e] = p]
  BY Zenon DEF Moves, Encodes, Writes, OpensUni, Segments, Finishes, ReadsFrame, ReadsSegment, BlobEnds,
         Hears
<1>5. \A d \in End : d # e => pos'[d] = pos[d]  BY <1>1, <1>4
<1> QED  BY <1>2, <1>3, <1>5

LEMMA InitEndings == ASSUME Init PROVE Endings
BY DEF Init, Endings, NoncesAgree, LimitMeetsTheSpeaker, LastWordHeard, End

LEMMA MovesEndings ==
    ASSUME NEW b, LinkInv(b), Endings, NEW e \in End, Moves(e)
    PROVE  Endings'
<1>1. /\ UNCHANGED <<script, open, status, why, broke, late>> /\ status[e] = "run"
      /\ \A d \in End : d # e => pos'[d] = pos[d]
      /\ heard' = heard \/ \E w : heard' = Append(heard, w)
  BY MovesLeaves
<1>2. NoncesAgree'
  <2> SUFFICES ASSUME NEW d \in End, why[d] = "decrypt"
               PROVE  ~open /\ \E i \in DOMAIN heard' : ~heard'[i].whole
    BY <1>1 DEF NoncesAgree
  <2>1. ~open /\ \E i \in DOMAIN heard : ~heard[i].whole  BY DEF Endings, NoncesAgree
  <2>2. PICK i \in DOMAIN heard : ~heard[i].whole  BY <2>1
  <2>3. heard \in Seq(Word)  BY DEF LinkInv, Types
  <2>4. i \in DOMAIN heard' /\ heard'[i] = heard[i]
    <3>1. CASE heard' = heard  BY <3>1
    <3>2. ASSUME NEW w, heard' = Append(heard, w) PROVE i \in DOMAIN heard' /\ heard'[i] = heard[i]
      BY <2>3, <3>2
    <3> QED  BY <1>1, <3>1, <3>2
  <2> QED  BY <2>1, <2>2, <2>4
<1>3. LimitMeetsTheSpeaker'
  <2> SUFFICES ASSUME NEW d \in End, why[d] = "rekey" PROVE At(d)'.from = d
    BY <1>1 DEF LimitMeetsTheSpeaker
  <2>1. status[d] = "failed" /\ At(d).from = d  BY DEF Endings, LimitMeetsTheSpeaker
  <2>2. d # e  BY <1>1, <2>1
  <2>3. pos'[d] = pos[d] /\ script' = script  BY <1>1, <2>2
  <2> QED  BY <2>1, <2>3 DEF At
<1>4. LastWordHeard'  BY <1>1 DEF Endings, LastWordHeard
<1> QED  BY <1>1, <1>2, <1>3, <1>4 DEF Endings

LEMMA FailsEndings ==
    ASSUME NEW b, LinkInv(b), Endings, NEW e \in End, Fails(e)
    PROVE  Endings'
<1>1. PICK reason \in {"closed", "rekey", "decrypt", "too_large"} :
        Fail(e, reason) /\ Reasons(e, reason)
  BY DEF Fails
<1>2. /\ UNCHANGED <<script, pos, broke, late, heard>> /\ (open' = FALSE \/ UNCHANGED open)
      /\ open' = FALSE \/ ~open
  BY <1>1 DEF Fail, HangUp, CloseKeeping
<1>3. /\ status' = [status EXCEPT ![e] = "failed"] /\ why' = [why EXCEPT ![e] = reason]
      /\ status \in [End -> {"run", "grace", "done", "failed"}]
      /\ why \in [End -> {"none", "closed", "rekey", "decrypt", "too_large"}]
      /\ status[e] = "run"
  BY <1>1 DEF Fail, LinkInv, Types, Fails, Running
<1>4. /\ status'[e] = "failed" /\ why'[e] = reason
      /\ \A d \in End : d # e => status'[d] = status[d] /\ why'[d] = why[d]
  BY <1>3
<1>5. ~open' /\ (~AllWhole => ~open)
  BY <1>2 DEF LinkInv, Places
<1>6. \A d \in End : why'[d] # "none" => status'[d] = "failed"  BY <1>4 DEF Endings
<1>7. NoncesAgree'
  <2> SUFFICES ASSUME NEW d \in End, why'[d] = "decrypt"
               PROVE  \E i \in DOMAIN heard : ~heard[i].whole
    BY <1>2, <1>5 DEF NoncesAgree
  <2>1. CASE d = e
    <3>1. ~AllWhole  BY <1>1, <1>4, <2>1 DEF Reasons
    <3> QED  BY <3>1 DEF AllWhole
  <2>2. CASE d # e  BY <1>4, <2>2 DEF Endings, NoncesAgree
  <2> QED  BY <2>1, <2>2
<1>8. LimitMeetsTheSpeaker'
  <2> SUFFICES ASSUME NEW d \in End, why'[d] = "rekey" PROVE At(d).from = d
    BY <1>2 DEF LimitMeetsTheSpeaker, At
  <2>1. CASE d = e  BY <1>1, <1>4, <2>1 DEF Reasons
  <2>2. CASE d # e  BY <1>4, <2>2 DEF Endings, LimitMeetsTheSpeaker
  <2> QED  BY <2>1, <2>2
<1>9. CASE e = "dialler"
  <2>1. status'["dialler"] = "failed" /\ status'["acceptor"] = status["acceptor"]
    BY <1>4, <1>9 DEF End
  <2> QED  BY <1>6, <1>7, <1>8, <2>1 DEF Endings, LastWordHeard
<1>10. CASE e = "acceptor"
  <2>1. status'["acceptor"] = "failed" /\ status'["dialler"] = status["dialler"]
        /\ why'["acceptor"] = reason /\ status["acceptor"] = "run"
    BY <1>3, <1>4, <1>10 DEF End
  <2>2. LastWordHeard'
    <3>1. CASE reason \in {"rekey", "too_large"}  BY <2>1, <3>1 DEF LastWordHeard
    <3>2. CASE reason \in {"closed", "decrypt"}
      <4>1. ~open  BY <1>1, <1>5, <3>2 DEF Reasons
      <4>2. broke \/ late \/ status["dialler"] = "failed"  BY <2>1, <4>1 DEF Endings
      <4> QED  BY <1>2, <2>1, <4>2 DEF LastWordHeard
    <3> QED  BY <3>1, <3>2
  <2> QED  BY <1>6, <1>7, <1>8, <2>1, <2>2 DEF Endings
<1> QED  BY <1>9, <1>10 DEF End

LEMMA NextEndings ==
    ASSUME NEW b, Ground(b), LinkInv(b), Endings, [Next]_vars
    PROVE  Endings'
<1>0. status \in [End -> {"run", "grace", "done", "failed"}]  BY DEF LinkInv, Types
<1>1. CASE Break
  <2>1. /\ UNCHANGED <<script, pos, status, why, late, heard>> /\ broke' = TRUE /\ ~open'
    BY <1>1 DEF Break, CloseKeeping
  <2> QED  BY <2>1 DEF Endings, NoncesAgree, LimitMeetsTheSpeaker, LastWordHeard, At
<1>2. ASSUME NEW e \in End, Step(e) PROVE Endings'
  <2>1. CASE Moves(e)  BY <2>1, MovesEndings
  <2>2. CASE Fails(e)  BY <2>2, FailsEndings
  <2>3. CASE Ends(e)
    <3>1. /\ UNCHANGED <<script, pos, why, broke, late, heard>> /\ status[e] = "run"
      BY <2>3 DEF Ends, Over
    <3>2. NoncesAgree' /\ LimitMeetsTheSpeaker'
      <4>1. ~open => ~open'  BY <2>3 DEF Ends, Close, CloseGracefully, HangUp
      <4> QED  BY <3>1, <4>1 DEF Endings, NoncesAgree, LimitMeetsTheSpeaker, At
    <3>3. CASE e = "dialler"
      <4>1. /\ UNCHANGED open /\ status' = [status EXCEPT !["dialler"] = "grace"]
        BY <2>3, <3>3 DEF Ends, CloseGracefully
      <4>2. status'["dialler"] = "grace" /\ status'["acceptor"] = status["acceptor"]
        BY <1>0, <4>1 DEF End
      <4>3. \A d \in End : why'[d] # "none" => status'[d] = "failed"
        BY <3>1, <3>3, <4>2 DEF Endings, End
      <4> QED  BY <3>1, <3>2, <3>3, <4>1, <4>2, <4>3 DEF Endings, LastWordHeard
    <3>4. CASE e = "acceptor"
      <4>1. status' = [status EXCEPT !["acceptor"] = "done"]
        BY <2>3, <3>4 DEF Ends, Close
      <4>2. status'["acceptor"] = "done" /\ status'["dialler"] = status["dialler"]
        BY <1>0, <4>1 DEF End
      <4>3. \A d \in End : why'[d] # "none" => status'[d] = "failed"
        BY <3>1, <3>4, <4>2 DEF Endings, End
      <4> QED  BY <3>1, <3>2, <4>2, <4>3 DEF Endings, LastWordHeard
    <3> QED  BY <3>3, <3>4 DEF End
  <2>4. CASE GraceEnds(e)
    <3>1. /\ UNCHANGED <<script, pos, why, broke, heard>> /\ status[e] = "grace"
          /\ late' = (late \/ open) /\ ~open' /\ status' = [status EXCEPT ![e] = "done"]
      BY <2>4 DEF GraceEnds, Close, HangUp, CloseKeeping
    <3>2. e = "dialler"  BY <3>1 DEF Endings, End
    <3>3. status'["dialler"] = "done" /\ status'["acceptor"] = status["acceptor"]
      BY <1>0, <3>1, <3>2 DEF End
    <3>4. \A d \in End : why'[d] # "none" => status'[d] = "failed"
      BY <3>1, <3>2, <3>3 DEF Endings, End
    <3>5. NoncesAgree' /\ LimitMeetsTheSpeaker'
      BY <3>1 DEF Endings, NoncesAgree, LimitMeetsTheSpeaker, At
    <3> QED  BY <3>1, <3>2, <3>3, <3>4, <3>5 DEF Endings, LastWordHeard
  <2> QED  BY <1>2, <2>1, <2>2, <2>3, <2>4, StepCases
<1>3. CASE UNCHANGED vars
  BY <1>3 DEF vars, Endings, NoncesAgree, LimitMeetsTheSpeaker, LastWordHeard, At
<1> QED  BY <1>1, <1>2, <1>3 DEF Next

----------------------------------------------------------------------------
(* The invariant holds.                                                     *)

Counted == \A e \in End : count[e] <= RekeyAfter

LEMMA StepCounted ==
    ASSUME NEW b, Ground(b), LinkInv(b), Counted, [Next]_vars
    PROVE  Counted'
<1>0. count \in [End -> Nat] /\ RekeyAfter \in Nat  BY LimitType DEF LinkInv, Types
<1>1. ASSUME NEW e \in End, NEW n \in Nat, n > 0, ~NeedsRekey(e, n - 1),
             count' = [count EXCEPT ![e] = @ + n]
      PROVE  Counted'
  <2>1. count'[e] = count[e] + n /\ \A d \in End : d # e => count'[d] = count[d]  BY <1>0, <1>1
  <2>2. count[e] + (n - 1) < RekeyAfter  BY <1>0, <1>1 DEF NeedsRekey
  <2>3. count'[e] <= RekeyAfter  BY <1>0, <1>1, <2>1, <2>2
  <2> QED  BY <2>1, <2>3 DEF Counted
<1>2. CASE UNCHANGED count  BY <1>2 DEF Counted
<1>3. CASE Break  BY <1>2, <1>3 DEF Break
<1>4. CASE UNCHANGED vars  BY <1>2, <1>4 DEF vars
<1>5. ASSUME NEW e \in End, Step(e) PROVE Counted'
  <2>1. ASSUME NEW reason, Fail(e, reason) PROVE Counted'  BY <1>2, <2>1 DEF Fail
  <2>2. CASE Encode(e)
    <3> DEFINE n == At(e).frames
    <3>1. n \in Nat /\ n > 0
      <4>1. pos[e] \in 1..Len(script) /\ script[pos[e]].kind = "message"
        <5>1. pos[e] \in 1..(Len(script) + 1) /\ Len(script) \in Nat  BY Numbers
        <5> QED  BY <2>2, <5>1 DEF Encode, Speaks, Running, At
      <4> QED  BY <4>1 DEF At, Ground
    <3>2. CASE ~NeedsRekey(e, n - 1) /\ Seal(e, n)  BY <1>1, <3>1, <3>2 DEF Seal
    <3> QED  BY <2>1, <2>2, <3>2 DEF Encode
  <2>3. ASSUME ~NeedsRekey(e, 0), count' = [count EXCEPT ![e] = @ + 1] PROVE Counted'
    <3>1. count[e] < RekeyAfter  BY <1>0, <2>3 DEF NeedsRekey
    <3>2. count'[e] = count[e] + 1 /\ \A d \in End : d # e => count'[d] = count[d]  BY <1>0, <2>3
    <3>3. count'[e] <= RekeyAfter  BY <1>0, <3>1, <3>2
    <3> QED  BY <3>2, <3>3 DEF Counted
  <2>4. CASE WriteSegment(e)  BY <2>1, <2>3, <2>4 DEF WriteSegment, Seal
  <2>5. CASE ReadFrame(e)  BY <2>1, <2>3, <2>5 DEF ReadFrame, Opened
  <2>6. CASE ReadSegment(e)  BY <2>1, <2>3, <2>6 DEF ReadSegment, Opened
  <2>7. CASE WriteFrame(e) \/ OpenUni(e) \/ FinishUni(e)
    BY <1>2, <2>1, <2>7 DEF WriteFrame, OpenUni, FinishUni
  <2>8. CASE BlobEnds(e) \/ Ends(e) \/ GraceEnds(e)  BY <1>2, <2>8 DEF BlobEnds, Ends, GraceEnds
  <2> QED  BY <1>5, <2>2, <2>4, <2>5, <2>6, <2>7, <2>8 DEF Step
<1> QED  BY <1>3, <1>4, <1>5 DEF Next

Inv == Endings /\ Counted /\ \E b : IsTally(b, script) /\ LinkInv(b)

LEMMA InitHolds == Init => Inv
<1> SUFFICES ASSUME Init PROVE Inv  OBVIOUS
<1>1. PICK b : IsTally(b, script)
  <2>1. script \in Scripts  BY DEF Init
  <2> QED  BY <2>1, TallyExists
<1>2. LinkInv(b)  BY <1>1, InitInv
<1>3. Counted  BY LimitType DEF Init, Counted
<1> QED  BY <1>1, <1>2, <1>3, InitEndings DEF Inv

LEMMA NextHolds == Inv /\ [Next]_vars => Inv'
<1> SUFFICES ASSUME Inv, [Next]_vars PROVE Inv'  OBVIOUS
<1>1. PICK b : IsTally(b, script) /\ LinkInv(b)  BY DEF Inv
<1>2. Types /\ Endings /\ Counted  BY <1>1 DEF LinkInv, Inv
<1>3. Ground(b)  BY <1>1, <1>2, Grounded
<1>4. LinkInv(b)'  BY <1>1, <1>3, NextInv
<1>5. Endings'  BY <1>1, <1>2, <1>3, NextEndings
<1>6. Counted'  BY <1>1, <1>2, <1>3, StepCounted
<1>7. script' = script
  <2>1. CASE Break  BY <2>1 DEF Break
  <2>2. ASSUME NEW e \in End, Step(e) PROVE script' = script
    <3>1. CASE Moves(e)  BY <1>1, <3>1, MovesLeaves
    <3>2. CASE Fails(e)  BY <3>2 DEF Fails, Fail
    <3>3. CASE Ends(e) \/ GraceEnds(e)  BY <3>3 DEF Ends, GraceEnds
    <3> QED  BY <1>1, <1>3, <2>2, <3>1, <3>2, <3>3, StepCases
  <2> QED  BY <2>1, <2>2 DEF Next, vars
<1> QED  BY <1>1, <1>4, <1>5, <1>6, <1>7 DEF Inv

LEMMA Invariant == Spec => []Inv
BY InitHolds, NextHolds, PTL DEF Spec

(* An end never counts past REKEY_AFTER_MESSAGES, and the other variables    *)
(* keep their types, however long the conversation is.                       *)
THEOREM LinkTypes == Spec => []TypeOK
<1>1. Inv => TypeOK
  <2> SUFFICES ASSUME Inv PROVE TypeOK  OBVIOUS
  <2>1. Types /\ Counted  BY DEF Inv, LinkInv
  <2>2. count \in [End -> 0..RekeyAfter]
    <3>1. RekeyAfter \in Nat  BY LimitType
    <3> QED  BY <2>1, <3>1 DEF Types, Counted
  <2> QED  BY <2>1, <2>2 DEF Types, TypeOK, Stream, Word
<1> QED  BY <1>1, Invariant, PTL

(* Messages and blobs share one nonce counter for each direction and travel  *)
(* on streams that QUIC does not order: still every frame is opened with the *)
(* nonce Session::write_message sealed it with, unless the connection was    *)
(* lost in the middle of a blob.                                             *)
THEOREM FramesDecrypt == Spec => []NoncesAgree
<1>1. Inv => NoncesAgree  BY DEF Inv, Endings
<1> QED  BY <1>1, Invariant, PTL

(* needs_rekey stops only an end that is about to speak: what was sealed     *)
(* under the limit is opened under it.                                       *)
THEOREM SpeakerMeetsTheLimit == Spec => []LimitMeetsTheSpeaker
<1>1. Inv => LimitMeetsTheSpeaker  BY DEF Inv, Endings
<1> QED  BY <1>1, Invariant, PTL

(* PeerLink::close_gracefully keeps what it is for: the acceptor reports a   *)
(* failure only when the network broke, the dialler failed, CLOSE_GRACE ran  *)
(* out, or it met a limit of its own.                                        *)
THEOREM GraceKeepsTheLastWord == Spec => []LastWordHeard
<1>1. Inv => LastWordHeard  BY DEF Inv, Endings
<1> QED  BY <1>1, Invariant, PTL

----------------------------------------------------------------------------
(* The link implements the channel.                                         *)

(* What an end listens to is the next item to be heard.                      *)
LEMMA NextToHear ==
    ASSUME NEW b, Ground(b), LinkInv(b), NEW e \in End, Reads(e), pos[e] <= pos[Other(e)]
    PROVE  Len(heard) + 1 = pos[e]
<1> DEFINE o == Other(e)
           p == pos[e]
<1>1. /\ p \in 1..Len(script) /\ Len(script) \in Nat /\ script[p].from = o
      /\ o \in End /\ Other(o) = e /\ pos[o] \in 1..(Len(script) + 1)
  BY Listener
<1>2. Len(heard) \in Nat  BY DEF LinkInv, Types
<1>3. \A i \in 1..Len(script) : i <= Len(heard) <=> pos[Other(script[i].from)] > i
  BY DEF LinkInv, Places
<1>4. ~(p <= Len(heard))  BY <1>1, <1>3
<1>5. CASE p = 1  BY <1>2, <1>4, <1>5
<1>6. CASE p # 1
  <2> DEFINE i == p - 1
  <2>1. i \in 1..Len(script) /\ i < p /\ i < pos[o]  BY <1>1, <1>6
  <2>2. script[i].from \in End  BY <2>1 DEF Ground
  <2>3. Other(script[i].from) = e \/ Other(script[i].from) = o  BY <1>1, <2>2, Others
  <2>4. pos[Other(script[i].from)] > i  BY <1>1, <2>1, <2>3
  <2>5. i <= Len(heard)  BY <1>3, <2>1, <2>4
  <2> QED  BY <1>1, <1>2, <1>4, <2>5
<1> QED  BY <1>5, <1>6

(* The first frame of an item is what the channel calls saying it.           *)
LEMMA BeginsSays ==
    ASSUME NEW b, Ground(b), LinkInv(b), NEW e \in End, Own(e), open, Began(e),
           UNCHANGED <<script, heard, open>>
    PROVE  Conversation!Next \/ UNCHANGED Conversation!vars
<1> DEFINE p == pos[e]
<1>1. /\ p \in 1..Len(script) /\ Len(script) \in Nat /\ script[p].from = e /\ said \in Nat
  BY HasTheWord, Numbers
<1>2. CASE ~(p > said)
  <2>1. said' = said  BY <1>2 DEF Began
  <2> QED  BY <2>1 DEF Conversation!vars
<1>3. CASE p > said
  <2>1. said' = p  BY <1>3 DEF Began
  <2>2. p = said + 1
    <3>1. CASE p = 1  BY <1>1, <1>3, <3>1
    <3>2. CASE p # 1
      <4>1. p - 1 \in 1..Len(script) /\ p - 1 < p  BY <1>1, <3>2
      <4>2. p - 1 <= said  BY <4>1, SaidBefore
      <4> QED  BY <1>1, <1>3, <4>2
    <3> QED  BY <3>1, <3>2
  <2>3. ASSUME said > 0, script[said + 1].from # script[said].from PROVE Len(heard) = said
    <3>1. said \in 1..Len(script)  BY <1>1, <2>2, <2>3
    <3>2. script[said].from \in End /\ script[said].from # e  BY <1>1, <2>2, <2>3, <3>1 DEF Ground
    <3>3. Other(script[said].from) = e  BY <3>2, Others
    <3>4. said <= Len(heard)
      <4>1. pos[Other(script[said].from)] > said  BY <1>1, <2>2, <3>3
      <4> QED  BY <3>1, <4>1 DEF LinkInv, Places
    <3>5. Len(heard) <= said /\ Len(heard) \in Nat  BY DEF LinkInv, Places, Types
    <3> QED  BY <1>1, <3>4, <3>5
  <2>4. said < Len(script) /\ said' = said + 1  BY <1>1, <2>1, <2>2
  <2>5. Conversation!Say  BY <2>3, <2>4 DEF Conversation!Say
  <2> QED  BY <2>5 DEF Conversation!Next
<1> QED  BY <1>2, <1>3

(* The end of an item is heard, whole or torn.                               *)
LEMMA HearsWhole ==
    ASSUME NEW b, Ground(b), LinkInv(b), NEW e \in End, Reads(e),
           pos[e] <= pos[Other(e)], pos[e] <= said,
           heard' = Append(heard, Conversation!Heard(pos[e], script[pos[e]].frames, TRUE)),
           UNCHANGED <<script, said, open>>
    PROVE  Conversation!Next
<1>1. pos[e] \in Nat /\ said \in Nat  BY Listener
<1>2. Len(heard) + 1 = pos[e]  BY NextToHear
<1>3. heard \in Seq(Word)  BY DEF LinkInv, Types
<1>4. Len(heard) < said  BY <1>1, <1>2, <1>3
<1>5. Conversation!Hear  BY <1>2, <1>4 DEF Conversation!Hear
<1> QED  BY <1>5 DEF Conversation!Next

LEMMA HearsTorn ==
    ASSUME NEW b, Ground(b), LinkInv(b), NEW e \in End, Reads(e),
           pos[e] <= pos[Other(e)], pos[e] <= said, ~open, script[pos[e]].kind = "blob",
           NEW n \in Nat, n < script[pos[e]].frames,
           heard' = Append(heard, Conversation!Heard(pos[e], n, FALSE)),
           UNCHANGED <<script, said, open>>
    PROVE  Conversation!Next
<1>1. pos[e] \in Nat /\ said \in Nat /\ script[pos[e]].frames \in Nat  BY Listener
<1>2. Len(heard) + 1 = pos[e]  BY NextToHear
<1>3. heard \in Seq(Word)  BY DEF LinkInv, Types
<1>4. Len(heard) < said  BY <1>1, <1>2, <1>3
<1>5. n \in 0..(script[pos[e]].frames - 1)  BY <1>1
<1>6. Conversation!HearTorn  BY <1>2, <1>4, <1>5 DEF Conversation!HearTorn
<1> QED  BY <1>6 DEF Conversation!Next

LEMMA ReadsFrameRefines ==
    ASSUME NEW b, Ground(b), LinkInv(b), NEW e \in End, ReadsFrame(e)
    PROVE  Conversation!Next \/ UNCHANGED Conversation!vars
<1> DEFINE o == Other(e)
           p == pos[e]
           f == Head(bi[o])
           n == part[e] + 1
<1>1. Reads(e) /\ At(e).kind = "message" /\ bi[o] # <<>> /\ UNCHANGED <<script, said, open>>
  BY DEF ReadsFrame, Listens, Running, Reads
<1>2. /\ f.item = p /\ FrameFits(b, o, f)  BY <1>1, HeadFrame
<1>3. p <= pos[o] /\ p <= said  BY <1>2 DEF FrameFits
<1>4. part[e] \in Nat /\ script[p].frames \in Nat /\ part[e] < script[p].frames
  BY <1>1, Listener DEF At
<1>5. CASE n < script[p].frames
  <2>1. heard' = heard  BY <1>2, <1>5 DEF ReadsFrame
  <2> QED  BY <1>1, <2>1 DEF Conversation!vars
<1>6. CASE ~(n < script[p].frames)
  <2>1. heard' = Append(heard, [item |-> p, frames |-> n, whole |-> TRUE])
    BY <1>2, <1>6 DEF ReadsFrame, Hears
  <2>2. n = script[p].frames  BY <1>4, <1>6
  <2>3. heard' = Append(heard, Conversation!Heard(p, script[p].frames, TRUE))
    BY <2>1, <2>2 DEF Conversation!Heard
  <2> QED  BY <1>1, <1>3, <2>3, HearsWhole
<1> QED  BY <1>5, <1>6

LEMMA BlobEndsRefines ==
    ASSUME NEW b, Ground(b), LinkInv(b), NEW e \in End, BlobEnds(e)
    PROVE  Conversation!Next
<1> DEFINE o == Other(e)
           p == pos[e]
           t == Head(uni[o])
           n == part[e]
<1>1. Reads(e) /\ At(e).kind = "blob" /\ uni[o] # <<>> /\ UNCHANGED <<script, said, open>>
  BY DEF BlobEnds, Listens, Running, Reads
<1>2. t.item = p /\ StreamFits(b, o, t)  BY <1>1, HeadStream
<1>3. p <= pos[o] /\ p <= said  BY <1>2 DEF StreamFits
<1>4. /\ n \in Nat /\ script[p].frames \in Nat /\ n <= script[p].frames /\ Other(o) = e
      /\ script[p].kind = "blob"
  BY <1>1, Listener DEF At
<1>5. heard' = Append(heard, [item |-> p, frames |-> n, whole |-> n = script[p].frames])
  BY <1>2 DEF BlobEnds, Hears, Digest, At
<1>6. CASE n = script[p].frames
  <2>1. heard' = Append(heard, Conversation!Heard(p, script[p].frames, TRUE))
    BY <1>5, <1>6 DEF Conversation!Heard
  <2> QED  BY <1>1, <1>3, <2>1, HearsWhole
<1>7. CASE n # script[p].frames
  <2>1. t.frames = <<>> /\ (t.fin \/ ~open)  BY DEF BlobEnds
  <2>2. t.fin => n + Len(t.frames) = script[p].frames  BY <1>2, <1>4 DEF StreamFits, Done
  <2>3. ~open /\ n < script[p].frames  BY <1>4, <1>7, <2>1, <2>2
  <2>4. heard' = Append(heard, Conversation!Heard(p, n, FALSE))
    BY <1>5, <1>7 DEF Conversation!Heard
  <2> QED  BY <1>1, <1>3, <1>4, <2>3, <2>4, HearsTorn
<1> QED  BY <1>6, <1>7

LEMMA MovesRefines ==
    ASSUME NEW b, Ground(b), LinkInv(b), NEW e \in End, Moves(e)
    PROVE  Conversation!Next \/ UNCHANGED Conversation!vars
<1>1. CASE Writes(e) \/ OpensUni(e)
  <2>1. Own(e) /\ open /\ Began(e) /\ UNCHANGED <<script, heard, open>>
    BY <1>1 DEF Writes, OpensUni, Speaks, Running, Own
  <2> QED  BY <2>1, BeginsSays
<1>2. CASE Encodes(e) \/ Segments(e) \/ Finishes(e) \/ ReadsSegment(e)
  BY <1>2 DEF Encodes, Segments, Finishes, ReadsSegment, Conversation!vars
<1>3. CASE ReadsFrame(e)  BY <1>3, ReadsFrameRefines
<1>4. CASE BlobEnds(e)  BY <1>4, BlobEndsRefines
<1> QED  BY <1>1, <1>2, <1>3, <1>4 DEF Moves

LEMMA ClosesRefines ==
    ASSUME Types, Closes
    PROVE  Conversation!Next \/ UNCHANGED Conversation!vars
<1>1. UNCHANGED <<script, said, heard>> /\ (open' = open \/ open' = FALSE) /\ open \in BOOLEAN
  BY DEF Closes, CloseKeeping, Types
<1>2. CASE open' = open  BY <1>1, <1>2 DEF Conversation!vars
<1>3. CASE open /\ open' = FALSE
  BY <1>1, <1>3 DEF Conversation!Next, Conversation!Lose
<1> QED  BY <1>1, <1>2, <1>3

LEMMA NextRefines ==
    Inv /\ [Next]_vars => [Conversation!Next]_Conversation!vars
<1> SUFFICES ASSUME Inv, [Next]_vars
             PROVE  Conversation!Next \/ UNCHANGED Conversation!vars
  OBVIOUS
<1>1. PICK b : IsTally(b, script) /\ LinkInv(b)  BY DEF Inv
<1>2. Types  BY <1>1 DEF LinkInv
<1>3. Ground(b)  BY <1>1, <1>2, Grounded
<1>4. CASE Break  BY <1>2, <1>4, BreakCloses, ClosesRefines
<1>5. ASSUME NEW e \in End, Step(e) PROVE Conversation!Next \/ UNCHANGED Conversation!vars
  <2>1. CASE Moves(e)  BY <1>1, <1>3, <2>1, MovesRefines
  <2>2. CASE Fails(e)  BY <1>2, <2>2, FailCloses, ClosesRefines
  <2>3. CASE Ends(e) \/ GraceEnds(e)  BY <1>2, <2>3, EndsCloses, ClosesRefines
  <2> QED  BY <1>1, <1>3, <1>5, <2>1, <2>2, <2>3, StepCases
<1>6. CASE UNCHANGED vars  BY <1>6 DEF vars, Conversation!vars
<1> QED  BY <1>4, <1>5, <1>6 DEF Next

(* A PeerLink is the channel a session expects, whatever the network does:   *)
(* one conversation, in order, nothing heard twice or before it was said,    *)
(* and a blob the loss cut short is known to be torn.                        *)
THEOREM LinkIsAChannel == Spec => ImplementsChannel
<1>1. Init => Conversation!Init  BY DEF Init, Conversation!Init
<1> QED  BY <1>1, NextRefines, Invariant, PTL DEF Spec, ImplementsChannel, Conversation!Spec

===========================================================================
