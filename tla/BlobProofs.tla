---------------------------- MODULE BlobProofs ----------------------------
(***************************************************************************)
(* Theorems about BlobStore, for every set of digests and tasks, any quota *)
(* and any number of writes and crashes.                                   *)
(***************************************************************************)
EXTENDS BlobStore, FiniteSetTheorems, NaturalsInduction, WellFoundedInduction, TLAPS

----------------------------------------------------------------------------
(* The list of records.                                                     *)

NoTwice(s) == \A i, j \in DOMAIN s : s[i] = s[j] => i = j
Elements(s) == {s[i] : i \in DOMAIN s}

LEMMA Least ==
    ASSUME NEW T, T \subseteq Nat, T # {}
    PROVE  \E x \in T : \A y \in T : x <= y
<1>1. PICK x \in T : \A y \in T : ~(<<y, x>> \in OpToRel(<, Nat))
  BY NatLessThanWellFounded, WFMin, Zenon
<1>2. \A y \in T : ~(y < x)  BY <1>1, Zenon DEF OpToRel
<1>3. \A y \in T : x <= y  BY <1>2
<1> QED  BY <1>3

LEMMA WithoutList ==
    ASSUME NEW S, NEW s \in Seq(S), NoTwice(s), NEW g
    PROVE  /\ Without(s, g) \in Seq(S) /\ NoTwice(Without(s, g))
           /\ Elements(Without(s, g)) = Elements(s) \ {g}
<1>0. Len(s) \in Nat /\ DOMAIN s = 1..Len(s) /\ \A i \in 1..Len(s) : s[i] \in S  OBVIOUS
<1>1. CASE ~\E i \in DOMAIN s : s[i] = g
  <2>1. Without(s, g) = s  BY <1>1 DEF Without
  <2>2. g \notin Elements(s)  BY <1>1 DEF Elements
  <2> QED  BY <2>1, <2>2
<1>2. CASE \E i \in DOMAIN s : s[i] = g
  <2> DEFINE n == Len(s)
             at == CHOOSE i \in DOMAIN s : s[i] = g
             r == [i \in 1..(n - 1) |-> IF i < at THEN s[i] ELSE s[i + 1]]
  <2>1. Without(s, g) = r  BY <1>2 DEF Without
  <2>2. at \in 1..n /\ s[at] = g  BY <1>0, <1>2
  <2> HIDE DEF at
  <2>3. n \in Nat /\ n > 0 /\ n - 1 \in Nat  BY <1>0, <2>2
  <2>4. \A i \in 1..(n - 1) : i \in 1..n /\ i + 1 \in 1..n  BY <2>3
  <2>5. \A i \in 1..(n - 1) : r[i] \in S  BY <1>0, <2>4
  <2>6. DOMAIN r = 1..(n - 1) /\ \A i \in 1..(n - 1) : r[i] = IF i < at THEN s[i] ELSE s[i + 1]
    OBVIOUS
  <2>7. r \in Seq(S)
    <3>1. r \in [1..(n - 1) -> S]  BY <2>5
    <3> QED  BY <2>3, <3>1
  <2> HIDE DEF r
  <2>8. NoTwice(r)
    <3> SUFFICES ASSUME NEW i \in 1..(n - 1), NEW j \in 1..(n - 1), r[i] = r[j] PROVE i = j
      BY <2>6 DEF NoTwice
    <3> DEFINE x == IF i < at THEN i ELSE i + 1
               y == IF j < at THEN j ELSE j + 1
    <3>1. x \in 1..n /\ y \in 1..n  BY <2>3
    <3>2. s[x] = s[y]  BY <2>6
    <3>3. x = y  BY <1>0, <3>1, <3>2 DEF NoTwice
    <3> QED  BY <2>2, <2>3, <3>3
  <2>9. Elements(r) \subseteq Elements(s) \ {g}
    <3> SUFFICES ASSUME NEW i \in 1..(n - 1) PROVE r[i] \in Elements(s) /\ r[i] # g
      BY <2>6 DEF Elements
    <3> DEFINE x == IF i < at THEN i ELSE i + 1
    <3>1. x \in 1..n /\ x # at  BY <2>2, <2>3
    <3>2. r[i] = s[x]  BY <2>6
    <3>3. s[x] # g  BY <1>0, <2>2, <3>1 DEF NoTwice
    <3> QED  BY <1>0, <3>1, <3>2, <3>3 DEF Elements
  <2>10. Elements(s) \ {g} \subseteq Elements(r)
    <3> SUFFICES ASSUME NEW j \in 1..n, s[j] # g PROVE \E i \in 1..(n - 1) : r[i] = s[j]
      BY <1>0, <2>6 DEF Elements
    <3>1. CASE j < at
      <4>1. j \in 1..(n - 1) /\ r[j] = s[j]  BY <2>2, <2>3, <2>6, <3>1
      <4> QED  BY <4>1
    <3>2. CASE ~(j < at)
      <4>1. j # at  BY <2>2
      <4>2. j - 1 \in 1..(n - 1) /\ ~(j - 1 < at) /\ (j - 1) + 1 = j  BY <2>2, <2>3, <3>2, <4>1
      <4>3. r[j - 1] = s[(j - 1) + 1]  BY <2>6, <4>2
      <4> QED  BY <4>2, <4>3
    <3> QED  BY <3>1, <3>2
  <2> QED  BY <2>1, <2>7, <2>8, <2>9, <2>10
<1> QED  BY <1>1, <1>2

LEMMA UsedList ==
    ASSUME NEW S, NEW s \in Seq(S), NoTwice(s), NEW g \in S
    PROVE  /\ Used(s, g) \in Seq(S) /\ NoTwice(Used(s, g))
           /\ Elements(Used(s, g)) = Elements(s) \cup {g}
<1> DEFINE r == Without(s, g)
           n == Len(r)
           u == Append(r, g)
<1>1. r \in Seq(S) /\ NoTwice(r) /\ Elements(r) = Elements(s) \ {g}  BY WithoutList
<1>2. Used(s, g) = u  BY DEF Used
<1> HIDE DEF r
<1>3. /\ n \in Nat /\ DOMAIN r = 1..n /\ u \in Seq(S) /\ DOMAIN u = 1..(n + 1)
      /\ u[n + 1] = g /\ \A i \in 1..n : u[i] = r[i]
  BY <1>1
<1> HIDE DEF u
<1>4. \A i \in 1..(n + 1) : i \in 1..n \/ i = n + 1  BY <1>3
<1>5. \A i \in 1..n : i \in 1..(n + 1) /\ r[i] # g
  <2>1. \A i \in 1..n : r[i] \in Elements(r)  BY <1>3 DEF Elements
  <2> QED  BY <1>1, <1>3, <2>1
<1>6. NoTwice(u)
  <2> SUFFICES ASSUME NEW i \in 1..(n + 1), NEW j \in 1..(n + 1), u[i] = u[j] PROVE i = j
    BY <1>3 DEF NoTwice
  <2>1. CASE i \in 1..n /\ j \in 1..n  BY <1>1, <1>3, <2>1 DEF NoTwice
  <2> QED  BY <1>3, <1>4, <1>5, <2>1
<1>7. n + 1 \in 1..(n + 1)  BY <1>3
<1>8. Elements(u) = Elements(r) \cup {g}
  <2>1. Elements(u) \subseteq Elements(r) \cup {g}  BY <1>3, <1>4 DEF Elements
  <2>2. Elements(r) \subseteq Elements(u)  BY <1>3, <1>5 DEF Elements
  <2>3. g \in Elements(u)  BY <1>3, <1>7 DEF Elements
  <2> QED  BY <2>1, <2>2, <2>3
<1> QED  BY <1>1, <1>2, <1>3, <1>6, <1>8

----------------------------------------------------------------------------
(* Types.                                                                   *)

LEMMA Constants ==
    /\ Capturer \in Putter /\ Session \subseteq Putter /\ Capturer \notin Session
    /\ \A p \in Putter : p = Capturer \/ p \in Session
    /\ Quota \in Nat
BY BlobAssumption DEF Putter

(* The oldest candidate is on record.                                        *)
LEMMA OldestRecorded ==
    ASSUME TypeOK, evict # {}
    PROVE  Oldest \in evict /\ Oldest \in Recorded /\ Oldest \in Digest
<1> DEFINE T == {i \in DOMAIN lru : lru[i] \in evict}
<1>1. lru \in Seq(Digest) /\ evict \subseteq Recorded  BY DEF TypeOK
<1>2. T \subseteq Nat  BY <1>1
<1>3. T # {}  BY <1>1 DEF Recorded
<1>4. PICK x \in T : \A y \in T : x <= y  BY <1>2, <1>3, Least
<1> DEFINE at == CHOOSE i \in DOMAIN lru :
                   lru[i] \in evict /\ \A j \in DOMAIN lru : lru[j] \in evict => i <= j
<1>5. at \in DOMAIN lru /\ lru[at] \in evict  BY <1>4
<1>6. Oldest = lru[at]  BY DEF Oldest
<1> HIDE DEF at
<1>7. Oldest \in evict  BY <1>5, <1>6
<1>8. Recorded \subseteq Digest  BY <1>1 DEF Recorded
<1> QED  BY <1>1, <1>7, <1>8

(* There is always a file nothing refers to.                                *)
LEMMA RoomForAFile ==
    ASSUME TypeOK
    PROVE  Free # {}
<1> DEFINE A == {path[g] : g \in Digest}
           B == {tmp[g] : g \in Digest}
           C == {fd[p] : p \in Putter}
<1>1. IsFiniteSet(Digest) /\ IsFiniteSet(Inode) /\ IsFiniteSet(Putter)
  <2>1. IsFiniteSet(Session) /\ IsFiniteSet({Capturer})  BY BlobAssumption, FS_Singleton
  <2> QED  BY <2>1, BlobAssumption, FS_Union DEF Putter
<1>2. /\ IsFiniteSet(A) /\ Cardinality(A) <= Cardinality(Digest)
      /\ IsFiniteSet(B) /\ Cardinality(B) <= Cardinality(Digest)
      /\ IsFiniteSet(C) /\ Cardinality(C) <= Cardinality(Putter)
  <2>1. IsFiniteSet(A) /\ Cardinality(A) <= Cardinality(Digest)
    <3>1. path \in Surjection(Digest, A)  BY DEF TypeOK, Surjection
    <3> QED  BY <1>1, <3>1, FS_Surjection
  <2>2. IsFiniteSet(B) /\ Cardinality(B) <= Cardinality(Digest)
    <3>1. tmp \in Surjection(Digest, B)  BY DEF TypeOK, Surjection
    <3> QED  BY <1>1, <3>1, FS_Surjection
  <2>3. IsFiniteSet(C) /\ Cardinality(C) <= Cardinality(Putter)
    <3>1. fd \in Surjection(Putter, C)  BY DEF TypeOK, Surjection
    <3> QED  BY <1>1, <3>1, FS_Surjection
  <2> QED  BY <2>1, <2>2, <2>3
<1> HIDE DEF A, B, C
<1>3. /\ Cardinality(A) \in Nat /\ Cardinality(B) \in Nat /\ Cardinality(C) \in Nat
      /\ Cardinality(Digest) \in Nat /\ Cardinality(Putter) \in Nat /\ Cardinality(Inode) \in Nat
  BY <1>1, <1>2, FS_CardinalityType
<1>4. /\ IsFiniteSet(A \cup B)
      /\ Cardinality(A \cup B) = Cardinality(A) + Cardinality(B) - Cardinality(A \cap B)
  BY <1>2, FS_Union
<1>5. /\ IsFiniteSet((A \cup B) \cup C)
      /\ Cardinality((A \cup B) \cup C)
           = Cardinality(A \cup B) + Cardinality(C) - Cardinality((A \cup B) \cap C)
  BY <1>2, <1>4, FS_Union
<1>6. Cardinality(A \cap B) \in Nat /\ Cardinality((A \cup B) \cap C) \in Nat
      /\ Cardinality(A \cup B) \in Nat /\ Cardinality((A \cup B) \cup C) \in Nat
  <2>1. IsFiniteSet(A \cap B) /\ IsFiniteSet((A \cup B) \cap C)  BY <1>2, <1>4, FS_Intersection
  <2> QED  BY <1>4, <1>5, <2>1, FS_CardinalityType
<1>7. Cardinality((A \cup B) \cup C) < Cardinality(Inode)
  <2>1. Cardinality(Inode) > 2 * Cardinality(Digest) + Cardinality(Putter)  BY BlobAssumption
  <2> QED  BY <1>2, <1>3, <1>4, <1>5, <1>6, <2>1
<1>8. ~(Inode \subseteq (A \cup B) \cup C)
  <2> SUFFICES ASSUME Inode \subseteq (A \cup B) \cup C PROVE FALSE  OBVIOUS
  <2>1. Cardinality(Inode) <= Cardinality((A \cup B) \cup C)  BY <1>5, FS_Subset
  <2> QED  BY <1>3, <1>6, <1>7, <2>1
<1> QED  BY <1>8 DEF Free, A, B, C
LEMMA InitTypes == ASSUME Init PROVE TypeOK
<1>1. job \in [Putter -> Digest]
  <2>1. (CHOOSE g \in Digest : TRUE) \in Digest  BY BlobAssumption
  <2> QED  BY <2>1 DEF Init
<1>2. Recorded = {}  BY DEF Init, Recorded
<1> QED  BY <1>1, <1>2, Constants DEF Init, TypeOK, Locked

(* What every use of a record and every removal does to the types.           *)
LEMMA UsedTypes ==
    ASSUME TypeOK, NEW g \in Digest, lru' = Used(lru, g), evict' = evict
    PROVE  /\ lru' \in Seq(Digest) /\ \A i, j \in DOMAIN lru' : lru'[i] = lru'[j] => i = j
           /\ Recorded' = Recorded \cup {g} /\ evict' \subseteq Recorded'
<1>1. lru \in Seq(Digest) /\ NoTwice(lru) /\ evict \subseteq Recorded  BY DEF TypeOK, NoTwice
<1>2. lru' \in Seq(Digest) /\ NoTwice(lru') /\ Elements(lru') = Elements(lru) \cup {g}
  BY <1>1, UsedList
<1>3. Recorded' = Elements(lru') /\ Recorded = Elements(lru)  BY DEF Recorded, Elements
<1> QED  BY <1>1, <1>2, <1>3 DEF NoTwice

LEMMA ForgetTypes ==
    ASSUME TypeOK, NEW g, lru' = Without(lru, g), evict' \subseteq evict \ {g}
    PROVE  /\ lru' \in Seq(Digest) /\ \A i, j \in DOMAIN lru' : lru'[i] = lru'[j] => i = j
           /\ Recorded' = Recorded \ {g} /\ evict' \subseteq Recorded'
<1>1. lru \in Seq(Digest) /\ NoTwice(lru) /\ evict \subseteq Recorded  BY DEF TypeOK, NoTwice
<1>2. lru' \in Seq(Digest) /\ NoTwice(lru') /\ Elements(lru') = Elements(lru) \ {g}
  BY <1>1, WithoutList
<1>3. Recorded' = Elements(lru') /\ Recorded = Elements(lru)  BY DEF Recorded, Elements
<1> QED  BY <1>1, <1>2, <1>3 DEF NoTwice

(* The tasks that are at a step of put_blob, and those that are not.         *)
Stage == {"idle", "check", "open", "write", "rename", "record",
          "insert", "quota", "evict", "forget"}

LEMMA GotoType ==
    ASSUME TypeOK, NEW p \in Putter, NEW at \in Stage, Goto(p, at)
    PROVE  /\ pc' \in [Putter -> Stage] /\ pc'[p] = at
           /\ \A q \in Putter : q # p => pc'[q] = pc[q]
BY DEF TypeOK, Goto, Stage

(* A step of a task that is not the quota's leaves the lock alone.           *)
Puts(p) == Check(p) \/ Open(p) \/ Write(p) \/ Rename(p) \/ Record(p) \/ \E g \in Digest : Begin(p, g)

LEMMA PutsKeepsLock ==
    ASSUME TypeOK, NEW p \in Putter, Puts(p)
    PROVE  /\ pc' \in [Putter -> Stage] /\ Locked' = Locked /\ evict' = evict
           /\ \A q \in Putter : q # p => pc'[q] = pc[q]
           /\ pc[Capturer] = "forget" <=> pc'[Capturer] = "forget"
<1>1. \E at \in Stage \ {"evict", "forget"} : Goto(p, at)
  BY DEF Puts, Check, Open, Write, Rename, Record, Begin, Stage
<1>2. pc[p] \notin {"evict", "forget"} /\ evict' = evict
  BY DEF Puts, Check, Open, Write, Rename, Record, Begin
<1>3. PICK at \in Stage \ {"evict", "forget"} : Goto(p, at)  BY <1>1
<1>4. /\ pc' \in [Putter -> Stage] /\ pc'[p] = at /\ \A q \in Putter : q # p => pc'[q] = pc[q]
  BY <1>3, GotoType
<1>5. pc'[Capturer] \in {"evict", "forget"} <=> pc[Capturer] \in {"evict", "forget"}
  BY <1>2, <1>3, <1>4, Constants
<1>6. pc[Capturer] = "forget" <=> pc'[Capturer] = "forget"
  BY <1>2, <1>3, <1>4, Constants
<1> QED  BY <1>2, <1>4, <1>5, <1>6 DEF Locked

LEMMA OpenPicks ==
    ASSUME TypeOK, NEW p \in Putter, Open(p)
    PROVE  \E i \in Inode :
              /\ i = tmp[job[p]] \/ (tmp[job[p]] = NoFile /\ i \in Free)
              /\ tmp' = [tmp EXCEPT ![job[p]] = i] /\ fd' = [fd EXCEPT ![p] = i]
              /\ whole' = whole \ {i}
              /\ shared' = IF Rival(p) THEN shared \cup {i} ELSE shared \ {i}
<1> DEFINE g == job[p]
           i == IF tmp[g] = NoFile THEN CHOOSE j \in Free : TRUE ELSE tmp[g]
<1>1. g \in Digest /\ tmp[g] \in Inode \cup {NoFile}  BY DEF TypeOK
<1>2. (CHOOSE j \in Free : TRUE) \in Free  BY RoomForAFile
<1>3. Free \subseteq Inode  BY DEF Free
<1>4. /\ i \in Inode /\ (i = tmp[g] \/ (tmp[g] = NoFile /\ i \in Free))  BY <1>1, <1>2, <1>3
<1>5. /\ tmp' = [tmp EXCEPT ![g] = i] /\ fd' = [fd EXCEPT ![p] = i] /\ whole' = whole \ {i}
      /\ shared' = IF Rival(p) THEN shared \cup {i} ELSE shared \ {i}
  BY DEF Open, Opened
<1> HIDE DEF i
<1> QED  BY <1>4, <1>5


(* What the history variables may hold.                                      *)
LEMMA PutsHistory ==
    ASSUME TypeOK, NEW p \in Putter, Puts(p)
    PROVE  shared' \subseteq Inode /\ late' \subseteq Digest
<1>0. shared \subseteq Inode /\ late \subseteq Digest /\ job[p] \in Digest  BY DEF TypeOK
<1>1. CASE Open(p)
  <2>1. late' = late  BY <1>1 DEF Open
  <2> QED  BY <1>0, <1>1, <2>1, OpenPicks
<1>2. CASE Record(p)
  BY <1>0, <1>2 DEF Record
<1>3. CASE Check(p) \/ Write(p) \/ Rename(p) \/ \E g \in Digest : Begin(p, g)
  BY <1>0, <1>3 DEF Check, Write, Rename, Begin, history
<1> QED  BY <1>1, <1>2, <1>3 DEF Puts

----------------------------------------------------------------------------
(* What holds of every task and record.                                     *)

(* A task that writes has a file.                                            *)
Holding == \A p \in Putter : pc[p] \in {"write", "rename"} => fd[p] \in Inode

(* While the quota has the lock its candidates stay what they were.          *)
Chosen == Locked => Len(lru) > Quota /\ \A g \in evict : ref[g] # "pinned"

(* Between the file and its record an eviction may find that a session has   *)
(* put the file back: then that session has yet to record it.                *)
Claimed ==
    pc[Capturer] = "forget" /\ path[Oldest] # NoFile =>
        \E p \in Putter : pc[p] = "record" /\ job[p] = Oldest

Base == TypeOK /\ Holding /\ Chosen /\ Claimed

LEMMA InitBase == ASSUME Init PROVE Base
<1>1. TypeOK  BY InitTypes
<1>2. \A p \in Putter : pc[p] = "idle"  BY DEF Init
<1>3. pc[Capturer] = "idle"  BY <1>2, Constants
<1> QED  BY <1>1, <1>2, <1>3 DEF Base, Holding, Chosen, Claimed, Locked

LEMMA PutsTypes ==
    ASSUME Base, NEW p \in Putter, Puts(p)
    PROVE  TypeOK' /\ Holding'
<1>0. TypeOK /\ Holding /\ job[p] \in Digest /\ fd[p] \in Inode \cup {NoFile}
  BY DEF Base, TypeOK
<1>1. /\ pc' \in [Putter -> Stage] /\ Locked' = Locked /\ evict' = evict
      /\ \A q \in Putter : q # p => pc'[q] = pc[q]
  BY <1>0, PutsKeepsLock
<1>2. ASSUME UNCHANGED lru PROVE Recorded' = Recorded  BY <1>2 DEF Recorded
<1>9. shared' \subseteq Inode /\ late' \subseteq Digest  BY <1>0, PutsHistory
<1>3. CASE \E g \in Digest : Begin(p, g)
  <2>1. PICK g \in Digest : Begin(p, g)  BY <1>3
  <2>2. pc'[p] = "check"  BY <1>0, <2>1 DEF Begin, Goto, TypeOK
  <2>3. job' \in [Putter -> Digest]  BY <1>0, <2>1 DEF Begin, TypeOK
  <2> QED  BY <1>0, <1>1, <1>2, <1>9, <2>1, <2>2, <2>3 DEF Begin, TypeOK, Holding, Stage
<1>4. CASE Check(p)
  <2>1. pc'[p] \in {"open", "record"}  BY <1>0, <1>4 DEF Check, Goto, TypeOK
  <2> QED  BY <1>0, <1>1, <1>2, <1>9, <1>4, <2>1 DEF Check, TypeOK, Holding, Stage
<1>5. CASE Open(p)
  <2>1. PICK i \in Inode : /\ tmp' = [tmp EXCEPT ![job[p]] = i] /\ fd' = [fd EXCEPT ![p] = i]
                           /\ whole' = whole \ {i}
    BY <1>0, <1>5, OpenPicks
  <2>2. /\ tmp' \in [Digest -> Inode \cup {NoFile}] /\ fd' \in [Putter -> Inode \cup {NoFile}]
        /\ fd'[p] = i /\ \A q \in Putter : q # p => fd'[q] = fd[q]
    BY <1>0, <2>1 DEF TypeOK
  <2>3. Holding'  BY <1>0, <1>1, <2>2 DEF Holding
  <2> QED  BY <1>0, <1>1, <1>2, <1>9, <1>5, <2>1, <2>2, <2>3 DEF Open, TypeOK, Stage
<1>6. CASE Write(p)
  <2>1. fd[p] \in Inode  BY <1>0, <1>6 DEF Write, Holding
  <2>2. whole' \subseteq Inode  BY <1>0, <1>6, <2>1 DEF Write, TypeOK
  <2>3. Holding'  BY <1>0, <1>1, <1>6, <2>1 DEF Write, Holding
  <2> QED  BY <1>0, <1>1, <1>2, <1>9, <1>6, <2>2, <2>3 DEF Write, TypeOK, Stage
<1>7. CASE Rename(p)
  <2>1. pc'[p] \in {"idle", "record"}  BY <1>0, <1>7 DEF Rename, Goto, TypeOK
  <2>2. /\ fd' \in [Putter -> Inode \cup {NoFile}] /\ \A q \in Putter : q # p => fd'[q] = fd[q]
    BY <1>0, <1>7 DEF Rename, TypeOK
  <2>3. path' \in [Digest -> Inode \cup {NoFile}] /\ tmp' \in [Digest -> Inode \cup {NoFile}]
    BY <1>0, <1>7 DEF Rename, TypeOK
  <2>4. Holding'  BY <1>0, <1>1, <2>1, <2>2 DEF Holding
  <2> QED  BY <1>0, <1>1, <1>2, <1>9, <1>7, <2>2, <2>3, <2>4 DEF Rename, TypeOK, Stage
<1>8. CASE Record(p)
  <2>1. pc'[p] \in {"idle", "insert"}  BY <1>0, <1>8 DEF Record, Goto, TypeOK
  <2>2. /\ lru' \in Seq(Digest) /\ \A i, j \in DOMAIN lru' : lru'[i] = lru'[j] => i = j
        /\ evict' \subseteq Recorded'
    BY <1>0, <1>8, UsedTypes DEF Record
  <2>3. Holding'  BY <1>0, <1>1, <1>8, <2>1 DEF Record, Holding
  <2> QED  BY <1>0, <1>1, <1>9, <1>8, <2>2, <2>3 DEF Record, TypeOK, Stage
<1> QED  BY <1>3, <1>4, <1>5, <1>6, <1>7, <1>8 DEF Puts

LEMMA PutsBase ==
    ASSUME Base, NEW p \in Putter, Puts(p)
    PROVE  Base'
<1>0. TypeOK /\ Chosen /\ Claimed  BY DEF Base
<1>1. /\ Locked' = Locked /\ evict' = evict /\ \A q \in Putter : q # p => pc'[q] = pc[q]
      /\ pc[Capturer] = "forget" <=> pc'[Capturer] = "forget"
  BY <1>0, PutsKeepsLock
<1>2. TypeOK' /\ Holding'  BY PutsTypes
<1>3. ASSUME Locked PROVE lru' = lru /\ Oldest' = Oldest
  <2>1. lru' = lru
    BY <1>3 DEF Puts, Check, Open, Write, Rename, Record, Begin
  <2> QED  BY <1>1, <2>1 DEF Oldest
<1>4. Chosen'
  <2>1. ref' = ref  BY DEF Puts, Check, Open, Write, Rename, Record, Begin
  <2> QED  BY <1>0, <1>1, <1>3, <2>1 DEF Chosen
<1>5. Claimed'
  <2> SUFFICES ASSUME pc[Capturer] = "forget", path'[Oldest] # NoFile
               PROVE  \E q \in Putter : pc'[q] = "record" /\ job'[q] = Oldest
    BY <1>1, <1>3 DEF Claimed, Locked
  <2>1. Locked  BY DEF Locked
  <2>2. ASSUME path[Oldest] # NoFile PROVE \E q \in Putter : pc'[q] = "record" /\ job'[q] = Oldest
    <3>1. PICK q \in Putter : pc[q] = "record" /\ job[q] = Oldest  BY <1>0, <2>2 DEF Claimed
    <3>2. CASE q # p
      <4>1. job'[q] = job[q]
        BY <1>0, <3>2 DEF Puts, Check, Open, Write, Rename, Record, Begin, TypeOK
      <4> QED  BY <1>1, <3>1, <3>2, <4>1
    <3>3. CASE q = p
      BY <2>1, <3>1, <3>3 DEF Puts, Check, Open, Write, Rename, Record, Begin
    <3> QED  BY <3>2, <3>3
  <2>3. ASSUME path[Oldest] = NoFile PROVE \E q \in Putter : pc'[q] = "record" /\ job'[q] = Oldest
    <3>1. path' # path  BY <2>3
    <3>2. Rename(p)  BY <3>1 DEF Puts, Check, Open, Write, Record, Begin
    <3>3. tmp[job[p]] # NoFile  BY <3>1, <3>2 DEF Rename
    <3>4. path' = [path EXCEPT ![job[p]] = tmp[job[p]]] /\ Goto(p, "record") /\ job' = job
      BY <3>2, <3>3 DEF Rename
    <3>5. pc'[p] = "record"  BY <1>0, <3>4 DEF Goto, TypeOK
    <3>6. Oldest = job[p]  BY <1>0, <2>3, <3>4 DEF TypeOK
    <3> QED  BY <3>4, <3>5, <3>6
  <2> QED  BY <2>2, <2>3
<1> QED  BY <1>2, <1>4, <1>5 DEF Base

LEMMA InsertRowBase == ASSUME Base, InsertRow PROVE Base'
<1>0. TypeOK /\ Holding  BY DEF Base
<1>1. Goto(Capturer, "quota") /\ UNCHANGED <<path, tmp, whole, lru, job, fd, evict, shared, late, puts, crashes>>
  BY DEF InsertRow, history
<1>2. /\ pc' \in [Putter -> Stage] /\ pc'[Capturer] = "quota"
      /\ \A q \in Putter : q # Capturer => pc'[q] = pc[q]
  BY <1>0, <1>1, Constants, GotoType DEF Stage
<1>3. ref' \in [Digest -> {"none", "live", "pinned"}]  BY <1>0 DEF InsertRow, TypeOK
<1>4. Recorded' = Recorded  BY <1>1 DEF Recorded
<1>5. TypeOK'  BY <1>0, <1>1, <1>2, <1>3, <1>4 DEF TypeOK, Stage, Locked
<1>6. Holding'  BY <1>0, <1>1, <1>2, Constants DEF Holding
<1> QED  BY <1>2, <1>5, <1>6 DEF Base, Chosen, Claimed, Locked

LEMMA ContinueStage ==
    ASSUME TypeOK, NEW c, NEW blobs, Continue(c, blobs)
    PROVE  /\ pc' \in [Putter -> Stage] /\ \A q \in Putter : q # Capturer => pc'[q] = pc[q]
           /\ pc'[Capturer] \in {"idle", "evict"}
           /\ pc'[Capturer] = "evict" => evict' = c /\ c # {} /\ Len(blobs) > Quota
           /\ evict' = c \/ evict' = {}
<1>1. CASE Goto(Capturer, "evict")  BY <1>1, Constants, GotoType DEF Continue, Stage
<1>2. CASE Goto(Capturer, "idle")
  <2>1. pc' \in [Putter -> Stage] /\ pc'[Capturer] = "idle"
        /\ \A q \in Putter : q # Capturer => pc'[q] = pc[q]
    BY <1>2, Constants, GotoType DEF Stage
  <2> QED  BY <2>1 DEF Continue
<1> QED  BY <1>1, <1>2 DEF Continue

LEMMA EnforceQuotaBase == ASSUME Base, EnforceQuota PROVE Base'
<1>0. TypeOK /\ Holding  BY DEF Base
<1>1. UNCHANGED <<path, tmp, whole, lru, ref, job, fd, shared, late, puts, crashes>>  BY DEF EnforceQuota, history
<1>2. /\ pc' \in [Putter -> Stage] /\ \A q \in Putter : q # Capturer => pc'[q] = pc[q]
      /\ pc'[Capturer] \in {"idle", "evict"}
      /\ pc'[Capturer] = "evict" => evict' = Candidates /\ Candidates # {} /\ Len(lru) > Quota
      /\ evict' = Candidates \/ evict' = {}
  BY <1>0, ContinueStage DEF EnforceQuota
<1>3. Recorded' = Recorded /\ Candidates \subseteq Recorded  BY <1>1 DEF Recorded, Candidates
<1>4. TypeOK'  BY <1>0, <1>1, <1>2, <1>3 DEF TypeOK, Stage, Locked
<1>5. Holding'  BY <1>0, <1>1, <1>2, Constants DEF Holding
<1>6. Chosen'
  <2>1. ASSUME Locked' PROVE pc'[Capturer] = "evict"  BY <1>2, <2>1 DEF Locked
  <2> QED  BY <1>1, <1>2, <2>1 DEF Chosen, Candidates
<1> QED  BY <1>2, <1>4, <1>5, <1>6 DEF Base, Claimed

LEMMA RemoveFileBase == ASSUME Base, RemoveFile PROVE Base'
<1>0. TypeOK /\ Holding /\ Chosen  BY DEF Base
<1>1. /\ UNCHANGED <<tmp, whole, lru, ref, job, fd, evict, shared, late, puts, crashes>>
      /\ Goto(Capturer, "forget") /\ path' = [path EXCEPT ![Oldest] = NoFile] /\ Locked
  BY DEF RemoveFile, Locked, history
<1>2. /\ pc' \in [Putter -> Stage] /\ pc'[Capturer] = "forget"
      /\ \A q \in Putter : q # Capturer => pc'[q] = pc[q]
  BY <1>0, <1>1, Constants, GotoType DEF Stage
<1>3. Recorded' = Recorded /\ Oldest' = Oldest  BY <1>1 DEF Recorded, Oldest
<1>4. Oldest \in Digest  BY <1>0, <1>1, OldestRecorded DEF TypeOK
<1>5. path' \in [Digest -> Inode \cup {NoFile}] /\ path'[Oldest] = NoFile
  BY <1>0, <1>1, <1>4 DEF TypeOK
<1>6. TypeOK'  BY <1>0, <1>1, <1>2, <1>3, <1>5 DEF TypeOK, Stage
<1>7. Holding'  BY <1>0, <1>1, <1>2, Constants DEF Holding
<1>8. Chosen'  BY <1>0, <1>1 DEF Chosen
<1>9. Claimed'  BY <1>3, <1>5 DEF Claimed
<1> QED  BY <1>6, <1>7, <1>8, <1>9 DEF Base

LEMMA ForgetBlobBase == ASSUME Base, ForgetBlob PROVE Base' /\ Recorded' = Recorded \ {Oldest}
<1>0. TypeOK /\ Holding /\ Chosen  BY DEF Base
<1>1. /\ UNCHANGED <<path, tmp, whole, ref, job, fd, shared, late, puts, crashes>>
      /\ lru' = Without(lru, Oldest) /\ Locked
  BY DEF ForgetBlob, Locked, history
<1>2. /\ pc' \in [Putter -> Stage] /\ \A q \in Putter : q # Capturer => pc'[q] = pc[q]
      /\ pc'[Capturer] \in {"idle", "evict"}
      /\ pc'[Capturer] = "evict" =>
            evict' = evict \ {Oldest} /\ evict \ {Oldest} # {} /\ Len(lru') > Quota
      /\ evict' = evict \ {Oldest} \/ evict' = {}
  BY <1>0, ContinueStage DEF ForgetBlob
<1>3. /\ lru' \in Seq(Digest) /\ \A i, j \in DOMAIN lru' : lru'[i] = lru'[j] => i = j
      /\ Recorded' = Recorded \ {Oldest} /\ evict' \subseteq Recorded'
  <2>1. evict' \subseteq evict \ {Oldest}  BY <1>2
  <2> QED  BY <1>0, <1>1, <2>1, ForgetTypes
<1>4. TypeOK'  BY <1>0, <1>1, <1>2, <1>3 DEF TypeOK, Stage, Locked
<1>5. Holding'  BY <1>0, <1>1, <1>2, Constants DEF Holding
<1>6. Chosen'
  <2>1. ASSUME Locked' PROVE pc'[Capturer] = "evict"  BY <1>2, <2>1 DEF Locked
  <2> QED  BY <1>0, <1>1, <1>2, <2>1 DEF Chosen
<1> QED  BY <1>2, <1>3, <1>4, <1>5, <1>6 DEF Base, Claimed

LEMMA ReadBase == ASSUME Base, NEW g \in Digest, Read(g) PROVE Base' /\ Recorded' = Recorded
<1>0. TypeOK /\ Holding  BY DEF Base
<1>1. /\ UNCHANGED <<path, tmp, whole, ref, pc, job, fd, evict, shared, late, puts, crashes>>
      /\ lru' = Used(lru, g) /\ g \in Recorded /\ ~Locked
  BY DEF Read, history
<1>2. /\ lru' \in Seq(Digest) /\ \A i, j \in DOMAIN lru' : lru'[i] = lru'[j] => i = j
      /\ Recorded' = Recorded \cup {g} /\ evict' \subseteq Recorded'
  BY <1>0, <1>1, UsedTypes
<1>3. TypeOK'  BY <1>0, <1>1, <1>2 DEF TypeOK, Locked
<1>4. Holding' /\ ~Locked'  BY <1>0, <1>1 DEF Holding, Locked
<1> QED  BY <1>1, <1>2, <1>3, <1>4 DEF Base, Chosen, Claimed, Locked

LEMMA ReferBase ==
    ASSUME Base, NEW g \in Digest, NEW how \in {"none", "live", "pinned"}, Refer(g, how)
    PROVE  Base'
<1>0. TypeOK /\ Holding  BY DEF Base
<1>1. /\ UNCHANGED <<path, tmp, whole, lru, pc, job, fd, evict, shared, late, puts, crashes>> /\ ~Locked
      /\ ref' = [ref EXCEPT ![g] = how]
  BY DEF Refer, history
<1>2. ref' \in [Digest -> {"none", "live", "pinned"}]  BY <1>0, <1>1 DEF TypeOK
<1>3. TypeOK'  BY <1>0, <1>1, <1>2 DEF TypeOK, Locked, Recorded
<1>4. Holding' /\ ~Locked'  BY <1>0, <1>1 DEF Holding, Locked
<1> QED  BY <1>3, <1>4 DEF Base, Chosen, Claimed, Locked

LEMMA CrashBase == ASSUME Base, Crash PROVE Base'
<1>0. TypeOK  BY DEF Base
<1>1. /\ UNCHANGED <<path, tmp, whole, lru, ref, job, shared, late>> /\ evict' = {}
      /\ pc' = [p \in Putter |-> "idle"] /\ fd' = [p \in Putter |-> NoFile]
  BY DEF Crash, history
<1>2. \A p \in Putter : pc'[p] = "idle"  BY <1>1
<1>3. pc'[Capturer] = "idle"  BY <1>2, Constants
<1>4. TypeOK'  BY <1>0, <1>1, <1>3 DEF TypeOK, Locked
<1> QED  BY <1>2, <1>3, <1>4 DEF Base, Holding, Chosen, Claimed, Locked

(* Next, by tasks.                                                          *)
LEMMA NextCases ==
    ASSUME Next
    PROVE  \/ \E p \in Putter : Puts(p)
           \/ InsertRow \/ EnforceQuota \/ RemoveFile \/ ForgetBlob
           \/ \E g \in Digest : Read(g)
           \/ \E g \in Digest, how \in {"none", "live", "pinned"} : Refer(g, how)
           \/ Crash
BY DEF Next, TaskStep, Puts

LEMMA NextBase == Base /\ [Next]_vars => Base'
<1> SUFFICES ASSUME Base, [Next]_vars PROVE Base'  OBVIOUS
<1>1. CASE UNCHANGED vars
  <2>1. UNCHANGED <<path, tmp, whole, lru, ref, pc, job, fd, evict, shared, late>>
    BY <1>1 DEF vars, history
  <2>2. Recorded' = Recorded /\ Locked' = Locked /\ Oldest' = Oldest
    BY <2>1 DEF Recorded, Locked, Oldest
  <2>3. TypeOK'  BY <2>1, <2>2 DEF Base, TypeOK
  <2>4. Holding' /\ Chosen' /\ Claimed'  BY <2>1, <2>2 DEF Base, Holding, Chosen, Claimed
  <2> QED  BY <2>3, <2>4 DEF Base
<1>2. CASE Next
  BY <1>2, NextCases, PutsBase, InsertRowBase, EnforceQuotaBase, RemoveFileBase, ForgetBlobBase,
     ReadBase, ReferBase, CrashBase
<1> QED  BY <1>1, <1>2

LEMMA BaseInvariant == Spec => []Base
BY InitBase, NextBase, PTL DEF Spec

(* The files, the records and the tasks keep their types; a file a task      *)
(* writes to exists, and the quota's candidates are on record.               *)
THEOREM BlobTypes == Spec => []TypeOK
<1>1. Base => TypeOK  BY DEF Base
<1> QED  BY <1>1, BaseInvariant, PTL

(* enforce_blob_quota never removes the file of a blob that a live pinned    *)
(* clip refers to, removes files only while the records exceed the quota,    *)
(* and nothing else removes any.                                             *)
THEOREM PinnedStay == Spec => PinnedBlobsStay
<1> DEFINE A == \A g \in Digest : path[g] # NoFile /\ path'[g] = NoFile =>
                   ref[g] # "pinned" /\ Len(lru) > Quota /\ Locked
<1>1. Base /\ [Next]_vars => [A]_vars
  <2> SUFFICES ASSUME Base, Next, NEW g \in Digest, path[g] # NoFile, path'[g] = NoFile
               PROVE  ref[g] # "pinned" /\ Len(lru) > Quota /\ Locked
    OBVIOUS
  <2>0. TypeOK /\ Chosen  BY DEF Base
  <2>1. CASE RemoveFile
    <3>1. Locked /\ path' = [path EXCEPT ![Oldest] = NoFile]  BY <2>1 DEF RemoveFile, Locked
    <3>2. Oldest \in evict  BY <2>0, <3>1, OldestRecorded DEF TypeOK
    <3>3. g = Oldest  BY <2>0, <3>1 DEF TypeOK
    <3> QED  BY <2>0, <3>1, <3>2, <3>3 DEF Chosen
  <2>2. ASSUME NEW p \in Putter, Puts(p) PROVE FALSE
    <3>1. Rename(p)  BY <2>2 DEF Puts, Check, Open, Write, Record, Begin
    <3>2. path' = [path EXCEPT ![job[p]] = tmp[job[p]]] /\ tmp[job[p]] # NoFile
      BY <3>1 DEF Rename
    <3> QED  BY <2>0, <3>2 DEF TypeOK
  <2>3. CASE InsertRow \/ EnforceQuota \/ ForgetBlob \/ Crash
    BY <2>3 DEF InsertRow, EnforceQuota, ForgetBlob, Crash
  <2>4. CASE \E h \in Digest : Read(h) \/ \E how \in {"none", "live", "pinned"} : Refer(h, how)
    BY <2>4 DEF Read, Refer
  <2> QED  BY <2>1, <2>2, <2>3, <2>4, NextCases
<1> QED  BY <1>1, BaseInvariant, PTL DEF Spec, PinnedBlobsStay

----------------------------------------------------------------------------
(* Files without a record.                                                  *)

LEMMA Finite ==
    /\ IsFiniteSet(Digest) /\ IsFiniteSet(Putter)
    /\ Cardinality(Putter) \in Nat
<1>1. IsFiniteSet(Session) /\ IsFiniteSet({Capturer}) /\ IsFiniteSet(Digest)
  BY BlobAssumption, FS_Singleton
<1>2. IsFiniteSet(Putter)  BY <1>1, FS_Union DEF Putter
<1> QED  BY <1>1, <1>2, FS_CardinalityType

(* A set that only loses members stays as small, and one that gains some     *)
(* grows by no more than those.                                              *)
LEMMA Shrinks ==
    ASSUME NEW S, NEW T, S \subseteq T, T \subseteq Digest, NEW n \in Nat, Cardinality(T) <= n
    PROVE  Cardinality(S) <= n
<1>1. IsFiniteSet(T)  BY Finite, FS_Subset
<1>2. IsFiniteSet(S) /\ Cardinality(S) <= Cardinality(T)  BY <1>1, FS_Subset
<1>3. Cardinality(S) \in Nat /\ Cardinality(T) \in Nat  BY <1>1, <1>2, FS_CardinalityType
<1> QED  BY <1>2, <1>3

LEMMA Grows ==
    ASSUME NEW S, NEW T, NEW U, S \subseteq T \cup U, T \subseteq Digest, U \subseteq Digest,
           NEW n \in Nat, NEW m \in Nat, Cardinality(T) <= n, Cardinality(U) <= m
    PROVE  Cardinality(S) <= n + m
<1>1. IsFiniteSet(T) /\ IsFiniteSet(U)  BY Finite, FS_Subset
<1>2. /\ IsFiniteSet(T \cup U) /\ IsFiniteSet(T \cap U)
      /\ Cardinality(T \cup U) = Cardinality(T) + Cardinality(U) - Cardinality(T \cap U)
  BY <1>1, FS_Union, FS_Intersection
<1>3. /\ Cardinality(T) \in Nat /\ Cardinality(U) \in Nat /\ Cardinality(T \cap U) \in Nat
      /\ Cardinality(T \cup U) \in Nat
  BY <1>1, <1>2, FS_CardinalityType
<1>4. Cardinality(T \cup U) <= n + m  BY <1>2, <1>3
<1>5. T \cup U \subseteq Digest  OBVIOUS
<1>6. n + m \in Nat  OBVIOUS
<1> QED  BY <1>4, <1>5, <1>6, Shrinks

Leaks == crashes \in Nat /\ LeaksAreCrashes

LEMMA InitLeaks == ASSUME Init PROVE Leaks
<1>1. Unrecorded = {} /\ crashes = 0  BY DEF Init, Unrecorded
<1>2. Cardinality(Unrecorded) = 0  BY <1>1, FS_EmptySet
<1>3. 0 <= 0 * Cardinality(Putter)  BY Finite
<1> QED  BY <1>1, <1>2, <1>3 DEF Leaks, LeaksAreCrashes

LEMMA NextLeaks == Base /\ Leaks /\ [Next]_vars => Leaks'
<1> SUFFICES ASSUME Base, Leaks, [Next]_vars PROVE Leaks'  OBVIOUS
<1>0. TypeOK /\ Claimed /\ crashes \in Nat /\ Cardinality(Putter) \in Nat
  BY Finite DEF Base, Leaks
<1>1. crashes * Cardinality(Putter) \in Nat /\ Unrecorded \subseteq Digest
  BY <1>0 DEF Unrecorded
<1>2. ASSUME Unrecorded' \subseteq Unrecorded, crashes' = crashes PROVE Leaks'
  BY <1>0, <1>1, <1>2, Shrinks DEF Leaks, LeaksAreCrashes
<1>3. ASSUME NEW p \in Putter, Puts(p) PROVE Leaks'
  <2>0. \A q \in Putter : q # p => pc'[q] = pc[q] /\ job'[q] = job[q]
    <3>1. \A q \in Putter : q # p => pc'[q] = pc[q]  BY <1>0, <1>3, PutsKeepsLock
    <3>2. \A q \in Putter : q # p => job'[q] = job[q]
      BY <1>0, <1>3 DEF Puts, Check, Open, Write, Rename, Record, Begin, TypeOK
    <3> QED  BY <3>1, <3>2
  <2>1. crashes' = crashes  BY <1>3 DEF Puts, Check, Open, Write, Rename, Record, Begin
  <2>2. SUFFICES ASSUME NEW g \in Digest, g \in Unrecorded' PROVE g \in Unrecorded
    BY <1>2, <2>1 DEF Unrecorded
  <2>3. /\ path'[g] # NoFile /\ g \notin Recorded'
        /\ \A q \in Putter : ~(pc'[q] = "record" /\ job'[q] = g)
    BY <2>2 DEF Unrecorded
  <2>4. CASE Record(p)
    <3>1. Recorded' = Recorded \cup {job[p]}
      BY <1>0, <2>4, UsedTypes DEF Record, TypeOK
    <3>2. g # job[p] /\ g \notin Recorded /\ path' = path  BY <2>3, <2>4, <3>1 DEF Record
    <3> QED  BY <2>0, <2>3, <3>2 DEF Unrecorded
  <2>5. CASE Rename(p)
    <3>1. Recorded' = Recorded /\ pc[p] = "rename"  BY <2>5 DEF Rename, Recorded
    <3>2. path'[g] = path[g]
      <4>1. CASE path' = path  BY <4>1
      <4>2. CASE path' # path
        <5>1. path' = [path EXCEPT ![job[p]] = tmp[job[p]]] /\ Goto(p, "record") /\ job' = job
          BY <2>5, <4>2 DEF Rename
        <5>2. pc'[p] = "record"  BY <1>0, <5>1 DEF Goto, TypeOK
        <5>3. g # job[p]  BY <2>3, <5>1, <5>2
        <5> QED  BY <1>0, <5>1, <5>3 DEF TypeOK
      <4> QED  BY <4>1, <4>2
    <3> QED  BY <2>0, <2>3, <3>1, <3>2 DEF Unrecorded
  <2>6. CASE Check(p) \/ Open(p) \/ Write(p) \/ \E h \in Digest : Begin(p, h)
    <3>1. path' = path /\ lru' = lru /\ pc[p] # "record"
      BY <2>6 DEF Check, Open, Write, Begin
    <3>2. Recorded' = Recorded  BY <3>1 DEF Recorded
    <3> QED  BY <2>0, <2>3, <3>1, <3>2 DEF Unrecorded
  <2> QED  BY <1>3, <2>4, <2>5, <2>6 DEF Puts
<1>4. ASSUME UNCHANGED <<path, job, crashes>>, Recorded' = Recorded,
             \A q \in Putter : pc[q] = "record" => pc'[q] = "record"
      PROVE  Leaks'
  <2>1. Unrecorded' \subseteq Unrecorded  BY <1>4 DEF Unrecorded
  <2> QED  BY <1>2, <1>4, <2>1
<1>5. CASE InsertRow
  <2>1. UNCHANGED <<path, job, crashes, lru>> /\ Goto(Capturer, "quota") /\ pc[Capturer] = "insert"
    BY <1>5 DEF InsertRow
  <2>2. \A q \in Putter : pc[q] = "record" => pc'[q] = "record"
    BY <1>0, <2>1 DEF Goto, TypeOK
  <2> QED  BY <1>4, <2>1, <2>2 DEF Recorded
<1>6. CASE EnforceQuota
  <2>1. UNCHANGED <<path, job, crashes, lru>> /\ pc[Capturer] = "quota"
        /\ Continue(Candidates, lru)
    BY <1>6 DEF EnforceQuota
  <2>2. \A q \in Putter : q # Capturer => pc'[q] = pc[q]  BY <1>0, <2>1, ContinueStage
  <2>3. \A q \in Putter : pc[q] = "record" => pc'[q] = "record"  BY <2>1, <2>2
  <2> QED  BY <1>4, <2>1, <2>3 DEF Recorded
<1>7. CASE RemoveFile
  <2>1. /\ UNCHANGED <<job, crashes, lru>> /\ Goto(Capturer, "forget") /\ pc[Capturer] = "evict"
        /\ path' = [path EXCEPT ![Oldest] = NoFile]
    BY <1>7 DEF RemoveFile
  <2>2. \A q \in Putter : pc[q] = "record" => pc'[q] = "record"
    BY <1>0, <2>1 DEF Goto, TypeOK
  <2>3. \A g \in Digest : path'[g] # NoFile => path[g] # NoFile  BY <1>0, <2>1 DEF TypeOK
  <2>4. Recorded' = Recorded  BY <2>1 DEF Recorded
  <2>5. Unrecorded' \subseteq Unrecorded  BY <2>1, <2>2, <2>3, <2>4 DEF Unrecorded
  <2> QED  BY <1>2, <2>1, <2>5
<1>8. CASE ForgetBlob
  <2>1. UNCHANGED <<path, job, crashes>> /\ pc[Capturer] = "forget"  BY <1>8 DEF ForgetBlob
  <2>2. Recorded' = Recorded \ {Oldest}  BY <1>8, ForgetBlobBase
  <2>3. \A q \in Putter : q # Capturer => pc'[q] = pc[q]
    BY <1>0, <1>8, ContinueStage DEF ForgetBlob
  <2>4. \A q \in Putter : pc[q] = "record" => pc'[q] = "record"  BY <2>1, <2>3
  <2>5. path[Oldest] # NoFile => \E q \in Putter : pc'[q] = "record" /\ job'[q] = Oldest
    BY <1>0, <2>1, <2>4 DEF Claimed
  <2>6. Unrecorded' \subseteq Unrecorded  BY <2>1, <2>2, <2>4, <2>5 DEF Unrecorded
  <2> QED  BY <1>2, <2>1, <2>6
<1>9. CASE \E g \in Digest : Read(g)
  <2>1. Recorded' = Recorded  BY <1>9, ReadBase
  <2> QED  BY <1>4, <1>9, <2>1 DEF Read
<1>10. CASE \E g \in Digest, how \in {"none", "live", "pinned"} : Refer(g, how)
  BY <1>4, <1>10 DEF Refer, Recorded
<1>11. CASE Crash
  <2> DEFINE U == {job[p] : p \in Putter}
  <2>1. crashes' = crashes + 1 /\ UNCHANGED <<path, lru, job>>  BY <1>11 DEF Crash
  <2>2. Unrecorded' \subseteq Unrecorded \cup U  BY <2>1 DEF Unrecorded, Recorded
  <2>3. U \subseteq Digest /\ Cardinality(U) <= Cardinality(Putter)
    <3>1. job \in Surjection(Putter, U)  BY <1>0 DEF TypeOK, Surjection
    <3>2. Cardinality(U) <= Cardinality(Putter)  BY <3>1, Finite, FS_Surjection
    <3> QED  BY <1>0, <3>2 DEF TypeOK
  <2>4. Cardinality(Unrecorded) <= crashes * Cardinality(Putter)
    BY DEF Leaks, LeaksAreCrashes
  <2> HIDE DEF U
  <2>5. Cardinality(Unrecorded') <= crashes * Cardinality(Putter) + Cardinality(Putter)
    BY <1>0, <1>1, <2>2, <2>3, <2>4, Grows
  <2>6. crashes * Cardinality(Putter) + Cardinality(Putter) = (crashes + 1) * Cardinality(Putter)
    BY <1>0
  <2> QED  BY <1>0, <2>1, <2>5, <2>6 DEF Leaks, LeaksAreCrashes
<1>12. CASE UNCHANGED vars  BY <1>4, <1>12 DEF vars, Recorded
<1> QED  BY <1>3, <1>5, <1>6, <1>7, <1>8, <1>9, <1>10, <1>11, <1>12, NextCases

(* Every crash leaves at most one file for each task that no quota counts:   *)
(* put_blob records what it renamed unless the daemon stops in between, and  *)
(* an eviction that forgets a record another task has yet to write leaves    *)
(* that to the task.                                                         *)
THEOREM LeaksNeedCrashes == Spec => []LeaksAreCrashes
<1>1. Spec => [](Base /\ Leaks)
  <2>1. Init => Base /\ Leaks  BY InitBase, InitLeaks
  <2>2. (Base /\ Leaks) /\ [Next]_vars => (Base /\ Leaks)'  BY NextBase, NextLeaks
  <2> QED  BY <2>1, <2>2, PTL DEF Spec
<1>2. Leaks => LeaksAreCrashes  BY DEF Leaks
<1> QED  BY <1>1, <1>2, PTL

----------------------------------------------------------------------------
(* Files and the tasks that have them open.                                  *)

(* A task has a file open while it writes and until it has renamed it.       *)
Held == \A p \in Putter : fd[p] # NoFile <=> pc[p] \in {"write", "rename"}

(* A file belongs to the digest it is named after, and to no other.          *)
Names(x, g) == path[g] = x \/ tmp[g] = x \/ \E p \in Putter : fd[p] = x /\ job[p] = g
OneDigest == \A x \in Inode, g, h \in Digest : Names(x, g) /\ Names(x, h) => g = h
Separate == \A g \in Digest : tmp[g] # NoFile => path[g] # tmp[g]

(* A file that was never shared is the temporary one of its digest, and no   *)
(* other task has a file of that digest open.                                *)
Alone ==
    \A p \in Putter : fd[p] # NoFile /\ fd[p] \notin shared =>
        tmp[job[p]] = fd[p] /\ ~Rival(p)

(* A task finds its file, or one that was opened beside it.                  *)
Replaced ==
    \A p \in Putter : fd[p] # NoFile /\ tmp[job[p]] \notin {NoFile, fd[p]} =>
        tmp[job[p]] \in shared

(* A file is incomplete while someone has yet to write it, or for good once  *)
(* the daemon has crashed.                                                   *)
Writer(x) == \E q \in Putter : pc[q] = "write" /\ fd[q] = x
Half ==
    \A p \in Putter : pc[p] = "rename" /\ fd[p] \notin whole =>
        fd[p] \in shared /\ Writer(fd[p])
Unfinished ==
    \A g \in Digest : \A x \in {path[g], tmp[g]} :
        x # NoFile /\ x \notin whole => crashes > 0 \/ Writer(x)
HalfShared == \A g \in Digest : path[g] # NoFile /\ path[g] \notin whole => path[g] \in shared

Files ==
    /\ crashes \in Nat
    /\ Held /\ OneDigest /\ Separate /\ Alone /\ Replaced /\ Half /\ Unfinished /\ HalfShared

LEMMA FilesWhole == ASSUME Files PROVE WholeAtPath
BY DEF Files, Unfinished, HalfShared, Writer, WholeAtPath

LEMMA InitFiles == ASSUME Init PROVE Files
<1>1. Held /\ Alone /\ Replaced /\ Half
  BY DEF Init, Held, Alone, Replaced, Half
<1>2. OneDigest  BY BlobAssumption DEF Init, OneDigest, Names
<1> QED  BY <1>1, <1>2 DEF Init, Files, Separate, Unfinished, HalfShared

(* The steps that open and write no file.                                    *)
LEMMA StillFiles ==
    ASSUME TypeOK, Files, UNCHANGED <<tmp, whole, fd, shared>>, crashes' \in Nat, crashes' >= crashes,
           \A g \in Digest : path'[g] = path[g] \/ path'[g] = NoFile,
           \A q \in Putter : /\ pc'[q] \in {"write", "rename"} <=> pc[q] \in {"write", "rename"}
                             /\ pc[q] = "write" => pc'[q] = "write"
                             /\ pc'[q] = "rename" => pc[q] = "rename"
                             /\ fd[q] # NoFile => job'[q] = job[q]
    PROVE  Files'
<1>0. /\ Held /\ OneDigest /\ Separate /\ Alone /\ Replaced /\ Half /\ Unfinished /\ HalfShared
      /\ crashes \in Nat /\ NoFile \notin Inode
  BY BlobAssumption DEF Files
<1>1. Held'  BY <1>0 DEF Held
<1>2. OneDigest'
  <2>1. \A x \in Inode, g \in Digest : Names(x, g)' => Names(x, g)  BY <1>0 DEF Names
  <2> QED  BY <1>0, <2>1 DEF OneDigest
<1>3. Separate'  BY <1>0 DEF Separate
<1>4. Alone'
  <2> SUFFICES ASSUME NEW p \in Putter, fd[p] # NoFile, fd[p] \notin shared
               PROVE  tmp[job'[p]] = fd[p] /\ ~Rival(p)'
    BY DEF Alone
  <2>1. tmp[job[p]] = fd[p] /\ ~Rival(p) /\ job'[p] = job[p]  BY <1>0 DEF Alone
  <2> QED  BY <2>1 DEF Rival
<1>5. Replaced'  BY <1>0 DEF Replaced
<1>6. \A x : Writer(x) => Writer(x)'  BY DEF Writer
<1>7. Half'  BY <1>0, <1>6 DEF Half
<1>8. Unfinished'
  <2> SUFFICES ASSUME NEW g \in Digest, NEW x \in {path'[g], tmp'[g]}, x # NoFile, x \notin whole
               PROVE  crashes' > 0 \/ Writer(x)'
    BY DEF Unfinished
  <2>1. x \in {path[g], tmp[g]}  OBVIOUS
  <2>2. crashes > 0 \/ Writer(x)  BY <1>0, <2>1 DEF Unfinished
  <2> QED  BY <1>0, <1>6, <2>2
<1>9. HalfShared'  BY <1>0 DEF HalfShared
<1> QED  BY <1>1, <1>2, <1>3, <1>4, <1>5, <1>7, <1>8, <1>9 DEF Files

LEMMA OpenFiles == ASSUME Base, Files, NEW p \in Putter, Open(p) PROVE Files'
<1> DEFINE g == job[p]
<1>0. /\ Held /\ OneDigest /\ Separate /\ Alone /\ Replaced /\ Half /\ Unfinished /\ HalfShared
      /\ TypeOK /\ crashes \in Nat /\ NoFile \notin Inode /\ g \in Digest
      /\ \A q \in Putter : job[q] \in Digest /\ fd[q] \in Inode \cup {NoFile}
      /\ \A h \in Digest : path[h] \in Inode \cup {NoFile} /\ tmp[h] \in Inode \cup {NoFile}
  BY BlobAssumption DEF Files, Base, TypeOK
<1>1. PICK i \in Inode :
         /\ i = tmp[g] \/ (tmp[g] = NoFile /\ i \in Free)
         /\ tmp' = [tmp EXCEPT ![g] = i] /\ fd' = [fd EXCEPT ![p] = i]
         /\ whole' = whole \ {i}
         /\ shared' = IF Rival(p) THEN shared \cup {i} ELSE shared \ {i}
  BY <1>0, OpenPicks
<1>2. UNCHANGED <<path, job, crashes>> /\ pc[p] = "open" /\ Goto(p, "write")  BY DEF Open
<1>3. /\ tmp'[g] = i /\ \A h \in Digest : h # g => tmp'[h] = tmp[h]
      /\ fd'[p] = i /\ \A q \in Putter : q # p => fd'[q] = fd[q]
      /\ pc'[p] = "write" /\ \A q \in Putter : q # p => pc'[q] = pc[q]
  BY <1>0, <1>1, <1>2 DEF TypeOK, Goto
<1>4. fd[p] = NoFile  BY <1>0, <1>2 DEF Held
<1>5. \A h \in Digest : Names(i, h) => h = g
  <2>1. CASE i \in Free  BY <2>1 DEF Free, Names
  <2>2. CASE i = tmp[g]  BY <1>0, <2>2 DEF Names, OneDigest
  <2> QED  BY <1>1, <2>1, <2>2
<1>6. \A h \in Digest : path[h] # i
  <2>1. CASE i \in Free  BY <2>1 DEF Free
  <2>2. CASE i = tmp[g]
    <3> SUFFICES ASSUME NEW h \in Digest, path[h] = i PROVE FALSE  OBVIOUS
    <3>1. h = g  BY <1>5 DEF Names
    <3> QED  BY <1>0, <2>2, <3>1 DEF Separate
  <2> QED  BY <1>1, <2>1, <2>2
<1>7. \A q \in Putter : fd[q] = i => job[q] = g
  BY <1>0, <1>5 DEF Names
<1>8. \A q \in Putter : q # p /\ job[q] = g /\ fd[q] # NoFile => Rival(p)  BY DEF Rival
<1>9. \A x : Writer(x) => Writer(x)'  BY <1>2, <1>3 DEF Writer
<1>10. Writer(i)'  BY <1>3 DEF Writer
<1>11. \A x : x # i => (x \in shared <=> x \in shared') /\ (x \in whole <=> x \in whole')  BY <1>1
<1>12. Held'  BY <1>0, <1>3 DEF Held
<1>13. OneDigest'
  <2>1. ASSUME NEW x \in Inode, NEW h \in Digest, Names(x, h)' PROVE Names(x, h) \/ (x = i /\ h = g)
    <3>1. CASE path'[h] = x  BY <1>2, <3>1 DEF Names
    <3>2. CASE tmp'[h] = x  BY <1>3, <3>2 DEF Names
    <3>3. CASE \E q \in Putter : fd'[q] = x /\ job'[q] = h  BY <1>2, <1>3, <3>3 DEF Names
    <3> QED  BY <2>1, <3>1, <3>2, <3>3 DEF Names
  <2> QED  BY <1>0, <1>5, <2>1 DEF OneDigest
<1>14. Separate'
  <2> SUFFICES ASSUME NEW h \in Digest, tmp'[h] # NoFile PROVE path[h] # tmp'[h]
    BY <1>2 DEF Separate
  <2>1. CASE h = g  BY <1>3, <1>6, <2>1
  <2>2. CASE h # g  BY <1>0, <1>3, <2>2 DEF Separate
  <2> QED  BY <2>1, <2>2
<1>15. Alone'
  <2> SUFFICES ASSUME NEW q \in Putter, fd'[q] # NoFile, fd'[q] \notin shared'
               PROVE  tmp'[job[q]] = fd'[q] /\ ~Rival(q)'
    BY <1>2 DEF Alone
  <2>1. CASE q = p
    <3>1. ~Rival(p)  BY <1>1, <1>3, <2>1
    <3>2. \A r \in Putter : r # p => fd'[r] = fd[r] /\ job'[r] = job[r]  BY <1>2, <1>3
    <3> QED  BY <1>2, <1>3, <2>1, <3>1, <3>2 DEF Rival
  <2>2. CASE q # p /\ job[q] = g
    <3>1. Rival(p) /\ fd'[q] = fd[q]  BY <1>3, <1>8, <2>2
    <3>2. fd[q] # i /\ fd[q] \notin shared  BY <1>1, <3>1
    <3>3. tmp[g] = fd[q]  BY <1>0, <2>2, <3>1, <3>2 DEF Alone
    <3> QED  BY <1>1, <3>1, <3>2, <3>3
  <2>3. CASE q # p /\ job[q] # g
    <3>1. fd'[q] = fd[q] /\ fd[q] # i  BY <1>3, <1>7, <2>3
    <3>2. tmp[job[q]] = fd[q] /\ ~Rival(q)  BY <1>0, <1>11, <3>1 DEF Alone
    <3>3. tmp'[job[q]] = fd'[q]  BY <1>0, <1>3, <2>3, <3>1, <3>2
    <3>4. ~Rival(q)'
      <4> SUFFICES ASSUME NEW r \in Putter \ {q}, job[r] = job[q], fd'[r] # NoFile PROVE FALSE
        BY <1>2 DEF Rival
      <4>1. r # p  BY <2>3
      <4> QED  BY <1>3, <3>2, <4>1 DEF Rival
    <3> QED  BY <3>3, <3>4
  <2> QED  BY <2>1, <2>2, <2>3
<1>16. Replaced'
  <2> SUFFICES ASSUME NEW q \in Putter, fd'[q] # NoFile, tmp'[job[q]] \notin {NoFile, fd'[q]}
               PROVE  tmp'[job[q]] \in shared'
    BY <1>2 DEF Replaced
  <2>1. q # p  BY <1>3
  <2>2. fd'[q] = fd[q]  BY <1>3, <2>1
  <2>3. CASE job[q] = g  BY <1>1, <1>3, <1>8, <2>1, <2>2, <2>3
  <2>4. CASE job[q] # g
    <3>1. tmp'[job[q]] = tmp[job[q]]  BY <1>0, <1>3, <2>4
    <3>2. tmp[job[q]] \in shared  BY <1>0, <2>2, <3>1 DEF Replaced
    <3>3. tmp[job[q]] # i  BY <1>0, <1>5, <2>4 DEF Names
    <3> QED  BY <1>11, <3>1, <3>2, <3>3
  <2> QED  BY <2>3, <2>4
<1>17. Half'
  <2> SUFFICES ASSUME NEW q \in Putter, NEW x, pc'[q] = "rename", x = fd'[q], x \notin whole'
               PROVE  x \in shared' /\ Writer(x)'
    BY DEF Half, Writer
  <2>1. q # p  BY <1>3
  <2>2. pc[q] = "rename" /\ fd'[q] = fd[q] /\ fd[q] # NoFile  BY <1>0, <1>3, <2>1 DEF Held
  <2>3. CASE fd[q] = i
    <3>1. job[q] = g /\ Rival(p)  BY <1>7, <1>8, <2>1, <2>2, <2>3
    <3> QED  BY <1>1, <1>10, <2>2, <2>3, <3>1
  <2>4. CASE fd[q] # i
    <3>1. fd[q] \in shared /\ Writer(fd[q])  BY <1>0, <1>11, <2>2, <2>4 DEF Half
    <3> QED  BY <1>9, <1>11, <2>2, <2>4, <3>1
  <2> QED  BY <2>3, <2>4
<1>18. Unfinished'
  <2> SUFFICES ASSUME NEW h \in Digest, NEW x \in {path[h], tmp'[h]}, x # NoFile, x \notin whole'
               PROVE  crashes > 0 \/ Writer(x)'
    BY <1>2 DEF Unfinished
  <2>1. CASE x = i  BY <1>10, <2>1
  <2>2. CASE x # i
    <3>1. x \in {path[h], tmp[h]}  BY <1>3, <2>2
    <3>2. crashes > 0 \/ Writer(x)  BY <1>0, <1>11, <2>2, <3>1 DEF Unfinished
    <3> QED  BY <1>9, <3>2
  <2> QED  BY <2>1, <2>2
<1>19. HalfShared'  BY <1>0, <1>2, <1>6, <1>11 DEF HalfShared
<1> QED  BY <1>0, <1>2, <1>12, <1>13, <1>14, <1>15, <1>16, <1>17, <1>18, <1>19 DEF Files

LEMMA WriteFiles == ASSUME Base, Files, NEW p \in Putter, Write(p) PROVE Files'
<1>0. /\ Held /\ OneDigest /\ Separate /\ Alone /\ Replaced /\ Half /\ Unfinished /\ HalfShared
      /\ TypeOK /\ crashes \in Nat
  BY DEF Files, Base
<1>1. /\ UNCHANGED <<path, tmp, fd, job, shared, crashes>> /\ pc[p] = "write" /\ Goto(p, "rename")
  BY DEF Write, history
<1>2. pc'[p] = "rename" /\ \A q \in Putter : q # p => pc'[q] = pc[q]  BY <1>0, <1>1 DEF TypeOK, Goto
<1>3. \A x : x \in whole => x \in whole'  BY DEF Write
(* Either the file is complete now, or another task is to write it.          *)
<1>4. fd[p] \notin whole' => \E q \in Putter \ {p} : pc[q] = "write" /\ fd[q] = fd[p]
  BY DEF Write
<1>5. \A x : Writer(x) /\ x \notin whole' => Writer(x)'
  <2> SUFFICES ASSUME NEW x, NEW q \in Putter, pc[q] = "write", fd[q] = x, x \notin whole'
               PROVE  \E r \in Putter : pc'[r] = "write" /\ fd[r] = x
    BY <1>1 DEF Writer
  <2>1. CASE q # p  BY <1>2, <2>1
  <2>2. CASE q = p  BY <1>2, <1>4, <2>2
  <2> QED  BY <2>1, <2>2
<1>6. Held'  BY <1>0, <1>1, <1>2 DEF Held
<1>7. OneDigest'  BY <1>0, <1>1 DEF OneDigest, Names
<1>8. Separate' /\ Replaced'  BY <1>0, <1>1 DEF Separate, Replaced
<1>9. Alone'
  <2>1. \A q : Rival(q)' <=> Rival(q)  BY <1>1 DEF Rival
  <2> QED  BY <1>0, <1>1, <2>1 DEF Alone
<1>10. Half'
  <2> SUFFICES ASSUME NEW q \in Putter, NEW x, pc'[q] = "rename", x = fd[q], x \notin whole'
               PROVE  x \in shared /\ Writer(x)'
    BY <1>1 DEF Half, Writer
  <2>1. CASE q # p
    <3>1. pc[q] = "rename" /\ fd[q] \notin whole  BY <1>2, <1>3, <2>1
    <3>2. fd[q] \in shared /\ Writer(fd[q])  BY <1>0, <3>1 DEF Half
    <3> QED  BY <1>5, <3>2
  <2>2. CASE q = p
    <3>1. PICK r \in Putter \ {p} : pc[r] = "write" /\ fd[r] = fd[p]  BY <1>4, <2>2
    <3>2. fd[p] # NoFile  BY <1>0, <1>1 DEF Held
    <3>3. Writer(fd[p])  BY <3>1 DEF Writer
    <3>4. fd[p] \in shared
      <4> SUFFICES ASSUME fd[p] \notin shared PROVE FALSE  OBVIOUS
      <4>1. tmp[job[p]] = fd[p] /\ ~Rival(p)  BY <1>0, <3>2 DEF Alone
      <4>2. tmp[job[r]] = fd[r]  BY <1>0, <3>1, <3>2 DEF Alone
      <4>3. Names(fd[p], job[p]) /\ Names(fd[p], job[r])  BY <3>1 DEF Names
      <4>4. job[p] \in Digest /\ job[r] \in Digest /\ fd[p] \in Inode
        BY <1>0, <3>2 DEF TypeOK
      <4>5. job[r] = job[p]  BY <1>0, <4>3, <4>4 DEF OneDigest
      <4> QED  BY <3>1, <3>2, <4>1, <4>5 DEF Rival
    <3> QED  BY <1>5, <2>2, <3>3, <3>4
  <2> QED  BY <2>1, <2>2
<1>11. Unfinished'
  <2> SUFFICES ASSUME NEW h \in Digest, NEW x \in {path[h], tmp[h]}, x # NoFile, x \notin whole'
               PROVE  crashes > 0 \/ Writer(x)'
    BY <1>1 DEF Unfinished
  <2>1. crashes > 0 \/ Writer(x)  BY <1>0, <1>3 DEF Unfinished
  <2> QED  BY <1>5, <2>1
<1>12. HalfShared'  BY <1>0, <1>1, <1>3 DEF HalfShared
<1> QED  BY <1>0, <1>1, <1>6, <1>7, <1>8, <1>9, <1>10, <1>11, <1>12 DEF Files

LEMMA RenameFiles == ASSUME Base, Files, NEW p \in Putter, Rename(p) PROVE Files'
<1> DEFINE g == job[p]
<1>0. /\ Held /\ OneDigest /\ Separate /\ Alone /\ Replaced /\ Half /\ Unfinished /\ HalfShared
      /\ TypeOK /\ crashes \in Nat /\ NoFile \notin Inode /\ g \in Digest
      /\ \A q \in Putter : job[q] \in Digest
  BY BlobAssumption DEF Files, Base, TypeOK
<1>1. /\ UNCHANGED <<whole, job, shared, crashes>> /\ pc[p] = "rename"
      /\ fd' = [fd EXCEPT ![p] = NoFile]
  BY DEF Rename, history
<1>2. /\ pc'[p] \in {"idle", "record"} /\ \A q \in Putter : q # p => pc'[q] = pc[q]
  BY <1>0 DEF Rename, Goto, TypeOK
<1>3. fd[p] # NoFile  BY <1>0, <1>1 DEF Held
<1>4. fd'[p] = NoFile /\ \A q \in Putter : q # p => fd'[q] = fd[q]  BY <1>0, <1>1 DEF TypeOK
<1>5. /\ tmp'[g] = NoFile
      /\ path'[g] = IF tmp[g] = NoFile THEN path[g] ELSE tmp[g]
      /\ \A h \in Digest : h # g => path'[h] = path[h] /\ tmp'[h] = tmp[h]
  BY <1>0 DEF Rename, TypeOK
<1>6. \A x : Writer(x) => Writer(x)'  BY <1>1, <1>2, <1>4 DEF Writer
<1>7. Held'  BY <1>0, <1>2, <1>4 DEF Held
<1>8. OneDigest'
  <2>1. ASSUME NEW x \in Inode, NEW h \in Digest, Names(x, h)' PROVE Names(x, h)
    <3>1. CASE path'[h] = x  BY <1>5, <3>1 DEF Names
    <3>2. CASE tmp'[h] = x  BY <1>0, <1>5, <3>2 DEF Names
    <3>3. CASE \E q \in Putter : fd'[q] = x /\ job'[q] = h
      <4>1. PICK q \in Putter : fd'[q] = x /\ job[q] = h  BY <1>1, <3>3
      <4>2. q # p  BY <1>0, <1>4, <4>1
      <4> QED  BY <1>4, <4>1, <4>2 DEF Names
    <3> QED  BY <2>1, <3>1, <3>2, <3>3 DEF Names
  <2> QED  BY <1>0, <2>1 DEF OneDigest
<1>9. Separate'  BY <1>0, <1>5 DEF Separate
<1>10. Alone'
  <2> SUFFICES ASSUME NEW q \in Putter, fd'[q] # NoFile, fd'[q] \notin shared
               PROVE  tmp'[job[q]] = fd'[q] /\ ~Rival(q)'
    BY <1>1 DEF Alone
  <2>1. q # p /\ fd'[q] = fd[q]  BY <1>4
  <2>2. tmp[job[q]] = fd[q] /\ ~Rival(q)  BY <1>0, <2>1 DEF Alone
  <2>3. job[q] # g  BY <1>3, <2>1, <2>2 DEF Rival
  <2>4. \A r \in Putter : fd'[r] # NoFile => fd[r] # NoFile  BY <1>3, <1>4
  <2> QED  BY <1>0, <1>1, <1>5, <2>1, <2>2, <2>3, <2>4 DEF Rival
<1>11. Replaced'
  <2> SUFFICES ASSUME NEW q \in Putter, fd'[q] # NoFile, tmp'[job[q]] \notin {NoFile, fd'[q]}
               PROVE  tmp'[job[q]] \in shared
    BY <1>1 DEF Replaced
  <2>1. q # p /\ fd'[q] = fd[q]  BY <1>4
  <2>2. job[q] # g /\ tmp'[job[q]] = tmp[job[q]]  BY <1>0, <1>5
  <2> QED  BY <1>0, <2>1, <2>2 DEF Replaced
<1>12. Half'
  <2> SUFFICES ASSUME NEW q \in Putter, NEW x, pc'[q] = "rename", x = fd'[q], x \notin whole
               PROVE  x \in shared /\ Writer(x)'
    BY <1>1 DEF Half, Writer
  <2>1. q # p  BY <1>2
  <2>2. pc[q] = "rename" /\ fd'[q] = fd[q]  BY <1>2, <1>4, <2>1
  <2> QED  BY <1>0, <1>6, <2>2 DEF Half
<1>13. Unfinished'
  <2> SUFFICES ASSUME NEW h \in Digest, NEW x \in {path'[h], tmp'[h]}, x # NoFile, x \notin whole
               PROVE  crashes > 0 \/ Writer(x)'
    BY <1>1 DEF Unfinished
  <2>1. x \in {path[h], tmp[h]}  BY <1>5
  <2>2. crashes > 0 \/ Writer(x)  BY <1>0, <2>1 DEF Unfinished
  <2> QED  BY <1>6, <2>2
<1>14. HalfShared'
  <2> SUFFICES ASSUME NEW h \in Digest, path'[h] # NoFile, path'[h] \notin whole PROVE path'[h] \in shared
    BY <1>1 DEF HalfShared
  <2>1. CASE path'[h] = path[h]  BY <1>0, <2>1 DEF HalfShared
  <2>2. CASE path'[h] # path[h]
    <3>1. h = g /\ path'[h] = tmp[g] /\ tmp[g] # NoFile  BY <1>5, <2>2
    <3>2. CASE tmp[g] = fd[p]  BY <1>0, <1>1, <3>1, <3>2 DEF Half
    <3>3. CASE tmp[g] # fd[p]  BY <1>0, <1>3, <3>1, <3>3 DEF Replaced
    <3> QED  BY <3>2, <3>3
  <2> QED  BY <2>1, <2>2
<1> QED  BY <1>0, <1>1, <1>7, <1>8, <1>9, <1>10, <1>11, <1>12, <1>13, <1>14 DEF Files

LEMMA NextFiles == Base /\ Files /\ [Next]_vars => Files'
<1> SUFFICES ASSUME Base, Files, [Next]_vars PROVE Files'  OBVIOUS
<1>0. TypeOK /\ Held /\ crashes \in Nat  BY DEF Base, Files
<1>1. ASSUME UNCHANGED <<tmp, whole, job, fd, shared, crashes>>,
             \A g \in Digest : path'[g] = path[g] \/ path'[g] = NoFile,
             \A q \in Putter : pc'[q] = pc[q] \/ {pc[q], pc'[q]} \cap {"write", "rename"} = {}
      PROVE  Files'
  <2>1. \A q \in Putter : /\ pc'[q] \in {"write", "rename"} <=> pc[q] \in {"write", "rename"}
                          /\ pc[q] = "write" => pc'[q] = "write"
                          /\ pc'[q] = "rename" => pc[q] = "rename"
    BY <1>1
  <2> QED  BY <1>0, <1>1, <2>1, StillFiles
<1>2. ASSUME NEW p \in Putter, Puts(p) PROVE Files'
  <2>1. CASE Open(p)  BY <2>1, OpenFiles
  <2>2. CASE Write(p)  BY <2>2, WriteFiles
  <2>3. CASE Rename(p)  BY <2>3, RenameFiles
  <2>4. \A q \in Putter : q # p => pc'[q] = pc[q]  BY <1>0, <1>2, PutsKeepsLock
  <2>5. CASE Check(p)
    <3>1. UNCHANGED <<path, tmp, whole, job, fd, shared, crashes>> /\ pc[p] = "check"
      BY <2>5 DEF Check, history
    <3>2. pc'[p] \in {"open", "record"}  BY <1>0, <2>5 DEF Check, Goto, TypeOK
    <3>3. \A q \in Putter : pc'[q] = pc[q] \/ {pc[q], pc'[q]} \cap {"write", "rename"} = {}
      BY <2>4, <3>1, <3>2
    <3> QED  BY <1>1, <3>1, <3>3
  <2>6. CASE Record(p)
    <3>1. UNCHANGED <<path, tmp, whole, job, fd, shared, crashes>> /\ pc[p] = "record"
      BY <2>6 DEF Record
    <3>2. pc'[p] \in {"insert", "idle"}  BY <1>0, <2>6 DEF Record, Goto, TypeOK
    <3>3. \A q \in Putter : pc'[q] = pc[q] \/ {pc[q], pc'[q]} \cap {"write", "rename"} = {}
      BY <2>4, <3>1, <3>2
    <3> QED  BY <1>1, <3>1, <3>3
  <2>7. CASE \E g \in Digest : Begin(p, g)
    <3>1. PICK g \in Digest : Begin(p, g)  BY <2>7
    <3>2. /\ UNCHANGED <<path, tmp, whole, fd, shared, crashes>> /\ pc[p] = "idle"
          /\ pc'[p] = "check" /\ job' = [job EXCEPT ![p] = g]
      BY <1>0, <3>1 DEF Begin, history, Goto, TypeOK
    <3>3. fd[p] = NoFile  BY <1>0, <3>2 DEF Held
    <3>4. \A q \in Putter : /\ pc'[q] \in {"write", "rename"} <=> pc[q] \in {"write", "rename"}
                            /\ pc[q] = "write" => pc'[q] = "write"
                            /\ pc'[q] = "rename" => pc[q] = "rename"
                            /\ fd[q] # NoFile => job'[q] = job[q]
      BY <1>0, <2>4, <3>2, <3>3 DEF TypeOK
    <3> QED  BY <1>0, <3>2, <3>4, StillFiles
  <2> QED  BY <1>2, <2>1, <2>2, <2>3, <2>5, <2>6, <2>7 DEF Puts
<1>3. CASE InsertRow
  <2>1. /\ pc[Capturer] = "insert" /\ Goto(Capturer, "quota")
        /\ UNCHANGED <<path, tmp, whole, job, fd, shared, crashes>>
    BY <1>3 DEF InsertRow, history
  <2>2. \A q \in Putter : pc'[q] = pc[q] \/ (pc'[q] = "quota" /\ pc[q] = "insert")
    BY <1>0, <2>1 DEF Goto, TypeOK
  <2> QED  BY <1>1, <2>1, <2>2
<1>4. CASE EnforceQuota
  <2>1. pc[Capturer] = "quota" /\ UNCHANGED <<path, tmp, whole, job, fd, shared, crashes>>
    BY <1>4 DEF EnforceQuota, history
  <2>2. /\ \A q \in Putter : q # Capturer => pc'[q] = pc[q]
        /\ pc'[Capturer] \in {"idle", "evict"}
    BY <1>0, <1>4, ContinueStage DEF EnforceQuota
  <2> QED  BY <1>1, <2>1, <2>2
<1>5. CASE RemoveFile
  <2>1. /\ pc[Capturer] = "evict" /\ Goto(Capturer, "forget")
        /\ UNCHANGED <<tmp, whole, job, fd, shared, crashes>>
        /\ path' = [path EXCEPT ![Oldest] = NoFile]
    BY <1>5 DEF RemoveFile, history
  <2>2. \A q \in Putter : pc'[q] = pc[q] \/ (pc'[q] = "forget" /\ pc[q] = "evict")
    BY <1>0, <2>1 DEF Goto, TypeOK
  <2>3. \A g \in Digest : path'[g] = path[g] \/ path'[g] = NoFile  BY <1>0, <2>1 DEF TypeOK
  <2> QED  BY <1>1, <2>1, <2>2, <2>3
<1>6. CASE ForgetBlob
  <2>1. pc[Capturer] = "forget" /\ UNCHANGED <<path, tmp, whole, job, fd, shared, crashes>>
    BY <1>6 DEF ForgetBlob, history
  <2>2. /\ \A q \in Putter : q # Capturer => pc'[q] = pc[q]
        /\ pc'[Capturer] \in {"idle", "evict"}
    BY <1>0, <1>6, ContinueStage DEF ForgetBlob
  <2> QED  BY <1>1, <2>1, <2>2
<1>7. CASE \E g \in Digest : Read(g)  BY <1>1, <1>7 DEF Read, history
<1>8. CASE \E g \in Digest, how \in {"none", "live", "pinned"} : Refer(g, how)
  BY <1>1, <1>8 DEF Refer, history
<1>9. CASE Crash
  <2>1. /\ UNCHANGED <<path, tmp, whole, job, shared>> /\ crashes' = crashes + 1
        /\ \A p \in Putter : pc'[p] = "idle" /\ fd'[p] = NoFile
    BY <1>9 DEF Crash, history
  <2>2. Held' /\ Alone' /\ Replaced' /\ Half'
    BY <2>1 DEF Held, Alone, Replaced, Half
  <2>3. OneDigest'
    <3>1. \A x \in Inode, g \in Digest : Names(x, g)' => Names(x, g)
      BY BlobAssumption, <2>1 DEF Names
    <3> QED  BY <3>1 DEF Files, OneDigest
  <2>4. crashes' \in Nat /\ crashes' > 0  BY <1>0, <2>1
  <2>5. Unfinished'  BY <2>4 DEF Unfinished
  <2>6. Separate' /\ HalfShared'  BY <2>1 DEF Files, Separate, HalfShared
  <2> QED  BY <2>2, <2>3, <2>4, <2>5, <2>6 DEF Files
<1>10. CASE UNCHANGED vars  BY <1>1, <1>10 DEF vars, history
<1> QED  BY <1>2, <1>3, <1>4, <1>5, <1>6, <1>7, <1>8, <1>9, <1>10, NextCases

(* put_blob: "a crash mid-write can never leave a truncated file at the      *)
(* final path", whatever the crashes, the evictions and the number of tasks: *)
(* a file there is complete, or two tasks stored its digest at once, and the *)
(* other has yet to write or the daemon has crashed.                         *)
THEOREM PathsAreWhole == Spec => []WholeAtPath
<1>1. Init => Base /\ Files  BY InitBase, InitFiles
<1>2. (Base /\ Files) /\ [Next]_vars => (Base /\ Files)'  BY NextBase, NextFiles
<1> QED  BY <1>1, <1>2, FilesWhole, PTL DEF Spec

----------------------------------------------------------------------------
(* Records without a file.                                                   *)

(* Those that no put_blob recorded after its file was gone.                  *)
Spirits == crashes \in Nat /\ GhostsAreCrashes

LEMMA InitSpirits == ASSUME Init PROVE Spirits
<1>1. Recorded = {} /\ crashes = 0  BY DEF Init, Recorded
<1>2. Ghosts \ late = {}  BY <1>1 DEF Ghosts
<1>3. Cardinality(Ghosts \ late) = 0  BY <1>2, FS_EmptySet
<1> QED  BY <1>1, <1>3 DEF Spirits, GhostsAreCrashes

LEMMA NextSpirits == Base /\ Spirits /\ [Next]_vars => Spirits'
<1> SUFFICES ASSUME Base, Spirits, [Next]_vars PROVE Spirits'  OBVIOUS
<1>0. /\ TypeOK /\ crashes \in Nat /\ Cardinality(Ghosts \ late) <= crashes
      /\ Ghosts \ late \subseteq Digest /\ Recorded \subseteq Digest
  BY DEF Base, Spirits, GhostsAreCrashes, Ghosts, TypeOK, Recorded
<1>1. ASSUME Ghosts' \ late' \subseteq Ghosts \ late, crashes' = crashes PROVE Spirits'
  BY <1>0, <1>1, Shrinks DEF Spirits, GhostsAreCrashes
(* No step but these three touches a file or a record.                       *)
<1>2. ASSUME UNCHANGED <<late, crashes>>, Recorded' = Recorded, pc[Capturer] # "forget",
             \A g \in Digest : path[g] # NoFile => path'[g] # NoFile
      PROVE  Spirits'
  <2>1. Ghosts' \subseteq Ghosts  BY <1>0, <1>2 DEF Ghosts
  <2> QED  BY <1>1, <1>2, <2>1
<1>3. ASSUME UNCHANGED <<late, crashes, lru, evict>>,
             pc[Capturer] = "forget" <=> pc'[Capturer] = "forget",
             \A g \in Digest : path[g] # NoFile => path'[g] # NoFile
      PROVE  Spirits'
  <2>1. Recorded' = Recorded /\ Oldest' = Oldest  BY <1>3 DEF Recorded, Oldest
  <2>2. Ghosts' \subseteq Ghosts  BY <1>0, <1>3, <2>1 DEF Ghosts
  <2> QED  BY <1>1, <1>3, <2>2
<1>4. ASSUME NEW p \in Putter, Puts(p) PROVE Spirits'
  <2>1. evict' = evict /\ (pc[Capturer] = "forget" <=> pc'[Capturer] = "forget")
    BY <1>0, <1>4, PutsKeepsLock
  <2>2. CASE Record(p)
    <3>1. /\ UNCHANGED <<path, crashes>> /\ ~Locked /\ lru' = Used(lru, job[p])
          /\ late' = IF path[job[p]] = NoFile THEN late \cup {job[p]} ELSE late \ {job[p]}
      BY <2>2 DEF Record
    <3>2. job[p] \in Digest  BY <1>0 DEF TypeOK
    <3>3. Recorded' = Recorded \cup {job[p]}  BY <1>0, <2>1, <3>1, <3>2, UsedTypes
    <3>4. pc[Capturer] # "forget" /\ pc'[Capturer] # "forget"  BY <2>1, <3>1 DEF Locked
    <3>5. Ghosts' \ late' \subseteq Ghosts \ late  BY <3>1, <3>3, <3>4 DEF Ghosts
    <3> QED  BY <1>1, <3>1, <3>5
  <2>3. CASE Rename(p)
    <3>1. UNCHANGED <<late, crashes, lru>>  BY <2>3 DEF Rename, history
    <3>2. \A g \in Digest : path[g] # NoFile => path'[g] # NoFile
      BY <1>0, <2>3 DEF Rename, TypeOK
    <3> QED  BY <1>3, <2>1, <3>1, <3>2
  <2>4. CASE Check(p) \/ Open(p) \/ Write(p) \/ \E g \in Digest : Begin(p, g)
    <3>1. UNCHANGED <<path, late, crashes, lru>>  BY <2>4 DEF Check, Open, Write, Begin, history
    <3> QED  BY <1>3, <2>1, <3>1
  <2> QED  BY <1>4, <2>2, <2>3, <2>4 DEF Puts
<1>5. CASE InsertRow \/ EnforceQuota
  <2>1. UNCHANGED <<path, late, crashes, lru>> /\ pc[Capturer] # "forget"
    BY <1>5 DEF InsertRow, EnforceQuota, history
  <2>2. Recorded' = Recorded  BY <2>1 DEF Recorded
  <2> QED  BY <1>2, <2>1, <2>2
<1>6. CASE RemoveFile
  <2>1. /\ UNCHANGED <<lru, evict, late, crashes>> /\ pc[Capturer] = "evict"
        /\ Goto(Capturer, "forget") /\ path' = [path EXCEPT ![Oldest] = NoFile]
    BY <1>6 DEF RemoveFile, history
  <2>2. pc'[Capturer] = "forget"  BY <1>0, <2>1, Constants DEF Goto, TypeOK
  <2>3. Recorded' = Recorded /\ Oldest' = Oldest  BY <2>1 DEF Recorded, Oldest
  <2>4. \A h \in Digest : h # Oldest => path'[h] = path[h]  BY <1>0, <2>1 DEF TypeOK
  <2>5. Ghosts' \subseteq Ghosts  BY <1>0, <2>1, <2>2, <2>3, <2>4 DEF Ghosts
  <2> QED  BY <1>1, <2>1, <2>5
<1>7. CASE ForgetBlob
  <2>1. pc[Capturer] = "forget" /\ UNCHANGED <<path, late, crashes>>  BY <1>7 DEF ForgetBlob, history
  <2>2. Recorded' = Recorded \ {Oldest}  BY <1>7, ForgetBlobBase
  <2>3. Ghosts' \subseteq Ghosts  BY <2>1, <2>2 DEF Ghosts
  <2> QED  BY <1>1, <2>1, <2>3
<1>8. CASE \E g \in Digest : Read(g)
  <2>1. UNCHANGED <<path, late, crashes>> /\ ~Locked  BY <1>8 DEF Read, history
  <2>2. Recorded' = Recorded  BY <1>8, ReadBase
  <2> QED  BY <1>2, <2>1, <2>2 DEF Locked
<1>9. CASE \E g \in Digest, how \in {"none", "live", "pinned"} : Refer(g, how)
  BY <1>2, <1>9 DEF Refer, history, Recorded, Locked
<1>10. CASE Crash
  <2> DEFINE U == IF pc[Capturer] = "forget" THEN {Oldest} ELSE {}
  <2>1. UNCHANGED <<path, lru, late>> /\ crashes' = crashes + 1  BY <1>10 DEF Crash, history
  <2>2. Recorded' = Recorded  BY <2>1 DEF Recorded
  <2>3. Ghosts' \ late' \subseteq (Ghosts \ late) \cup U  BY <2>1, <2>2 DEF Ghosts
  <2>4. U \subseteq Digest /\ Cardinality(U) <= 1
    <3>1. CASE pc[Capturer] = "forget"
      <4>1. Oldest \in Digest  BY <1>0, <3>1, OldestRecorded DEF TypeOK, Locked
      <4>2. Cardinality({Oldest}) = 1  BY FS_Singleton
      <4> QED  BY <3>1, <4>1, <4>2
    <3>2. CASE pc[Capturer] # "forget"
      <4>1. U = {}  BY <3>2
      <4> QED  BY <4>1, FS_EmptySet
    <3> QED  BY <3>1, <3>2
  <2> HIDE DEF U
  <2>5. Cardinality(Ghosts' \ late') <= crashes + 1  BY <1>0, <2>3, <2>4, Grows
  <2> QED  BY <1>0, <2>1, <2>5 DEF Spirits, GhostsAreCrashes
<1>11. CASE UNCHANGED vars  BY <1>3, <1>11 DEF vars, history
<1> QED  BY <1>4, <1>5, <1>6, <1>7, <1>8, <1>9, <1>10, <1>11, NextCases

(* A record without its file takes a crash between the two steps of an       *)
(* eviction, and every crash leaves at most one; the others are those a      *)
(* put_blob wrote after the quota had removed the file.                      *)
THEOREM GhostsNeedCrashes == Spec => []GhostsAreCrashes
<1>1. Init => Base /\ Spirits  BY InitBase, InitSpirits
<1>2. (Base /\ Spirits) /\ [Next]_vars => (Base /\ Spirits)'  BY NextBase, NextSpirits
<1>3. Spirits => GhostsAreCrashes  BY DEF Spirits
<1> QED  BY <1>1, <1>2, <1>3, PTL DEF Spec

==============================================================================
