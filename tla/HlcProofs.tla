------------------------------ MODULE HlcProofs ------------------------------
(***************************************************************************)
(* HlcClock for every set of tasks and remote timestamps, every counter    *)
(* width and every bound: timestamps increase, come after what was heard,  *)
(* and do not run away.                                                    *)
(***************************************************************************)
EXTENDS HlcClock, TLAPS

USE HlcAssumption, ClockAssumption

\* The clock is at or past r: strictly, unless the counter is full.
Past(s, r) ==
    \/ s.wall > r.wall
    \/ s.wall = r.wall /\ (s.counter > r.counter \/ s.counter = MaxCounter)

\* What both transitions do to the clock, from any state and reading.
LEMMA NowStep ==
    ASSUME NEW s \in ClockState, NEW p \in Nat
    PROVE  /\ Now(s, p) \in ClockState
           /\ Past(Now(s, p), s)
           /\ Now(s, p).wall \in {s.wall, p}
BY DEF Now, ClockState, Bump, Past

LEMMA ObserveStep ==
    ASSUME NEW s \in ClockState, NEW p \in Nat, NEW r \in Hlc
    PROVE  /\ Observe(s, p, r) \in ClockState
           /\ Past(Observe(s, p, r), s)
           /\ RemoteWall(p, r) = r.wall => Past(Observe(s, p, r), r)
           /\ Observe(s, p, r).wall <= Larger(s.wall, p + MaxDrift)
<1> DEFINE theirs == RemoteWall(p, r)
           maxWall == Larger(Larger(s.wall, theirs), p)
           o == Observe(s, p, r)
<1>1. theirs \in Nat /\ theirs <= p + MaxDrift
  BY DEF RemoteWall, Hlc
<1>2. /\ maxWall \in Nat /\ maxWall >= s.wall /\ maxWall >= theirs
      /\ maxWall \in {s.wall, theirs, p}
  BY <1>1 DEF Larger, ClockState
<1>3. o.wall = maxWall
  BY DEF Observe
<1>4. CASE maxWall = s.wall /\ maxWall = theirs
  <2>1. o.counter = Bump(Larger(s.counter, r.counter))
    BY <1>4 DEF Observe
  <2> QED
    BY <1>1, <1>2, <1>3, <1>4, <2>1 DEF Observe, Past, Bump, Larger, ClockState, Hlc
<1>5. CASE maxWall = s.wall /\ maxWall # theirs
  <2>1. o.counter = Bump(s.counter)
    BY <1>5 DEF Observe
  <2> QED
    BY <1>1, <1>2, <1>3, <1>5, <2>1 DEF Observe, Past, Bump, Larger, ClockState, Hlc
<1>6. CASE maxWall # s.wall /\ maxWall = theirs
  <2>1. o.counter = Bump(r.counter)
    BY <1>6 DEF Observe
  <2> QED
    BY <1>1, <1>2, <1>3, <1>6, <2>1 DEF Observe, Past, Bump, Larger, ClockState, Hlc
<1>7. CASE maxWall # s.wall /\ maxWall # theirs
  <2>1. o.counter = 0
    BY <1>7 DEF Observe
  <2> QED
    BY <1>1, <1>2, <1>3, <1>7, <2>1 DEF Observe, Past, Bump, Larger, ClockState, Hlc
<1> QED
  BY <1>4, <1>5, <1>6, <1>7

LEMMA PastTrans ==
    ASSUME NEW s \in ClockState, NEW u \in ClockState, NEW r \in Hlc, Past(s, r), Past(u, s)
    PROVE  Past(u, r)
BY DEF Past, ClockState, Hlc

\* The inductive invariant: the last timestamp is the state's, every reading
\* is accounted for, and the state is past everything heard.
Ahead ==
    /\ issued # None => issued = StampOf(state, Self)
    /\ \A t \in Task : reading[t] <= latest
    /\ \A r \in heard : Past(state, r)
Inv == TypeOK /\ NotPoisoned /\ Ahead

\* The rest of a call, with a state past the old one and past what it heard.
LEMMA EndStep ==
    ASSUME Inv, NEW t \in Task, reading[t] # -1, NEW s \in ClockState,
           Past(s, state), s.wall <= Larger(state.wall, reading[t] + MaxDrift),
           End(t, s), heard' \subseteq Remote,
           \A r \in heard' : r \in heard \/ Past(s, r)
    PROVE  Inv'
<1>1. TypeOK'
  BY DEF Inv, TypeOK, End, StampOf, ClockState, Hlc
<1>2. NotPoisoned'
  BY DEF Inv, NotPoisoned, TypeOK, Ahead, End, Larger, ClockState
<1>3. \A r \in heard' : Past(s, r)
  BY PastTrans DEF Inv, Ahead, TypeOK
<1>4. Ahead'
  BY <1>3 DEF Inv, Ahead, TypeOK, End
<1> QED
  BY <1>1, <1>2, <1>4 DEF Inv

LEMMA NowInv ==
    ASSUME Inv, NEW t \in Task, NowCall(t)
    PROVE  Inv' /\ Past(state', state)
<1> DEFINE s == Now(state, reading[t])
<1>1. reading[t] \in Nat /\ state \in ClockState
  BY DEF Inv, TypeOK, NowCall
<1>2. s \in ClockState /\ Past(s, state) /\ s.wall \in {state.wall, reading[t]}
  BY <1>1, NowStep
<1>3. s.wall <= Larger(state.wall, reading[t] + MaxDrift)
  BY <1>1, <1>2 DEF Larger, ClockState
<1>4. End(t, s) /\ UNCHANGED heard /\ reading[t] # -1
  BY DEF NowCall
<1> HIDE DEF s
<1>5. Inv'
  BY <1>2, <1>3, <1>4, EndStep DEF Inv, TypeOK
<1> QED
  BY <1>2, <1>4, <1>5 DEF End

LEMMA ObserveInv ==
    ASSUME Inv, NEW t \in Task, ObserveCall(t)
    PROVE  Inv' /\ Past(state', state)
<1> DEFINE s == Observe(state, reading[t], hears[t])
<1>1. reading[t] \in Nat /\ state \in ClockState /\ hears[t] \in Remote /\ hears[t] \in Hlc
  BY DEF Inv, TypeOK, ObserveCall
<1>2. /\ s \in ClockState /\ Past(s, state)
      /\ s.wall <= Larger(state.wall, reading[t] + MaxDrift)
      /\ RemoteWall(reading[t], hears[t]) = hears[t].wall => Past(s, hears[t])
  BY <1>1, ObserveStep
<1>3. End(t, s) /\ reading[t] # -1
  BY DEF ObserveCall
<1>4. heard' \subseteq Remote /\ \A r \in heard' : r \in heard \/ Past(s, r)
  BY <1>1, <1>2 DEF ObserveCall, Inv, TypeOK
<1> HIDE DEF s
<1>5. Inv'
  BY <1>2, <1>3, <1>4, EndStep
<1> QED
  BY <1>2, <1>3, <1>5 DEF End

LEMMA InvStep ==
    ASSUME Inv, [Next]_vars
    PROVE  Inv'
<1>1. ASSUME NEW p \in 0..MaxWall, SetWall(p) PROVE Inv'
  BY <1>1 DEF Inv, TypeOK, NotPoisoned, Ahead, SetWall
<1>2. ASSUME NEW t \in Task, NEW what \in Remote \cup {None}, Begin(t, what) PROVE Inv'
  <2>1. TypeOK'
    BY <1>2 DEF Inv, TypeOK, Begin, Larger
  <2>2. latest' >= latest /\ latest' >= physical
    BY <1>2 DEF Inv, TypeOK, Begin, Larger
  <2>3. NotPoisoned'
    BY <1>2, <2>2 DEF Inv, TypeOK, NotPoisoned, Begin, Larger, ClockState
  <2>4. \A u \in Task : reading'[u] <= latest'
    BY <1>2, <2>1, <2>2 DEF Inv, TypeOK, Ahead, Begin
  <2> QED
    BY <1>2, <2>1, <2>3, <2>4 DEF Inv, Ahead, Begin
<1>3. CASE Restart
  BY <1>3 DEF Inv, TypeOK, NotPoisoned, Ahead, Restart, NewClock, ClockState
<1>4. CASE UNCHANGED vars
  BY <1>4 DEF Inv, TypeOK, NotPoisoned, Ahead, vars
<1> QED
  BY <1>1, <1>2, <1>3, <1>4, NowInv, ObserveInv DEF Next

LEMMA InvHolds == Spec => []Inv
<1>1. Init => Inv
  BY DEF Init, Inv, TypeOK, NotPoisoned, Ahead, NewClock, ClockState
<1> QED
  BY <1>1, InvStep, PTL DEF Spec

\* Type correctness: a u32 counter stays one.
THEOREM ClockType == Spec => []TypeOK
BY InvHolds, PTL DEF Inv

\* HlcClock::observe never lets a peer pull the clock more than the allowed
\* drift past the readings taken, over any sequence of peers.
THEOREM ClockNotPoisoned == Spec => []NotPoisoned
BY InvHolds, PTL DEF Inv

\* Everything stamped after observe is newer than what was observed, unless
\* the counter is full.
THEOREM ClockAfterHeard == Spec => []AfterHeard
<1>1. Inv => AfterHeard
  BY DEF Inv, Ahead, TypeOK, AfterHeard, Past, Newer, StampOf, ClockState, Hlc
<1> QED
  BY <1>1, InvHolds, PTL

\* HlcClock::now and observe hand out strictly increasing timestamps within
\* one run of the daemon, however readings and mutex turns interleave.
THEOREM ClockIncreases == Spec => StampsIncrease
<1> DEFINE A == \A t \in Task : (NowCall(t) \/ ObserveCall(t)) /\ issued # None =>
                  \/ Newer(issued', issued)
                  \/ issued' = issued /\ issued.counter = MaxCounter
<1>1. Inv /\ [Next]_vars => [A]_vars
  <2> SUFFICES ASSUME Inv, NEW t \in Task, NowCall(t) \/ ObserveCall(t), issued # None
               PROVE  \/ Newer(issued', issued)
                      \/ issued' = issued /\ issued.counter = MaxCounter
    OBVIOUS
  <2>1. Inv' /\ Past(state', state)
    BY NowInv, ObserveInv
  <2>2. issued = StampOf(state, Self) /\ issued' = StampOf(state', Self)
    BY DEF Inv, Ahead, NowCall, ObserveCall, End
  <2>3. state \in ClockState /\ state' \in ClockState
    BY <2>1 DEF Inv, TypeOK
  <2> QED
    BY <2>1, <2>2, <2>3 DEF Past, Newer, StampOf, ClockState
<1> QED
  BY <1>1, InvHolds, PTL DEF Spec, StampsIncrease
==============================================================================
