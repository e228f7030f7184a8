--------------------------------- MODULE HLC ---------------------------------
(***************************************************************************)
(* Hybrid logical clocks: the timestamps of clipse-core/src/hlc.rs, their  *)
(* total order and the two transitions of HlcClock's (wall_ms, counter)    *)
(* state.  Pure operators; HlcClock.tla runs them as a state machine.      *)
(*                                                                         *)
(* Milliseconds are naturals.  The counter keeps its width: the u32 of the *)
(* code is 0..MaxCounter with a saturating increment.                      *)
(***************************************************************************)
EXTENDS Integers

CONSTANTS
    Device,      \* device ids; numbers, because Hlc's order compares them
    MaxCounter,  \* u32::MAX
    MaxDrift     \* MAX_CLOCK_DRIFT_MS

ASSUME HlcAssumption ==
    /\ Device \subseteq Nat
    /\ MaxCounter \in Nat
    /\ MaxDrift \in Nat

\* The mutable half of HlcClock and the timestamp it hands out.
ClockState == [wall : Nat, counter : 0..MaxCounter]
Hlc == [wall : Nat, counter : 0..MaxCounter, device : Device]

\* HlcClock::new: State::default(), whatever the store already holds.
NewClock == [wall |-> 0, counter |-> 0]

\* Ord for Hlc, as "a > b": wall, then counter, then the device id.
Newer(a, b) ==
    \/ a.wall > b.wall
    \/ a.wall = b.wall /\ a.counter > b.counter
    \/ a.wall = b.wall /\ a.counter = b.counter /\ a.device > b.device

\* u32::saturating_add(1).
BumpWraps(c) == (c + 1) % (MaxCounter + 1)  \* mutant: wrapping_add
BumpOverflows(c) == c + 1  \* mutant: wider than its type
Bump(c) == IF c < MaxCounter THEN c + 1 ELSE MaxCounter

\* HlcClock::now: the state after a local event, given the wall clock reading.
NowNotBefore(s, physical) ==  \* mutant: >= where the code says >
    IF physical >= s.wall
    THEN [wall |-> physical, counter |-> 0]
    ELSE [wall |-> s.wall, counter |-> Bump(s.counter)]
Now(s, physical) ==
    IF physical > s.wall
    THEN [wall |-> physical, counter |-> 0]
    ELSE [wall |-> s.wall, counter |-> Bump(s.counter)]

Larger(x, y) == IF x > y THEN x ELSE y

\* A remote clock too far in the future is replaced by our own reading.
RemoteWallAny(physical, remote) == remote.wall  \* mutant: no limit on drift
RemoteWall(physical, remote) ==
    IF remote.wall > physical + MaxDrift THEN physical ELSE remote.wall

\* HlcClock::observe: the state after hearing of a remote timestamp.
ObserveNoBump(s, physical, remote) ==  \* mutant: a tie does not count as an event
    LET maxWall == Larger(Larger(s.wall, RemoteWall(physical, remote)), physical)
    IN  [wall    |-> maxWall,
         counter |-> IF maxWall = s.wall THEN Bump(s.counter) ELSE 0]
Observe(s, physical, remote) ==
    LET theirs  == RemoteWall(physical, remote)
        maxWall == Larger(Larger(s.wall, theirs), physical)
    IN  [wall    |-> maxWall,
         counter |->
            CASE maxWall = s.wall /\ maxWall = theirs ->
                     Bump(Larger(s.counter, remote.counter))
              [] maxWall = s.wall /\ maxWall # theirs -> Bump(s.counter)
              [] maxWall # s.wall /\ maxWall = theirs -> Bump(remote.counter)
              [] OTHER -> 0]

\* The timestamp a clock in state s of device d returns.
StampOf(s, d) == [wall |-> s.wall, counter |-> s.counter, device |-> d]
==============================================================================
