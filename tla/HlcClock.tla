------------------------------ MODULE HlcClock -------------------------------
(***************************************************************************)
(* One device's HlcClock, shared by the tasks of its daemon.  Both         *)
(* transitions read the wall clock before they take the mutex, so a call   *)
(* may be overtaken between its reading and its turn; and the wall clock   *)
(* itself may be set back.  The state lives in memory: a restart begins    *)
(* with a new clock, and lib.rs seeds it with nothing.                     *)
(***************************************************************************)
EXTENDS HLC

CONSTANTS
    Self,       \* this device
    Task,       \* tasks that stamp events
    None,       \* "no timestamp"
    Remote,     \* timestamps other devices may have sent
    MaxWall,    \* bound: latest wall clock reading
    MaxCalls    \* bound: calls that may start

ASSUME ClockAssumption ==
    /\ Self \in Device
    /\ Remote \subseteq Hlc
    /\ None \notin Hlc
    /\ MaxWall \in Nat /\ MaxCalls \in Nat

VARIABLES
    physical,   \* what system_now_ms() would return
    latest,     \* the latest reading any call has taken
    state,      \* the mutex's contents
    reading,    \* reading[t]: the physical time t's call has read, or -1
    hears,      \* hears[t]: the remote timestamp t's call observes, or None for now()
    issued,     \* the last timestamp handed out since the start, or None
    heard,      \* remote timestamps observed since the start that were near enough
    calls       \* calls started

vars == <<physical, latest, state, reading, hears, issued, heard, calls>>

Init ==
    /\ physical \in 0..MaxWall
    /\ latest = 0
    /\ state = NewClock
    /\ reading = [t \in Task |-> -1]
    /\ hears = [t \in Task |-> None]
    /\ issued = None
    /\ heard = {}
    /\ calls = 0

\* The wall clock moves on, stalls or is set back.
SetWall(p) ==
    /\ physical' = p
    /\ UNCHANGED <<latest, state, reading, hears, issued, heard, calls>>

\* A call begins: the reading, outside the mutex.
Begin(t, what) ==
    /\ reading[t] = -1 /\ calls < MaxCalls
    /\ calls' = calls + 1
    /\ reading' = [reading EXCEPT ![t] = physical]
    /\ hears' = [hears EXCEPT ![t] = what]
    /\ latest' = Larger(latest, physical)
    /\ UNCHANGED <<physical, state, issued, heard>>

\* The rest of the call, under the mutex.
End(t, s) ==
    /\ state' = s
    /\ issued' = StampOf(s, Self)
    /\ reading' = [reading EXCEPT ![t] = -1]
    /\ hears' = [hears EXCEPT ![t] = None]
    /\ UNCHANGED <<physical, latest, calls>>

NowCall(t) ==
    /\ reading[t] # -1 /\ hears[t] = None
    /\ End(t, Now(state, reading[t]))
    /\ UNCHANGED heard

ObserveCall(t) ==
    /\ reading[t] # -1 /\ hears[t] # None
    /\ End(t, Observe(state, reading[t], hears[t]))
    /\ heard' = IF RemoteWall(reading[t], hears[t]) = hears[t].wall
                THEN heard \cup {hears[t]} ELSE heard

\* The daemon restarts: calls in progress and the state are lost.
Restart ==
    /\ state' = NewClock
    /\ reading' = [t \in Task |-> -1]
    /\ hears' = [t \in Task |-> None]
    /\ issued' = None
    /\ heard' = {}
    /\ UNCHANGED <<physical, latest, calls>>

Next ==
    \/ \E p \in 0..MaxWall : SetWall(p)
    \/ \E t \in Task, what \in Remote \cup {None} : Begin(t, what)
    \/ \E t \in Task : NowCall(t) \/ ObserveCall(t)
    \/ Restart

Spec == Init /\ [][Next]_vars

------------------------------------------------------------------------------
\* Type invariant.
TypeOK ==
    /\ physical \in Nat /\ latest \in Nat /\ calls \in Nat
    /\ state \in ClockState
    /\ reading \in [Task -> Nat \cup {-1}]
    /\ hears \in [Task -> Remote \cup {None}]
    /\ issued \in Hlc \cup {None}
    /\ heard \subseteq Remote

\* HlcClock::now: within one run of the daemon every timestamp handed out is
\* newer than the one before, in the order the calls get the mutex, whatever
\* the wall clock does and however the readings are overtaken.  A counter
\* that is full is the only exception.
StampsIncrease ==
    [][\A t \in Task : (NowCall(t) \/ ObserveCall(t)) /\ issued # None =>
         \/ Newer(issued', issued)
         \/ issued' = issued /\ issued.counter = MaxCounter]_vars

\* HlcClock::observe: "any event we stamp is ordered strictly after remote",
\* for every remote timestamp that was not rejected as too far ahead.
AfterHeard ==
    \A r \in heard :
        state.counter = MaxCounter \/ Newer(StampOf(state, Self), r)

\* "A peer far in the future must not pull our clock with it": the clock is
\* never further ahead of the readings it has taken than the allowed drift.
NotPoisoned == state.wall <= latest + MaxDrift
==============================================================================
