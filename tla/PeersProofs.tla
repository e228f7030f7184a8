---------------------------- MODULE PeersProofs ----------------------------
(* The epoch of the trust set tells the sessions of forgotten devices, for  *)
(* any number of peers, addresses, connections and tasks that change the    *)
(* set, any records and any number of changes.                              *)
EXTENDS Peers, TLAPS

(* What the steps need to know of the shape of the state: the addresses in  *)
(* a candidate list are left open.                                          *)
Record == [paired : BOOLEAN, addrs : Seq(Addr)]
IsEntry(t) ==
    /\ t = [listed |-> t.listed, candidates |-> t.candidates,
            backoff |-> t.backoff, refused |-> t.refused]
    /\ t.listed \in BOOLEAN
Fields == {"at", "due", "peer", "list", "left", "addr", "epoch"}
IsDial(t) == t = [f \in Fields |-> t[f]]
Connection == [at : {"none", "hand", "session"}, from : Peer \cup {Stranger, None},
               addr : Addr \cup {None}, epoch : Nat]
Task == [at : {"idle", "read", "apply"}, pairs : BOOLEAN, known : [Peer -> Record]]

Shape ==
    /\ trust \in [Peer -> Record]
    /\ epoch \in Nat
    /\ saved \in [peers : [Peer -> Record], epoch : Nat]
    /\ table = [p \in Peer |-> table[p]]
    /\ \A p \in Peer : IsEntry(table[p])
    /\ writer \in [Writer -> Task]
    /\ IsDial(dial)
    /\ dial.epoch \in Nat
    /\ inbound \in [Slot -> Connection]

(* No stamp is ahead of the trust set's epoch: an epoch that was lost with   *)
(* its save cannot come back, because a restart ends the sessions too.      *)
StampsBehind ==
    /\ dial.epoch <= epoch
    /\ \A i \in Slot : inbound[i].epoch <= epoch

StampInv == Shape /\ StampsBehind /\ StampMeansTrusted

LEMMA RecordsTyped ==
    /\ NotPaired \in Record
    /\ \A a \in Records : Paired(a) \in Record
BY PeersAssumption DEF NotPaired, Paired, Record

LEMMA IdleTyped == IdleWriter \in Task /\ NoConnection \in Connection
BY RecordsTyped DEF IdleWriter, Task, NoConnection, Connection

LEMMA ReloadedEntry ==
    ASSUME NEW t, IsEntry(t), NEW r \in Record
    PROVE  IsEntry(Reloaded(t, r)) /\ Reloaded(t, r).listed = r.paired
BY DEF IsEntry, Reloaded, Record, NoPeer, NewPeer

LEMMA RestsShape ==
    /\ IsDial(Resting) /\ Resting.epoch = 0 /\ Resting.at = "rest"
    /\ \A a : LET e == [Resting EXCEPT !.at = a] IN
        IsDial(e) /\ e.epoch = 0 /\ e.at = a
BY DEF Resting, IsDial, Fields

LEMMA InitStamp == Init => StampInv
<1> SUFFICES ASSUME Init PROVE StampInv
  OBVIOUS
<1>1. trust \in [Peer -> Record]
  BY RecordsTyped DEF Init
<1>2. IsEntry(NoPeer)
  BY DEF IsEntry, NoPeer
<1>3. \A p \in Peer : IsEntry(table[p])
  BY <1>1, <1>2, ReloadedEntry DEF Init
<1>4. Shape
  BY <1>1, <1>3, IdleTyped, RestsShape DEF Init, Shape
<1>5. StampsBehind /\ StampMeansTrusted
  BY RestsShape DEF Init, StampsBehind, StampMeansTrusted, NoConnection
<1> QED
  BY <1>4, <1>5 DEF StampInv

----------------------------------------------------------------------------
(* What a step may do to the table outside Reload: entries change, and who   *)
(* is listed does not.                                                      *)
Kept ==
    /\ table' = [p \in Peer |-> table'[p]]
    /\ \A p \in Peer : IsEntry(table'[p]) /\ table'[p].listed = table[p].listed

Same(t, u) == IsEntry(u) /\ u.listed = t.listed

LEMMA EntryUpdate ==
    ASSUME NEW t, IsEntry(t), NEW v
    PROVE  /\ Same(t, [t EXCEPT !.refused = v])
           /\ Same(t, [t EXCEPT !.backoff = v])
           /\ Same(t, [t EXCEPT !.candidates = v])
BY DEF IsEntry, Same

LEMMA EntryUpdates ==
    ASSUME NEW t, IsEntry(t), NEW b, NEW n, NEW c
    PROVE  /\ Same(t, [t EXCEPT !.candidates = c, !.backoff = n])
           /\ Same(t, [t EXCEPT !.backoff = n, !.refused = b, !.candidates = c])
<1> DEFINE u == [t EXCEPT !.candidates = c]
           v == [t EXCEPT !.backoff = n]
           w == [v EXCEPT !.refused = b]
<1>1. Same(t, u) /\ Same(t, v)
  BY EntryUpdate
<1>2. Same(u, [u EXCEPT !.backoff = n]) /\ Same(v, w)
  BY <1>1, EntryUpdate DEF Same
<1>3. Same(w, [w EXCEPT !.candidates = c])
  BY <1>2, EntryUpdate DEF Same
<1> QED
  BY <1>1, <1>2, <1>3 DEF Same

LEMMA UnchangedKept == Shape /\ UNCHANGED table => Kept
BY DEF Shape, Kept

LEMMA EntryKept ==
    ASSUME Shape, NEW p \in Peer, NEW t, Same(table[p], t),
           table' = [table EXCEPT ![p] = t]
    PROVE  Kept
BY DEF Shape, Kept, Same

LEMMA RefusedKept ==
    ASSUME Shape, NEW p, Refused(p)
    PROVE  Kept
<1>1. CASE p \in Listed
  <2> DEFINE t == [table[p] EXCEPT !.refused = TRUE]
  <2>1. p \in Peer /\ IsEntry(table[p])
    BY <1>1 DEF Listed, Shape
  <2>2. Same(table[p], t)
    BY <2>1, EntryUpdate, EntryUpdates
  <2>3. table' = [table EXCEPT ![p] = t]
    BY <1>1 DEF Refused
  <2> QED
    BY <2>1, <2>2, <2>3, EntryKept
<1>2. CASE p \notin Listed
  BY <1>2, UnchangedKept DEF Refused
<1> QED
  BY <1>1, <1>2

LEMMA UnreachableKept ==
    ASSUME Shape, NEW p, Unreachable(p)
    PROVE  Kept
<1>1. CASE p \in Listed
  <2> DEFINE t == [table[p] EXCEPT !.backoff = Failures(@)]
  <2>1. p \in Peer /\ IsEntry(table[p])
    BY <1>1 DEF Listed, Shape
  <2>2. Same(table[p], t)
    BY <2>1, EntryUpdate, EntryUpdates
  <2>3. table' = [table EXCEPT ![p] = t]
    BY <1>1 DEF Unreachable
  <2> QED
    BY <2>1, <2>2, <2>3, EntryKept
<1>2. CASE p \notin Listed
  BY <1>2, UnchangedKept DEF Unreachable
<1> QED
  BY <1>1, <1>2

LEMMA NoteSuccessKept ==
    ASSUME Shape, NEW p, NEW x, NoteSuccess(p, x)
    PROVE  Kept
<1>1. CASE p \in Listed
  <2> DEFINE t == [table[p] EXCEPT !.backoff = 0, !.refused = FALSE,
                                   !.candidates = Upsert(table[p].candidates, Lan(x, now))]
  <2>1. p \in Peer /\ IsEntry(table[p])
    BY <1>1 DEF Listed, Shape
  <2>2. Same(table[p], t)
    BY <2>1, EntryUpdate, EntryUpdates
  <2>3. table' = [table EXCEPT ![p] = t]
    BY <1>1, <2>1 DEF NoteSuccess, Shape
  <2> QED
    BY <2>1, <2>2, <2>3, EntryKept
<1>2. CASE p \notin Listed
  BY <1>2, UnchangedKept DEF NoteSuccess
<1> QED
  BY <1>1, <1>2

LEMMA SweepKept ==
    ASSUME Shape, NEW found, Sweep(found)
    PROVE  Kept
<1>1. ASSUME NEW p \in Peer PROVE Same(table[p], Found(table[p], found[p]))
  <2> DEFINE usable == SelectSeq(found[p], Dialable)
             t == [table[p] EXCEPT !.candidates = RefreshLan(table[p].candidates, usable, now),
                                   !.backoff = 0]
  <2>1. IsEntry(table[p])
    BY DEF Shape
  <2>2. Same(table[p], t) /\ Same(table[p], table[p])
    BY <2>1, EntryUpdates DEF Same
  <2>3. Found(table[p], found[p]) \in {t, table[p]}
    BY DEF Found
  <2> QED
    BY <2>2, <2>3
<1>2. table' = [p \in Peer |-> Found(table[p], found[p])]
  BY DEF Sweep
<1> QED
  BY <1>1, <1>2 DEF Kept, Same

----------------------------------------------------------------------------
(* The steps, sorted by what they may do to a stamp.                        *)

(* The dial under way is not yet stamped, or goes on as it was.              *)
CalmDial ==
    /\ IsDial(dial') /\ dial'.epoch \in {0, dial.epoch}
    /\ dial'.at \in {"reply", "session"} =>
           /\ dial.at \in {"reply", "session"}
           /\ dial'.epoch = dial.epoch /\ dial'.peer = dial.peer

(* An inbound connection begins, ends, or goes on as it was.                 *)
CalmInbound ==
    /\ inbound' \in [Slot -> Connection]
    /\ \A i \in Slot : inbound'[i].at = "session" => inbound'[i] = inbound[i]
    /\ \A i \in Slot : inbound'[i].epoch \in {0, inbound[i].epoch}

LEMMA CalmStep ==
    ASSUME StampInv, UNCHANGED <<trust, epoch, saved>>, Kept, writer' \in [Writer -> Task],
           CalmDial, CalmInbound
    PROVE  StampInv'
<1>1. Shape'
  BY DEF StampInv, Shape, Kept, CalmDial, CalmInbound
<1>2. StampsBehind'
  BY DEF StampInv, Shape, StampsBehind, Connection, CalmDial, CalmInbound
<1>3. StampMeansTrusted'
  BY DEF StampInv, StampMeansTrusted, Trusted, CalmDial, CalmInbound
<1> QED
  BY <1>1, <1>2, <1>3 DEF StampInv

LEMMA CalmRest ==
    ASSUME Shape
    PROVE  /\ UNCHANGED dial => CalmDial
           /\ UNCHANGED inbound => CalmInbound
           /\ UNCHANGED writer => writer' \in [Writer -> Task]
           /\ UNCHANGED table => Kept
BY UnchangedKept DEF Shape, CalmDial, CalmInbound

(* The forms in which the loop moves on.                                    *)
Stamped == {"reply", "session"}

LEMMA DialMoves ==
    ASSUME Shape, NEW a, a \notin Stamped, NEW v, NEW w, NEW x
    PROVE  /\ dial' = [dial EXCEPT !.at = a] => CalmDial
           /\ dial' = [dial EXCEPT !.at = a, !.due = v] => CalmDial
           /\ dial' = [dial EXCEPT !.at = a, !.addr = v] => CalmDial
           /\ dial' = [dial EXCEPT !.at = a, !.peer = v, !.list = w, !.left = x] => CalmDial
BY DEF Shape, IsDial, Fields, Stamped, CalmDial

LEMMA DialStays ==
    ASSUME Shape, dial.at \notin Stamped, NEW v
    PROVE  /\ dial' = [dial EXCEPT !.due = v] => CalmDial
           /\ dial' = [dial EXCEPT !.left = v] => CalmDial
BY DEF Shape, IsDial, Fields, Stamped, CalmDial

LEMMA DialRests ==
    ASSUME NEW a, a \notin Stamped, NEW v
    PROVE  /\ dial' = Resting => CalmDial
           /\ dial' = [Resting EXCEPT !.at = a] => CalmDial
           /\ dial' = [Resting EXCEPT !.at = a, !.due = v] => CalmDial
<1>1. dial' = Resting => CalmDial
  BY RestsShape DEF Stamped, CalmDial
<1>2. dial' = [Resting EXCEPT !.at = a] => CalmDial
  BY RestsShape DEF Stamped, CalmDial
<1>3. dial' = [Resting EXCEPT !.at = a, !.due = v] => CalmDial
  BY DEF Stamped, CalmDial, Resting, IsDial, Fields
<1> QED
  BY <1>1, <1>2, <1>3

LEMMA NextPeerCalm == NextPeer => CalmDial
BY DialRests DEF NextPeer, Stamped

LEMMA StampedCalm ==
    ASSUME Shape, dial.at \in Stamped, dial' = [dial EXCEPT !.at = "session"]
    PROVE  CalmDial
BY DEF Shape, IsDial, Fields, Stamped, CalmDial

LEMMA StampedNow ==
    ASSUME Shape, dial' = [dial EXCEPT !.at = "reply", !.epoch = epoch]
    PROVE  IsDial(dial') /\ dial'.epoch = epoch /\ dial'.peer = dial.peer
BY DEF Shape, IsDial, Fields

LEMMA OutsideStamp ==
    ASSUME StampInv,
           \/ Tick \/ Nudge
           \/ \E x \in Addr, d \in Peer \cup {Stranger, None} : Move(x, d)
           \/ \E p \in Peer : Disowns(p)
    PROVE  StampInv'
<1>1. UNCHANGED <<trust, epoch, saved, table, writer, dial, inbound>>
  BY DEF Tick, Nudge, Move, Disowns
<1> QED
  BY <1>1, CalmRest, CalmStep DEF StampInv

LEMMA DialStamp ==
    ASSUME StampInv, DialLoop
    PROVE  StampInv'
<1>0. Shape
  BY DEF StampInv
<1>1. CASE WakeOnNudge \/ WakeOnTick \/ BeginPass
  <2>1. CalmDial
    BY <1>0, <1>1, DialMoves DEF WakeOnNudge, WakeOnTick, BeginPass, Stamped
  <2> QED
    BY <1>0, <1>1, <2>1, CalmRest, CalmStep DEF WakeOnNudge, WakeOnTick, BeginPass
<1>2. CASE EndPass
  <2>1. CalmDial
    BY <1>2, DialRests DEF EndPass, Stamped
  <2> QED
    BY <1>0, <1>2, <2>1, CalmRest, CalmStep DEF EndPass
<1>3. CASE RefreshFromDiscovery
  <2>1. CalmDial
    BY <1>0, <1>3, DialMoves DEF RefreshFromDiscovery, Stamped
  <2>2. Kept
    BY <1>0, <1>3, SweepKept DEF RefreshFromDiscovery
  <2> QED
    BY <1>0, <1>3, <2>1, <2>2, CalmRest, CalmStep DEF RefreshFromDiscovery
<1>4. ASSUME NEW p \in Peer, SyncOne(p) PROVE StampInv'
  <2>1. CalmDial
    <3>1. CASE dial' = [dial EXCEPT !.at = "walk", !.peer = p, !.list = table[p].candidates,
                                    !.left = DOMAIN table[p].candidates]
      BY <1>0, <3>1, DialMoves DEF Stamped
    <3>2. CASE dial' = [dial EXCEPT !.due = dial.due \ {p}]
      BY <1>0, <1>4, <3>2, DialStays DEF SyncOne, Stamped
    <3> QED
      BY <1>4, <3>1, <3>2 DEF SyncOne
  <2>2. Kept
    BY <1>0, <1>4, RefusedKept, CalmRest DEF SyncOne
  <2> QED
    BY <1>0, <1>4, <2>1, <2>2, CalmRest, CalmStep DEF SyncOne
<1>5. CASE Connect
  <2>1. CalmDial
    BY <1>0, <1>5, DialMoves, DialStays DEF Connect, Stamped
  <2> QED
    BY <1>0, <1>5, <2>1, CalmRest, CalmStep DEF Connect
<1>6. CASE NobodyAnswers
  <2>1. CalmDial /\ Kept
    BY <1>0, <1>6, NextPeerCalm, UnreachableKept DEF NobodyAnswers
  <2> QED
    BY <1>0, <1>6, <2>1, CalmRest, CalmStep DEF NobodyAnswers
<1>7. CASE StartHandshake
  <2>1. CASE dial.peer \in Trusted
    <3>1. /\ dial' = [dial EXCEPT !.at = "reply", !.epoch = epoch]
          /\ UNCHANGED <<trust, epoch, saved, table, writer, inbound>>
      BY <1>7, <2>1 DEF StartHandshake
    <3>2. IsDial(dial') /\ dial'.epoch = epoch /\ dial'.peer = dial.peer
      BY <1>0, <3>1, StampedNow
    <3> QED
      BY <2>1, <3>1, <3>2 DEF StampInv, Shape, StampsBehind, StampMeansTrusted, Trusted
  <2>2. CASE dial.peer \notin Trusted
    <3>1. CalmDial /\ Kept
      BY <1>0, <1>7, <2>2, NextPeerCalm, RefusedKept DEF StartHandshake
    <3> QED
      BY <1>0, <1>7, <3>1, CalmRest, CalmStep DEF StartHandshake
  <2> QED
    BY <2>1, <2>2
<1>8. CASE FinishHandshake
  <2>1. CalmDial
    BY <1>0, <1>8, NextPeerCalm, StampedCalm DEF FinishHandshake, Stamped
  <2>2. Kept
    BY <1>0, <1>8, UnreachableKept, RefusedKept, CalmRest DEF FinishHandshake
  <2> QED
    BY <1>0, <1>8, <2>1, <2>2, CalmRest, CalmStep DEF FinishHandshake
<1>9. CASE SessionEnds
  <2>1. CalmDial
    BY <1>9, NextPeerCalm DEF SessionEnds
  <2>2. Kept
    BY <1>0, <1>9, NoteSuccessKept, CalmRest DEF SessionEnds
  <2> QED
    BY <1>0, <1>9, <2>1, <2>2, CalmRest, CalmStep DEF SessionEnds
<1> QED
  BY <1>1, <1>2, <1>3, <1>4, <1>5, <1>6, <1>7, <1>8, <1>9 DEF DialLoop

LEMMA InboundStamp ==
    ASSUME StampInv, NEW i \in Slot,
           \/ FirstFrame(i) \/ Hangup(i) \/ Served(i)
           \/ \E d \in Peer \cup {Stranger}, x \in Addr : Accept(i, d, x)
    PROVE  StampInv'
<1>0. Shape
  BY DEF StampInv
<1>1. CASE Hangup(i) \/ Served(i)
  <2>1. CalmInbound
    BY <1>0, <1>1, IdleTyped DEF Hangup, Served, CalmInbound, Shape, NoConnection
  <2>2. Kept
    BY <1>0, <1>1, NoteSuccessKept, CalmRest DEF Hangup, Served
  <2> QED
    BY <1>0, <1>1, <2>1, <2>2, CalmRest, CalmStep DEF Hangup, Served
<1>2. ASSUME NEW d \in Peer \cup {Stranger}, NEW x \in Addr, Accept(i, d, x) PROVE StampInv'
  <2> DEFINE c == [NoConnection EXCEPT !.at = "hand", !.from = d, !.addr = x]
  <2>1. c \in Connection /\ c.at = "hand" /\ c.epoch = 0
    BY DEF NoConnection, Connection
  <2>2. CalmInbound
    BY <1>0, <1>2, <2>1 DEF Accept, CalmInbound, Shape
  <2> QED
    BY <1>0, <1>2, <2>2, CalmRest, CalmStep DEF Accept
<1>3. CASE FirstFrame(i)
  <2>1. CASE Authorizes(inbound[i].from)
    <3> DEFINE c == [inbound[i] EXCEPT !.at = "session", !.epoch = epoch]
    <3>1. /\ inbound' = [inbound EXCEPT ![i] = c]
          /\ UNCHANGED <<trust, epoch, saved, table, writer, dial>>
      BY <1>0, <1>3, <2>1 DEF FirstFrame, Shape
    <3>2. c \in Connection /\ c.from = inbound[i].from /\ c.epoch = epoch
      BY <1>0 DEF Shape, Connection
    <3>3. Shape'
      BY <1>0, <3>1, <3>2 DEF Shape
    <3>4. StampsBehind' /\ StampMeansTrusted'
      BY <1>0, <2>1, <3>1, <3>2
         DEF StampInv, Shape, StampsBehind, StampMeansTrusted, Authorizes, Trusted
    <3> QED
      BY <3>3, <3>4 DEF StampInv
  <2>2. CASE ~Authorizes(inbound[i].from)
    <3>1. CalmInbound
      BY <1>0, <1>3, <2>2, IdleTyped DEF FirstFrame, CalmInbound, Shape, NoConnection
    <3> QED
      BY <1>0, <1>3, <3>1, CalmRest, CalmStep DEF FirstFrame
  <2> QED
    BY <2>1, <2>2
<1> QED
  BY <1>1, <1>2, <1>3

LEMMA ReadTrustStamp ==
    ASSUME StampInv, NEW w \in Writer, ReadTrust(w)
    PROVE  StampInv'
<1>1. writer' \in [Writer -> Task]
  BY DEF ReadTrust, StampInv, Shape, Task
<1> QED
  BY <1>1, CalmRest, CalmStep DEF ReadTrust, StampInv

(* The table after a copy of the trust set: who is listed is who is in the   *)
(* copy.                                                                    *)
LEMMA ReloadTable ==
    ASSUME Shape, NEW w \in Writer, Reload(w)
    PROVE  /\ table' = [p \in Peer |-> table'[p]]
           /\ \A p \in Peer : IsEntry(table'[p]) /\ table'[p].listed = writer[w].known[p].paired
<1>1. table' = [p \in Peer |-> Reloaded(table[p], writer[w].known[p])]
  BY DEF Reload
<1>2. ASSUME NEW p \in Peer
      PROVE  IsEntry(table'[p]) /\ table'[p].listed = writer[w].known[p].paired
  <2>1. IsEntry(table[p]) /\ writer[w].known[p] \in Record
    BY DEF Shape, Task
  <2> QED
    BY <1>1, <2>1, ReloadedEntry
<1> QED
  BY <1>1, <1>2

LEMMA ReloadStamp ==
    ASSUME StampInv, NEW w \in Writer, Reload(w)
    PROVE  StampInv'
<1>1. Shape'
  BY ReloadTable, IdleTyped DEF Reload, StampInv, Shape
<1> QED
  BY <1>1 DEF Reload, StampInv, StampsBehind, StampMeansTrusted, Trusted

LEMMA ChangeShape ==
    ASSUME Shape, NEW w \in Writer, NEW peers \in [Peer -> Record], NEW pairs \in BOOLEAN,
           epoch' \in Nat, ChangeTrust(w, peers, pairs)
    PROVE  Shape' /\ trust' = peers /\ UNCHANGED <<dial, inbound, table>>
<1>1. /\ trust' = peers /\ UNCHANGED <<dial, inbound, table>>
      /\ saved' \in {saved, [peers |-> peers, epoch |-> epoch']}
      /\ writer' \in {writer, [writer EXCEPT ![w].at = "read", ![w].pairs = pairs]}
  BY DEF ChangeTrust
<1>2. [writer EXCEPT ![w].at = "read", ![w].pairs = pairs] \in [Writer -> Task]
  BY DEF Shape, Task
<1>3. [peers |-> peers, epoch |-> epoch'] \in [peers : [Peer -> Record], epoch : Nat]
  OBVIOUS
<1>4. writer' \in [Writer -> Task] /\ saved' \in [peers : [Peer -> Record], epoch : Nat]
  BY <1>1, <1>2, <1>3 DEF Shape
<1> QED
  BY <1>1, <1>4 DEF Shape

LEMMA CommitStamp ==
    ASSUME StampInv, NEW w \in Writer, NEW p \in Peer, NEW a \in Records, CommitPairing(w, p, a)
    PROVE  StampInv'
<1> DEFINE peers == [trust EXCEPT ![p] = Paired(a)]
<1>1. peers \in [Peer -> Record] /\ epoch' = epoch /\ epoch' \in Nat
  BY RecordsTyped DEF StampInv, Shape, CommitPairing
<1>2. Shape' /\ trust' = peers /\ UNCHANGED <<dial, inbound, table>>
  BY <1>1, ChangeShape DEF StampInv, CommitPairing
<1>3. Trusted \subseteq Trusted'
  BY <1>2 DEF Trusted, Paired, StampInv, Shape
<1> QED
  BY <1>1, <1>2, <1>3 DEF StampInv, StampsBehind, StampMeansTrusted

(* Every stamp is from before the removal.                                  *)
LEMMA ForgetStamp ==
    ASSUME StampInv, NEW w \in Writer, NEW p \in Peer, ForgetDevice(w, p)
    PROVE  StampInv'
<1> DEFINE peers == [trust EXCEPT ![p] = NotPaired]
<1>1. peers \in [Peer -> Record] /\ epoch' = epoch + 1 /\ epoch' \in Nat
  BY RecordsTyped DEF StampInv, Shape, ForgetDevice, EpochAfterRemoval
<1>2. Shape' /\ trust' = peers /\ UNCHANGED <<dial, inbound, table>>
  BY <1>1, ChangeShape DEF StampInv, ForgetDevice
<1>3. epoch \in Nat /\ dial.epoch \in Nat /\ \A i \in Slot : inbound[i].epoch \in Nat
  BY DEF StampInv, Shape, Connection
<1> QED
  BY <1>1, <1>2, <1>3 DEF StampInv, StampsBehind, StampMeansTrusted

LEMMA RestartTable ==
    ASSUME Shape, Restart
    PROVE  /\ table' = [p \in Peer |-> table'[p]]
           /\ \A p \in Peer : IsEntry(table'[p]) /\ table'[p].listed = saved.peers[p].paired
<1>1. table' = [p \in Peer |-> Reloaded(NoPeer, saved.peers[p])]
  BY DEF Restart
<1>2. IsEntry(NoPeer) /\ \A p \in Peer : saved.peers[p] \in Record
  BY DEF Shape, IsEntry, NoPeer
<1> QED
  BY <1>1, <1>2, ReloadedEntry

LEMMA RestartStamp ==
    ASSUME StampInv, Restart
    PROVE  StampInv'
<1>1. /\ trust' = saved.peers /\ epoch' = saved.epoch /\ saved' = saved
      /\ writer' = [w \in Writer |-> IdleWriter]
      /\ dial' = [Resting EXCEPT !.at = "refresh"]
      /\ inbound' = [i \in Slot |-> NoConnection]
  BY DEF Restart
<1>2. Shape
  BY DEF StampInv
<1>3. trust' \in [Peer -> Record] /\ epoch' \in Nat
  BY <1>1, <1>2 DEF Shape
<1>4. writer' \in [Writer -> Task] /\ inbound' \in [Slot -> Connection]
  BY <1>1, IdleTyped
<1>5. IsDial(dial') /\ dial'.epoch = 0
  BY <1>1, RestsShape
<1>6. Shape'
  BY <1>1, <1>2, <1>3, <1>4, <1>5, RestartTable DEF Shape
<1> QED
  BY <1>1, <1>6, RestsShape DEF StampInv, Shape, StampsBehind, StampMeansTrusted, NoConnection

LEMMA NextStamp == StampInv /\ [Next]_vars => StampInv'
<1> SUFFICES ASSUME StampInv, [Next]_vars PROVE StampInv'
  OBVIOUS
<1>1. CASE UNCHANGED vars
  BY <1>1 DEF vars, StampInv, Shape, StampsBehind, StampMeansTrusted, Trusted
<1>2. CASE Next
  BY <1>2, OutsideStamp, DialStamp, InboundStamp, ReadTrustStamp, ReloadStamp, CommitStamp,
     ForgetStamp, RestartStamp DEF Next
<1> QED
  BY <1>1, <1>2

LEMMA StampInvariant == Spec => []StampInv
BY InitStamp, NextStamp, PTL DEF Spec

(* A session whose stamp is the trust set's epoch is with a device in the   *)
(* trust set, on both sides of the dial, through any interleaving of        *)
(* handshakes, removals, failed saves and restarts.                         *)
THEOREM EpochTells == Spec => []StampMeansTrusted
<1>1. StampInv => StampMeansTrusted
  BY DEF StampInv
<1> QED
  BY <1>1, StampInvariant, PTL
=============================================================================
