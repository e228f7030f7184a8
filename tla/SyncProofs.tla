------------------------------ MODULE SyncProofs -----------------------------
(***************************************************************************)
(* Theorems about SyncSession, for every set of devices, links, hashes and *)
(* ids and every bound: the type invariant, OneLiveRow, Provenance,        *)
(* OneTalker, NeverStuck, CleanSessionAgrees and StampMeansState, the last *)
(* of which the README calls last-writer-wins.                             *)
(***************************************************************************)
EXTENDS SyncSession, TLAPS, FiniteSetTheorems, WellFoundedInduction

USE HlcAssumption, StoreAssumption, NoneAssumption, SessionAssumption

\* From table t to table u rows only age: none vanishes, changes what content
\* it is, or comes back from the dead.
Ages(t, u) ==
    \A i \in Id : t[i] # None =>
        /\ u[i] # None
        /\ u[i].hash = t[i].hash
        /\ t[i].deleted => u[i].deleted

------------------------------------------------------------------------------
(* Clocks and tables. *)

\* A clock that stamps a local event stays a clock state, and the stamp is an Hlc.
LEMMA NowType ==
    ASSUME NEW s \in ClockState, NEW p \in Nat
    PROVE  Now(s, p) \in ClockState
BY DEF Now, ClockState, Bump

LEMMA StampType ==
    ASSUME NEW s \in ClockState, NEW d \in Device
    PROVE  StampOf(s, d) \in Hlc
BY DEF StampOf, ClockState, Hlc

\* Every statement on a table returns a table in which rows have only aged.
LEMMA InsertTable ==
    ASSUME NEW t \in Table, NEW i \in Id, NEW clip \in Row, ~InsertFails(t, i, clip)
    PROVE  /\ Insert(t, i, clip) \in Table
           /\ Ages(t, Insert(t, i, clip))
<1>1. CASE LiveWithHash(t, clip.hash) # {}
  <2> DEFINE e == CHOOSE j \in LiveWithHash(t, clip.hash) : TRUE
  <2>1. e \in LiveWithHash(t, clip.hash)
    BY <1>1
  <2>2. e \in Id /\ t[e] \in Row
    BY <2>1 DEF LiveWithHash, WithHash, Ids, Table
  <2>3. Insert(t, i, clip) = [t EXCEPT ![e] = [t[e] EXCEPT !.hlc = clip.hlc]]
    BY <1>1 DEF Insert
  <2>4. [t[e] EXCEPT !.hlc = clip.hlc] \in Row
    BY <2>2 DEF Row
  <2> HIDE DEF e
  <2> QED
    BY <2>2, <2>3, <2>4 DEF Table, Ages, Row
<1>2. CASE LiveWithHash(t, clip.hash) = {}
  <2>1. t[i] = None
    BY <1>2 DEF InsertFails
  <2>2. Insert(t, i, clip) = [t EXCEPT ![i] = clip]
    BY <1>2 DEF Insert
  <2> QED
    BY <2>1, <2>2 DEF Table, Ages
<1> QED
  BY <1>1, <1>2

LEMMA SetPinnedTable ==
    ASSUME NEW t \in Table, NEW i \in Ids(t), NEW p \in BOOLEAN, NEW hlc \in Hlc
    PROVE  /\ SetPinned(t, i, p, hlc) \in Table
           /\ Ages(t, SetPinned(t, i, p, hlc))
<1>1. i \in Id /\ t[i] \in Row
  BY DEF Ids, Table
<1>2. [t[i] EXCEPT !.pinned = p, !.hlc = hlc] \in Row
  BY <1>1 DEF Row
<1> QED
  BY <1>1, <1>2 DEF SetPinned, Table, Ages, Row

LEMMA DeleteTable ==
    ASSUME NEW t \in Table, NEW i \in Ids(t), NEW hlc \in Hlc
    PROVE  /\ Delete(t, i, hlc) \in Table
           /\ Ages(t, Delete(t, i, hlc))
<1>1. i \in Id /\ t[i] \in Row
  BY DEF Ids, Table
<1>2. [t[i] EXCEPT !.deleted = TRUE, !.hlc = hlc] \in Row
  BY <1>1 DEF Row
<1> QED
  BY <1>1, <1>2 DEF Delete, Table, Ages, Row

\* Deduplication: a table with one live row per hash keeps that through every
\* statement.
OneLive(t) == \A h \in Hash : \A i, j \in LiveWithHash(t, h) : i = j

LEMMA InsertOneLive ==
    ASSUME NEW t \in Table, NEW i \in Id, NEW clip \in Row, OneLive(t)
    PROVE  OneLive(Insert(t, i, clip))
<1>1. CASE LiveWithHash(t, clip.hash) # {}
  <2> DEFINE e == CHOOSE j \in LiveWithHash(t, clip.hash) : TRUE
  <2>1. e \in LiveWithHash(t, clip.hash)
    BY <1>1
  <2>2. e \in Id /\ t[e] \in Row
    BY <2>1 DEF LiveWithHash, WithHash, Ids, Table
  <2>3. Insert(t, i, clip) = [t EXCEPT ![e] = [t[e] EXCEPT !.hlc = clip.hlc]]
    BY <1>1 DEF Insert
  <2> HIDE DEF e
  <2>4. \A h \in Hash : LiveWithHash(Insert(t, i, clip), h) \subseteq LiveWithHash(t, h)
    BY <2>2, <2>3 DEF LiveWithHash, WithHash, Ids, Table, Row
  <2> QED
    BY <2>4 DEF OneLive
<1>2. CASE LiveWithHash(t, clip.hash) = {}
  <2>1. Insert(t, i, clip) = [t EXCEPT ![i] = clip]
    BY <1>2 DEF Insert
  <2>2. \A h \in Hash : LiveWithHash(Insert(t, i, clip), h) \subseteq
                           IF h = clip.hash THEN {i} ELSE LiveWithHash(t, h)
    BY <1>2, <2>1 DEF LiveWithHash, WithHash, Ids, Table, Row
  <2> QED
    BY <2>2 DEF OneLive
<1> QED
  BY <1>1, <1>2

LEMMA SetPinnedOneLive ==
    ASSUME NEW t \in Table, NEW i \in Ids(t), NEW p \in BOOLEAN, NEW hlc \in Hlc, OneLive(t)
    PROVE  OneLive(SetPinned(t, i, p, hlc))
<1>1. \A h \in Hash : LiveWithHash(SetPinned(t, i, p, hlc), h) \subseteq LiveWithHash(t, h)
  BY DEF SetPinned, LiveWithHash, WithHash, Ids, Table, Row
<1> QED
  BY <1>1 DEF OneLive

LEMMA DeleteOneLive ==
    ASSUME NEW t \in Table, NEW i \in Ids(t), NEW hlc \in Hlc, OneLive(t)
    PROVE  OneLive(Delete(t, i, hlc))
<1>1. \A h \in Hash : LiveWithHash(Delete(t, i, hlc), h) \subseteq LiveWithHash(t, h)
  BY DEF Delete, LiveWithHash, WithHash, Ids, Table, Row
<1> QED
  BY <1>1 DEF OneLive

------------------------------------------------------------------------------
(* Lists, messages and channels. *)

\* A list that is not empty has a first item.
LEMMA FirstItem ==
    ASSUME NEW S, NEW f \in List(S), f # EmptyList
    PROVE  First(f) \in Pos /\ First(f) \in Items(f)
<1>1. Items(f) # {}
  BY DEF List, EmptyList, Items
<1>2. Cardinality(Id) \in Nat
  BY FS_CardinalityType
<1>3. Items(f) \subseteq Nat /\ Items(f) \subseteq Pos
  BY <1>2 DEF Items, Pos
<1>4. \E k \in Items(f) : \A j \in Items(f) : ~(<<j, k>> \in OpToRel(<, Nat))
  BY <1>1, <1>3, NatLessThanWellFounded, WFMin, Zenon
<1>5. PICK k \in Items(f) : \A j \in Items(f) : ~(<<j, k>> \in OpToRel(<, Nat))
  BY <1>4, Zenon
<1>6. \A j \in Items(f) : ~(j < k)
  BY <1>3, <1>5, Zenon DEF OpToRel
<1>7. \A j \in Items(f) : k <= j
  BY <1>3, <1>6
<1> QED
  BY <1>3, <1>7 DEF First

LEMMA RestType ==
    ASSUME NEW S, NEW f \in List(S)
    PROVE  Rest(f) \in List(S)
BY DEF Rest, List

LEMMA RestItems ==
    ASSUME NEW S, NEW f \in List(S), f # EmptyList
    PROVE  /\ First(f) \in Items(f) /\ Rest(f)[First(f)] = None
           /\ \A k : k \in Items(Rest(f)) <=> (k \in Items(f) /\ k # First(f))
           /\ \A k \in Pos : k # First(f) => Rest(f)[k] = f[k]
<1>1. First(f) \in Items(f) /\ First(f) \in Pos /\ DOMAIN f = Pos  BY FirstItem DEF List
<1> DEFINE x == First(f)
<1>2. Rest(f) = [f EXCEPT ![x] = None]  BY DEF Rest
<1> HIDE DEF x
<1>3. Rest(f)[x] = None /\ \A k \in Pos : k # x => Rest(f)[k] = f[k]  BY <1>1, <1>2 DEF x
<1> QED  BY <1>1, <1>3 DEF Items, x

LEMMA ListUnion ==
    ASSUME NEW S, NEW T, NEW f \in List(S)
    PROVE  f \in List(S \cup T)
BY DEF List

LEMMA EmptyListType ==
    ASSUME NEW S
    PROVE  EmptyList \in List(S)
BY DEF List, EmptyList

LEMMA IdleType == Idle \in Work
BY EmptyListType DEF Idle, Work

\* What a message of each type carries.
LEMMA MessageFields ==
    ASSUME NEW m \in Message
    PROVE  /\ m.type = "Summary" => m.entries \in List(Entry)
           /\ m.type = "Want" => m.hashes \in List(Hash)
           /\ m.type = "Push" => m.pushed \in Pushed
           /\ m.type = "Blob" => m.bytes \in Hash \cup {None}
BY DEF Message

LEMMA MessageTypes ==
    /\ Hello \in Message /\ Ack \in Message
    /\ \A e \in List(Entry) : Summary(e) \in Message
    /\ \A h \in List(Hash) : Want(h) \in Message
    /\ \A p \in Pushed : Push(p) \in Message
    /\ \A b \in Hash \cup {None} : Blob(b) \in Message
BY DEF Message, Hello, Ack, Summary, Want, Push, Blob

Channels == [Link -> [Role -> Seq(Message)]]

LEMMA SendType ==
    ASSUME NEW l \in Link, NEW r \in Role, NEW m \in Message,
           chan \in Channels, Send(l, r, m)
    PROVE  chan' \in Channels
BY DEF Send, Channels, Role, Other

LEMMA ExchangeType ==
    ASSUME NEW l \in Link, NEW r \in Role, NEW ms \in Seq(Message),
           chan \in Channels, Inbox(l, r) # <<>>, Exchange(l, r, ms)
    PROVE  /\ chan' \in Channels
           /\ Head(Inbox(l, r)) \in Message
BY DEF Exchange, Channels, Role, Inbox

LEMMA CutType ==
    ASSUME NEW l \in Link, chan \in Channels, up \in [Link -> BOOLEAN], Cut(l)
    PROVE  chan' \in Channels /\ up' \in [Link -> BOOLEAN]
BY DEF Cut, Channels

------------------------------------------------------------------------------
(* The type invariant, in the parts an action touches. *)

Counters == wall \in Nat /\ ops \in Nat /\ faults \in Nat
Stores ==
    /\ clock \in [Device -> ClockState]
    /\ table \in [Device -> Table]
    /\ blobs \in [Device -> SUBSET Hash]
    /\ log \subseteq Row
Wires ==
    /\ up \in [Link -> BOOLEAN]
    /\ chan \in Channels
    /\ quiet \in [Link -> {"no", "running", "synced"}]
    /\ raced \subseteq Hash
Ends ==
    /\ pc \in [Link -> [Role -> PC]]
    /\ work \in [Link -> [Role -> Work]]
    /\ \A l \in Link, r \in Role :
         Fits(pc[l][r], work[l][r], table[DeviceOf(l, r)])

LEMMA Parts ==
    /\ TypeOK <=> Counters /\ Stores /\ Wires /\ Ends
    /\ TypeOK' <=> Counters' /\ Stores' /\ Wires' /\ Ends'
BY DEF TypeOK, Counters, Stores, Wires, Ends, Channels

LEMMA DeviceOfType ==
    ASSUME NEW l \in Link, NEW r \in Role
    PROVE  DeviceOf(l, r) \in Device
BY DEF DeviceOf, Role

LEMMA OtherType ==
    ASSUME NEW r \in Role
    PROVE  Other(r) \in Role
BY DEF Other, Role

\* No row is ever taken from a table.
Aged == \A d \in Device : Ages(table[d], table'[d])

LEMMA AgesRefl == \A t : Ages(t, t)
BY DEF Ages

LEMMA AgesOne ==
    ASSUME NEW d \in Device, table \in [Device -> Table], NEW u \in Table,
           table' = [table EXCEPT ![d] = u], Ages(table[d], u)
    PROVE  table' \in [Device -> Table] /\ Aged
BY AgesRefl DEF Aged

\* Ends keep fitting when rows age, and so does an end that goes elsewhere
\* with variables that fit.
LEMMA FitsAged ==
    ASSUME NEW at, NEW w, NEW t, NEW u, Fits(at, w, t), Ages(t, u)
    PROVE  Fits(at, w, u)
BY DEF Fits, Ages, Ids

LEMMA EndsStay ==
    ASSUME Ends, Aged, UNCHANGED <<pc, work>>
    PROVE  Ends'
BY FitsAged, DeviceOfType DEF Ends, Aged

LEMMA EndsGoto ==
    ASSUME Ends, Aged, NEW l \in Link, NEW r \in Role,
           NEW at \in PC, NEW w \in Work,
           Fits(at, w, table'[DeviceOf(l, r)]), Goto(l, r, at, w)
    PROVE  Ends'
<1>1. pc' \in [Link -> [Role -> PC]] /\ work' \in [Link -> [Role -> Work]]
  BY DEF Ends, Goto
<1>2. ASSUME NEW k \in Link, NEW q \in Role
      PROVE  Fits(pc'[k][q], work'[k][q], table'[DeviceOf(k, q)])
  <2>1. CASE k = l /\ q = r
    BY <2>1 DEF Ends, Goto
  <2>2. CASE ~(k = l /\ q = r)
    <3>1. pc'[k][q] = pc[k][q] /\ work'[k][q] = work[k][q]
      BY <2>2 DEF Ends, Goto
    <3> QED
      BY <3>1, FitsAged, DeviceOfType DEF Ends, Aged
  <2> QED
    BY <2>1, <2>2
<1> QED
  BY <1>1, <1>2 DEF Ends

LEMMA FitsIdle ==
    ASSUME NEW t, NEW at \in PC \ ({"pushing", "blobs"} \cup Applying)
    PROVE  Fits(at, Idle, t)
BY EmptyListType DEF Fits, Idle, Applying

------------------------------------------------------------------------------
(* What a step can do to a table: nothing, or one statement of the store on  *)
(* one device.                                                               *)

Statement(t, u) ==
    \/ \E i \in Id, clip \in Row : ~InsertFails(t, i, clip) /\ u = Insert(t, i, clip)
    \/ \E i \in Ids(t), p \in BOOLEAN, hlc \in Hlc : u = SetPinned(t, i, p, hlc)
    \/ \E i \in Ids(t), hlc \in Hlc : u = Delete(t, i, hlc)

LEMMA StatementTable ==
    ASSUME NEW t \in Table, NEW u, Statement(t, u)
    PROVE  u \in Table /\ Ages(t, u) /\ (OneLive(t) => OneLive(u))
BY InsertTable, SetPinnedTable, DeleteTable,
   InsertOneLive, SetPinnedOneLive, DeleteOneLive DEF Statement

OneStatement(d) ==
    \E u : Statement(table[d], u) /\ table' = [table EXCEPT ![d] = u]

LEMMA OneStatementTable ==
    ASSUME table \in [Device -> Table], NEW d \in Device, OneStatement(d)
    PROVE  table' \in [Device -> Table] /\ Aged
<1>1. PICK u : Statement(table[d], u) /\ table' = [table EXCEPT ![d] = u]
  BY DEF OneStatement
<1>2. u \in Table /\ Ages(table[d], u)
  BY <1>1, StatementTable
<1> QED
  BY <1>1, <1>2, AgesOne

LEMMA LocalStampType ==
    ASSUME TypeOK, NEW d \in Device, LocalEvent(d)
    PROVE  /\ LocalStamp(d) \in Hlc
           /\ clock' \in [Device -> ClockState]
           /\ Counters' /\ UNCHANGED <<up, chan, pc, work>>
<1>1. Physical(d) \in Nat
  BY DEF TypeOK, Physical
<1>2. Now(clock[d], Physical(d)) \in ClockState
  BY <1>1, NowType DEF TypeOK
<1> QED
  BY <1>2, StampType DEF LocalStamp, LocalEvent, TypeOK, Counters, linkVars

LEMMA RecordType ==
    ASSUME TypeOK, NEW d \in Device, table' \in [Device -> Table],
           \A i \in Id : table[d][i] # None => table'[d][i] # None,
           UNCHANGED <<up, chan>>, Record(d)
    PROVE  log' \subseteq Row /\ Wires'
<1>1. Written(d) \subseteq Row
  BY DEF Written, Table, TypeOK
<1> QED
  BY <1>1 DEF Record, Disturb, InHand, TypeOK, Wires, Channels

\* Users.
LEMMA CaptureType ==
    ASSUME TypeOK, NEW d \in Device, NEW h \in Hash, Capture(d, h)
    PROVE  TypeOK' /\ OneStatement(d)
<1> DEFINE clip == [hash |-> h, hlc |-> LocalStamp(d), pinned |-> FALSE, deleted |-> FALSE]
<1>1. LocalEvent(d) /\ Record(d)
  BY DEF Capture
<1>2. clip \in Row
  BY <1>1, LocalStampType DEF Row
<1>3. PICK i \in FreshIds : table' = [table EXCEPT ![d] = Insert(table[d], i, clip)]
  BY DEF Capture
<1> HIDE DEF clip
<1>4. i \in Id /\ table[d][i] = None
  BY DEF FreshIds
<1>5. OneStatement(d)
  BY <1>2, <1>3, <1>4 DEF OneStatement, Statement, InsertFails
<1>6. table' \in [Device -> Table] /\ Aged
  BY <1>5, OneStatementTable DEF TypeOK
<1>7. PICK kept \in AfterQuota(blobs[d] \cup ({h} \cap BlobHash), table'[d]) :
          blobs' = [blobs EXCEPT ![d] = kept]
  BY DEF Capture
<1>8. kept \subseteq Hash
  BY DEF AfterQuota, TypeOK
<1>9. Stores' /\ Wires'
  BY <1>1, <1>6, <1>7, <1>8, LocalStampType, RecordType DEF Stores, TypeOK, Aged, Ages
<1> QED
  BY <1>1, <1>5, <1>6, <1>9, LocalStampType, EndsStay, Parts

LEMMA PinClipType ==
    ASSUME TypeOK, NEW d \in Device, NEW i \in Id, NEW p \in BOOLEAN, PinClip(d, i, p)
    PROVE  TypeOK' /\ OneStatement(d)
<1>1. LocalEvent(d) /\ Record(d) /\ i \in Ids(table[d])
  BY DEF PinClip
<1>2. OneStatement(d)
  BY <1>1, LocalStampType DEF PinClip, OneStatement, Statement
<1>3. table' \in [Device -> Table] /\ Aged
  BY <1>2, OneStatementTable DEF TypeOK
<1>4. Stores' /\ Wires'
  BY <1>1, <1>3, LocalStampType, RecordType DEF PinClip, Stores, TypeOK, Aged, Ages
<1> QED
  BY <1>1, <1>2, <1>3, <1>4, LocalStampType, EndsStay, Parts

LEMMA DeleteClipType ==
    ASSUME TypeOK, NEW d \in Device, NEW i \in Id, DeleteClip(d, i)
    PROVE  TypeOK' /\ OneStatement(d)
<1>1. LocalEvent(d) /\ Record(d) /\ i \in Ids(table[d])
  BY DEF DeleteClip
<1>2. OneStatement(d)
  BY <1>1, LocalStampType DEF DeleteClip, OneStatement, Statement
<1>3. table' \in [Device -> Table] /\ Aged
  BY <1>2, OneStatementTable DEF TypeOK
<1>4. Stores' /\ Wires'
  BY <1>1, <1>3, LocalStampType, RecordType DEF DeleteClip, Stores, TypeOK, Aged, Ages
<1> QED
  BY <1>1, <1>2, <1>3, <1>4, LocalStampType, EndsStay, Parts

\* A step that only moves one end of one link and its messages.
LEMMA EndStepType ==
    ASSUME TypeOK, NEW l \in Link, NEW r \in Role, NEW at \in PC, NEW w \in Work,
           UNCHANGED <<wall, clock, table, blobs, quiet, log, ops, faults, up>>,
           raced' \subseteq Hash, Goto(l, r, at, w), chan' \in Channels,
           Fits(at, w, table[DeviceOf(l, r)])
    PROVE  TypeOK' /\ UNCHANGED table
<1>1. Aged /\ UNCHANGED table
  BY AgesRefl DEF Aged
<1>2. Ends'
  BY <1>1, EndsGoto, Parts
<1>3. Counters' /\ Stores' /\ Wires'
  BY Parts DEF Counters, Stores, Wires
<1> QED
  BY <1>1, <1>2, <1>3, Parts

LEMMA SessionStepType ==
    ASSUME TypeOK, NEW l \in Link, NEW r \in Role, NEW at \in PC, NEW w \in Work,
           SessionOnly, Goto(l, r, at, w), chan' \in Channels,
           Fits(at, w, table[DeviceOf(l, r)])
    PROVE  TypeOK' /\ UNCHANGED table
<1>1. UNCHANGED <<wall, clock, table, blobs, quiet, log, ops, faults, up>>
  BY DEF SessionOnly
<1>2. raced' \subseteq Hash
  BY DEF SessionOnly, TypeOK
<1> QED
  BY <1>1, <1>2, EndStepType

\* A message received is a message, and its inbox shrinks.
LEMMA ReceiveType ==
    ASSUME TypeOK, NEW l \in Link, NEW r \in Role, NEW at, NEW type,
           Receives(l, r, at, type), NEW ms \in Seq(Message), Exchange(l, r, ms)
    PROVE  /\ chan' \in Channels
           /\ Head(Inbox(l, r)) \in Message
           /\ Head(Inbox(l, r)).type = type
           /\ pc[l][r] = at
BY ExchangeType, Parts DEF Wires, Receives

LEMMA RecvHelloType ==
    ASSUME TypeOK, NEW l \in Link, NEW r \in Role, RecvHello(l, r)
    PROVE  TypeOK' /\ UNCHANGED table
<1> DEFINE at == IF r = "responder" THEN "summary" ELSE "offer"
<1> DEFINE ms == IF r = "responder" THEN <<Hello>> ELSE <<>>
<1>0. ms \in Seq(Message)
  BY MessageTypes
<1>1. chan' \in Channels
  BY <1>0, ReceiveType DEF RecvHello
<1>2. at \in PC \ ({"pushing", "blobs"} \cup Applying)
  BY DEF PC, Awaits, Sending, Applying
<1> QED
  BY <1>1, <1>2, FitsIdle, IdleType, SessionStepType DEF RecvHello

LEMMA OfferType ==
    ASSUME TypeOK, NEW l \in Link, NEW r \in Role, Offer(l, r)
    PROVE  TypeOK' /\ UNCHANGED table
<1> DEFINE t == table[DeviceOf(l, r)]
<1> DEFINE sum(s) == [k \in Pos |->
             IF k \in DOMAIN s THEN [hash |-> t[s[k]].hash, hlc |-> t[s[k]].hlc] ELSE None]
<1>1. PICK s \in InHlcOrder(t) : Send(l, r, Summary(sum(s)))
  BY DEF Offer
<1>2. \A k \in DOMAIN s : t[s[k]] \in Row
  <2>1. s \in [1..Cardinality(Ids(t)) -> Ids(t)]
    BY DEF InHlcOrder
  <2>2. t \in Table
    BY DeviceOfType DEF TypeOK
  <2>3. \A i \in Ids(t) : t[i] \in Row
    BY <2>2 DEF Ids, Table
  <2> QED
    BY <2>1, <2>3
<1>3. sum(s) \in List(Entry)
  BY <1>2 DEF List, Entry, Row
<1>4. chan' \in Channels
  BY <1>1, <1>3, MessageTypes, SendType, Parts DEF Wires
<1>5. "want" \in PC \ ({"pushing", "blobs"} \cup Applying)
  BY DEF PC, Awaits, Sending, Applying
<1> QED
  BY <1>4, <1>5, FitsIdle, IdleType, SessionStepType DEF Offer

\* What a lookup returns is None or a row with that hash.
LEMMA LookupType ==
    ASSUME NEW t \in Table, NEW found \in Lookups(t), NEW h \in Hash, found[h] # None
    PROVE  found[h] \in Ids(t) /\ found[h] \in Id /\ t[found[h]] \in Row /\ t[found[h]].hash = h
<1>1. ByHash(t, h) \subseteq WithHash(t, h)
  BY DEF ByHash, LiveWithHash
<1>2. found[h] \in ByHash(t, h)
  BY DEF Lookups
<1>3. found[h] \in WithHash(t, h)
  BY <1>1, <1>2
<1> QED
  BY <1>3 DEF WithHash, Ids, Table

LEMMA RecvSummaryType ==
    ASSUME TypeOK, NEW l \in Link, NEW r \in Role, RecvSummary(l, r)
    PROVE  TypeOK' /\ UNCHANGED table
<1> DEFINE t == table[DeviceOf(l, r)]
           entries == Head(Inbox(l, r)).entries
           wanted(found) == [k \in Pos |->
                            IF k \in Items(entries) /\ Wanted(t, found, entries[k])
                            THEN entries[k].hash ELSE None]
<1>1. PICK found \in Lookups(t) :
          /\ Exchange(l, r, <<Want(wanted(found))>>)
          /\ Goto(l, r, "push", [Idle EXCEPT !.todo = wanted(found)])
  BY SMTT(30) DEF RecvSummary
<1>2. Head(Inbox(l, r)) \in Message /\ Head(Inbox(l, r)).type = "Summary"
  BY Parts, SMTT(60) DEF RecvSummary, Receives, Inbox, Wires, Channels
<1>3. entries \in List(Entry)
  BY <1>2, MessageFields
<1>4. wanted(found) \in List(Hash)
  BY <1>3 DEF List, Items, Entry
<1> HIDE DEF wanted
<1>5. <<Want(wanted(found))>> \in Seq(Message)
  BY <1>4, MessageTypes
<1>6. chan' \in Channels
  BY <1>1, <1>5, ReceiveType DEF RecvSummary
<1>7. wanted(found) \in List(Hash \cup Pushed)
  BY <1>4, ListUnion
<1>8. [Idle EXCEPT !.todo = wanted(found)] \in Work
  BY <1>7, IdleType DEF Work, Idle
<1>9. "push" \in PC /\ Fits("push", [Idle EXCEPT !.todo = wanted(found)], t)
  BY <1>4 DEF PC, Awaits, Fits, Applying, Idle
<1> QED
  BY <1>1, <1>6, <1>8, <1>9, SessionStepType DEF RecvSummary

LEMMA RecvWantType ==
    ASSUME TypeOK, NEW l \in Link, NEW r \in Role, RecvWant(l, r)
    PROVE  TypeOK' /\ UNCHANGED table
<1> DEFINE t == table[DeviceOf(l, r)]
           hashes == Head(Inbox(l, r)).hashes
           have(found) == {k \in Items(hashes) : found[hashes[k]] # None}
           clips(found) == [k \in Pos |->
                           IF k \in have(found)
                           THEN [id |-> found[hashes[k]], clip |-> t[found[hashes[k]]]]
                           ELSE None]
           at(c) == Until(c, "pushing", "blobwant")
<1>1. PICK found \in Lookups(t) :
          /\ Goto(l, r, at(clips(found)), [Idle EXCEPT !.todo = clips(found)])
          /\ raced' = raced \cup {hashes[k] : k \in {j \in have(found) :
                                found[hashes[j]] \in HalfWritten(DeviceOf(l, r))}}
  BY Zenon DEF RecvWant
<1>2. /\ chan' \in Channels
      /\ Head(Inbox(l, r)) \in Message
      /\ Head(Inbox(l, r)).type = "Want"
  <2>1. <<>> \in Seq(Message)
    OBVIOUS
  <2> QED
    BY <2>1, ReceiveType, Zenon DEF RecvWant
<1>3. hashes \in List(Hash) /\ t \in Table
  BY <1>2, MessageFields, DeviceOfType DEF TypeOK
<1>4. clips(found) \in List(Pushed)
  <2>1. \A k \in have(found) : [id |-> found[hashes[k]], clip |-> t[found[hashes[k]]]] \in Pushed
    BY <1>3, LookupType DEF List, Items, Pushed
  <2> QED
    BY <2>1 DEF List
<1>8. raced' \subseteq Hash
  BY <1>1, <1>3, ZenonT(30) DEF TypeOK, List, Items
<1> HIDE DEF clips, have
<1>5. clips(found) \in List(Hash \cup Pushed)
  BY <1>4, ListUnion DEF List
<1>6. [Idle EXCEPT !.todo = clips(found)] \in Work
  BY <1>5, IdleType DEF Work, Idle
<1>7. at(clips(found)) \in PC /\ Fits(at(clips(found)), [Idle EXCEPT !.todo = clips(found)], t)
  BY <1>4, EmptyListType DEF PC, Awaits, Fits, Applying, Sending, Idle, Until
<1>9. UNCHANGED <<wall, clock, table, blobs, quiet, log, ops, faults, up>>
  BY Zenon DEF RecvWant
<1> QED
  BY <1>1, <1>2, <1>6, <1>7, <1>8, <1>9, EndStepType, Zenon

LEMMA SendPushType ==
    ASSUME TypeOK, NEW l \in Link, NEW r \in Role, SendPush(l, r)
    PROVE  TypeOK' /\ UNCHANGED table
<1> DEFINE todo == work[l][r].todo
           at == Until(Rest(todo), "pushing", "blobwant")
<1>1. todo \in List(Pushed) /\ todo # EmptyList
  BY DEF SendPush, TypeOK, Fits
<1>2. todo[First(todo)] \in Pushed /\ Rest(todo) \in List(Pushed)
  BY <1>1, FirstItem, RestType DEF Items, List
<1>3. chan' \in Channels
  BY <1>2, MessageTypes, SendType, Parts DEF SendPush, Wires
<1>4. Rest(todo) \in List(Hash \cup Pushed)
  BY <1>2, ListUnion DEF List
<1> HIDE DEF todo
<1>5. [Idle EXCEPT !.todo = Rest(todo)] \in Work
  BY <1>4, IdleType DEF Work, Idle
<1>6. at \in PC /\ Fits(at, [Idle EXCEPT !.todo = Rest(todo)], table[DeviceOf(l, r)])
  BY <1>2, EmptyListType DEF PC, Awaits, Fits, Applying, Sending, Idle, Until
<1> QED
  BY <1>3, <1>5, <1>6, SessionStepType DEF SendPush, todo

LEMMA RecvPushType ==
    ASSUME TypeOK, NEW l \in Link, NEW r \in Role, RecvPush(l, r)
    PROVE  TypeOK' /\ UNCHANGED table
<1> DEFINE t == table[DeviceOf(l, r)]
           w == work[l][r]
           p == Head(Inbox(l, r)).pushed
           action(i) == Merge(IF i = None THEN None ELSE t[i], p.clip)
<1>1. /\ chan' \in Channels
      /\ Head(Inbox(l, r)) \in Message
      /\ Head(Inbox(l, r)).type = "Push"
      /\ pc[l][r] = "push"
  <2>1. <<>> \in Seq(Message)
    OBVIOUS
  <2> QED
    BY <2>1, ReceiveType, Zenon DEF RecvPush
<1>2. p \in Pushed /\ t \in Table /\ p.clip.hash \in Hash
  BY <1>1, MessageFields, DeviceOfType, Zenon DEF TypeOK, Pushed, Row
<1>3. w \in Work /\ w.todo \in List(Hash) /\ w.todo # EmptyList
  BY <1>1, Zenon DEF TypeOK, Fits, RecvPush
<1>4. PICK found \in Lookups(t) :
          LET i == found[p.clip.hash]
          IN  CASE action(i) = "Insert" -> Goto(l, r, "insert", [w EXCEPT !.pushed = p])
                [] action(i) = "UpdateMetadata" ->
                       Goto(l, r, "pin", [w EXCEPT !.pushed = p, !.target = i])
                [] action(i) = "Ignore" -> Goto(l, r, "push", [w EXCEPT !.todo = Rest(@)])
  BY Zenon DEF RecvPush
<1> DEFINE i == found[p.clip.hash]
<1>5. i # None => i \in Ids(t) /\ i \in Id
  BY <1>2, LookupType
<1> HIDE DEF w, p, t
<1>6. CASE action(i) = "Insert"
  <2>1. Goto(l, r, "insert", [w EXCEPT !.pushed = p])
    BY <1>4, <1>6, Zenon
  <2>2. [w EXCEPT !.pushed = p] \in Work
    BY <1>2, <1>3 DEF Work
  <2>3. "insert" \in PC /\ Fits("insert", [w EXCEPT !.pushed = p], t)
    BY <1>2, <1>3 DEF PC, Fits, Applying, Work
  <2> QED
    BY <1>1, <2>1, <2>2, <2>3, SessionStepType, Zenon DEF RecvPush, t
<1>7. CASE action(i) = "UpdateMetadata"
  <2>0. i # None
    BY <1>7 DEF Merge
  <2>1. Goto(l, r, "pin", [w EXCEPT !.pushed = p, !.target = i])
    BY <1>4, <1>7
  <2>2. [w EXCEPT !.pushed = p, !.target = i] \in Work
    BY <1>2, <1>3, <1>5, <2>0 DEF Work
  <2>3. "pin" \in PC /\ Fits("pin", [w EXCEPT !.pushed = p, !.target = i], t)
    BY <1>2, <1>3, <1>5, <2>0 DEF PC, Fits, Applying, Work
  <2> QED
    BY <1>1, <2>1, <2>2, <2>3, SessionStepType, Zenon DEF RecvPush, t
<1>8. CASE action(i) = "Ignore"
  <2>1. Goto(l, r, "push", [w EXCEPT !.todo = Rest(@)])
    BY <1>4, <1>8
  <2>2. Rest(w.todo) \in List(Hash) /\ Rest(w.todo) \in List(Hash \cup Pushed)
    BY <1>3, RestType, ListUnion
  <2>3. [w EXCEPT !.todo = Rest(@)] \in Work
    BY <1>3, <2>2 DEF Work
  <2>4. "push" \in PC /\ Fits("push", [w EXCEPT !.todo = Rest(@)], t)
    BY <1>3, <2>2 DEF PC, Awaits, Fits, Applying, Work
  <2> QED
    BY <1>1, <2>1, <2>3, <2>4, SessionStepType, Zenon DEF RecvPush, t
<1> QED
  BY <1>6, <1>7, <1>8 DEF Merge

\* The variables of an end that has applied a clip.
LEMMA AppliedType ==
    ASSUME NEW w \in Work, w.todo \in List(Hash), w.pushed \in Pushed, NEW t
    PROVE  Applied(w) \in Work /\ "push" \in PC /\ Fits("push", Applied(w), t)
<1> DEFINE h == w.pushed.clip.hash
           m == [w.missing EXCEPT ![First(w.todo)] = IF h \in BlobHash THEN h ELSE None]
<1>1. Rest(w.todo) \in List(Hash) /\ Rest(w.todo) \in List(Hash \cup Pushed)
  BY RestType, ListUnion
<1>2. m \in List(Hash)
  BY DEF Work, List
<1> QED
  BY <1>1, <1>2 DEF Applied, Work, Fits, PC, Awaits, Applying

\* A step that writes one statement and moves one end.
LEMMA ApplyStepType ==
    ASSUME TypeOK, NEW l \in Link, NEW r \in Role, NEW at \in PC, NEW w \in Work,
           OneStatement(DeviceOf(l, r)), Goto(l, r, at, w),
           Disturb(DeviceOf(l, r), {l}),
           UNCHANGED <<wall, clock, blobs, up, chan, log, ops, faults>>,
           Aged => Fits(at, w, table'[DeviceOf(l, r)])
    PROVE  TypeOK'
<1>1. table' \in [Device -> Table] /\ Aged
  BY OneStatementTable, DeviceOfType DEF TypeOK
<1>2. Ends'
  BY <1>1, EndsGoto, Parts
<1>3. Counters' /\ Stores'
  BY <1>1, Parts DEF Counters, Stores
<1>4. Wires'
  BY Parts DEF Wires, Disturb, InHand
<1> QED
  BY <1>2, <1>3, <1>4, Parts

LEMMA ApplyInsertType ==
    ASSUME TypeOK, NEW l \in Link, NEW r \in Role, ApplyInsert(l, r)
    PROVE  TypeOK' /\ OneStatement(DeviceOf(l, r))
<1> DEFINE w == work[l][r]
<1>1. w \in Work /\ w.pushed \in Pushed /\ w.todo \in List(Hash)
  BY DEF TypeOK, Fits, ApplyInsert, Applying
<1>2. OneStatement(DeviceOf(l, r))
  BY <1>1 DEF ApplyInsert, OneStatement, Statement, Pushed
<1>3. Applied(w) \in Work /\ "push" \in PC /\ Fits("push", Applied(w), table'[DeviceOf(l, r)])
  BY <1>1, AppliedType
<1> QED
  BY <1>2, <1>3, ApplyStepType DEF ApplyInsert

LEMMA ApplyInsertFailsType ==
    ASSUME TypeOK, NEW l \in Link, NEW r \in Role, ApplyInsertFails(l, r)
    PROVE  TypeOK' /\ UNCHANGED table
<1>1. Aged
  BY AgesRefl DEF Aged, ApplyInsertFails
<1>2. "idle" \in PC \ ({"pushing", "blobs"} \cup Applying)
  BY DEF PC, Awaits, Sending, Applying
<1>3. Ends'
  BY <1>1, <1>2, FitsIdle, IdleType, EndsGoto, Parts DEF ApplyInsertFails
<1>4. Counters' /\ Stores'
  BY Parts DEF Counters, Stores, ApplyInsertFails
<1>5. Wires'
  BY CutType, Parts DEF Wires, ApplyInsertFails
<1> QED
  BY <1>3, <1>4, <1>5, Parts DEF ApplyInsertFails

LEMMA ApplyPinType ==
    ASSUME TypeOK, NEW l \in Link, NEW r \in Role, ApplyPin(l, r)
    PROVE  TypeOK' /\ OneStatement(DeviceOf(l, r))
<1> DEFINE w == work[l][r]
           d == DeviceOf(l, r)
<1>1. /\ w \in Work /\ w.pushed \in Pushed /\ w.todo \in List(Hash)
      /\ w.todo # EmptyList /\ w.target \in Ids(table[d])
  BY ZenonT(30) DEF TypeOK, Fits, ApplyPin, Applying
<1>2. OneStatement(d)
  BY <1>1 DEF ApplyPin, OneStatement, Statement, Pushed, Row
<1>3. CASE w.pushed.clip.deleted
  <2>0. ASSUME Aged PROVE w.target \in Ids(table'[d])
    <3>1. Ages(table[d], table'[d])
      BY <2>0, DeviceOfType DEF Aged
    <3> QED
      BY <1>1, <3>1 DEF Ages, Ids
  <2>1. "tombstone" \in PC /\ (Aged => Fits("tombstone", w, table'[d]))
    BY <1>1, <2>0 DEF Fits, PC, Applying
  <2> QED
    BY <1>1, <1>2, <1>3, <2>1, ApplyStepType DEF ApplyPin
<1>4. CASE ~w.pushed.clip.deleted
  <2>1. Applied(w) \in Work /\ "push" \in PC /\ Fits("push", Applied(w), table'[d])
    BY <1>1, AppliedType
  <2> QED
    BY <1>2, <1>4, <2>1, ApplyStepType DEF ApplyPin
<1> QED
  BY <1>3, <1>4

LEMMA ApplyDeleteType ==
    ASSUME TypeOK, NEW l \in Link, NEW r \in Role, ApplyDelete(l, r)
    PROVE  TypeOK' /\ OneStatement(DeviceOf(l, r))
<1> DEFINE w == work[l][r]
<1>1. /\ w \in Work /\ w.pushed \in Pushed /\ w.todo \in List(Hash)
      /\ w.target \in Ids(table[DeviceOf(l, r)])
  BY ZenonT(30) DEF TypeOK, Fits, ApplyDelete, Applying
<1>2. OneStatement(DeviceOf(l, r))
  BY <1>1 DEF ApplyDelete, OneStatement, Statement, Pushed, Row
<1>3. Applied(w) \in Work /\ "push" \in PC /\ Fits("push", Applied(w), table'[DeviceOf(l, r)])
  BY <1>1, AppliedType
<1> QED
  BY <1>2, <1>3, ApplyStepType DEF ApplyDelete

\* An end that waits for blobs, sends them or asks for them fits with any list
\* of hashes left to do.
LEMMA TodoType ==
    ASSUME NEW f \in List(Hash), NEW t, NEW at \in {"blobs", "blob", "ack"},
           at = "blobs" => f # EmptyList
    PROVE  /\ [Idle EXCEPT !.todo = f] \in Work
           /\ at \in PC
           /\ Fits(at, [Idle EXCEPT !.todo = f], t)
<1>1. f \in List(Hash \cup Pushed)
  BY ListUnion
<1> QED
  BY <1>1, IdleType DEF Work, Idle, Fits, PC, Awaits, Sending, Applying

LEMMA WantBlobsType ==
    ASSUME TypeOK, NEW l \in Link, NEW r \in Role, WantBlobs(l, r)
    PROVE  TypeOK' /\ UNCHANGED table
<1> DEFINE w == work[l][r]
           needed == {k \in Items(w.missing) :
                      /\ w.missing[k] \notin blobs[DeviceOf(l, r)]
                      /\ \A j \in Items(w.missing) : w.missing[j] = w.missing[k] => k <= j}
           asked == Filter(w.missing, needed)
<1>1. w.missing \in List(Hash)
  BY DEF TypeOK, Work
<1>2. asked \in List(Hash)
  BY <1>1 DEF Filter, List
<1>3. Send(l, r, Want(asked)) /\ Goto(l, r, "blob", [Idle EXCEPT !.todo = asked]) /\ SessionOnly
  BY DEF WantBlobs
<1> HIDE DEF asked
<1>4. chan' \in Channels
  BY <1>2, <1>3, MessageTypes, SendType, Parts DEF Wires
<1> QED
  BY <1>2, <1>3, <1>4, TodoType, SessionStepType

LEMMA RecvBlobWantType ==
    ASSUME TypeOK, NEW l \in Link, NEW r \in Role, RecvBlobWant(l, r)
    PROVE  TypeOK' /\ UNCHANGED table
<1> DEFINE asked == Head(Inbox(l, r)).hashes
           at == Until(asked, "blobs", "ack")
<1>1. /\ chan' \in Channels
      /\ Head(Inbox(l, r)) \in Message
      /\ Head(Inbox(l, r)).type = "Want"
  <2>1. <<>> \in Seq(Message)
    OBVIOUS
  <2> QED
    BY <2>1, ReceiveType DEF RecvBlobWant
<1>2. asked \in List(Hash)
  BY <1>1, MessageFields
<1>3. Goto(l, r, at, [Idle EXCEPT !.todo = asked]) /\ SessionOnly
  BY DEF RecvBlobWant
<1> HIDE DEF asked
<1>4. at \in {"blobs", "blob", "ack"} /\ (at = "blobs" => asked # EmptyList)
  BY DEF Until
<1> QED
  BY <1>1, <1>2, <1>3, <1>4, TodoType, SessionStepType

LEMMA SendBlobType ==
    ASSUME TypeOK, NEW l \in Link, NEW r \in Role, SendBlob(l, r)
    PROVE  TypeOK' /\ UNCHANGED table
<1> DEFINE todo == work[l][r].todo
           digest == todo[First(todo)]
           at == Until(Rest(todo), "blobs", "ack")
           bytes == IF digest \in blobs[DeviceOf(l, r)] THEN digest ELSE None
<1>1. todo \in List(Hash) /\ todo # EmptyList
  BY DEF SendBlob, TypeOK, Fits
<1>2. digest \in Hash /\ Rest(todo) \in List(Hash)
  BY <1>1, FirstItem, RestType DEF Items, List
<1>3. bytes \in Hash \cup {None}
  BY <1>2
<1>4. Send(l, r, Blob(bytes)) /\ Goto(l, r, at, [Idle EXCEPT !.todo = Rest(todo)]) /\ SessionOnly
  BY DEF SendBlob
<1> HIDE DEF bytes, todo
<1>5. chan' \in Channels
  BY <1>3, <1>4, MessageTypes, SendType, Parts DEF Wires
<1>6. at \in {"blobs", "blob", "ack"} /\ (at = "blobs" => Rest(todo) # EmptyList)
  BY DEF Until
<1> QED
  BY <1>2, <1>4, <1>5, <1>6, TodoType, SessionStepType

LEMMA RecvBlobType ==
    ASSUME TypeOK, NEW l \in Link, NEW r \in Role, RecvBlob(l, r)
    PROVE  TypeOK' /\ UNCHANGED table
<1> DEFINE todo == work[l][r].todo
           d == DeviceOf(l, r)
<1>1. chan' \in Channels /\ pc[l][r] = "blob"
  <2>1. <<>> \in Seq(Message)
    OBVIOUS
  <2> QED
    BY <2>1, ReceiveType DEF RecvBlob
<1>2. todo \in List(Hash) /\ todo # EmptyList
  BY <1>1 DEF RecvBlob, TypeOK, Fits
<1>3. todo[First(todo)] \in Hash /\ Rest(todo) \in List(Hash)
  BY <1>2, FirstItem, RestType DEF Items, List
<1>4. blobs' \in [Device -> SUBSET Hash]
  BY <1>3, DeviceOfType DEF RecvBlob, TypeOK
<1>5. Aged
  BY AgesRefl DEF Aged, RecvBlob
<1>6. Goto(l, r, "blob", [Idle EXCEPT !.todo = Rest(todo)])
  BY DEF RecvBlob
<1> HIDE DEF todo
<1>7. Ends'
  BY <1>3, <1>5, <1>6, TodoType, EndsGoto, Parts
<1>8. Counters' /\ Stores' /\ Wires'
  BY <1>1, <1>4, Parts DEF Counters, Stores, Wires, RecvBlob
<1> QED
  BY <1>7, <1>8, Parts DEF RecvBlob

LEMMA AcknowledgeType ==
    ASSUME TypeOK, NEW l \in Link, NEW r \in Role, Acknowledge(l, r)
    PROVE  TypeOK' /\ UNCHANGED table
<1> DEFINE at == IF r = "responder" THEN "offer" ELSE "idle"
           d == DeviceOf(l, r)
<1>1. chan' \in Channels
  BY MessageTypes, SendType, Parts DEF Acknowledge, Wires
<1>2. clock' \in [Device -> ClockState]
  <2>0. d \in Device
    BY DeviceOfType
  <2> HIDE DEF d
  <2>1. d \in Device /\ clock[d] \in ClockState /\ Physical(d) \in Nat
    BY <2>0 DEF TypeOK, Physical
  <2>2. Now(clock[d], Physical(d)) \in ClockState
    BY <2>1, NowType
  <2> QED
    BY <2>1, <2>2 DEF Acknowledge, TypeOK, d
<1>3. Aged
  BY AgesRefl DEF Aged, Acknowledge
<1>4. at \in PC \ ({"pushing", "blobs"} \cup Applying)
  BY DEF PC, Awaits, Sending, Applying
<1>5. Ends'
  BY <1>3, <1>4, FitsIdle, IdleType, EndsGoto, Parts DEF Acknowledge
<1>6. quiet' \in [Link -> {"no", "running", "synced"}]
  BY DEF Acknowledge, TypeOK
<1>7. Counters' /\ Stores' /\ Wires'
  BY <1>1, <1>2, <1>6, Parts DEF Counters, Stores, Wires, Acknowledge
<1> QED
  BY <1>5, <1>7, Parts DEF Acknowledge

LEMMA RecvAckType ==
    ASSUME TypeOK, NEW l \in Link, NEW r \in Role, RecvAck(l, r)
    PROVE  TypeOK' /\ UNCHANGED table
<1> DEFINE at == IF r = "dialler" THEN "summary" ELSE "idle"
<1>1. <<>> \in Seq(Message)
  OBVIOUS
<1>2. chan' \in Channels
  BY <1>1, ReceiveType DEF RecvAck
<1>3. at \in PC \ ({"pushing", "blobs"} \cup Applying)
  BY DEF PC, Awaits, Sending, Applying
<1> QED
  BY <1>2, <1>3, FitsIdle, IdleType, SessionStepType DEF RecvAck

LEMMA DropType ==
    ASSUME TypeOK, NEW l \in Link, NEW r \in Role, Drop(l, r)
    PROVE  TypeOK' /\ UNCHANGED table
<1>1. "idle" \in PC \ ({"pushing", "blobs"} \cup Applying)
  BY DEF PC, Awaits, Sending, Applying
<1>2. chan' \in Channels
  BY Parts DEF Drop, Wires
<1> QED
  BY <1>1, <1>2, FitsIdle, IdleType, SessionStepType DEF Drop, SessionOnly

LEMMA DialType ==
    ASSUME TypeOK, NEW l \in Link, Dial(l)
    PROVE  TypeOK' /\ UNCHANGED table
<1>1. "hello" \in PC \ ({"pushing", "blobs"} \cup Applying)
  BY DEF PC, Awaits, Sending, Applying
<1>2. pc' \in [Link -> [Role -> PC]] /\ work' \in [Link -> [Role -> Work]]
  BY <1>1, IdleType DEF Dial, TypeOK
<1>3. ASSUME NEW k \in Link, NEW q \in Role
      PROVE  Fits(pc'[k][q], work'[k][q], table'[DeviceOf(k, q)])
  <2>1. CASE k = l
    <3>1. pc'[k][q] = "hello" /\ work'[k][q] = Idle
      BY <2>1 DEF Dial, TypeOK
    <3> QED
      BY <1>1, <3>1, FitsIdle
  <2>2. CASE k # l
    BY <2>2 DEF Dial, TypeOK
  <2> QED
    BY <2>1, <2>2
<1>4. Ends'
  BY <1>2, <1>3 DEF Ends
<1>5. chan' \in Channels
  BY MessageTypes DEF Dial, TypeOK, Channels
<1>6. Counters' /\ Stores' /\ Wires'
  BY <1>5, Parts DEF Counters, Stores, Wires, Dial
<1> QED
  BY <1>4, <1>6, Parts DEF Dial

LEMMA BreakType ==
    ASSUME TypeOK, NEW l \in Link, Break(l)
    PROVE  TypeOK' /\ UNCHANGED table
<1>1. Aged
  BY AgesRefl DEF Aged, Break
<1>2. Ends'
  BY <1>1, EndsStay, Parts DEF Break
<1>3. Counters' /\ Stores'
  BY Parts DEF Counters, Stores, Break
<1>4. Wires'
  BY CutType, Parts DEF Wires, Break
<1> QED
  BY <1>2, <1>3, <1>4, Parts DEF Break

LEMMA CrashType ==
    ASSUME TypeOK, NEW d \in Device, Crash(d)
    PROVE  TypeOK' /\ UNCHANGED table
<1>1. "idle" \in PC \ ({"pushing", "blobs"} \cup Applying)
  BY DEF PC, Awaits, Sending, Applying
<1>2. pc' \in [Link -> [Role -> PC]]
  BY <1>1 DEF Crash, TypeOK
<1>3. work' \in [Link -> [Role -> Work]]
  BY IdleType DEF Crash, TypeOK
<1>4. ASSUME NEW k \in Link, NEW q \in Role
      PROVE  Fits(pc'[k][q], work'[k][q], table'[DeviceOf(k, q)])
  <2>1. CASE DeviceOf(k, q) = d
    <3>1. pc'[k][q] = "idle" /\ work'[k][q] = Idle
      BY <2>1 DEF Crash
    <3> QED
      BY <1>1, <3>1, FitsIdle
  <2>2. CASE DeviceOf(k, q) # d
    BY <2>2 DEF Crash, TypeOK
  <2> QED
    BY <2>1, <2>2
<1>5. Ends'
  BY <1>2, <1>3, <1>4 DEF Ends
<1>6. chan' \in Channels
  BY DEF Crash, TypeOK, Channels
<1>7. up' \in [Link -> BOOLEAN]
  BY DEF Crash
<1>8. quiet' \in [Link -> {"no", "running", "synced"}]
  BY DEF Crash, TypeOK
<1>9. clock' \in [Device -> ClockState]
  BY DEF Crash, TypeOK, NewClock, ClockState
<1>10. raced' \subseteq Hash
  <2>1. \A i \in HalfWritten(d) : table[d][i].hash \in Hash
    <3> SUFFICES ASSUME NEW i \in HalfWritten(d) PROVE table[d][i].hash \in Hash
      OBVIOUS
    <3>1. PICK l \in Link, r \in Role :
              DeviceOf(l, r) = d /\ pc[l][r] = "tombstone" /\ work[l][r].target = i
      BY DEF HalfWritten
    <3>2. i \in Ids(table[d])
      BY <3>1 DEF TypeOK, Fits
    <3>3. table[d][i] \in Row
      BY <3>2 DEF TypeOK, Table, Ids
    <3> QED
      BY <3>3 DEF Row
  <2> QED
    BY <2>1 DEF Crash, TypeOK
<1>11. Counters' /\ Stores' /\ Wires'
  BY <1>6, <1>7, <1>8, <1>9, <1>10, Parts, SMTT(60) DEF Counters, Stores, Wires, Crash
<1> QED
  BY <1>5, <1>11, Parts DEF Crash

LEMMA TimePassesType ==
    ASSUME TypeOK, TimePasses
    PROVE  TypeOK' /\ UNCHANGED table
<1>1. Aged
  BY AgesRefl DEF Aged, TimePasses
<1>2. Ends'
  BY <1>1, EndsStay, Parts DEF TimePasses, linkVars
<1>3. Counters' /\ Stores' /\ Wires'
  BY Parts DEF Counters, Stores, Wires, TimePasses, linkVars
<1> QED
  BY <1>2, <1>3, Parts DEF TimePasses

------------------------------------------------------------------------------
(* The theorems. *)

\* Every step keeps the types and changes at most one table, by one statement.
LEMMA NextType ==
    ASSUME TypeOK, Next
    PROVE  TypeOK' /\ (UNCHANGED table \/ \E d \in Device : OneStatement(d))
<1>1. ASSUME NEW d \in Device, LocalStep(d)
      PROVE  TypeOK' /\ OneStatement(d)
  BY <1>1, CaptureType, PinClipType, DeleteClipType DEF LocalStep
<1>2. ASSUME NEW l \in Link, NEW r \in Role, EndStep(l, r)
      PROVE  TypeOK' /\ (UNCHANGED table \/ OneStatement(DeviceOf(l, r)))
  BY <1>2, RecvHelloType, OfferType, RecvSummaryType, RecvWantType, SendPushType,
     RecvPushType, ApplyInsertType, ApplyInsertFailsType, ApplyPinType,
     ApplyDeleteType, WantBlobsType, RecvBlobWantType, SendBlobType, RecvBlobType,
     AcknowledgeType, RecvAckType, DropType DEF EndStep
<1> QED
  BY <1>1, <1>2, CrashType, DialType, BreakType, TimePassesType, DeviceOfType DEF Next

LEMMA InitType == Init => TypeOK
<1> SUFFICES ASSUME Init PROVE TypeOK
  OBVIOUS
<1>1. "idle" \in PC \ ({"pushing", "blobs"} \cup Applying)
  BY DEF PC, Awaits, Sending, Applying
<1>2. Ends
  BY <1>1, FitsIdle, IdleType DEF Init, Ends
<1>3. Counters
  BY DEF Init, Counters
<1>4. Stores
  BY DEF Init, Stores, NewClock, ClockState, EmptyTable, Table
<1>5. Wires
  BY DEF Init, Wires, Channels
<1> QED
  BY <1>2, <1>3, <1>4, <1>5, Parts

LEMMA TypeStep == TypeOK /\ [Next]_vars => TypeOK'
<1> SUFFICES ASSUME TypeOK, [Next]_vars PROVE TypeOK'
  OBVIOUS
<1>1. CASE Next
  BY <1>1, NextType
<1>2. CASE UNCHANGED vars
  BY <1>2 DEF vars, TypeOK
<1> QED
  BY <1>1, <1>2

\* Type correctness, for every number of devices, links and clips: in
\* particular an end that is applying a clip never dereferences a row that is
\* not there, and one that is sending always has something to send.
THEOREM TypeInvariant == Spec => []TypeOK
<1>1. Init => TypeOK
  BY InitType
<1>2. TypeOK /\ [Next]_vars => TypeOK'
  BY TypeStep
<1> QED
  BY <1>1, <1>2, PTL DEF Spec

\* Deduplication (Store::insert): at most one live row per content hash on a
\* device, however the lookups and writes of users and sessions interleave.
THEOREM Deduplicated == Spec => []OneLiveRow
<1>1. Init => OneLiveRow
  BY DEF Init, OneLiveRow, EmptyTable, LiveWithHash, WithHash, Ids
<1>2. TypeOK /\ OneLiveRow /\ [Next]_vars => OneLiveRow'
  <2> SUFFICES ASSUME TypeOK, OneLiveRow, [Next]_vars PROVE OneLiveRow'
    OBVIOUS
  <2>1. CASE UNCHANGED table
    BY <2>1 DEF OneLiveRow
  <2>2. CASE \E d \in Device : OneStatement(d)
    <3>1. PICK d \in Device : OneStatement(d)
      BY <2>2
    <3>2. PICK u : Statement(table[d], u) /\ table' = [table EXCEPT ![d] = u]
      BY <3>1 DEF OneStatement
    <3>3. OneLive(table[d]) /\ table[d] \in Table
      BY DEF OneLive, OneLiveRow, TypeOK
    <3>4. OneLive(u)
      BY <3>2, <3>3, StatementTable
    <3> QED
      BY <3>2, <3>4 DEF OneLive, OneLiveRow, TypeOK
  <2> QED
    BY <2>1, <2>2, NextType DEF vars
<1> QED
  BY <1>1, <1>2, TypeInvariant, PTL DEF Spec

------------------------------------------------------------------------------
(***************************************************************************)
(* Provenance: sessions copy timestamps, they never make one.              *)
(*                                                                         *)
(* The invariant is not inductive: a timestamp reaches a table from a Push *)
(* in flight, which came from a list of clips to push, which came from the *)
(* other table; and an update writes to a row found by an earlier lookup.  *)
(* Origin says all four.                                                   *)
(***************************************************************************)

\* The users' operations recorded in lg gave c's content c's timestamp.
Given(lg, c) == \E e \in lg : e.hash = c.hash /\ e.hlc = c.hlc

RowsGiven(lg, t) == \A i \in Ids(t) : Given(lg, t[i])
MessagesGiven(lg, ms) == \A k \in DOMAIN ms : ms[k].type = "Push" => Given(lg, ms[k].pushed.clip)
EndGiven(lg, at, w, t) ==
    /\ at = "pushing" => \A k \in Items(w.todo) : Given(lg, w.todo[k].clip)
    /\ at \in Applying => Given(lg, w.pushed.clip)
    /\ at \in {"pin", "tombstone"} => t[w.target].hash = w.pushed.clip.hash

TablesGiven == \A d \in Device : RowsGiven(log, table[d])
ChansGiven == \A l \in Link, r \in Role : MessagesGiven(log, chan[l][r])
EndsGiven == \A l \in Link, r \in Role :
                EndGiven(log, pc[l][r], work[l][r], table[DeviceOf(l, r)])

Origin == TablesGiven /\ ChansGiven /\ EndsGiven

------------------------------------------------------------------------------
(* The log only grows, so what was given stays given. *)

LEMMA GivenGrows ==
    ASSUME NEW lg, NEW mg, lg \subseteq mg
    PROVE  /\ \A c : Given(lg, c) => Given(mg, c)
           /\ \A t : RowsGiven(lg, t) => RowsGiven(mg, t)
           /\ \A ms : MessagesGiven(lg, ms) => MessagesGiven(mg, ms)
<1>1. \A c : Given(lg, c) => Given(mg, c)
  BY DEF Given
<1> QED
  BY <1>1 DEF RowsGiven, MessagesGiven

LEMMA EndGrows ==
    ASSUME NEW lg, NEW mg, lg \subseteq mg, NEW at, NEW w, NEW t, NEW u,
           Fits(at, w, t), Ages(t, u), EndGiven(lg, at, w, t)
    PROVE  EndGiven(mg, at, w, u)
<1>1. \A c : Given(lg, c) => Given(mg, c)
  BY GivenGrows
<1>2. at \in {"pin", "tombstone"} => u[w.target].hash = t[w.target].hash
  BY DEF Fits, Ages, Ids
<1> QED
  BY <1>1, <1>2 DEF EndGiven

LEMMA EndsGivenStay ==
    ASSUME TypeOK, EndsGiven, Aged, log \subseteq log', UNCHANGED <<pc, work>>
    PROVE  EndsGiven'
BY EndGrows, DeviceOfType DEF EndsGiven, Aged, TypeOK

LEMMA EndsGivenGoto ==
    ASSUME TypeOK, EndsGiven, Aged, UNCHANGED log, NEW l \in Link, NEW r \in Role,
           NEW at, NEW w, Goto(l, r, at, w),
           EndGiven(log, at, w, table'[DeviceOf(l, r)])
    PROVE  EndsGiven'
<1> SUFFICES ASSUME NEW k \in Link, NEW q \in Role
             PROVE  EndGiven(log', pc'[k][q], work'[k][q], table'[DeviceOf(k, q)])
  BY DEF EndsGiven
<1>1. CASE k = l /\ q = r
  <2>1. pc'[k][q] = at /\ work'[k][q] = w
    BY <1>1 DEF Goto, TypeOK
  <2> QED
    BY <1>1, <2>1
<1>2. CASE ~(k = l /\ q = r)
  <2>1. pc'[k][q] = pc[k][q] /\ work'[k][q] = work[k][q]
    BY <1>2 DEF Goto, TypeOK
  <2>2. Fits(pc[k][q], work[k][q], table[DeviceOf(k, q)])
    BY DEF TypeOK
  <2>3. EndGiven(log, pc[k][q], work[k][q], table[DeviceOf(k, q)])
    BY DEF EndsGiven
  <2>4. Ages(table[DeviceOf(k, q)], table'[DeviceOf(k, q)])
    BY DeviceOfType DEF Aged
  <2> QED
    BY <2>1, <2>2, <2>3, <2>4, EndGrows
<1> QED
  BY <1>1, <1>2

\* An end that neither sends clips nor applies one needs nothing.
LEMMA EndFree ==
    ASSUME NEW lg, NEW at, at # "pushing", at \notin Applying, NEW w, NEW t
    PROVE  EndGiven(lg, at, w, t)
BY DEF EndGiven, Applying

LEMMA SendGiven ==
    ASSUME TypeOK, ChansGiven, UNCHANGED log, NEW l \in Link, NEW r \in Role,
           NEW m, m.type = "Push" => Given(log, m.pushed.clip), Send(l, r, m)
    PROVE  ChansGiven'
<1> SUFFICES ASSUME NEW k \in Link, NEW q \in Role
             PROVE  MessagesGiven(log', chan'[k][q])
  BY DEF ChansGiven
<1>1. MessagesGiven(log, chan[k][q]) /\ chan[k][q] \in Seq(Message)
  BY DEF ChansGiven, TypeOK
<1>2. chan'[k][q] = chan[k][q] \/ chan'[k][q] = Append(chan[k][q], m)
  BY OtherType DEF Send, TypeOK
<1>3. MessagesGiven(log, Append(chan[k][q], m))
  BY <1>1 DEF MessagesGiven
<1> QED
  BY <1>1, <1>2, <1>3

LEMMA ExchangeGiven ==
    ASSUME TypeOK, ChansGiven, UNCHANGED log, NEW l \in Link, NEW r \in Role,
           Inbox(l, r) # <<>>, NEW S, NEW ms \in Seq(S),
           \A k \in DOMAIN ms : ms[k].type # "Push", Exchange(l, r, ms)
    PROVE  /\ ChansGiven'
           /\ Head(Inbox(l, r)) \in Message
           /\ Head(Inbox(l, r)).type = "Push" => Given(log, Head(Inbox(l, r)).pushed.clip)
<1>0. chan[l][r] \in Seq(Message) /\ chan[l][r] # <<>> /\ MessagesGiven(log, chan[l][r])
  BY DEF ChansGiven, TypeOK, Inbox
<1>1. /\ Head(Inbox(l, r)) \in Message
      /\ Head(Inbox(l, r)).type = "Push" => Given(log, Head(Inbox(l, r)).pushed.clip)
  <2>1. 1 \in DOMAIN chan[l][r] /\ Head(chan[l][r]) = chan[l][r][1]
    BY <1>0
  <2> QED
    BY <1>0, <2>1 DEF MessagesGiven, Inbox
<1>2. ASSUME NEW k \in Link, NEW q \in Role
      PROVE  MessagesGiven(log', chan'[k][q])
  <2>1. MessagesGiven(log, chan[k][q]) /\ chan[k][q] \in Seq(Message)
    BY DEF ChansGiven, TypeOK
  <2>2. CASE k # l
    BY <2>1, <2>2 DEF Exchange, TypeOK
  <2>3. CASE k = l /\ q = r
    <3>1. chan'[k][q] = Tail(chan[k][q])
      BY <2>3 DEF Exchange, TypeOK
    <3>2. MessagesGiven(log, Tail(chan[k][q]))
      BY <1>0, <2>1, <2>3 DEF MessagesGiven
    <3> QED
      BY <3>1, <3>2
  <2>4. CASE k = l /\ q # r
    <3>1. chan'[k][q] = chan[k][q] \o ms
      BY <2>4 DEF Exchange, TypeOK
    <3>2. MessagesGiven(log, chan[k][q] \o ms)
      BY <2>1 DEF MessagesGiven
    <3> QED
      BY <3>1, <3>2
  <2> QED
    BY <2>2, <2>3, <2>4
<1> QED
  BY <1>1, <1>2 DEF ChansGiven

------------------------------------------------------------------------------
(* Writes. *)

\* A user's operation logs every row it writes.
LEMMA RecordGiven ==
    ASSUME TypeOK, Origin, NEW d \in Device, OneStatement(d), Record(d),
           UNCHANGED <<chan, pc, work>>
    PROVE  Origin'
<1>1. table' \in [Device -> Table] /\ Aged
  BY OneStatementTable DEF TypeOK
<1>2. log \subseteq log'
  BY DEF Record
<1>3. ASSUME NEW e \in Device PROVE RowsGiven(log', table'[e])
  <2>1. RowsGiven(log', table[e])
    BY <1>2, GivenGrows DEF Origin, TablesGiven
  <2>2. CASE e # d
    BY <2>1, <2>2 DEF OneStatement, TypeOK
  <2>3. CASE e = d
    <3>1. ASSUME NEW i \in Ids(table'[d]) PROVE Given(log', table'[d][i])
      <4>1. CASE table'[d][i] = table[d][i]
        BY <2>1, <2>3, <4>1 DEF RowsGiven, Ids
      <4>2. CASE table'[d][i] # table[d][i]
        <5>1. table'[d][i] \in log'
          BY <4>2 DEF Record, Written, Ids
        <5> QED
          BY <5>1 DEF Given
      <4> QED
        BY <4>1, <4>2
    <3> QED
      BY <2>3, <3>1 DEF RowsGiven
  <2> QED
    BY <2>2, <2>3
<1>4. EndsGiven'
  BY <1>1, <1>2, EndsGivenStay DEF Origin
<1>5. ChansGiven'
  BY <1>2, GivenGrows DEF Origin, ChansGiven
<1> QED
  BY <1>3, <1>4, <1>5 DEF Origin, TablesGiven

\* The statements of a session write timestamps that were given.
LEMMA InsertGiven ==
    ASSUME NEW lg, NEW t \in Table, RowsGiven(lg, t), NEW i \in Id, NEW c \in Row, Given(lg, c)
    PROVE  RowsGiven(lg, Insert(t, i, c))
<1>1. CASE LiveWithHash(t, c.hash) # {}
  <2> DEFINE e == CHOOSE j \in LiveWithHash(t, c.hash) : TRUE
  <2>1. e \in LiveWithHash(t, c.hash)
    BY <1>1
  <2>2. e \in Id /\ t[e] \in Row /\ t[e].hash = c.hash
    BY <2>1 DEF LiveWithHash, WithHash, Ids, Table
  <2>3. Insert(t, i, c) = [t EXCEPT ![e] = [t[e] EXCEPT !.hlc = c.hlc]]
    BY <1>1 DEF Insert
  <2> HIDE DEF e
  <2> QED
    BY <2>2, <2>3 DEF RowsGiven, Given, Ids, Table, Row
<1>2. CASE LiveWithHash(t, c.hash) = {}
  BY <1>2 DEF Insert, RowsGiven, Ids, Table
<1> QED
  BY <1>1, <1>2

LEMMA SetPinnedGiven ==
    ASSUME NEW lg, NEW t \in Table, RowsGiven(lg, t), NEW i \in Ids(t), NEW p \in BOOLEAN,
           NEW c \in Row, Given(lg, c), t[i].hash = c.hash
    PROVE  RowsGiven(lg, SetPinned(t, i, p, c.hlc))
<1>1. i \in Id /\ t[i] \in Row
  BY DEF Ids, Table
<1> QED
  BY <1>1 DEF SetPinned, RowsGiven, Given, Ids, Table, Row

LEMMA DeleteGiven ==
    ASSUME NEW lg, NEW t \in Table, RowsGiven(lg, t), NEW i \in Ids(t),
           NEW c \in Row, Given(lg, c), t[i].hash = c.hash
    PROVE  RowsGiven(lg, Delete(t, i, c.hlc))
<1>1. i \in Id /\ t[i] \in Row
  BY DEF Ids, Table
<1> QED
  BY <1>1 DEF Delete, RowsGiven, Given, Ids, Table, Row

LEMMA ApplyGiven ==
    ASSUME TypeOK, Origin, NEW l \in Link, NEW r \in Role, NEW at, NEW w, NEW u,
           OneStatement(DeviceOf(l, r)),
           table' = [table EXCEPT ![DeviceOf(l, r)] = u], RowsGiven(log, u),
           Goto(l, r, at, w), UNCHANGED <<chan, log>>,
           Aged => EndGiven(log, at, w, table'[DeviceOf(l, r)])
    PROVE  Origin'
<1>1. Aged
  BY OneStatementTable, DeviceOfType DEF TypeOK
<1>2. EndsGiven'
  BY <1>1, EndsGivenGoto DEF Origin
<1>3. TablesGiven'
  BY DEF Origin, TablesGiven, TypeOK
<1> QED
  BY <1>2, <1>3 DEF Origin, ChansGiven

LEMMA ApplyInsertGiven ==
    ASSUME TypeOK, Origin, NEW l \in Link, NEW r \in Role, ApplyInsert(l, r)
    PROVE  Origin'
<1> DEFINE w == work[l][r]
           d == DeviceOf(l, r)
           u == Insert(table[d], w.pushed.id, w.pushed.clip)
<1>1. w.pushed \in Pushed /\ table[d] \in Table
  BY DeviceOfType DEF TypeOK, Fits, ApplyInsert, Applying
<1>2. RowsGiven(log, table[d]) /\ Given(log, w.pushed.clip)
  BY DeviceOfType DEF Origin, TablesGiven, EndsGiven, EndGiven, ApplyInsert, Applying
<1>3. RowsGiven(log, u)
  BY <1>1, <1>2, InsertGiven DEF Pushed
<1>4. EndGiven(log, "push", Applied(w), table'[d])
  BY EndFree DEF Applying
<1> QED
  BY <1>3, <1>4, ApplyInsertType, ApplyGiven DEF ApplyInsert

LEMMA ApplyPinGiven ==
    ASSUME TypeOK, Origin, NEW l \in Link, NEW r \in Role, ApplyPin(l, r)
    PROVE  Origin'
<1> DEFINE w == work[l][r]
           d == DeviceOf(l, r)
           u == SetPinned(table[d], w.target, w.pushed.clip.pinned, w.pushed.clip.hlc)
<1>1. w.pushed \in Pushed /\ table[d] \in Table /\ w.target \in Ids(table[d])
  BY DeviceOfType DEF TypeOK, Fits, ApplyPin, Applying
<1>2. /\ RowsGiven(log, table[d]) /\ Given(log, w.pushed.clip)
      /\ table[d][w.target].hash = w.pushed.clip.hash
  BY DeviceOfType DEF Origin, TablesGiven, EndsGiven, EndGiven, ApplyPin, Applying
<1>3. w.pushed.clip \in Row /\ w.pushed.clip.pinned \in BOOLEAN
  BY <1>1 DEF Pushed, Row
<1>4. RowsGiven(log, u) /\ table' = [table EXCEPT ![d] = u]
  BY <1>1, <1>2, <1>3, SetPinnedGiven DEF ApplyPin
<1>5. OneStatement(d)
  BY ApplyPinType
<1>6. UNCHANGED <<chan, log>>
  BY SMTT(30) DEF ApplyPin
<1>7. CASE w.pushed.clip.deleted
  <2>1. ASSUME Aged PROVE EndGiven(log, "tombstone", w, table'[d])
    <3>1. Ages(table[d], table'[d])
      BY <2>1, DeviceOfType DEF Aged
    <3>2. table'[d][w.target].hash = table[d][w.target].hash
      BY <1>1, <3>1, Zenon DEF Ages, Ids
    <3> QED
      BY <1>2, <3>2 DEF EndGiven
  <2>2. Goto(l, r, "tombstone", w)
    BY <1>7 DEF ApplyPin
  <2> QED
    BY <1>4, <1>5, <1>6, <2>1, <2>2, ApplyGiven
<1>8. CASE ~w.pushed.clip.deleted
  <2>1. EndGiven(log, "push", Applied(w), table'[d])
    BY EndFree DEF Applying
  <2>2. Goto(l, r, "push", Applied(w))
    BY <1>8, SMTT(30) DEF ApplyPin
  <2> QED
    BY <1>4, <1>5, <1>6, <2>1, <2>2, ApplyGiven, Zenon
<1> QED
  BY <1>7, <1>8

LEMMA ApplyDeleteGiven ==
    ASSUME TypeOK, Origin, NEW l \in Link, NEW r \in Role, ApplyDelete(l, r)
    PROVE  Origin'
<1> DEFINE w == work[l][r]
           d == DeviceOf(l, r)
           u == Delete(table[d], w.target, w.pushed.clip.hlc)
<1>1. w.pushed \in Pushed /\ table[d] \in Table /\ w.target \in Ids(table[d])
  BY DeviceOfType DEF TypeOK, Fits, ApplyDelete, Applying
<1>2. /\ RowsGiven(log, table[d]) /\ Given(log, w.pushed.clip)
      /\ table[d][w.target].hash = w.pushed.clip.hash
  BY DeviceOfType DEF Origin, TablesGiven, EndsGiven, EndGiven, ApplyDelete, Applying
<1>3. RowsGiven(log, u)
  BY <1>1, <1>2, DeleteGiven DEF Pushed
<1>4. EndGiven(log, "push", Applied(w), table'[d])
  BY EndFree DEF Applying
<1> QED
  BY <1>3, <1>4, ApplyDeleteType, ApplyGiven DEF ApplyDelete

------------------------------------------------------------------------------
(* Messages. *)

\* A step that moves one end and its messages and writes no row.
LEMMA MoveGiven ==
    ASSUME TypeOK, Origin, NEW l \in Link, NEW r \in Role, NEW at, NEW w,
           Goto(l, r, at, w), UNCHANGED <<table, log>>, ChansGiven',
           EndGiven(log, at, w, table[DeviceOf(l, r)])
    PROVE  Origin'
<1>1. Aged
  BY AgesRefl DEF Aged
<1>2. EndsGiven'
  BY <1>1, EndsGivenGoto DEF Origin
<1> QED
  BY <1>2 DEF Origin, TablesGiven

\* The same, to a position that holds no clip.
LEMMA PlainMove ==
    ASSUME TypeOK, Origin, NEW l \in Link, NEW r \in Role, NEW at, NEW w,
           Goto(l, r, at, w), at # "pushing", at \notin Applying,
           UNCHANGED <<table, log>>, ChansGiven'
    PROVE  Origin'
BY EndFree, MoveGiven

\* Transmissions and receptions that carry no clip.
LEMMA NotPush ==
    /\ Hello.type # "Push" /\ Ack.type # "Push"
    /\ \A x : Summary(x).type # "Push" /\ Want(x).type # "Push" /\ Blob(x).type # "Push"
BY DEF Hello, Ack, Summary, Want, Blob

\* A step that takes an end to a position that holds no clip.
Plain(l, r) == \E at, w : Goto(l, r, at, w) /\ at # "pushing" /\ at \notin Applying

LEMMA PlainSends ==
    ASSUME NEW l \in Link, NEW r \in Role,
           Offer(l, r) \/ WantBlobs(l, r) \/ SendBlob(l, r) \/ Acknowledge(l, r)
    PROVE  (\E m : Send(l, r, m) /\ m.type # "Push") /\ Plain(l, r)
<1>1. \E m : Send(l, r, m) /\ m.type # "Push"
  <2>1. CASE Offer(l, r)
    BY <2>1, NotPush, SMTT(30) DEF Offer
  <2>2. CASE WantBlobs(l, r)
    BY <2>2, NotPush DEF WantBlobs
  <2>3. CASE SendBlob(l, r)
    BY <2>3, NotPush DEF SendBlob
  <2>4. CASE Acknowledge(l, r)
    BY <2>4, NotPush DEF Acknowledge
  <2> QED
    BY <2>1, <2>2, <2>3, <2>4
<1>2. Plain(l, r)
  BY DEF Plain, Offer, WantBlobs, SendBlob, Acknowledge, Until, Applying
<1> QED
  BY <1>1, <1>2

LEMMA PlainSend ==
    ASSUME TypeOK, Origin, NEW l \in Link, NEW r \in Role,
           Offer(l, r) \/ WantBlobs(l, r) \/ SendBlob(l, r) \/ Acknowledge(l, r)
    PROVE  Origin'
<1>0. UNCHANGED <<table, log>> /\ ChansGiven
  BY DEF Offer, WantBlobs, SendBlob, Acknowledge, SessionOnly, Origin
<1>1. ChansGiven'
  BY <1>0, PlainSends, SendGiven
<1> QED
  BY <1>0, <1>1, PlainSends, PlainMove DEF Plain

\* An end that receives answers with one message that is no Push, or none.
Answers(l, r) ==
    \/ Exchange(l, r, <<>>)
    \/ \E m : m.type # "Push" /\ Exchange(l, r, <<m>>)

LEMMA AnswersGiven ==
    ASSUME TypeOK, ChansGiven, UNCHANGED log, NEW l \in Link, NEW r \in Role,
           Inbox(l, r) # <<>>, Answers(l, r)
    PROVE  /\ ChansGiven'
           /\ Head(Inbox(l, r)) \in Message
           /\ Head(Inbox(l, r)).type = "Push" => Given(log, Head(Inbox(l, r)).pushed.clip)
<1>1. CASE Exchange(l, r, <<>>)
  <2>1. <<>> \in Seq(Message) /\ \A k \in DOMAIN <<>> : <<>>[k].type # "Push"
    OBVIOUS
  <2> QED
    BY <1>1, <2>1, ExchangeGiven
<1>2. ASSUME NEW m, m.type # "Push", Exchange(l, r, <<m>>)
      PROVE  /\ ChansGiven'
             /\ Head(Inbox(l, r)) \in Message
             /\ Head(Inbox(l, r)).type = "Push" => Given(log, Head(Inbox(l, r)).pushed.clip)
  <2>1. <<m>> \in Seq({m}) /\ \A k \in DOMAIN <<m>> : <<m>>[k].type # "Push"
    BY <1>2
  <2> QED
    BY <1>2, <2>1, ExchangeGiven
<1> QED
  BY <1>1, <1>2 DEF Answers

LEMMA PlainReceives ==
    ASSUME NEW l \in Link, NEW r \in Role,
           \/ RecvHello(l, r) \/ RecvSummary(l, r) \/ RecvBlobWant(l, r)
           \/ RecvBlob(l, r) \/ RecvAck(l, r)
    PROVE  Answers(l, r) /\ Plain(l, r)
<1>1. CASE RecvHello(l, r)
  <2>1. Answers(l, r)
    BY <1>1, NotPush DEF RecvHello, Answers
  <2>2. Plain(l, r)
    BY <1>1 DEF Plain, RecvHello, Applying
  <2> QED
    BY <2>1, <2>2
<1>2. CASE RecvSummary(l, r)
  <2>1. Answers(l, r)
    BY <1>2, NotPush DEF RecvSummary, Answers
  <2>2. \E w : Goto(l, r, "push", w)
    BY <1>2 DEF RecvSummary
  <2>3. "push" # "pushing" /\ "push" \notin Applying
    BY DEF Applying
  <2>4. Plain(l, r)
    BY <2>2, <2>3, Zenon DEF Plain
  <2> QED
    BY <2>1, <2>4
<1>3. CASE RecvBlobWant(l, r)
  <2> DEFINE asked == Head(Inbox(l, r)).hashes
             at == Until(asked, "blobs", "ack")
             w == [Idle EXCEPT !.todo = asked]
  <2>1. Goto(l, r, at, w) /\ Answers(l, r)
    BY <1>3 DEF RecvBlobWant, Answers
  <2>2. at # "pushing" /\ at \notin Applying
    BY DEF Until, Applying
  <2> HIDE DEF at, w
  <2> QED
    BY <2>1, <2>2, Zenon DEF Plain
<1>4. CASE RecvBlob(l, r)
  <2> DEFINE w == [Idle EXCEPT !.todo = Rest(work[l][r].todo)]
  <2>1. Goto(l, r, "blob", w) /\ Answers(l, r)
    BY <1>4 DEF RecvBlob, Answers
  <2>2. "blob" # "pushing" /\ "blob" \notin Applying
    BY DEF Applying
  <2> HIDE DEF w
  <2> QED
    BY <2>1, <2>2, Zenon DEF Plain
<1>5. CASE RecvAck(l, r)
  BY <1>5 DEF Plain, RecvAck, Answers, Applying
<1> QED
  BY <1>1, <1>2, <1>3, <1>4, <1>5

LEMMA PlainReceive ==
    ASSUME TypeOK, Origin, NEW l \in Link, NEW r \in Role,
           \/ RecvHello(l, r) \/ RecvSummary(l, r) \/ RecvBlobWant(l, r)
           \/ RecvBlob(l, r) \/ RecvAck(l, r)
    PROVE  Origin'
<1>0. UNCHANGED <<table, log>> /\ ChansGiven /\ Inbox(l, r) # <<>>
  BY DEF RecvHello, RecvSummary, RecvBlobWant, RecvBlob, RecvAck, Receives, SessionOnly, Origin
<1>1. ChansGiven'
  BY <1>0, PlainReceives, AnswersGiven
<1> QED
  BY <1>0, <1>1, PlainReceives, PlainMove DEF Plain

\* The clips to push are rows of the table as it is now.
LEMMA RecvWantGoes ==
    ASSUME TypeOK, NEW l \in Link, NEW r \in Role, Head(Inbox(l, r)) \in Message,
           RecvWant(l, r)
    PROVE  \E c : LET t == table[DeviceOf(l, r)] IN
               /\ Goto(l, r, Until(c, "pushing", "blobwant"), [Idle EXCEPT !.todo = c])
               /\ \A k \in Items(c) : \E i \in Ids(t) :
                      /\ c[k].clip = t[i]
                      /\ i \in HalfWritten(DeviceOf(l, r)) => t[i].hash \in raced'
<1> DEFINE t == table[DeviceOf(l, r)]
           hashes == Head(Inbox(l, r)).hashes
           have(found) == {k \in Items(hashes) : found[hashes[k]] # None}
           clips(found) == [k \in Pos |->
                           IF k \in have(found)
                           THEN [id |-> found[hashes[k]], clip |-> t[found[hashes[k]]]]
                           ELSE None]
           at(c) == Until(c, "pushing", "blobwant")
<1>1. PICK found \in Lookups(t) :
          /\ Goto(l, r, at(clips(found)), [Idle EXCEPT !.todo = clips(found)])
          /\ raced' = raced \cup {hashes[k] : k \in {j \in have(found) :
                                found[hashes[j]] \in HalfWritten(DeviceOf(l, r))}}
  BY Zenon DEF RecvWant
<1>2. hashes \in List(Hash) /\ t \in Table
  BY MessageFields, DeviceOfType, Zenon DEF TypeOK, RecvWant, Receives
<1>3. \A k \in have(found) :
         /\ found[hashes[k]] \in Ids(t) /\ t[found[hashes[k]]].hash = hashes[k]
         /\ found[hashes[k]] \in HalfWritten(DeviceOf(l, r)) => hashes[k] \in raced'
  <2> SUFFICES ASSUME NEW k \in have(found)
               PROVE  /\ found[hashes[k]] \in Ids(t) /\ t[found[hashes[k]]].hash = hashes[k]
                      /\ found[hashes[k]] \in HalfWritten(DeviceOf(l, r)) => hashes[k] \in raced'
    OBVIOUS
  <2>1. found[hashes[k]] \in HalfWritten(DeviceOf(l, r)) => hashes[k] \in raced'
    BY <1>1
  <2>2. hashes[k] \in Hash /\ found[hashes[k]] # None
    BY <1>2 DEF List, Items
  <2> HIDE DEF t, hashes
  <2>3. found[hashes[k]] \in Ids(t) /\ t[found[hashes[k]]].hash = hashes[k]
    BY <1>2, <2>2, LookupType
  <2> QED
    BY <2>1, <2>3
<1>4. \A k \in Items(clips(found)) : \E i \in Ids(t) :
         /\ clips(found)[k].clip = t[i]
         /\ i \in HalfWritten(DeviceOf(l, r)) => t[i].hash \in raced'
  BY <1>3 DEF Items
<1> HIDE DEF clips, have, t
<1> QED
  BY <1>1, <1>4, Zenon DEF t

LEMMA RecvWantGiven ==
    ASSUME TypeOK, Origin, NEW l \in Link, NEW r \in Role, RecvWant(l, r)
    PROVE  Origin'
<1> DEFINE t == table[DeviceOf(l, r)]
           at(c) == Until(c, "pushing", "blobwant")
<1>1. UNCHANGED <<table, log>> /\ ChansGiven /\ Inbox(l, r) # <<>> /\ Answers(l, r)
  BY Zenon DEF RecvWant, Receives, SessionOnly, Origin, Answers
<1>2. ChansGiven' /\ Head(Inbox(l, r)) \in Message
  BY <1>1, AnswersGiven
<1>3. PICK c : /\ Goto(l, r, at(c), [Idle EXCEPT !.todo = c])
               /\ \A k \in Items(c) : \E i \in Ids(t) :
                      /\ c[k].clip = t[i]
                      /\ i \in HalfWritten(DeviceOf(l, r)) => t[i].hash \in raced'
  BY <1>2, RecvWantGoes, Zenon
<1>4. \A k \in Items(c) : Given(log, c[k].clip)
  BY <1>3, DeviceOfType DEF Origin, TablesGiven, RowsGiven
<1>5. EndGiven(log, at(c), [Idle EXCEPT !.todo = c], t)
  BY <1>4 DEF EndGiven, Until, Applying, Idle
<1> QED
  BY <1>1, <1>2, <1>3, <1>5, MoveGiven

LEMMA SendPushGiven ==
    ASSUME TypeOK, Origin, NEW l \in Link, NEW r \in Role, SendPush(l, r)
    PROVE  Origin'
<1> DEFINE todo == work[l][r].todo
           at == Until(Rest(todo), "pushing", "blobwant")
<1>1. UNCHANGED <<table, log>> /\ ChansGiven
  BY DEF SendPush, SessionOnly, Origin
<1>2. todo \in List(Pushed) /\ todo # EmptyList
  BY DEF SendPush, TypeOK, Fits
<1>3. \A k \in Items(todo) : Given(log, todo[k].clip)
  BY DEF SendPush, Origin, EndsGiven, EndGiven
<1>4. First(todo) \in Items(todo) /\ First(todo) \in Pos
  BY <1>2, FirstItem
<1>5. Send(l, r, Push(todo[First(todo)])) /\ Goto(l, r, at, [Idle EXCEPT !.todo = Rest(todo)])
  BY DEF SendPush
<1> HIDE DEF todo
<1>6. ChansGiven'
  BY <1>1, <1>3, <1>4, <1>5, SendGiven DEF Push
<1>7. \A k \in Items(Rest(todo)) : Given(log, Rest(todo)[k].clip)
  BY <1>2, <1>3, <1>4 DEF Items, Rest, List
<1>8. EndGiven(log, at, [Idle EXCEPT !.todo = Rest(todo)], table[DeviceOf(l, r)])
  BY <1>7 DEF EndGiven, Until, Applying, Idle
<1> QED
  BY <1>1, <1>5, <1>6, <1>8, MoveGiven

LEMMA RecvPushGiven ==
    ASSUME TypeOK, Origin, NEW l \in Link, NEW r \in Role, RecvPush(l, r)
    PROVE  Origin'
<1> DEFINE t == table[DeviceOf(l, r)]
           w == work[l][r]
           p == Head(Inbox(l, r)).pushed
           action(i) == Merge(IF i = None THEN None ELSE t[i], p.clip)
<1>1. UNCHANGED <<table, log>> /\ ChansGiven /\ Inbox(l, r) # <<>> /\ Answers(l, r)
  BY Zenon DEF RecvPush, Receives, SessionOnly, Origin, Answers
<1>2. ChansGiven' /\ Head(Inbox(l, r)) \in Message /\ Head(Inbox(l, r)).type = "Push"
      /\ Given(log, p.clip)
  BY <1>1, AnswersGiven, Zenon DEF RecvPush, Receives
<1>3. p \in Pushed /\ t \in Table /\ p.clip.hash \in Hash
  BY <1>2, MessageFields, DeviceOfType, Zenon DEF TypeOK, Pushed, Row
<1>4. w \in Work
  BY DEF TypeOK
<1>5. PICK found \in Lookups(t) :
          LET i == found[p.clip.hash]
          IN  CASE action(i) = "Insert" -> Goto(l, r, "insert", [w EXCEPT !.pushed = p])
                [] action(i) = "UpdateMetadata" ->
                       Goto(l, r, "pin", [w EXCEPT !.pushed = p, !.target = i])
                [] action(i) = "Ignore" -> Goto(l, r, "push", [w EXCEPT !.todo = Rest(@)])
  BY Zenon DEF RecvPush
<1> DEFINE i == found[p.clip.hash]
<1>6. i # None => t[i].hash = p.clip.hash
  BY <1>3, LookupType
<1> HIDE DEF w, p, t
<1>7. CASE action(i) = "Insert"
  <2>1. Goto(l, r, "insert", [w EXCEPT !.pushed = p])
    BY <1>5, <1>7
  <2>2. EndGiven(log, "insert", [w EXCEPT !.pushed = p], t)
    BY <1>2, <1>4 DEF EndGiven, Work
  <2> QED
    BY <1>1, <1>2, <2>1, <2>2, MoveGiven DEF t
<1>8. CASE action(i) = "UpdateMetadata"
  <2>0. i # None
    BY <1>8 DEF Merge
  <2>1. Goto(l, r, "pin", [w EXCEPT !.pushed = p, !.target = i])
    BY <1>5, <1>8
  <2>2. EndGiven(log, "pin", [w EXCEPT !.pushed = p, !.target = i], t)
    BY <1>2, <1>4, <1>6, <2>0 DEF EndGiven, Work
  <2> QED
    BY <1>1, <1>2, <2>1, <2>2, MoveGiven DEF t
<1>9. CASE action(i) = "Ignore"
  <2> DEFINE v == [w EXCEPT !.todo = Rest(@)]
  <2>1. Goto(l, r, "push", v)
    BY <1>5, <1>9
  <2>2. "push" # "pushing" /\ "push" \notin Applying
    BY DEF Applying
  <2> HIDE DEF v
  <2> QED
    BY <1>1, <1>2, <2>1, <2>2, PlainMove
<1> QED
  BY <1>7, <1>8, <1>9 DEF Merge

------------------------------------------------------------------------------
(* Connections come and go. *)

\* A step after which a channel is empty or as it was, and an end idle or as
\* it was.
LEMMA ResetGiven ==
    ASSUME TypeOK, Origin, UNCHANGED <<table, log>>,
           \A l \in Link, r \in Role :
               /\ MessagesGiven(log, chan'[l][r]) \/ chan'[l][r] = chan[l][r]
               /\ \/ pc'[l][r] \in {"idle", "hello"}
                  \/ pc'[l][r] = pc[l][r] /\ work'[l][r] = work[l][r]
    PROVE  Origin'
<1>1. ChansGiven'
  BY DEF Origin, ChansGiven
<1>2. EndsGiven'
  <2> SUFFICES ASSUME NEW l \in Link, NEW r \in Role
               PROVE  EndGiven(log, pc'[l][r], work'[l][r], table[DeviceOf(l, r)])
    BY DEF EndsGiven
  <2>1. CASE pc'[l][r] \in {"idle", "hello"}
    BY <2>1, EndFree DEF Applying
  <2>2. CASE pc'[l][r] = pc[l][r] /\ work'[l][r] = work[l][r]
    BY <2>2 DEF Origin, EndsGiven
  <2> QED
    BY <2>1, <2>2
<1> QED
  BY <1>1, <1>2 DEF Origin, TablesGiven

LEMMA EmptyGiven == \A lg : MessagesGiven(lg, <<>>) /\ MessagesGiven(lg, <<Hello>>)
BY NotPush DEF MessagesGiven

LEMMA LinkGiven ==
    ASSUME TypeOK, Origin, NEW l \in Link, Dial(l) \/ Break(l)
    PROVE  Origin'
<1>1. CASE Dial(l)
  <2>1. UNCHANGED <<table, log>>
    BY <1>1 DEF Dial
  <2>2. ASSUME NEW k \in Link, NEW q \in Role
        PROVE  /\ MessagesGiven(log, chan'[k][q]) \/ chan'[k][q] = chan[k][q]
               /\ \/ pc'[k][q] \in {"idle", "hello"}
                  \/ pc'[k][q] = pc[k][q] /\ work'[k][q] = work[k][q]
    <3>1. chan'[k][q] \in {<<>>, <<Hello>>, chan[k][q]}
      BY <1>1 DEF Dial, TypeOK
    <3>2. \/ pc'[k][q] \in {"idle", "hello"}
          \/ pc'[k][q] = pc[k][q] /\ work'[k][q] = work[k][q]
      BY <1>1 DEF Dial, TypeOK
    <3> QED
      BY <3>1, <3>2, EmptyGiven
  <2> QED
    BY <2>1, <2>2, ResetGiven
<1>2. CASE Break(l)
  <2>1. UNCHANGED <<table, log, pc, work>>
    BY <1>2 DEF Break
  <2>2. \A k \in Link, q \in Role : chan'[k][q] \in {<<>>, chan[k][q]}
    BY <1>2 DEF Break, Cut, TypeOK
  <2> QED
    BY <2>1, <2>2, EmptyGiven, ResetGiven
<1> QED
  BY <1>1, <1>2

LEMMA EndResetGiven ==
    ASSUME TypeOK, Origin, NEW l \in Link, NEW r \in Role, Drop(l, r) \/ ApplyInsertFails(l, r)
    PROVE  Origin'
<1>1. UNCHANGED <<table, log>> /\ Goto(l, r, "idle", Idle)
  BY DEF Drop, ApplyInsertFails
<1>2. \A k \in Link, q \in Role : chan'[k][q] \in {<<>>, chan[k][q]}
  <2>1. CASE Drop(l, r)
    BY <2>1 DEF Drop
  <2>2. CASE ApplyInsertFails(l, r)
    BY <2>2 DEF ApplyInsertFails, Cut, TypeOK
  <2> QED
    BY <2>1, <2>2
<1>3. \A k \in Link, q \in Role :
          \/ pc'[k][q] \in {"idle", "hello"}
          \/ pc'[k][q] = pc[k][q] /\ work'[k][q] = work[k][q]
  BY <1>1 DEF Goto, TypeOK
<1> QED
  BY <1>1, <1>2, <1>3, EmptyGiven, ResetGiven

LEMMA CrashGiven ==
    ASSUME TypeOK, Origin, NEW d \in Device, Crash(d)
    PROVE  Origin'
<1>1. UNCHANGED <<table, log>>
  BY DEF Crash
<1>2. \A k \in Link, q \in Role : chan'[k][q] \in {<<>>, chan[k][q]}
  BY DEF Crash, TypeOK
<1>3. \A k \in Link, q \in Role :
          \/ pc'[k][q] \in {"idle", "hello"}
          \/ pc'[k][q] = pc[k][q] /\ work'[k][q] = work[k][q]
  BY DEF Crash, TypeOK
<1> QED
  BY <1>1, <1>2, <1>3, EmptyGiven, ResetGiven

------------------------------------------------------------------------------
\* Origin is inductive, given the types.
LEMMA OriginStep ==
    ASSUME TypeOK, Origin, [Next]_vars
    PROVE  Origin'
<1>1. ASSUME NEW d \in Device, LocalStep(d) PROVE Origin'
  <2>1. OneStatement(d)
    BY <1>1, CaptureType, PinClipType, DeleteClipType DEF LocalStep
  <2>2. Record(d) /\ UNCHANGED <<chan, pc, work>>
    BY <1>1 DEF LocalStep, Capture, PinClip, DeleteClip, LocalEvent, linkVars
  <2> QED
    BY <2>1, <2>2, RecordGiven
<1>2. ASSUME NEW l \in Link, NEW r \in Role, EndStep(l, r) PROVE Origin'
  BY <1>2, PlainSend, PlainReceive, RecvWantGiven, SendPushGiven, RecvPushGiven,
     ApplyInsertGiven, ApplyPinGiven, ApplyDeleteGiven, EndResetGiven DEF EndStep
<1>3. CASE TimePasses \/ UNCHANGED vars
  <2>1. UNCHANGED <<table, log, chan, pc, work>>
    BY <1>3 DEF TimePasses, linkVars, vars
  <2> QED
    BY <2>1, ResetGiven
<1> QED
  BY <1>1, <1>2, <1>3, LinkGiven, CrashGiven DEF Next

LEMMA OriginInit == Init => Origin
<1> SUFFICES ASSUME Init PROVE Origin
  OBVIOUS
<1>1. TablesGiven
  BY DEF Init, TablesGiven, RowsGiven, Ids, EmptyTable
<1>2. ChansGiven
  BY EmptyGiven DEF Init, ChansGiven
<1>3. EndsGiven
  BY EndFree DEF Init, EndsGiven, Applying
<1> QED
  BY <1>1, <1>2, <1>3 DEF Origin

\* Nothing but a user's operation makes a timestamp: whatever apply() writes
\* into whichever row, with whatever interleaving, crash or restart, the
\* timestamp was given to that content by a user (sync.rs apply, store.rs).
THEOREM ProvenanceHolds == Spec => []Provenance
<1>1. Init => Origin
  BY OriginInit
<1>2. TypeOK /\ Origin /\ [Next]_vars => Origin'
  BY OriginStep
<1>3. Origin => Provenance
  BY DEF Origin, TablesGiven, RowsGiven, Given, Provenance
<1> QED
  BY <1>1, <1>2, <1>3, TypeInvariant, PTL DEF Spec

------------------------------------------------------------------------------
(***************************************************************************)
(* Last writer wins: StampMeansState.                                      *)
(*                                                                         *)
(* Clocks says that the timestamp of the next operation is new, so that it *)
(* can only mean what that operation wrote.  Meaning follows a clip from   *)
(* table to table as Origin does, and adds what the two halves of apply()  *)
(* owe each other: unless another task wrote the content between lookup    *)
(* and write (it is in raced), an insert does not deduplicate; and between *)
(* set_pinned and delete the row being deleted has the clip's timestamp    *)
(* and pin.                                                                *)
(***************************************************************************)

\* The operations recorded in lg that gave c's content c's timestamp left it
\* pinned as c is, and did not delete it unless c is deleted; unless it is one
\* of the contents rc that raced.
Meant(lg, rc, c) ==
    c.hash \notin rc =>
        \A e \in lg : e.hash = c.hash /\ e.hlc = c.hlc =>
            e.pinned = c.pinned /\ (e.deleted => c.deleted)

MessagesMeant(lg, rc, ms) ==
    \A k \in DOMAIN ms : ms[k].type = "Push" => Meant(lg, rc, ms[k].pushed.clip)
RowsMeant(lg, rc, half, t) == \A i \in Ids(t) \ half : Meant(lg, rc, t[i])
EndMeant(lg, rc, at, w, t) ==
    /\ at = "pushing" => \A k \in Items(w.todo) : Meant(lg, rc, w.todo[k].clip)
    /\ at \in Applying => Meant(lg, rc, w.pushed.clip)
    /\ at = "insert" => w.pushed.clip.hash \in rc \/ WithHash(t, w.pushed.clip.hash) = {}
    /\ at = "tombstone" =>
          \/ w.pushed.clip.hash \in rc
          \/ /\ t[w.target].hlc = w.pushed.clip.hlc
             /\ t[w.target].pinned = w.pushed.clip.pinned

TablesMeant == \A d \in Device : RowsMeant(log, raced, HalfWritten(d), table[d])
ChansMeant == \A l \in Link, r \in Role : MessagesMeant(log, raced, chan[l][r])
EndsMeant == \A l \in Link, r \in Role :
                EndMeant(log, raced, pc[l][r], work[l][r], table[DeviceOf(l, r)])

Meaning == TablesMeant /\ ChansMeant /\ EndsMeant

\* The timestamps a device gave are behind its clock or, since the daemon
\* started, behind its wall clock; and the clock has counters left for the
\* operations to come.
Past(h, c) == h.wall < c.wall \/ (h.wall = c.wall /\ h.counter <= c.counter)
ClockAhead(d) ==
    /\ clock[d].counter + MaxOps <= MaxCounter + ops
    /\ clock[d].wall <= Physical(d)
    /\ \A e \in log : e.hlc.device = d =>
          /\ e.hlc.wall <= Physical(d)
          /\ Past(e.hlc, clock[d]) \/ e.hlc.wall < Physical(d)
Clocks == \A d \in Device : ClockAhead(d)

------------------------------------------------------------------------------
\* A clock goes from state c to n at physical time p: what was past stays past,
\* and the next stamp is none of the past while there are counters left.
Ticks(c, n, p) ==
    /\ n \in ClockState
    /\ n.counter <= c.counter + 1
    /\ n.wall <= p
    /\ \A h \in Hlc : Past(h, c) => Past(h, n)
    /\ \A h \in Hlc, d \in Device :
           (Past(h, c) \/ h.wall < p) /\ c.counter < MaxCounter => h # StampOf(n, d)
    /\ \A d \in Device :
           LET h == StampOf(n, d) IN Past(h, n) /\ h.device = d /\ h.wall <= p

LEMMA NowTicks ==
    ASSUME NEW c \in ClockState, NEW p \in Nat, c.wall <= p
    PROVE  Ticks(c, Now(c, p), p)
<1> DEFINE n == Now(c, p)
<1>1. c.wall \in Nat /\ c.counter \in 0..MaxCounter
  BY DEF ClockState
<1>2. /\ n \in ClockState /\ n.counter <= c.counter + 1 /\ n.wall = p
      /\ n.wall > c.wall \/ (n.wall = c.wall /\ n.counter >= c.counter)
      /\ n.wall > c.wall \/ (c.counter < MaxCounter => n.counter > c.counter)
  <2>1. CASE p > c.wall
    <3>1. n.wall = p /\ n.counter = 0
      BY <2>1 DEF Now
    <3> QED
      BY <1>1, <2>1, <3>1, NowType
  <2>2. CASE ~(p > c.wall)
    <3>1. n.wall = c.wall /\ n.counter = Bump(c.counter)
      BY <2>2 DEF Now
    <3>2. n \in ClockState /\ c.wall = p
      BY <1>1, <2>2, NowType
    <3> HIDE DEF n
    <3> QED
      BY <1>1, <3>1, <3>2 DEF Bump
  <2> QED
    BY <2>1, <2>2
<1> HIDE DEF n
<1>3. n.wall \in Nat /\ n.counter \in 0..MaxCounter
  BY <1>2 DEF ClockState
<1>4. ASSUME NEW h \in Hlc
      PROVE  /\ Past(h, c) => Past(h, n)
             /\ \A d \in Device :
                    (Past(h, c) \/ h.wall < p) /\ c.counter < MaxCounter => h # StampOf(n, d)
  <2>1. h.wall \in Nat /\ h.counter \in 0..MaxCounter
    BY DEF Hlc
  <2>2. Past(h, c) => Past(h, n)
    BY <1>1, <1>2, <1>3, <2>1 DEF Past
  <2>3. (Past(h, c) \/ h.wall < p) /\ c.counter < MaxCounter
           => ~(h.wall = n.wall /\ h.counter = n.counter)
    BY <1>1, <1>2, <1>3, <2>1 DEF Past
  <2> QED
    BY <2>2, <2>3 DEF StampOf
<1>5. \A d \in Device :
         LET h == StampOf(n, d) IN Past(h, n) /\ h.device = d /\ h.wall <= p
  BY <1>2, <1>3 DEF Past, StampOf
<1> QED
  BY <1>2, <1>3, <1>4, <1>5 DEF n, Ticks

\* A user's operation writes at most one row, and stamps it.
Writes(d, i) ==
    /\ \A e \in Device \ {d} : table'[e] = table[e]
    /\ \A j \in Id \ {i} : table'[d][j] = table[d][j]
    /\ table'[d][i] # table[d][i] => table'[d][i].hlc = LocalStamp(d)

LEMMA InsertWrites ==
    ASSUME NEW t \in Table, NEW i \in Id, NEW c \in Row
    PROVE  \E k \in Id : /\ \A j \in Id \ {k} : Insert(t, i, c)[j] = t[j]
                         /\ Insert(t, i, c)[k].hlc = c.hlc
<1>1. CASE LiveWithHash(t, c.hash) # {}
  <2> DEFINE e == CHOOSE j \in LiveWithHash(t, c.hash) : TRUE
  <2>1. e \in LiveWithHash(t, c.hash)
    BY <1>1
  <2>2. e \in Id /\ t[e] \in Row
    BY <2>1 DEF LiveWithHash, WithHash, Ids, Table
  <2>3. Insert(t, i, c) = [t EXCEPT ![e] = [t[e] EXCEPT !.hlc = c.hlc]]
    BY <1>1 DEF Insert
  <2> HIDE DEF e
  <2>4. /\ \A j \in Id \ {e} : Insert(t, i, c)[j] = t[j]
        /\ Insert(t, i, c)[e].hlc = c.hlc
    BY <2>2, <2>3 DEF Table, Row
  <2> QED
    BY <2>2, <2>4
<1>2. CASE LiveWithHash(t, c.hash) = {}
  BY <1>2 DEF Insert, Table
<1> QED
  BY <1>1, <1>2

LEMMA LocalWrites ==
    ASSUME TypeOK, NEW d \in Device, LocalStep(d)
    PROVE  \E i \in Id : Writes(d, i)
<1>1. table \in [Device -> Table] /\ table[d] \in Table
  BY DEF TypeOK
<1>2. ASSUME NEW h \in Hash, Capture(d, h) PROVE \E i \in Id : Writes(d, i)
  <2> DEFINE clip == [hash |-> h, hlc |-> LocalStamp(d), pinned |-> FALSE, deleted |-> FALSE]
  <2>1. clip \in Row /\ clip.hlc = LocalStamp(d)
    BY <1>2, LocalStampType DEF Capture, Row
  <2>2. PICK i \in FreshIds : table' = [table EXCEPT ![d] = Insert(table[d], i, clip)]
    BY <1>2 DEF Capture
  <2>3. i \in Id
    BY DEF FreshIds
  <2> HIDE DEF clip
  <2>4. PICK k \in Id : /\ \A j \in Id \ {k} : Insert(table[d], i, clip)[j] = table[d][j]
                        /\ Insert(table[d], i, clip)[k].hlc = clip.hlc
    BY <1>1, <2>1, <2>3, InsertWrites
  <2>5. Writes(d, k)
    BY <1>1, <2>1, <2>2, <2>4 DEF Writes
  <2> QED
    BY <2>5
<1>3. ASSUME NEW i \in Id, NEW p \in BOOLEAN, PinClip(d, i, p) PROVE Writes(d, i)
  <2>1. /\ table[d][i] \in Row
        /\ table' = [table EXCEPT ![d] = SetPinned(table[d], i, p, LocalStamp(d))]
    BY <1>1, <1>3 DEF PinClip, Ids, Table
  <2> QED
    BY <1>1, <2>1 DEF Writes, SetPinned, Table, Row
<1>4. ASSUME NEW i \in Id, DeleteClip(d, i) PROVE Writes(d, i)
  <2>1. table[d][i] \in Row /\ table' = [table EXCEPT ![d] = Delete(table[d], i, LocalStamp(d))]
    BY <1>1, <1>4 DEF DeleteClip, Ids, Table
  <2> QED
    BY <1>1, <2>1 DEF Writes, Delete, Table, Row
<1> QED
  BY <1>2, <1>3, <1>4 DEF LocalStep

LEMMA LocalFacts ==
    ASSUME NEW d \in Device, LocalStep(d)
    PROVE  LocalEvent(d) /\ Record(d)
BY DEF LocalStep, Capture, PinClip, DeleteClip

\* The log gets rows with the new timestamp, and nothing else.
LEMMA LocalLogs ==
    ASSUME TypeOK, NEW d \in Device, LocalStep(d)
    PROVE  \A e \in log' : e \in log \/ (e \in Written(d) /\ e.hlc = LocalStamp(d))
<1>1. PICK i \in Id : Writes(d, i)
  BY LocalWrites
<1> QED
  BY <1>1, LocalFacts DEF Record, Written, Writes

LEMMA LocalClocks ==
    ASSUME TypeOK, Clocks, NEW d \in Device, LocalStep(d)
    PROVE  Clocks' /\ \A e \in log : e.hlc # LocalStamp(d)
<1> DEFINE p == Physical(d)
           n == Now(clock[d], p)
<1>1. /\ clock[d] \in ClockState /\ p \in Nat /\ ops \in Nat /\ MaxOps \in Nat
      /\ clock \in [Device -> ClockState] /\ log \subseteq Row
  BY DEF TypeOK, Physical
<1>2. ops < MaxOps /\ ops' = ops + 1 /\ clock' = [clock EXCEPT ![d] = n] /\ wall' = wall
  BY LocalFacts DEF LocalEvent
<1>3. ClockAhead(d)
  BY DEF Clocks
<1>4. Ticks(clock[d], n, p)
  BY <1>1, <1>3, NowTicks DEF ClockAhead
<1>5. LocalStamp(d) = StampOf(n, d)
  BY DEF LocalStamp
<1>6. \A c : Physical(c)' = Physical(c)
  BY <1>2 DEF Physical
<1>7. \A e \in log' : e \in log \/ e.hlc = StampOf(n, d)
  BY <1>5, LocalLogs
<1>8. \A e \in log : e.hlc \in Hlc
  BY <1>1 DEF Row
<1> HIDE DEF n
<1>9. /\ n \in ClockState
      /\ n.counter <= clock[d].counter + 1
      /\ n.wall <= p
      /\ \A h \in Hlc : Past(h, clock[d]) => Past(h, n)
      /\ \A h \in Hlc : (Past(h, clock[d]) \/ h.wall < p) /\ clock[d].counter < MaxCounter
                            => h # StampOf(n, d)
      /\ Past(StampOf(n, d), n) /\ StampOf(n, d).device = d /\ StampOf(n, d).wall <= p
  BY <1>4 DEF Ticks
<1>10. clock[d].counter + MaxOps <= MaxCounter + ops /\ clock[d].counter \in Nat
       /\ n.counter \in Nat
  BY <1>1, <1>3, <1>9 DEF ClockAhead, ClockState
<1>11. clock[d].counter < MaxCounter /\ n.counter + MaxOps <= MaxCounter + ops'
  BY <1>1, <1>2, <1>9, <1>10
<1>12. ASSUME NEW e \in log PROVE e.hlc # LocalStamp(d)
  <2>1. CASE e.hlc.device = d
    <3>1. Past(e.hlc, clock[d]) \/ e.hlc.wall < p
      BY <1>3, <2>1 DEF ClockAhead
    <3> QED
      BY <1>5, <1>8, <1>9, <1>11, <3>1
  <2>2. CASE e.hlc.device # d
    BY <1>5, <1>9, <2>2
  <2> QED
    BY <2>1, <2>2
<1>13. ClockAhead(d)'
  <2>1. clock'[d] = n /\ Physical(d)' = p
    BY <1>1, <1>2, <1>6
  <2>2. ASSUME NEW e \in log', e.hlc.device = d
        PROVE  e.hlc.wall <= p /\ (Past(e.hlc, n) \/ e.hlc.wall < p)
    <3>1. CASE e \in log
      BY <1>3, <1>8, <1>9, <2>2, <3>1 DEF ClockAhead
    <3>2. CASE e.hlc = StampOf(n, d)
      BY <1>9, <3>2
    <3> QED
      BY <1>7, <3>1, <3>2
  <2> QED
    BY <1>9, <1>11, <2>1, <2>2 DEF ClockAhead
<1>14. ASSUME NEW c \in Device, c # d PROVE ClockAhead(c)'
  <2>1. clock'[c] = clock[c] /\ clock[c].counter \in Nat /\ ClockAhead(c)
    BY <1>1, <1>2, <1>14 DEF ClockState, Clocks
  <2>2. clock[c].counter + MaxOps <= MaxCounter + ops'
    BY <1>1, <1>2, <2>1 DEF ClockAhead
  <2>3. \A e \in log' : e.hlc.device = c => e \in log
    BY <1>7, <1>9, <1>14
  <2> QED
    BY <1>6, <2>1, <2>2, <2>3 DEF ClockAhead
<1> QED
  BY <1>12, <1>13, <1>14 DEF Clocks

------------------------------------------------------------------------------
\* What is meant stays meant when a new timestamp is given, and when more
\* contents have raced.
LEMMA FreshMeant ==
    ASSUME NEW lg, NEW mg, NEW s, \A e \in mg : e \in lg \/ e.hlc = s,
           \A e \in lg : e.hlc # s, NEW rc, NEW rd, rc \subseteq rd,
           NEW c, Given(lg, c), Meant(lg, rc, c)
    PROVE  Meant(mg, rd, c)
BY DEF Given, Meant

LEMMA MeantGrows ==
    ASSUME NEW lg, NEW rc, NEW rd, rc \subseteq rd
    PROVE  /\ \A c : Meant(lg, rc, c) => Meant(lg, rd, c)
           /\ \A ms : MessagesMeant(lg, rc, ms) => MessagesMeant(lg, rd, ms)
<1>1. \A c : Meant(lg, rc, c) => Meant(lg, rd, c)
  BY DEF Meant
<1> QED
  BY <1>1 DEF MessagesMeant

LEMMA EndFreeMeant ==
    ASSUME NEW lg, NEW rc, NEW at, at # "pushing", at \notin Applying, NEW w, NEW t
    PROVE  EndMeant(lg, rc, at, w, t)
BY DEF EndMeant, Applying

\* What is meant under one log and set of contents is meant under the next.
Carries(lg, rc, mg, rd) ==
    /\ rc \subseteq rd
    /\ \A c : Given(lg, c) /\ Meant(lg, rc, c) => Meant(mg, rd, c)

\* An end that stays put while row i of its device is written: if it is
\* applying the content of that row, the content has raced.
LEMMA EndStaysMeant ==
    ASSUME NEW lg, NEW rc, NEW mg, NEW rd, Carries(lg, rc, mg, rd),
           NEW at, NEW w, NEW t, NEW u, Fits(at, w, t), Ages(t, u),
           EndGiven(lg, at, w, t), EndMeant(lg, rc, at, w, t),
           NEW i, \A j \in Id \ {i} : u[j] = t[j],
           i \in Id /\ u[i] # t[i] /\ at \in Applying /\ u[i].hash = w.pushed.clip.hash
               => u[i].hash \in rd
    PROVE  EndMeant(mg, rd, at, w, u)
<1> DEFINE h == w.pushed.clip.hash
<1>1. at = "pushing" => \A k \in Items(w.todo) : Meant(mg, rd, w.todo[k].clip)
  BY DEF EndGiven, EndMeant, Carries
<1>2. at \in Applying => Meant(mg, rd, w.pushed.clip)
  BY DEF EndGiven, EndMeant, Carries
<1>3. ASSUME at = "insert" PROVE h \in rd \/ WithHash(u, h) = {}
  <2>1. h \in rc \/ WithHash(t, h) = {}
    BY <1>3 DEF EndMeant
  <2>2. ASSUME h \notin rd, NEW j \in WithHash(u, h) PROVE j \in WithHash(t, h)
    <3>1. j \in Id /\ u[j] # None /\ u[j].hash = h
      BY <2>2 DEF WithHash, Ids
    <3>2. u[j] = t[j]
      BY <1>3, <2>2, <3>1 DEF Applying
    <3> QED
      BY <3>1, <3>2 DEF WithHash, Ids
  <2> QED
    BY <2>1, <2>2 DEF Carries
<1>4. ASSUME at = "tombstone"
      PROVE  \/ h \in rd
             \/ u[w.target].hlc = w.pushed.clip.hlc /\ u[w.target].pinned = w.pushed.clip.pinned
  <2>1. w.target \in Id /\ t[w.target] # None /\ t[w.target].hash = h
    BY <1>4 DEF Fits, EndGiven, Ids
  <2>2. u[w.target].hash = h
    BY <2>1 DEF Ages
  <2>3. h \in rd \/ u[w.target] = t[w.target]
    BY <1>4, <2>1, <2>2 DEF Applying
  <2> QED
    BY <1>4, <2>3 DEF EndMeant, Carries
<1> HIDE DEF h
<1> QED
  BY <1>1, <1>2, <1>3, <1>4 DEF EndMeant, h

\* A step that writes at most row i of d.
LEMMA StepMeant ==
    ASSUME TypeOK, Origin, Meaning, Carries(log, raced, log', raced'), NEW d, NEW i,
           \A e \in Device \ {d} : table'[e] = table[e],
           d \in Device => \A j \in Id \ {i} : table'[d][j] = table[d][j],
           d \in Device /\ i \in Id /\ table'[d][i] # table[d][i] =>
               i \in HalfWritten(d)' \/ Meant(log', raced', table'[d][i]),
           \A e \in Device : \A j \in Ids(table'[e]) :
               j \in HalfWritten(e) => j \in HalfWritten(e)' \/ Meant(log', raced', table'[e][j]),
           ChansMeant', EndsMeant'
    PROVE  Meaning'
<1>1. ASSUME NEW e \in Device, NEW j \in Ids(table'[e]), j \notin HalfWritten(e)'
      PROVE  Meant(log', raced', table'[e][j])
  <2>0. j \in Id
    BY DEF Ids
  <2>1. CASE j \in HalfWritten(e)
    BY <1>1, <2>1
  <2>2. CASE j \notin HalfWritten(e) /\ table'[e][j] = table[e][j]
    <3>1. j \in Ids(table[e])
      BY <2>2 DEF Ids
    <3>2. Meant(log, raced, table[e][j]) /\ Given(log, table[e][j])
      BY <2>2, <3>1 DEF Meaning, TablesMeant, RowsMeant, Origin, TablesGiven, RowsGiven
    <3> QED
      BY <2>2, <3>2 DEF Carries
  <2>3. CASE table'[e][j] # table[e][j]
    <3>1. e = d /\ j = i
      BY <2>0, <2>3
    <3> QED
      BY <1>1, <2>0, <2>3, <3>1
  <2> QED
    BY <2>1, <2>2, <2>3
<1>2. TablesMeant'
  BY <1>1 DEF TablesMeant, RowsMeant
<1> QED
  BY <1>2 DEF Meaning

\* Users write as they like.
LEMMA LocalMeaning ==
    ASSUME TypeOK, Origin, Clocks, Meaning, NEW d \in Device, LocalStep(d)
    PROVE  Meaning'
<1> DEFINE s == LocalStamp(d)
<1>1. /\ \A e \in log' : e \in log \/ (e \in Written(d) /\ e.hlc = s)
      /\ \A e \in log : e.hlc # s
  BY LocalLogs, LocalClocks
<1>2. PICK i \in Id : Writes(d, i)
  BY LocalWrites
<1>3. /\ UNCHANGED <<chan, pc, work>>
      /\ raced' = raced \cup {h \in InHand(d, {}) : \E c \in Written(d) : c.hash = h}
  BY LocalFacts DEF LocalEvent, linkVars, Record, Disturb
<1>4. Aged
  <2>1. OneStatement(d)
    BY CaptureType, PinClipType, DeleteClipType DEF LocalStep
  <2> QED
    BY <2>1, OneStatementTable DEF TypeOK
<1> HIDE DEF s
<1>5. Carries(log, raced, log', raced')
  <2>1. ASSUME NEW c, Given(log, c), Meant(log, raced, c) PROVE Meant(log', raced', c)
    BY <1>1, <1>3, <2>1, FreshMeant
  <2> QED
    BY <1>3, <2>1 DEF Carries
<1>6. \A e : HalfWritten(e)' = HalfWritten(e)
  BY <1>3 DEF HalfWritten
<1>7. table'[d][i] # table[d][i] => Meant(log', raced', table'[d][i])
  <2>1. \A x \in Written(d) : x = table'[d][i]
    BY <1>2 DEF Writes, Written
  <2>2. table'[d][i] # table[d][i] => table'[d][i].hlc = s
    BY <1>2 DEF Writes, s
  <2> QED
    BY <1>1, <2>1, <2>2 DEF Meant
<1>8. ChansMeant'
  <2> SUFFICES ASSUME NEW l \in Link, NEW r \in Role
               PROVE  MessagesMeant(log', raced', chan[l][r])
    BY <1>3 DEF ChansMeant
  <2>1. MessagesMeant(log, raced, chan[l][r]) /\ MessagesGiven(log, chan[l][r])
    BY DEF Meaning, ChansMeant, Origin, ChansGiven
  <2> QED
    BY <1>5, <2>1 DEF MessagesMeant, MessagesGiven, Carries
<1>9. EndsMeant'
  <2> SUFFICES ASSUME NEW l \in Link, NEW r \in Role
               PROVE  EndMeant(log', raced', pc[l][r], work[l][r], table'[DeviceOf(l, r)])
    BY <1>3 DEF EndsMeant
  <2> DEFINE at == pc[l][r]
             w == work[l][r]
             t == table[DeviceOf(l, r)]
             u == table'[DeviceOf(l, r)]
  <2>1. /\ EndGiven(log, at, w, t) /\ EndMeant(log, raced, at, w, t)
        /\ Fits(at, w, t) /\ Ages(t, u)
    BY <1>4, DeviceOfType DEF Meaning, EndsMeant, Origin, EndsGiven, TypeOK, Aged
  <2>2. \A j \in Id \ {i} : u[j] = t[j]
    BY <1>2, DeviceOfType DEF Writes
  <2>3. ASSUME u[i] # t[i], at \in Applying, u[i].hash = w.pushed.clip.hash
        PROVE  u[i].hash \in raced'
    <3>1. DeviceOf(l, r) = d
      BY <1>2, <2>3, DeviceOfType DEF Writes
    <3>2. w.pushed \in Pushed
      BY <2>3 DEF TypeOK, Fits
    <3>3. w.pushed.clip.hash \in InHand(d, {})
      BY <2>3, <3>1, <3>2 DEF InHand, Pushed, Row
    <3>4. u[i] \in Written(d)
      BY <2>3, <3>1 DEF Written
    <3> QED
      BY <1>3, <2>3, <3>3, <3>4
  <2> HIDE DEF at, w, t, u
  <2>4. EndMeant(log', raced', at, w, u)
    BY <1>5, <2>1, <2>2, <2>3, EndStaysMeant
  <2> QED
    BY <2>4 DEF at, w, u
<1>10. /\ \A e \in Device \ {d} : table'[e] = table[e]
       /\ \A j \in Id \ {i} : table'[d][j] = table[d][j]
  BY <1>2 DEF Writes
<1> QED
  BY <1>5, <1>6, <1>7, <1>8, <1>9, <1>10, StepMeant

\* An insert writes one row, of the clip's content.
LEMMA InsertWritesHash ==
    ASSUME NEW t \in Table, NEW i \in Id, NEW c \in Row
    PROVE  \E k \in Id : /\ \A j \in Id \ {k} : Insert(t, i, c)[j] = t[j]
                         /\ Insert(t, i, c)[k].hash = c.hash
<1>1. CASE LiveWithHash(t, c.hash) # {}
  <2> DEFINE e == CHOOSE j \in LiveWithHash(t, c.hash) : TRUE
  <2>1. e \in LiveWithHash(t, c.hash)
    BY <1>1
  <2>2. e \in Id /\ t[e] \in Row /\ t[e].hash = c.hash
    BY <2>1 DEF LiveWithHash, WithHash, Ids, Table
  <2>3. Insert(t, i, c) = [t EXCEPT ![e] = [t[e] EXCEPT !.hlc = c.hlc]]
    BY <1>1 DEF Insert
  <2> HIDE DEF e
  <2>4. /\ \A j \in Id \ {e} : Insert(t, i, c)[j] = t[j]
        /\ Insert(t, i, c)[e].hash = c.hash
    BY <2>2, <2>3 DEF Table, Row
  <2> QED
    BY <2>2, <2>4
<1>2. CASE LiveWithHash(t, c.hash) = {}
  BY <1>2 DEF Insert, Table
<1> QED
  BY <1>1, <1>2

LEMMA EndMeantGrows ==
    ASSUME NEW lg, NEW rc, NEW rd, rc \subseteq rd, NEW at, NEW w, NEW t,
           EndMeant(lg, rc, at, w, t)
    PROVE  EndMeant(lg, rd, at, w, t)
<1>1. \A c : Meant(lg, rc, c) => Meant(lg, rd, c)
  BY MeantGrows
<1> QED
  BY <1>1 DEF EndMeant

------------------------------------------------------------------------------
(* Writes of sessions. *)

\* A session writes row i of its device, which makes its table u, and goes on.
WritesRow(l, r, at, w, u, i) ==
    /\ table' = [table EXCEPT ![DeviceOf(l, r)] = u] /\ Goto(l, r, at, w)
    /\ UNCHANGED <<chan, log>> /\ Disturb(DeviceOf(l, r), {l})
    /\ Ages(table[DeviceOf(l, r)], u)
    /\ i \in Id /\ \A j \in Id \ {i} : u[j] = table[DeviceOf(l, r)][j]
    /\ i \in HalfWritten(DeviceOf(l, r))' \/ Meant(log, raced', u[i])
    /\ pc[l][r] = "tombstone" => Meant(log, raced', u[work[l][r].target])
    /\ EndMeant(log, raced', at, w, u)

LEMMA WriteMeant ==
    ASSUME TypeOK, Origin, Meaning, NEW l \in Link, NEW r \in Role, NEW at, NEW w, NEW u,
           NEW i, WritesRow(l, r, at, w, u, i)
    PROVE  Meaning'
<1> USE DEF WritesRow
<1> DEFINE d == DeviceOf(l, r)
<1>0. d \in Device /\ Other(r) \in Role
  BY DeviceOfType, OtherType
<1>1. pc'[l][r] = at /\ work'[l][r] = w /\ table'[d] = u
  BY <1>0 DEF Goto, TypeOK
<1>2. ASSUME NEW k \in Link, NEW q \in Role, ~(k = l /\ q = r)
      PROVE  pc'[k][q] = pc[k][q] /\ work'[k][q] = work[k][q]
  BY <1>2 DEF Goto, TypeOK
<1>3. raced' = raced \cup {h \in InHand(d, {l}) : \E c \in Written(d) : c.hash = h}
  BY DEF Disturb
<1>4. Carries(log, raced, log', raced')
  BY <1>3, MeantGrows DEF Carries
<1>5. \A e \in Device \ {d} : table'[e] = table[e]
  BY DEF TypeOK
<1>6. \A j \in Id \ {i} : table'[d][j] = table[d][j]
  BY <1>1
<1>7. ASSUME NEW e \in Device, NEW j \in Ids(table'[e]), j \in HalfWritten(e)
      PROVE  j \in HalfWritten(e)' \/ Meant(log', raced', table'[e][j])
  <2>1. PICK k \in Link, q \in Role :
            DeviceOf(k, q) = e /\ pc[k][q] = "tombstone" /\ work[k][q].target = j
    BY <1>7 DEF HalfWritten
  <2>2. CASE k = l /\ q = r
    BY <1>1, <2>1, <2>2
  <2>3. CASE ~(k = l /\ q = r)
    <3>1. pc'[k][q] = "tombstone" /\ work'[k][q].target = j /\ j \in Id
      BY <1>2, <2>1, <2>3 DEF Ids
    <3> QED
      BY <2>1, <3>1 DEF HalfWritten
  <2> QED
    BY <2>2, <2>3
<1>8. ChansMeant'
  <2>1. ASSUME NEW k \in Link, NEW q \in Role PROVE MessagesMeant(log, raced', chan[k][q])
    <3>1. MessagesMeant(log, raced, chan[k][q])
      BY DEF Meaning, ChansMeant
    <3> QED
      BY <1>3, <3>1, MeantGrows
  <2> QED
    BY <2>1 DEF ChansMeant
<1>9. EndsMeant'
  <2> SUFFICES ASSUME NEW k \in Link, NEW q \in Role
               PROVE  EndMeant(log', raced', pc'[k][q], work'[k][q], table'[DeviceOf(k, q)])
    BY DEF EndsMeant
  <2>1. CASE k = l /\ q = r
    BY <1>1, <2>1
  <2>2. CASE ~(k = l /\ q = r)
    <3> DEFINE pk == pc[k][q]
               wk == work[k][q]
               t == table[DeviceOf(k, q)]
               v == table'[DeviceOf(k, q)]
    <3>1. /\ EndGiven(log, pk, wk, t) /\ EndMeant(log, raced, pk, wk, t) /\ Fits(pk, wk, t)
      BY DEF Meaning, EndsMeant, Origin, EndsGiven, TypeOK
    <3>2. Ages(t, v) /\ \A j \in Id \ {i} : v[j] = t[j]
      <4>1. CASE DeviceOf(k, q) = d
        BY <1>1, <4>1
      <4>2. CASE DeviceOf(k, q) # d
        BY <1>5, <4>2, DeviceOfType, AgesRefl
      <4> QED
        BY <4>1, <4>2
    <3>3. ASSUME v[i] # t[i], pk \in Applying, v[i].hash = wk.pushed.clip.hash
          PROVE  v[i].hash \in raced'
      <4>1. DeviceOf(k, q) = d
        BY <1>5, <3>3, DeviceOfType
      <4>2. k # l
        BY <2>2, <4>1 DEF DeviceOf, Role
      <4>3. wk.pushed.clip.hash \in Hash
        BY <3>1, <3>3 DEF Fits, Pushed, Row
      <4>4. wk.pushed.clip.hash \in InHand(d, {l})
        BY <3>3, <4>1, <4>2, <4>3 DEF InHand
      <4>5. v[i] \in Written(d)
        BY <3>3, <4>1 DEF Written
      <4>6. \E c \in Written(d) : c.hash = wk.pushed.clip.hash
        BY <3>3, <4>5
      <4> HIDE DEF d, wk
      <4>7. wk.pushed.clip.hash \in raced'
        BY <1>3, <4>4, <4>6, Zenon
      <4> QED
        BY <3>3, <4>7
    <3> HIDE DEF pk, wk, t, v
    <3>4. EndMeant(log', raced', pk, wk, v)
      BY <1>4, <3>1, <3>2, <3>3, EndStaysMeant
    <3> QED
      BY <1>2, <2>2, <3>4 DEF pk, wk, v
  <2> QED
    BY <2>1, <2>2
<1>10. d \in Device /\ i \in Id /\ table'[d][i] # table[d][i] =>
           i \in HalfWritten(d)' \/ Meant(log', raced', table'[d][i])
  BY <1>1
<1> HIDE DEF d
<1> QED
  BY <1>4, <1>5, <1>6, <1>7, <1>8, <1>9, <1>10, StepMeant

\* What an end that is about to write knows.
LEMMA ApplyingMeant ==
    ASSUME TypeOK, Origin, Meaning, NEW l \in Link, NEW r \in Role, pc[l][r] \in Applying
    PROVE  LET w == work[l][r] IN
           /\ w.pushed \in Pushed /\ table[DeviceOf(l, r)] \in Table
           /\ Meant(log, raced, w.pushed.clip)
           /\ EndGiven(log, pc[l][r], w, table[DeviceOf(l, r)])
           /\ EndMeant(log, raced, pc[l][r], w, table[DeviceOf(l, r)])
           /\ raced \subseteq raced' => Meant(log, raced', w.pushed.clip)
<1> DEFINE w == work[l][r]
           t == table[DeviceOf(l, r)]
<1>1. w.pushed \in Pushed /\ t \in Table
  BY DeviceOfType DEF TypeOK, Fits
<1>2. EndGiven(log, pc[l][r], w, t) /\ EndMeant(log, raced, pc[l][r], w, t)
  BY DEF Origin, EndsGiven, Meaning, EndsMeant
<1>3. Meant(log, raced, w.pushed.clip)
  BY <1>2 DEF EndMeant
<1> QED
  BY <1>1, <1>2, <1>3, MeantGrows

\* The content the end is applying has raced already or does not by this write.
LEMMA ApplyInsertMeant ==
    ASSUME TypeOK, Origin, Meaning, NEW l \in Link, NEW r \in Role, ApplyInsert(l, r)
    PROVE  Meaning'
<1> DEFINE w == work[l][r]
           d == DeviceOf(l, r)
           c == w.pushed.clip
           t == table[d]
           u == Insert(t, w.pushed.id, c)
<1>1. /\ pc[l][r] = "insert" /\ ~InsertFails(t, w.pushed.id, c)
      /\ table' = [table EXCEPT ![d] = u] /\ Goto(l, r, "push", Applied(w))
      /\ Disturb(d, {l}) /\ UNCHANGED <<chan, log>>
  BY DEF ApplyInsert
<1>2. raced \subseteq raced'
  BY <1>1 DEF Disturb
<1>3. /\ w.pushed \in Pushed /\ t \in Table /\ EndMeant(log, raced, "insert", w, t)
      /\ Meant(log, raced', c)
  BY <1>1, <1>2, ApplyingMeant DEF Applying
<1>4. w.pushed.id \in Id /\ c \in Row
  BY <1>3 DEF Pushed
<1>5. Ages(t, u)
  BY <1>1, <1>3, <1>4, InsertTable
<1>6. PICK i \in Id : (\A j \in Id \ {i} : u[j] = t[j]) /\ Meant(log, raced', u[i])
  <2>1. CASE WithHash(t, c.hash) = {}
    <3>1. u = [t EXCEPT ![w.pushed.id] = c]
      BY <2>1 DEF Insert, LiveWithHash
    <3> HIDE DEF u, t, c
    <3>2. u[w.pushed.id] = c /\ \A j \in Id \ {w.pushed.id} : u[j] = t[j]
      BY <1>3, <1>4, <3>1 DEF Table
    <3> QED
      BY <1>3, <1>4, <3>2
  <2>2. CASE WithHash(t, c.hash) # {}
    <3>1. c.hash \in raced
      BY <1>3, <2>2 DEF EndMeant
    <3> HIDE DEF c, t, w
    <3>2. PICK i \in Id : (\A j \in Id \ {i} : u[j] = t[j]) /\ u[i].hash = c.hash
      BY <1>3, <1>4, InsertWritesHash, ZenonT(60)
    <3>3. Meant(log, raced', u[i])
      BY <1>2, <3>1, <3>2 DEF Meant
    <3> QED
      BY <3>2, <3>3
  <2> QED
    BY <2>1, <2>2
<1> HIDE DEF u
<1>7. EndMeant(log, raced', "push", Applied(w), u)
  BY EndFreeMeant DEF Applying
<1>8. pc[l][r] # "tombstone"
  BY <1>1
<1>9. WritesRow(l, r, "push", Applied(w), u, i)
  BY <1>1, <1>5, <1>6, <1>7, <1>8 DEF WritesRow
<1> QED
  BY <1>9, WriteMeant

LEMMA ApplyPinMeant ==
    ASSUME TypeOK, Origin, Meaning, NEW l \in Link, NEW r \in Role, ApplyPin(l, r)
    PROVE  Meaning'
<1> DEFINE w == work[l][r]
           d == DeviceOf(l, r)
           c == w.pushed.clip
           t == table[d]
           u == SetPinned(t, w.target, c.pinned, c.hlc)
<1>0. d \in Device
  BY DeviceOfType
<1>1. /\ pc[l][r] = "pin" /\ table' = [table EXCEPT ![d] = u]
      /\ IF c.deleted THEN Goto(l, r, "tombstone", w) ELSE Goto(l, r, "push", Applied(w))
      /\ Disturb(d, {l}) /\ UNCHANGED <<chan, log>>
  BY DEF ApplyPin
<1>2. raced \subseteq raced'
  BY <1>1 DEF Disturb
<1>3. /\ w.pushed \in Pushed /\ t \in Table /\ EndGiven(log, "pin", w, t)
      /\ Meant(log, raced', c)
  BY <1>1, <1>2, ApplyingMeant DEF Applying
<1>4. w.target \in Ids(t) /\ t[w.target].hash = c.hash
  BY <1>1, <1>3 DEF TypeOK, Fits, EndGiven
<1>5. w.target \in Id /\ c.pinned \in BOOLEAN /\ c.hlc \in Hlc
  BY <1>3, <1>4 DEF Ids, Pushed, Row
<1>6. Ages(t, u)
  BY <1>3, <1>4, <1>5, SetPinnedTable
<1>7. /\ \A j \in Id \ {w.target} : u[j] = t[j]
      /\ u[w.target].hash = c.hash /\ u[w.target].hlc = c.hlc
      /\ u[w.target].pinned = c.pinned
  <2> HIDE DEF t, c, w
  <2>1. w.target \in Id /\ t[w.target] \in Row
    BY <1>3, <1>4 DEF Ids, Table
  <2>2. \A j \in Id \ {w.target} : u[j] = t[j]
    BY <1>3, <2>1 DEF SetPinned, Table
  <2>3. u[w.target] = [t[w.target] EXCEPT !.pinned = c.pinned, !.hlc = c.hlc]
    BY <1>3, <2>1 DEF SetPinned, Table
  <2> HIDE DEF u
  <2> QED
    BY <1>4, <2>1, <2>2, <2>3 DEF Row
<1> HIDE DEF u
<1>8. CASE c.deleted
  <2>1. Goto(l, r, "tombstone", w)
    BY <1>1, <1>8
  <2>2. EndMeant(log, raced', "tombstone", w, u)
    BY <1>3, <1>7 DEF EndMeant, Applying
  <2>3. pc'[l][r] = "tombstone" /\ work'[l][r] = w
    BY <2>1 DEF Goto, TypeOK
  <2>4. w.target \in HalfWritten(d)'
    BY <1>5, <2>3 DEF HalfWritten
  <2>5. pc[l][r] # "tombstone"
    BY <1>1
  <2>6. WritesRow(l, r, "tombstone", w, u, w.target)
    BY <1>1, <1>5, <1>6, <1>7, <2>1, <2>2, <2>4, <2>5 DEF WritesRow
  <2> QED
    BY <2>6, WriteMeant
<1>9. CASE ~c.deleted
  <2>1. Goto(l, r, "push", Applied(w)) /\ pc[l][r] # "tombstone"
    BY <1>1, <1>9
  <2>2. Meant(log, raced', u[w.target])
    BY <1>3, <1>7, <1>9 DEF Meant
  <2>3. EndMeant(log, raced', "push", Applied(w), u)
    BY EndFreeMeant DEF Applying
  <2>4. WritesRow(l, r, "push", Applied(w), u, w.target)
    BY <1>1, <1>5, <1>6, <1>7, <2>1, <2>2, <2>3 DEF WritesRow
  <2> QED
    BY <2>4, WriteMeant
<1> QED
  BY <1>8, <1>9

LEMMA ApplyDeleteMeant ==
    ASSUME TypeOK, Origin, Meaning, NEW l \in Link, NEW r \in Role, ApplyDelete(l, r)
    PROVE  Meaning'
<1> DEFINE w == work[l][r]
           d == DeviceOf(l, r)
           c == w.pushed.clip
           t == table[d]
           u == Delete(t, w.target, c.hlc)
<1>1. /\ pc[l][r] = "tombstone" /\ table' = [table EXCEPT ![d] = u]
      /\ Goto(l, r, "push", Applied(w))
      /\ Disturb(d, {l}) /\ UNCHANGED <<chan, log>>
  BY DEF ApplyDelete
<1>2. raced \subseteq raced'
  BY <1>1 DEF Disturb
<1>3. /\ w.pushed \in Pushed /\ t \in Table
      /\ EndGiven(log, "tombstone", w, t) /\ EndMeant(log, raced, "tombstone", w, t)
      /\ Meant(log, raced', c)
  BY <1>1, <1>2, ApplyingMeant DEF Applying
<1>4. w.target \in Ids(t) /\ t[w.target].hash = c.hash
  BY <1>1, <1>3 DEF TypeOK, Fits, EndGiven
<1>5. w.target \in Id /\ t[w.target] \in Row /\ c.hlc \in Hlc
  BY <1>3, <1>4 DEF Ids, Pushed, Row, Table
<1>6. Ages(t, u)
  BY <1>3, <1>4, <1>5, DeleteTable
<1>7. /\ \A j \in Id \ {w.target} : u[j] = t[j]
      /\ u[w.target].hash = c.hash
      /\ u[w.target].pinned = t[w.target].pinned /\ u[w.target].deleted
      /\ t[w.target].hlc = c.hlc => u[w.target].hlc = c.hlc
  <2> HIDE DEF t, c, w
  <2>1. CASE t[w.target].deleted
    BY <1>4, <2>1 DEF Delete
  <2>2. CASE ~t[w.target].deleted
    BY <1>3, <1>4, <1>5, <2>2, SMTT(30) DEF Delete, Ids, Table, Row
  <2> QED
    BY <2>1, <2>2
<1>8. \/ c.hash \in raced
      \/ t[w.target].hlc = c.hlc /\ t[w.target].pinned = c.pinned
  BY <1>3 DEF EndMeant
<1> HIDE DEF u, t, c
<1>9. Meant(log, raced', u[w.target])
  <2>1. CASE c.hash \in raced
    BY <1>2, <1>7, <2>1 DEF Meant
  <2>2. CASE t[w.target].hlc = c.hlc /\ t[w.target].pinned = c.pinned
    <3>1. u[w.target].hlc = c.hlc /\ u[w.target].pinned = c.pinned
      BY <1>7, <2>2
    <3> QED
      BY <1>3, <1>7, <3>1 DEF Meant
  <2> QED
    BY <1>8, <2>1, <2>2
<1>10. EndMeant(log, raced', "push", Applied(w), u)
  BY EndFreeMeant DEF Applying
<1>11. WritesRow(l, r, "push", Applied(w), u, w.target)
  BY <1>1, <1>5, <1>6, <1>7, <1>9, <1>10 DEF WritesRow, t
<1> QED
  BY <1>11, WriteMeant

------------------------------------------------------------------------------
(* Messages of sessions. *)

LEMMA SendMeant ==
    ASSUME TypeOK, ChansMeant, UNCHANGED <<log, raced>>, NEW l \in Link, NEW r \in Role,
           NEW m, m.type = "Push" => Meant(log, raced, m.pushed.clip), Send(l, r, m)
    PROVE  ChansMeant'
<1> SUFFICES ASSUME NEW k \in Link, NEW q \in Role
             PROVE  MessagesMeant(log', raced', chan'[k][q])
  BY DEF ChansMeant
<1>1. MessagesMeant(log, raced, chan[k][q]) /\ chan[k][q] \in Seq(Message)
  BY DEF ChansMeant, TypeOK
<1>2. chan'[k][q] = chan[k][q] \/ chan'[k][q] = Append(chan[k][q], m)
  BY OtherType DEF Send, TypeOK
<1>3. MessagesMeant(log, raced, Append(chan[k][q], m))
  BY <1>1 DEF MessagesMeant
<1> QED
  BY <1>1, <1>2, <1>3

LEMMA ExchangeMeant ==
    ASSUME TypeOK, ChansMeant, UNCHANGED log, raced \subseteq raced',
           NEW l \in Link, NEW r \in Role,
           Inbox(l, r) # <<>>, NEW S, NEW ms \in Seq(S),
           \A k \in DOMAIN ms : ms[k].type # "Push", Exchange(l, r, ms)
    PROVE  /\ ChansMeant'
           /\ Head(Inbox(l, r)).type = "Push" => Meant(log, raced, Head(Inbox(l, r)).pushed.clip)
<1>0. chan[l][r] \in Seq(Message) /\ chan[l][r] # <<>> /\ MessagesMeant(log, raced, chan[l][r])
  BY DEF ChansMeant, TypeOK, Inbox
<1>1. Head(Inbox(l, r)).type = "Push" => Meant(log, raced, Head(Inbox(l, r)).pushed.clip)
  <2>1. 1 \in DOMAIN chan[l][r] /\ Head(chan[l][r]) = chan[l][r][1]
    BY <1>0
  <2> QED
    BY <1>0, <2>1 DEF MessagesMeant, Inbox
<1>2. ASSUME NEW k \in Link, NEW q \in Role
      PROVE  MessagesMeant(log', raced', chan'[k][q])
  <2>1. MessagesMeant(log, raced', chan[k][q]) /\ chan[k][q] \in Seq(Message)
    BY MeantGrows, ZenonT(30) DEF ChansMeant, TypeOK
  <2>2. CASE k # l
    BY <2>1, <2>2 DEF Exchange, TypeOK
  <2>3. CASE k = l /\ q = r
    <3>1. chan'[k][q] = Tail(chan[k][q])
      BY <2>3 DEF Exchange, TypeOK
    <3>2. MessagesMeant(log, raced', Tail(chan[k][q]))
      BY <1>0, <2>1, <2>3 DEF MessagesMeant
    <3> QED
      BY <3>1, <3>2
  <2>4. CASE k = l /\ q # r
    <3>1. chan'[k][q] = chan[k][q] \o ms
      BY <2>4 DEF Exchange, TypeOK
    <3>2. MessagesMeant(log, raced', chan[k][q] \o ms)
      BY <2>1 DEF MessagesMeant
    <3> QED
      BY <3>1, <3>2
  <2> QED
    BY <2>2, <2>3, <2>4
<1> QED
  BY <1>1, <1>2 DEF ChansMeant

LEMMA AnswersMeant ==
    ASSUME TypeOK, ChansMeant, UNCHANGED log, raced \subseteq raced',
           NEW l \in Link, NEW r \in Role, Inbox(l, r) # <<>>, Answers(l, r)
    PROVE  /\ ChansMeant'
           /\ Head(Inbox(l, r)).type = "Push" => Meant(log, raced, Head(Inbox(l, r)).pushed.clip)
<1>1. CASE Exchange(l, r, <<>>)
  <2>1. <<>> \in Seq(Message) /\ \A k \in DOMAIN <<>> : <<>>[k].type # "Push"
    OBVIOUS
  <2> QED
    BY <1>1, <2>1, ExchangeMeant
<1>2. ASSUME NEW m, m.type # "Push", Exchange(l, r, <<m>>)
      PROVE  /\ ChansMeant'
             /\ Head(Inbox(l, r)).type = "Push"
                    => Meant(log, raced, Head(Inbox(l, r)).pushed.clip)
  <2>1. <<m>> \in Seq({m}) /\ \A k \in DOMAIN <<m>> : <<m>>[k].type # "Push"
    BY <1>2
  <2> QED
    BY <1>2, <2>1, ExchangeMeant
<1> QED
  BY <1>1, <1>2 DEF Answers

\* A step that moves one end, which is not half way through a deletion, and
\* its messages, and writes no row.
LEMMA MoveMeant ==
    ASSUME TypeOK, Origin, Meaning, NEW l \in Link, NEW r \in Role, NEW at, NEW w,
           Goto(l, r, at, w), UNCHANGED <<table, log>>, raced \subseteq raced',
           pc[l][r] # "tombstone", ChansMeant',
           EndMeant(log, raced', at, w, table[DeviceOf(l, r)])
    PROVE  Meaning'
<1>1. pc'[l][r] = at /\ work'[l][r] = w
  BY DEF Goto, TypeOK
<1>2. ASSUME NEW k \in Link, NEW q \in Role, ~(k = l /\ q = r)
      PROVE  pc'[k][q] = pc[k][q] /\ work'[k][q] = work[k][q]
  BY <1>2 DEF Goto, TypeOK
<1>3. ASSUME NEW e \in Device, NEW j \in Ids(table[e]), j \notin HalfWritten(e)'
      PROVE  Meant(log, raced', table[e][j])
  <2>1. j \in Id
    BY DEF Ids
  <2>2. j \notin HalfWritten(e)
    <3> SUFFICES ASSUME j \in HalfWritten(e) PROVE FALSE
      OBVIOUS
    <3>1. PICK k \in Link, q \in Role :
              DeviceOf(k, q) = e /\ pc[k][q] = "tombstone" /\ work[k][q].target = j
      BY DEF HalfWritten
    <3>2. pc'[k][q] = "tombstone" /\ work'[k][q].target = j
      BY <1>2, <3>1
    <3> QED
      BY <1>3, <2>1, <3>1, <3>2 DEF HalfWritten
  <2>3. Meant(log, raced, table[e][j])
    BY <2>2 DEF Meaning, TablesMeant, RowsMeant
  <2> QED
    BY <2>3, MeantGrows
<1>4. TablesMeant'
  BY <1>3 DEF TablesMeant, RowsMeant
<1>5. EndsMeant'
  <2> SUFFICES ASSUME NEW k \in Link, NEW q \in Role
               PROVE  EndMeant(log, raced', pc'[k][q], work'[k][q], table[DeviceOf(k, q)])
    BY DEF EndsMeant
  <2>1. CASE k = l /\ q = r
    BY <1>1, <2>1
  <2>2. CASE ~(k = l /\ q = r)
    <3>1. EndMeant(log, raced, pc[k][q], work[k][q], table[DeviceOf(k, q)])
      BY DEF Meaning, EndsMeant
    <3>2. EndMeant(log, raced', pc[k][q], work[k][q], table[DeviceOf(k, q)])
      BY <3>1, EndMeantGrows
    <3> QED
      BY <1>2, <2>2, <3>2
  <2> QED
    BY <2>1, <2>2
<1> QED
  BY <1>4, <1>5 DEF Meaning

LEMMA PlainMoveMeant ==
    ASSUME TypeOK, Origin, Meaning, NEW l \in Link, NEW r \in Role, NEW at, NEW w,
           Goto(l, r, at, w), at # "pushing", at \notin Applying, pc[l][r] \notin Applying,
           UNCHANGED <<table, log, raced>>, ChansMeant'
    PROVE  Meaning'
<1>1. EndMeant(log, raced', at, w, table[DeviceOf(l, r)])
  BY EndFreeMeant
<1>2. pc[l][r] # "tombstone" /\ raced \subseteq raced'
  BY DEF Applying
<1> QED
  BY <1>1, <1>2, MoveMeant

LEMMA PlainSendMeant ==
    ASSUME TypeOK, Origin, Meaning, NEW l \in Link, NEW r \in Role,
           Offer(l, r) \/ WantBlobs(l, r) \/ SendBlob(l, r) \/ Acknowledge(l, r)
    PROVE  Meaning'
<1>0. UNCHANGED <<table, log, raced>> /\ ChansMeant /\ pc[l][r] \notin Applying
  BY DEF Offer, WantBlobs, SendBlob, Acknowledge, SessionOnly, Meaning, Applying
<1>1. ChansMeant'
  BY <1>0, PlainSends, SendMeant
<1> QED
  BY <1>0, <1>1, PlainSends, PlainMoveMeant DEF Plain

LEMMA PlainReceiveMeant ==
    ASSUME TypeOK, Origin, Meaning, NEW l \in Link, NEW r \in Role,
           \/ RecvHello(l, r) \/ RecvSummary(l, r) \/ RecvBlobWant(l, r)
           \/ RecvBlob(l, r) \/ RecvAck(l, r)
    PROVE  Meaning'
<1>0. UNCHANGED <<table, log, raced>> /\ ChansMeant /\ Inbox(l, r) # <<>>
  BY DEF RecvHello, RecvSummary, RecvBlobWant, RecvBlob, RecvAck, Receives, SessionOnly, Meaning
<1>1. pc[l][r] \notin Applying /\ raced \subseteq raced'
  BY <1>0 DEF RecvHello, RecvSummary, RecvBlobWant, RecvBlob, RecvAck, Receives, Applying
<1>2. ChansMeant'
  BY <1>0, <1>1, PlainReceives, AnswersMeant
<1> QED
  BY <1>0, <1>1, <1>2, PlainReceives, PlainMoveMeant DEF Plain

\* The rows a session reads to push them are meant, or half written, and then
\* their contents have raced.
LEMMA RecvWantMeant ==
    ASSUME TypeOK, Origin, Meaning, NEW l \in Link, NEW r \in Role, RecvWant(l, r)
    PROVE  Meaning'
<1> DEFINE d == DeviceOf(l, r)
           t == table[d]
           at(c) == Until(c, "pushing", "blobwant")
<1>1. /\ UNCHANGED <<table, log>> /\ raced \subseteq raced' /\ ChansMeant
      /\ Inbox(l, r) # <<>> /\ Answers(l, r) /\ pc[l][r] = "want"
  <2>1. raced \subseteq raced'
    BY DEF RecvWant
  <2> QED
    BY <2>1, Zenon DEF RecvWant, Receives, Meaning, Answers
<1>2. ChansMeant'
  BY <1>1, AnswersMeant
<1>3. Head(Inbox(l, r)) \in Message
  BY <1>1, AnswersGiven DEF Origin
<1>4. PICK c : /\ Goto(l, r, at(c), [Idle EXCEPT !.todo = c])
               /\ \A k \in Items(c) : \E i \in Ids(t) :
                      /\ c[k].clip = t[i]
                      /\ i \in HalfWritten(d) => t[i].hash \in raced'
  BY <1>3, RecvWantGoes, Zenon
<1>5. \A i \in Ids(t) : i \in HalfWritten(d) \/ Meant(log, raced, t[i])
  BY DeviceOfType DEF Meaning, TablesMeant, RowsMeant
<1>6. ASSUME NEW k \in Items(c) PROVE Meant(log, raced', c[k].clip)
  <2>1. PICK i \in Ids(t) : c[k].clip = t[i] /\ (i \in HalfWritten(d) => t[i].hash \in raced')
    BY <1>4
  <2>2. CASE i \in HalfWritten(d)
    BY <2>1, <2>2 DEF Meant
  <2>3. CASE i \notin HalfWritten(d)
    BY <1>1, <1>5, <2>1, <2>3, MeantGrows
  <2> QED
    BY <2>2, <2>3
<1>7. EndMeant(log, raced', at(c), [Idle EXCEPT !.todo = c], t)
  BY <1>6 DEF EndMeant, Until, Applying, Idle
<1>8. pc[l][r] # "tombstone"
  BY <1>1
<1> QED
  BY <1>1, <1>2, <1>4, <1>7, <1>8, MoveMeant

LEMMA SendPushMeant ==
    ASSUME TypeOK, Origin, Meaning, NEW l \in Link, NEW r \in Role, SendPush(l, r)
    PROVE  Meaning'
<1> DEFINE todo == work[l][r].todo
           at == Until(Rest(todo), "pushing", "blobwant")
           t == table[DeviceOf(l, r)]
<1>1. UNCHANGED <<table, log, raced>> /\ ChansMeant /\ pc[l][r] = "pushing"
  BY DEF SendPush, SessionOnly, Meaning
<1>2. todo \in List(Pushed) /\ todo # EmptyList
  BY DEF SendPush, TypeOK, Fits
<1>3. EndMeant(log, raced, "pushing", work[l][r], t)
  BY <1>1 DEF Meaning, EndsMeant
<1>4. \A k \in Items(todo) : Meant(log, raced, todo[k].clip)
  BY <1>3 DEF EndMeant
<1>5. First(todo) \in Items(todo) /\ First(todo) \in Pos
  BY <1>2, FirstItem
<1>6. Send(l, r, Push(todo[First(todo)])) /\ Goto(l, r, at, [Idle EXCEPT !.todo = Rest(todo)])
  BY DEF SendPush
<1> HIDE DEF todo
<1>7. ChansMeant'
  BY <1>1, <1>4, <1>5, <1>6, SendMeant DEF Push
<1>8. \A k \in Items(Rest(todo)) : Meant(log, raced', Rest(todo)[k].clip)
  BY <1>1, <1>2, <1>4, <1>5 DEF Items, Rest, List
<1>9. EndMeant(log, raced', at, [Idle EXCEPT !.todo = Rest(todo)], t)
  BY <1>8 DEF EndMeant, Until, Applying, Idle
<1>10. pc[l][r] # "tombstone" /\ raced \subseteq raced'
  BY <1>1
<1> QED
  BY <1>1, <1>6, <1>7, <1>9, <1>10, MoveMeant

\* A lookup that finds nothing finds the content nowhere in the table.
LEMMA LookupFindsNone ==
    ASSUME NEW t \in Table, NEW found \in Lookups(t), NEW h \in Hash, found[h] = None
    PROVE  WithHash(t, h) = {}
<1>1. None \notin Id
  BY DEF StoreAssumption
<1>2. None \notin ByHash(t, h)
  BY <1>1 DEF ByHash, LiveWithHash, WithHash, Ids
<1>3. ByHash(t, h) = {}
  BY <1>2 DEF Lookups
<1> QED
  BY <1>3 DEF ByHash

LEMMA RecvPushMeant ==
    ASSUME TypeOK, Origin, Meaning, NEW l \in Link, NEW r \in Role, RecvPush(l, r)
    PROVE  Meaning'
<1> DEFINE t == table[DeviceOf(l, r)]
           w == work[l][r]
           p == Head(Inbox(l, r)).pushed
           action(i) == Merge(IF i = None THEN None ELSE t[i], p.clip)
<1>1. /\ UNCHANGED <<table, log, raced>> /\ ChansMeant /\ Inbox(l, r) # <<>> /\ Answers(l, r)
      /\ pc[l][r] = "push" /\ Head(Inbox(l, r)).type = "Push"
  BY Zenon DEF RecvPush, Receives, SessionOnly, Meaning, Answers
<1>2. raced \subseteq raced' /\ raced' = raced /\ pc[l][r] # "tombstone"
  BY <1>1
<1>3. ChansMeant' /\ Head(Inbox(l, r)) \in Message /\ Meant(log, raced', p.clip)
  BY <1>1, <1>2, AnswersMeant, AnswersGiven, Zenon DEF Origin
<1>4. p \in Pushed /\ t \in Table /\ p.clip.hash \in Hash /\ w \in Work
  <2>1. p \in Pushed
    BY <1>1, <1>3, MessageFields, Zenon
  <2>2. w \in Work
    BY DEF TypeOK
  <2>3. t \in Table
    BY DeviceOfType, Zenon DEF TypeOK
  <2> HIDE DEF p
  <2> QED
    BY <2>1, <2>2, <2>3 DEF Pushed, Row
<1>5. PICK found \in Lookups(t) :
          LET i == found[p.clip.hash]
          IN  CASE action(i) = "Insert" -> Goto(l, r, "insert", [w EXCEPT !.pushed = p])
                [] action(i) = "UpdateMetadata" ->
                       Goto(l, r, "pin", [w EXCEPT !.pushed = p, !.target = i])
                [] action(i) = "Ignore" -> Goto(l, r, "push", [w EXCEPT !.todo = Rest(@)])
  BY Zenon DEF RecvPush
<1> DEFINE i == found[p.clip.hash]
<1> HIDE DEF w, p, t
<1>6. CASE action(i) = "Insert"
  <2>1. Goto(l, r, "insert", [w EXCEPT !.pushed = p])
    BY <1>5, <1>6
  <2>2. i # None => t[i] \in Row
    BY <1>4, LookupType
  <2>3. i = None
    BY <1>6, <2>2, NoneAssumption DEF Merge
  <2>4. WithHash(t, p.clip.hash) = {}
    BY <1>4, <2>3, LookupFindsNone
  <2>5. EndMeant(log, raced', "insert", [w EXCEPT !.pushed = p], t)
    BY <1>3, <1>4, <2>4 DEF EndMeant, Work
  <2> QED
    BY <1>1, <1>2, <1>3, <2>1, <2>5, MoveMeant DEF t
<1>7. CASE action(i) = "UpdateMetadata"
  <2>1. Goto(l, r, "pin", [w EXCEPT !.pushed = p, !.target = i])
    BY <1>5, <1>7
  <2>2. EndMeant(log, raced', "pin", [w EXCEPT !.pushed = p, !.target = i], t)
    BY <1>3, <1>4 DEF EndMeant, Work
  <2> QED
    BY <1>1, <1>2, <1>3, <2>1, <2>2, MoveMeant DEF t
<1>8. CASE action(i) = "Ignore"
  <2> DEFINE v == [w EXCEPT !.todo = Rest(@)]
  <2>1. Goto(l, r, "push", v)
    BY <1>5, <1>8
  <2>2. EndMeant(log, raced', "push", v, t)
    BY EndFreeMeant DEF Applying
  <2> HIDE DEF v
  <2> QED
    BY <1>1, <1>2, <1>3, <2>1, <2>2, MoveMeant DEF t
<1> QED
  BY <1>6, <1>7, <1>8 DEF Merge

------------------------------------------------------------------------------
(* Connections come and go. *)

\* A step after which a channel is empty or as it was, and an end idle or as
\* it was; if it stopped between set_pinned and delete, that content has raced.
LEMMA ResetMeant ==
    ASSUME TypeOK, Meaning, UNCHANGED <<table, log>>, raced \subseteq raced',
           \A l \in Link, r \in Role :
               /\ MessagesMeant(log, raced', chan'[l][r]) \/ chan'[l][r] = chan[l][r]
               /\ \/ /\ pc'[l][r] \in {"idle", "hello"}
                     /\ pc[l][r] = "tombstone" =>
                           table[DeviceOf(l, r)][work[l][r].target].hash \in raced'
                  \/ pc'[l][r] = pc[l][r] /\ work'[l][r] = work[l][r]
    PROVE  Meaning'
<1>1. ChansMeant'
  <2> SUFFICES ASSUME NEW l \in Link, NEW r \in Role PROVE MessagesMeant(log, raced', chan'[l][r])
    BY DEF ChansMeant
  <2>1. MessagesMeant(log, raced', chan[l][r])
    BY MeantGrows DEF Meaning, ChansMeant
  <2> QED
    BY <2>1
<1>2. EndsMeant'
  <2> SUFFICES ASSUME NEW l \in Link, NEW r \in Role
               PROVE  EndMeant(log, raced', pc'[l][r], work'[l][r], table[DeviceOf(l, r)])
    BY DEF EndsMeant
  <2>1. EndMeant(log, raced, pc[l][r], work[l][r], table[DeviceOf(l, r)])
    BY DEF Meaning, EndsMeant
  <2>2. EndMeant(log, raced', pc[l][r], work[l][r], table[DeviceOf(l, r)])
    BY <2>1, EndMeantGrows
  <2>3. CASE pc'[l][r] \in {"idle", "hello"}
    BY <2>3, EndFreeMeant DEF Applying
  <2> QED
    BY <2>2, <2>3
<1>3. ASSUME NEW e \in Device, NEW j \in Ids(table[e]), j \notin HalfWritten(e)'
      PROVE  Meant(log, raced', table[e][j])
  <2>1. j \in Id
    BY DEF Ids
  <2>2. CASE j \in HalfWritten(e)
    <3>1. PICK k \in Link, q \in Role :
              DeviceOf(k, q) = e /\ pc[k][q] = "tombstone" /\ work[k][q].target = j
      BY <2>2 DEF HalfWritten
    <3>2. ~(pc'[k][q] = pc[k][q] /\ work'[k][q] = work[k][q])
      BY <1>3, <2>1, <3>1 DEF HalfWritten
    <3>3. table[e][j].hash \in raced'
      BY <3>1, <3>2
    <3> QED
      BY <3>3 DEF Meant
  <2>3. CASE j \notin HalfWritten(e)
    <3>1. Meant(log, raced, table[e][j])
      BY <2>3 DEF Meaning, TablesMeant, RowsMeant
    <3> QED
      BY <3>1, MeantGrows
  <2> QED
    BY <2>2, <2>3
<1>4. TablesMeant'
  BY <1>3 DEF TablesMeant, RowsMeant
<1> QED
  BY <1>1, <1>2, <1>4 DEF Meaning

LEMMA EmptyMeant == \A lg, rc : MessagesMeant(lg, rc, <<>>) /\ MessagesMeant(lg, rc, <<Hello>>)
BY NotPush DEF MessagesMeant

\* Links come up, break or are given up between two writes, and daemons
\* restart anywhere.
LEMMA LinkMeant ==
    ASSUME TypeOK, Meaning, NEW l \in Link, Dial(l) \/ Break(l)
    PROVE  Meaning'
<1>1. UNCHANGED <<table, log>> /\ raced \subseteq raced'
  BY DEF Dial, Break
<1>2. CASE Dial(l)
  <2>1. ASSUME NEW k \in Link, NEW q \in Role
        PROVE  /\ MessagesMeant(log, raced', chan'[k][q]) \/ chan'[k][q] = chan[k][q]
               /\ \/ pc'[k][q] \in {"idle", "hello"} /\ pc[k][q] # "tombstone"
                  \/ pc'[k][q] = pc[k][q] /\ work'[k][q] = work[k][q]
    <3>1. chan'[k][q] \in {<<>>, <<Hello>>, chan[k][q]}
      BY <1>2 DEF Dial, TypeOK
    <3>2. \/ pc'[k][q] \in {"idle", "hello"} /\ pc[k][q] # "tombstone"
          \/ pc'[k][q] = pc[k][q] /\ work'[k][q] = work[k][q]
      BY <1>2 DEF Dial, TypeOK
    <3> QED
      BY <3>1, <3>2, EmptyMeant
  <2> QED
    BY <1>1, <2>1, ResetMeant
<1>3. CASE Break(l)
  <2>1. UNCHANGED <<pc, work>>
    BY <1>3 DEF Break
  <2>2. \A k \in Link, q \in Role : chan'[k][q] \in {<<>>, chan[k][q]}
    BY <1>3 DEF Break, Cut, TypeOK
  <2> QED
    BY <1>1, <2>1, <2>2, EmptyMeant, ResetMeant
<1> QED
  BY <1>2, <1>3

LEMMA EndResetMeant ==
    ASSUME TypeOK, Meaning, NEW l \in Link, NEW r \in Role, Drop(l, r) \/ ApplyInsertFails(l, r)
    PROVE  Meaning'
<1>1. /\ UNCHANGED <<table, log>> /\ raced \subseteq raced'
      /\ Goto(l, r, "idle", Idle) /\ pc[l][r] # "tombstone"
  BY DEF Drop, ApplyInsertFails
<1>2. \A k \in Link, q \in Role : chan'[k][q] \in {<<>>, chan[k][q]}
  <2>1. CASE Drop(l, r)
    BY <2>1 DEF Drop
  <2>2. CASE ApplyInsertFails(l, r)
    BY <2>2 DEF ApplyInsertFails, Cut, TypeOK
  <2> QED
    BY <2>1, <2>2
<1>3. \A k \in Link, q \in Role :
          \/ pc'[k][q] \in {"idle", "hello"} /\ pc[k][q] # "tombstone"
          \/ pc'[k][q] = pc[k][q] /\ work'[k][q] = work[k][q]
  BY <1>1 DEF Goto, TypeOK
<1> QED
  BY <1>1, <1>2, <1>3, EmptyMeant, ResetMeant

LEMMA CrashMeant ==
    ASSUME TypeOK, Meaning, NEW d \in Device, Crash(d)
    PROVE  Meaning'
<1>1. UNCHANGED <<table, log>> /\ raced \subseteq raced'
  BY DEF Crash
<1>2. \A k \in Link, q \in Role : chan'[k][q] \in {<<>>, chan[k][q]}
  BY DEF Crash, TypeOK
<1>3. ASSUME NEW k \in Link, NEW q \in Role
      PROVE  \/ /\ pc'[k][q] \in {"idle", "hello"}
                /\ pc[k][q] = "tombstone" =>
                      table[DeviceOf(k, q)][work[k][q].target].hash \in raced'
             \/ pc'[k][q] = pc[k][q] /\ work'[k][q] = work[k][q]
  <2>1. CASE DeviceOf(k, q) # d
    BY <2>1 DEF Crash, TypeOK
  <2>2. CASE DeviceOf(k, q) = d
    <3>1. pc'[k][q] = "idle"
      BY <2>2 DEF Crash
    <3>2. ASSUME pc[k][q] = "tombstone"
          PROVE  table[d][work[k][q].target].hash \in raced'
      <4>1. work[k][q].target \in Id
        BY <3>2 DEF TypeOK, Fits, Ids
      <4>2. work[k][q].target \in HalfWritten(d)
        BY <2>2, <3>2, <4>1 DEF HalfWritten
      <4> QED
        BY <4>2 DEF Crash
    <3> QED
      BY <2>2, <3>1, <3>2
  <2> QED
    BY <2>1, <2>2
<1> QED
  BY <1>1, <1>2, <1>3, EmptyMeant, ResetMeant

------------------------------------------------------------------------------
(* The clocks of sessions and of restarts. *)

\* A session ticks a clock only to stamp the Ack of an empty store.
LEMMA AcknowledgeClocks ==
    ASSUME TypeOK, Clocks, NEW l \in Link, NEW r \in Role, Acknowledge(l, r)
    PROVE  Clocks'
<1> DEFINE d == DeviceOf(l, r)
           p == Physical(d)
           n == Now(clock[d], p)
<1>0. d \in Device
  BY DeviceOfType
<1> HIDE DEF d
<1>1. /\ clock[d] \in ClockState /\ p \in Nat /\ ops \in Nat /\ MaxOps \in Nat
      /\ clock \in [Device -> ClockState] /\ log \subseteq Row
  BY <1>0 DEF TypeOK, Physical
<1>2. UNCHANGED <<log, ops, wall>>
  BY DEF Acknowledge
<1>3. \/ clock' = clock
      \/ clock' = [clock EXCEPT ![d] = n] /\ clock[d].counter + MaxOps < MaxCounter
  BY DEF Acknowledge, d
<1>4. ClockAhead(d)
  BY <1>0 DEF Clocks
<1>5. Ticks(clock[d], n, p)
  BY <1>1, <1>4, NowTicks DEF ClockAhead
<1>6. \A c : Physical(c)' = Physical(c)
  BY <1>2 DEF Physical
<1>7. \A e \in log : e.hlc \in Hlc
  BY <1>1 DEF Row
<1> HIDE DEF n
<1>8. /\ n \in ClockState
      /\ n.counter <= clock[d].counter + 1 /\ n.wall <= p
      /\ \A h \in Hlc : Past(h, clock[d]) => Past(h, n)
  BY <1>5 DEF Ticks
<1>9. CASE clock' = clock
  BY <1>2, <1>6, <1>9 DEF Clocks, ClockAhead
<1>10. CASE clock' = [clock EXCEPT ![d] = n] /\ clock[d].counter + MaxOps < MaxCounter
  <2>1. n.counter \in Nat /\ clock[d].counter \in Nat /\ MaxCounter \in Nat
    BY <1>1, <1>8, HlcAssumption DEF ClockState
  <2>2. n.counter + MaxOps <= MaxCounter + ops
    BY <1>1, <1>8, <1>10, <2>1
  <2>3. clock'[d] = n
    BY <1>0, <1>1, <1>10
  <2>4. \A e \in log : e.hlc.device = d => e.hlc.wall <= p /\ (Past(e.hlc, n) \/ e.hlc.wall < p)
    BY <1>4, <1>7, <1>8 DEF ClockAhead
  <2>5. ClockAhead(d)'
    BY <1>2, <1>6, <1>8, <2>2, <2>3, <2>4 DEF ClockAhead
  <2>6. ASSUME NEW c \in Device, c # d PROVE ClockAhead(c)'
    <3>1. clock'[c] = clock[c] /\ ClockAhead(c)
      BY <1>1, <1>10, <2>6 DEF Clocks
    <3> QED
      BY <1>2, <1>6, <3>1 DEF ClockAhead
  <2> QED
    BY <2>5, <2>6 DEF Clocks
<1> QED
  BY <1>3, <1>9, <1>10

\* Time passes, and a daemon that restarts takes a new clock later than it
\* stamped anything.
LEMMA PassingClocks ==
    ASSUME TypeOK, Clocks, MaxOps <= MaxCounter, UNCHANGED <<log, ops>>, wall' = wall + 1,
           \A d \in Device : clock'[d] = clock[d] \/ clock'[d] = NewClock
    PROVE  Clocks'
<1> SUFFICES ASSUME NEW d \in Device PROVE ClockAhead(d)'
  BY DEF Clocks
<1>1. wall \in Nat /\ ops \in Nat /\ MaxOps \in Nat /\ MaxCounter \in Nat /\ Offset[d] \in Nat
  BY DEF TypeOK
<1>2. Physical(d)' = Physical(d) + 1 /\ Physical(d) \in Nat
  BY <1>1 DEF Physical
<1>3. ClockAhead(d) /\ clock[d] \in ClockState /\ log \subseteq Row
  BY DEF Clocks, TypeOK
<1>4. \A e \in log : e.hlc.wall \in Nat
  BY <1>3 DEF Row, Hlc
<1>5. \A e \in log : e.hlc.device = d => e.hlc.wall <= Physical(d)
  BY <1>3 DEF ClockAhead
<1>6. clock'[d].counter + MaxOps <= MaxCounter + ops /\ clock'[d].wall <= Physical(d)'
  <2>1. CASE clock'[d] = clock[d]
    BY <1>2, <1>3, <2>1 DEF ClockAhead, ClockState
  <2>2. CASE clock'[d] = NewClock
    <3>1. clock'[d].counter = 0 /\ clock'[d].wall = 0
      BY <2>2 DEF NewClock
    <3> QED
      BY <1>1, <1>2, <3>1
  <2> QED
    BY <2>1, <2>2
<1>7. \A e \in log : e.hlc.device = d => e.hlc.wall < Physical(d)'
  BY <1>2, <1>4, <1>5
<1> QED
  BY <1>1, <1>2, <1>4, <1>6, <1>7 DEF ClockAhead

\* What the devices know.
Sound == Clocks /\ Meaning

LEMMA SoundStep ==
    ASSUME TypeOK, Origin, Sound, MaxOps <= MaxCounter, [Next]_vars
    PROVE  Sound'
<1>0. Clocks /\ Meaning
  BY DEF Sound
<1>1. ASSUME NEW d \in Device, LocalStep(d) PROVE Sound'
  BY <1>0, <1>1, LocalClocks, LocalMeaning DEF Sound
<1>2. ASSUME NEW l \in Link, NEW r \in Role, EndStep(l, r) PROVE Sound'
  <2>1. Clocks'
    <3>1. Acknowledge(l, r) \/ UNCHANGED <<clock, log, ops, wall>>
      BY <1>2, Zenon DEF EndStep, RecvHello, Offer, RecvSummary, RecvWant, SendPush, RecvPush, ApplyInsert,
         ApplyInsertFails, ApplyPin, ApplyDelete, WantBlobs, RecvBlobWant, SendBlob, RecvBlob,
         RecvAck, Drop, SessionOnly
    <3>2. CASE UNCHANGED <<clock, log, ops, wall>>
      BY <1>0, <3>2 DEF Clocks, ClockAhead, Physical
    <3> QED
      BY <1>0, <3>1, <3>2, AcknowledgeClocks
  <2>2. Meaning'
    BY <1>0, <1>2, PlainSendMeant, PlainReceiveMeant, RecvWantMeant, SendPushMeant,
       RecvPushMeant, ApplyInsertMeant, ApplyPinMeant, ApplyDeleteMeant, EndResetMeant DEF EndStep
  <2> QED
    BY <2>1, <2>2 DEF Sound
<1>3. ASSUME NEW l \in Link, Dial(l) \/ Break(l) PROVE Sound'
  <2>1. UNCHANGED <<clock, log, ops, wall>>
    BY <1>3 DEF Dial, Break
  <2>2. Clocks'
    BY <1>0, <2>1 DEF Clocks, ClockAhead, Physical
  <2> QED
    BY <1>0, <1>3, <2>2, LinkMeant DEF Sound
<1>4. CASE TimePasses
  <2>1. UNCHANGED <<clock, log, ops, table, chan, pc, work, raced>> /\ wall' = wall + 1
    BY <1>4 DEF TimePasses, linkVars
  <2>2. Clocks'
    BY <1>0, <2>1, PassingClocks
  <2>3. Meaning'
    BY <1>0, <2>1, ResetMeant
  <2> QED
    BY <2>2, <2>3 DEF Sound
<1>5. ASSUME NEW d \in Device, Crash(d) PROVE Sound'
  <2>1. UNCHANGED <<log, ops>> /\ wall' = wall + 1
    BY <1>5 DEF Crash
  <2>2. \A c \in Device : clock'[c] = clock[c] \/ clock'[c] = NewClock
    BY <1>5 DEF Crash, TypeOK
  <2>3. Clocks'
    BY <1>0, <2>1, <2>2, PassingClocks
  <2> QED
    BY <1>0, <1>5, <2>3, CrashMeant DEF Sound
<1>6. CASE UNCHANGED vars
  <2>1. UNCHANGED <<clock, log, ops, wall, table, chan, pc, work, raced>>
    BY <1>6 DEF vars
  <2>2. Clocks'
    BY <1>0, <2>1 DEF Clocks, ClockAhead, Physical
  <2>3. Meaning'
    BY <1>0, <2>1, ResetMeant
  <2> QED
    BY <2>2, <2>3 DEF Sound
<1> QED
  BY <1>1, <1>2, <1>3, <1>4, <1>5, <1>6 DEF Next

LEMMA SoundInit ==
    ASSUME Init, MaxOps <= MaxCounter
    PROVE  Sound
<1>1. Clocks
  <2> SUFFICES ASSUME NEW d \in Device PROVE ClockAhead(d)
    BY DEF Clocks
  <2>1. MaxOps \in Nat /\ MaxCounter \in Nat /\ ops = 0 /\ log = {}
    BY DEF Init
  <2>2. clock[d].counter = 0 /\ clock[d].wall = 0
    BY DEF Init, NewClock
  <2>3. Physical(d) \in Nat
    BY DEF Init, Physical
  <2>4. 0 <= Physical(d) /\ 0 + MaxOps <= MaxCounter + 0
    BY <2>1, <2>3
  <2> QED
    BY <2>1, <2>2, <2>4 DEF ClockAhead
<1>2. TablesMeant
  BY DEF Init, TablesMeant, RowsMeant, Ids, EmptyTable
<1>3. ChansMeant
  BY EmptyMeant DEF Init, ChansMeant
<1>4. EndsMeant
  BY EndFreeMeant DEF Init, EndsMeant, Applying
<1> QED
  BY <1>1, <1>2, <1>3, <1>4 DEF Sound, Meaning

\* Last writer wins, for any devices, links, contents, faults and restarts,
\* while the clocks' counters outlast the operations (the handlers of
\* daemon.rs and capture.rs against apply of sync.rs): a row with the
\* timestamp of an operation carries the pin that operation left, and is
\* deleted if the operation deleted it, unless two tasks of some device raced
\* on that content.
THEOREM LastWriterWins ==
    ASSUME MaxOps <= MaxCounter
    PROVE  Spec => []StampMeansState
<1>1. Init => TypeOK /\ Origin /\ Sound
  BY InitType, OriginInit, SoundInit
<1>2. TypeOK /\ Origin /\ Sound /\ [Next]_vars => (TypeOK /\ Origin /\ Sound)'
  BY TypeStep, OriginStep, SoundStep
<1>3. Sound => StampMeansState
  BY DEF Sound, Meaning, TablesMeant, RowsMeant, Meant, StampMeansState
<1> QED
  BY <1>1, <1>2, <1>3, PTL DEF Spec
------------------------------------------------------------------------------
(* OneTalker and NeverStuck: the two ends of a session never both have     *)
(* something on its way to the other, a message is always the one its      *)
(* reader asks for, and the ends never wait for each other.                *)
(*                                                                         *)
(* Neither is inductive.  Alternation is: one end of an open link offers   *)
(* and the other takes.  The offering end sends a summary, pushes and      *)
(* blobs; the taking end sends two Wants and an Ack and then, if it is the *)
(* responder, offers in its turn.  How far each has come fixes what is on  *)
(* its way to the other, and the pushes (or blobs) that the taking end     *)
(* still expects are those on their way and those still to be sent.        *)

Count(f) == Cardinality(Items(f))

\* Where an offering end is, and how many answers it has taken.
Offering == {"offer", "want", "pushing", "blobwant", "blobs", "ack"}
Got(at) ==
    IF at \in {"offer", "want"} THEN 0
    ELSE IF at \in {"pushing", "blobwant"} THEN 1 ELSE 2

\* Where the taking end is, or is already, and how many answers it has sent.
Taking(a) ==
    {"summary", "push", "insert", "pin", "tombstone", "blob"}
        \cup (IF a = "dialler" THEN {"offer", "want"} ELSE {"idle"})
Said(at) ==
    IF at = "summary" THEN 0
    ELSE IF at \in {"push", "insert", "pin", "tombstone"} THEN 1
    ELSE IF at = "blob" THEN 2
    ELSE IF at \in {"offer", "idle"} THEN 3 ELSE 4
Answer(k) == IF k \in {1, 2} THEN "Want" ELSE IF k = 3 THEN "Ack" ELSE "Summary"

\* What an end has been told of, the other knows: tables never forget a hash.
KnownEntries(m, t) == \A k \in Items(m.entries) : m.entries[k].hash \in Hashes(t)
KnownHashes(m, t) == \A k \in Items(m.hashes) : m.hashes[k] \in Hashes(t)
AllOf(type, s) == \A k \in DOMAIN s : s[k].type = type

\* The answers under way are those sent and not taken.
Replies(pa, pb, ca) ==
    /\ Len(ca) = Said(pb) - Got(pa)
    /\ \A k \in DOMAIN ca : ca[k].type = Answer(Got(pa) + k)
Offers(pa, pb, cb, ta) ==
    /\ pa = "offer" => (Said(pb) = 0 /\ cb = <<>>)
    /\ (pa = "want" /\ Said(pb) = 0) =>
          (Len(cb) = 1 /\ cb[1].type = "Summary" /\ KnownEntries(cb[1], ta))
    /\ (pa = "want" /\ Said(pb) > 0) => cb = <<>>

\* An end that goes on without waiting for pushes or blobs has asked for none.
Asks(pa, pb, nb, ca, ta) ==
    (pa = "want" /\ Said(pb) > 0) =>
        /\ KnownHashes(ca[1], ta)
        /\ Said(pb) = 1 => (pb = "push" /\ nb = Count(ca[1].hashes))
        /\ Said(pb) > 1 => ca[1].hashes = EmptyList
AsksBlobs(pa, pb, nb, ca) ==
    (Got(pa) < 2 /\ Said(pb) > 1) =>
        /\ Said(pb) = 2 => nb = Count(ca[2 - Got(pa)].hashes)
        /\ Said(pb) > 2 => ca[2 - Got(pa)].hashes = EmptyList

\* What the taking end expects is what is under way and what will be sent.
Pushes(pa, pb, na, nb, cb) ==
    Got(pa) = 1 =>
        /\ pa = "pushing" <=> na > 0
        /\ Said(pb) = 1 => (AllOf("Push", cb) /\ nb = Len(cb) + na + (IF pb = "push" THEN 0 ELSE 1))
        /\ Said(pb) > 1 => (cb = <<>> /\ na = 0)
Blobs(pa, pb, na, nb, cb) ==
    Got(pa) = 2 =>
        /\ pa = "blobs" <=> na > 0
        /\ Said(pb) = 2 => (AllOf("Blob", cb) /\ nb = Len(cb) + na)
        /\ Said(pb) > 2 => (cb = <<>> /\ na = 0)
OffersNext(pa, pb, ca, tb) == Said(pb) = 4 => KnownEntries(ca[4 - Got(pa)], tb)

\* a offers: pa and pb are where the ends are, na and nb what they have left
\* to do, ca and cb what is on its way to them, ta and tb their tables.
Turn(a, pa, pb, na, nb, ca, cb, ta, tb) ==
    /\ pa \in Offering /\ pb \in Taking(a)
    /\ Replies(pa, pb, ca)
    /\ Offers(pa, pb, cb, ta)
    /\ Asks(pa, pb, nb, ca, ta)
    /\ Pushes(pa, pb, na, nb, cb)
    /\ AsksBlobs(pa, pb, nb, ca)
    /\ Blobs(pa, pb, na, nb, cb)
    /\ OffersNext(pa, pb, ca, tb)

TurnOf(l, a) ==
    LET b == Other(a) IN
    Turn(a, pc[l][a], pc[l][b], Count(work[l][a].todo), Count(work[l][b].todo),
         chan[l][a], chan[l][b], table[DeviceOf(l, a)], table[DeviceOf(l, b)])
Greeting(l) ==
    /\ pc[l]["dialler"] = "hello"
    /\ \/ /\ pc[l]["responder"] = "hello" /\ chan[l]["dialler"] = <<>>
          /\ Len(chan[l]["responder"]) = 1 /\ chan[l]["responder"][1].type = "Hello"
       \/ /\ pc[l]["responder"] = "summary" /\ chan[l]["responder"] = <<>>
          /\ Len(chan[l]["dialler"]) = 1 /\ chan[l]["dialler"][1].type = "Hello"
Over(l) == \A r \in Role : pc[l][r] = "idle" /\ chan[l][r] = <<>>
Talk(l) == Greeting(l) \/ (\E a \in Role : TurnOf(l, a)) \/ Over(l)
Talks(l) == IF up[l] THEN Talk(l) ELSE \A r \in Role : chan[l][r] = <<>>
Alternation == \A l \in Link : Talks(l)

------------------------------------------------------------------------------
(* Lists and channels. *)

LEMMA PosFinite == IsFiniteSet(Pos)
<1>1. Cardinality(Id) \in Nat  BY StoreAssumption, FS_CardinalityType
<1> QED  BY <1>1, FS_Interval DEF Pos

LEMMA CountType ==
    ASSUME NEW f
    PROVE  IsFiniteSet(Items(f)) /\ Count(f) \in Nat /\ (Count(f) = 0 <=> Items(f) = {})
<1>1. Items(f) \subseteq Pos  BY DEF Items
<1>2. IsFiniteSet(Items(f))  BY <1>1, PosFinite, FS_Subset
<1> QED  BY <1>2, FS_CardinalityType, FS_EmptySet DEF Count

LEMMA CountEmpty ==
    /\ Count(EmptyList) = 0
    /\ \A S : \A f \in List(S) : Count(f) = 0 => f = EmptyList
<1>1. Items(EmptyList) = {}  BY DEF Items, EmptyList
<1>2. ASSUME NEW S, NEW f \in List(S), Count(f) = 0 PROVE f = EmptyList
  <2>1. Items(f) = {}  BY <1>2, CountType
  <2>2. \A k \in Pos : f[k] = None  BY <2>1 DEF Items
  <2> QED  BY <2>2 DEF List, EmptyList
<1> QED  BY <1>1, <1>2, CountType

LEMMA CountRest ==
    ASSUME NEW S, NEW f \in List(S), f # EmptyList
    PROVE  Count(f) > 0 /\ Count(Rest(f)) = Count(f) - 1
<1>1. First(f) \in Pos /\ First(f) \in Items(f)  BY FirstItem
<1> DEFINE x == First(f)
<1>2. Items(Rest(f)) = Items(f) \ {x}
  <2> HIDE DEF x
  <2> SUFFICES Items([f EXCEPT ![x] = None]) = Items(f) \ {x}  BY DEF Rest, x
  <2> QED  BY <1>1 DEF Items, List, x
<1>3. Count(Rest(f)) = Count(f) - 1
  <2>1. IsFiniteSet(Items(f)) /\ x \in Items(f)  BY <1>1, CountType
  <2>2. Cardinality(Items(f) \ {x}) = Cardinality(Items(f)) - 1  BY <2>1, FS_RemoveElement
  <2> QED  BY <1>2, <2>2 DEF Count
<1>4. Count(f) \in Nat /\ Count(f) # 0  BY <1>1, CountType
<1> QED  BY <1>3, <1>4

\* t is s without its first message, and s with m after its last.
Shorter(s, t) ==
    /\ Len(s) > 0 /\ Len(t) = Len(s) - 1
    /\ \A k \in 1..Len(t) : t[k] = s[k + 1]
Longer(s, m, t) ==
    /\ Len(t) = Len(s) + 1
    /\ \A k \in 1..Len(s) : t[k] = s[k]
    /\ t[Len(s) + 1] = m

LEMMA TailSeq ==
    ASSUME NEW s \in Seq(Message), s # <<>>
    PROVE  Head(s) = s[1] /\ Tail(s) \in Seq(Message) /\ Shorter(s, Tail(s))
BY DEF Shorter

LEMMA AppendSeq ==
    ASSUME NEW s \in Seq(Message), NEW m \in Message
    PROVE  /\ Append(s, m) \in Seq(Message) /\ Longer(s, m, Append(s, m))
           /\ s \o <<m>> = Append(s, m) /\ s \o <<>> = s
BY DEF Longer

LEMMA EmptySeq ==
    ASSUME NEW s \in Seq(Message)
    PROVE  /\ Len(s) = 0 <=> s = <<>>
           /\ Len(s) \in Nat /\ DOMAIN s = 1..Len(s)
OBVIOUS

LEMMA Stages ==
    ASSUME NEW at
    PROVE  /\ Got(at) \in {0, 1, 2} /\ Said(at) \in {0, 1, 2, 3, 4}
           /\ Got("offer") = 0 /\ Got("want") = 0 /\ Got("pushing") = 1 /\ Got("blobwant") = 1
           /\ Got("blobs") = 2 /\ Got("ack") = 2
           /\ Said("summary") = 0 /\ Said("push") = 1 /\ Said("insert") = 1 /\ Said("pin") = 1
           /\ Said("tombstone") = 1 /\ Said("blob") = 2 /\ Said("offer") = 3
           /\ Said("idle") = 3 /\ Said("want") = 4
           /\ at \in Offering => /\ Got(at) = 0 => at \in {"offer", "want"}
                                 /\ Got(at) = 1 => at \in {"pushing", "blobwant"}
                                 /\ Got(at) = 2 => at \in {"blobs", "ack"}
           /\ \A a : at \in Taking(a) =>
                 /\ Said(at) = 0 => at = "summary"
                 /\ Said(at) = 1 => at \in {"push", "insert", "pin", "tombstone"}
                 /\ Said(at) = 2 => at = "blob"
                 /\ Said(at) = 3 => at \in {"offer", "idle"}
                 /\ Said(at) = 4 => at = "want"
BY DEF Got, Said, Offering, Taking
LEMMA AnswerIs ==
    Answer(1) = "Want" /\ Answer(2) = "Want" /\ Answer(3) = "Ack" /\ Answer(4) = "Summary"
BY DEF Answer

LEMMA TurnFacts ==
    ASSUME NEW a, NEW pa, NEW pb, NEW na \in Nat, NEW nb \in Nat,
           NEW ca \in Seq(Message), NEW cb \in Seq(Message), NEW ta, NEW tb,
           Turn(a, pa, pb, na, nb, ca, cb, ta, tb)
    PROVE  /\ Len(ca) = Said(pb) - Got(pa) /\ Len(ca) \in Nat /\ Len(cb) \in Nat
           /\ Got(pa) <= Said(pb)
           /\ cb # <<>> => (Said(pb) = Got(pa) /\ pa # "offer" /\ ca = <<>> /\ Len(cb) > 0)
           /\ ca # <<>> => (Len(ca) > 0 /\ Said(pb) > Got(pa)
                               /\ pa \in {"want", "blobwant", "ack"} /\ (Got(pa) > 0 => na = 0))
           /\ (Said(pb) = 1 /\ pb # "push") => Got(pa) = 1
<1>1. /\ Len(ca) = Said(pb) - Got(pa) /\ Len(ca) \in Nat /\ Len(cb) \in Nat
      /\ (Len(ca) = 0 <=> ca = <<>>) /\ (Len(cb) = 0 <=> cb = <<>>)
  BY EmptySeq DEF Turn, Replies
<1>2. pa \in Offering /\ pb \in Taking(a)  BY DEF Turn
<1>3. Got(pa) <= Said(pb)  BY <1>1, Stages, SMTT(30)
<1>4. cb # <<>> => (Said(pb) = Got(pa) /\ pa # "offer")
  BY <1>1, <1>2, <1>3, Stages DEF Turn, Offers, Pushes, Blobs
<1>5. ca # <<>> => (pa \in {"want", "blobwant", "ack"} /\ (Got(pa) > 0 => na = 0))
  BY <1>1, <1>2, <1>3, Stages DEF Turn, Offers, Pushes, Blobs
<1>6. (Said(pb) = 1 /\ pb # "push") => Got(pa) = 1
  BY <1>1, <1>2, <1>3, Stages DEF Turn, Offers, Asks
<1> QED  BY <1>1, <1>3, <1>4, <1>5, <1>6, Stages, SMTT(60)

LEMMA TurnAges ==
    ASSUME NEW a, NEW pa, NEW pb, NEW na, NEW nb, NEW ca, NEW cb,
           NEW ta, NEW tb, NEW ua, NEW ub, Ages(ta, ua), Ages(tb, ub),
           Turn(a, pa, pb, na, nb, ca, cb, ta, tb)
    PROVE  Turn(a, pa, pb, na, nb, ca, cb, ua, ub)
<1>1. Hashes(ta) \subseteq Hashes(ua) /\ Hashes(tb) \subseteq Hashes(ub)
  BY DEF Hashes, Ids, Ages
<1>2. \A m : /\ KnownEntries(m, ta) => KnownEntries(m, ua)
             /\ KnownEntries(m, tb) => KnownEntries(m, ub)
             /\ KnownHashes(m, ta) => KnownHashes(m, ua)
  BY <1>1 DEF KnownEntries, KnownHashes
<1> QED  BY <1>2 DEF Turn, Offers, Asks, OffersNext

------------------------------------------------------------------------------
(* The steps of a turn. *)

\* The answers on their way, one more and one fewer.
Same(n, s, t) == \A k \in 1..n : t[k] = s[k]
Shifted(n, s, t) == \A k \in 1..n : t[k] = s[k + 1]

LEMMA RepliesMore ==
    ASSUME NEW pa, NEW pb, NEW qb, NEW ca \in Seq(Message), NEW da \in Seq(Message), NEW m,
           Replies(pa, pb, ca), Longer(ca, m, da), Said(qb) = Said(pb) + 1,
           m.type = Answer(Said(qb))
    PROVE  /\ Replies(pa, qb, da)
           /\ da[Said(qb) - Got(pa)] = m
           /\ Same(Said(pb) - Got(pa), ca, da)
<1> DEFINE n == Len(ca)
           g == Got(pa)
           h == Said(pb)
<1>1. /\ n \in Nat /\ DOMAIN da = 1..(n + 1) /\ DOMAIN ca = 1..n
      /\ Len(da) = n + 1 /\ da[n + 1] = m /\ \A k \in 1..n : da[k] = ca[k]
  BY EmptySeq DEF Longer
<1>2. /\ n = h - g /\ g \in Nat /\ h \in Nat /\ Said(qb) = h + 1 /\ m.type = Answer(h + 1)
      /\ \A k \in 1..n : ca[k].type = Answer(g + k)
  BY <1>1, Stages DEF Replies
<1> SUFFICES Replies(pa, qb, da)  BY <1>1, <1>2 DEF Same
<1>3. Len(da) = Said(qb) - g
  <2> HIDE DEF n, g, h
  <2> QED  BY <1>1, <1>2
<1>4. ASSUME NEW k \in 1..(n + 1) PROVE da[k].type = Answer(g + k)
  <2> HIDE DEF n, g, h
  <2>1. g + (n + 1) = h + 1  BY <1>1, <1>2
  <2>2. CASE k = n + 1  BY <1>1, <1>2, <2>1, <2>2
  <2>3. CASE k \in 1..n  BY <1>1, <1>2, <2>3
  <2> QED  BY <2>2, <2>3, <1>1
<1> QED  BY <1>1, <1>3, <1>4 DEF Replies

LEMMA RepliesFewer ==
    ASSUME NEW pa, NEW qa, NEW pb, NEW ca \in Seq(Message), NEW da \in Seq(Message),
           Replies(pa, pb, ca), Shorter(ca, da), Got(qa) = Got(pa) + 1
    PROVE  /\ Replies(qa, pb, da)
           /\ ca[1].type = Answer(Got(qa))
           /\ Shifted(Said(pb) - Got(qa), ca, da)
<1> DEFINE n == Len(ca)
           g == Got(pa)
           h == Said(pb)
<1>1. /\ n \in Nat /\ n > 0 /\ DOMAIN da = 1..(n - 1) /\ DOMAIN ca = 1..n
      /\ Len(da) = n - 1 /\ \A k \in 1..(n - 1) : da[k] = ca[k + 1]
  BY EmptySeq DEF Shorter
<1>2. /\ n = h - g /\ g \in Nat /\ h \in Nat /\ Got(qa) = g + 1
      /\ \A k \in 1..n : ca[k].type = Answer(g + k)
  BY <1>1, Stages, SMTT(60) DEF Replies
<1>3. ASSUME NEW k \in 1..(n - 1)
      PROVE  da[k].type = Answer(Got(qa) + k)
  <2> HIDE DEF n, g, h
  <2>1. k + 1 \in 1..n /\ g + (k + 1) = Got(qa) + k  BY <1>1, <1>2
  <2>2. ca[k + 1].type = Answer(g + (k + 1))  BY <2>1, <1>2
  <2> QED  BY <2>1, <2>2, <1>1
<1>4. Len(da) = h - Got(qa) /\ h - Got(qa) = n - 1
  <2> HIDE DEF n, g, h
  <2> QED  BY <1>1, <1>2
<1>5. ca[1].type = Answer(Got(qa))
  <2> HIDE DEF n, g, h
  <2> QED  BY <1>1, <1>2
<1> QED  BY <1>1, <1>3, <1>4, <1>5 DEF Replies, Shifted

\* Offer by the end whose turn it is, and by a responder whose turn is next.
LEMMA TurnOffer ==
    ASSUME NEW a, NEW pb, NEW na \in Nat, NEW nb \in Nat,
           NEW ca \in Seq(Message), NEW cb \in Seq(Message), NEW ta, NEW tb,
           Turn(a, "offer", pb, na, nb, ca, cb, ta, tb),
           NEW db \in Seq(Message), NEW m, Longer(cb, m, db),
           m.type = "Summary", KnownEntries(m, ta), NEW k
    PROVE  Turn(a, "want", pb, k, nb, ca, db, ta, tb)
<1>1. pb \in Taking(a) /\ Said(pb) = 0 /\ cb = <<>> /\ Got("offer") = 0 /\ Got("want") = 0
  BY Stages DEF Turn, Offers
<1>2. db[1] = m /\ Len(db) = 1  BY <1>1 DEF Longer
<1>3. Replies("want", pb, ca)  BY <1>1 DEF Turn, Replies
<1> QED
  BY <1>1, <1>2, <1>3 DEF Turn, Offering, Offers, Asks, AsksBlobs, Pushes, Blobs, OffersNext

LEMMA TurnOfferNext ==
    ASSUME NEW a, NEW pa, NEW na \in Nat, NEW nb \in Nat,
           NEW ca \in Seq(Message), NEW cb \in Seq(Message), NEW ta, NEW tb,
           Turn(a, pa, "offer", na, nb, ca, cb, ta, tb),
           NEW da \in Seq(Message), NEW m, Longer(ca, m, da),
           m.type = "Summary", KnownEntries(m, tb), NEW k
    PROVE  Turn(a, pa, "want", na, k, da, cb, ta, tb)
<1>1. pa \in Offering /\ "want" \in Taking(a) /\ Said("offer") = 3 /\ Said("want") = 4
      /\ Got(pa) \in {0, 1, 2} /\ pa # "offer"
  BY Stages DEF Turn, Offers, Taking
<1>2. Replies(pa, "want", da) /\ da[4 - Got(pa)] = m /\ \A j \in 1..(3 - Got(pa)) : da[j] = ca[j]
  <2>1. Replies(pa, "offer", ca)  BY DEF Turn
  <2>2. m.type = Answer(Said("want")) /\ Said("want") = Said("offer") + 1  BY <1>1, AnswerIs
  <2>3. /\ Replies(pa, "want", da) /\ da[Said("want") - Got(pa)] = m
        /\ Same(Said("offer") - Got(pa), ca, da)
    BY <2>1, <2>2, RepliesMore, SMTT(60)
  <2> QED  BY <1>1, <2>3 DEF Same
<1>3. da[1] = ca[1] /\ (Got(pa) < 2 => da[2 - Got(pa)] = ca[2 - Got(pa)])
  BY <1>1, <1>2, SMTT(30)
<1>4. Asks(pa, "want", k, da, ta)  BY <1>1, <1>3 DEF Turn, Asks
<1>5. AsksBlobs(pa, "want", k, da)  BY <1>1, <1>3 DEF Turn, AsksBlobs
<1> QED
  BY <1>1, <1>2, <1>4, <1>5 DEF Turn, Offers, Pushes, Blobs, OffersNext

\* The taking end answers a summary.
LEMMA TurnSummary ==
    ASSUME NEW a, NEW pa, NEW na \in Nat, NEW nb \in Nat,
           NEW ca \in Seq(Message), NEW cb \in Seq(Message), NEW ta, NEW tb,
           Turn(a, pa, "summary", na, nb, ca, cb, ta, tb),
           NEW da \in Seq(Message), NEW db \in Seq(Message), NEW m,
           Shorter(cb, db), Longer(ca, m, da),
           m.type = "Want", KnownEntries(cb[1], ta) => KnownHashes(m, ta)
    PROVE  Turn(a, pa, "push", na, Count(m.hashes), da, db, ta, tb)
<1>0. cb # <<>>  BY DEF Shorter
<1>1. /\ Said("summary") = 0 /\ Said("push") = 1 /\ Got(pa) = 0 /\ pa = "want"
      /\ ca = <<>> /\ Got("want") = 0
  <2>1. Said("summary") = Got(pa) /\ pa # "offer" /\ ca = <<>>  BY <1>0, TurnFacts
  <2>2. pa \in Offering  BY DEF Turn
  <2> QED  BY <2>1, <2>2, Stages
<1>2. Len(cb) = 1 /\ KnownEntries(cb[1], ta)  BY <1>1 DEF Turn, Offers
<1>3. db = <<>>  BY <1>2, EmptySeq DEF Shorter
<1>4. Replies(pa, "push", da) /\ da[1] = m
  <2>1. Replies(pa, "summary", ca)  BY DEF Turn
  <2>2. m.type = Answer(Said("push")) /\ Said("push") = Said("summary") + 1  BY <1>1, AnswerIs
  <2>3. Replies(pa, "push", da) /\ da[Said("push") - Got(pa)] = m
    BY <2>1, <2>2, RepliesMore
  <2> QED  BY <1>1, <2>3 DEF Same
<1>5. Asks(pa, "push", Count(m.hashes), da, ta)  BY <1>1, <1>2, <1>4 DEF Asks
<1> QED
  BY <1>1, <1>3, <1>4, <1>5
  DEF Turn, Offering, Taking, Offers, AsksBlobs, Pushes, Blobs, OffersNext

\* at is where a loop with k rounds left is.
Loops(at, loop, after, k) ==
    k \in Nat /\ at \in {loop, after} /\ (at = loop <=> k > 0)

\* The offering end takes the first Want.
LEMMA TurnWant ==
    ASSUME NEW a, NEW pb, NEW qa, NEW na \in Nat, NEW nb \in Nat,
           NEW ca \in Seq(Message), NEW cb \in Seq(Message), NEW ta, NEW tb,
           Turn(a, "want", pb, na, nb, ca, cb, ta, tb),
           NEW da \in Seq(Message), Shorter(ca, da),
           NEW k, k = Count(ca[1].hashes), Loops(qa, "pushing", "blobwant", k)
    PROVE  Turn(a, qa, pb, k, nb, da, cb, ta, tb)
<1> USE DEF Loops
<1>0. ca # <<>>  BY DEF Shorter
<1>1. /\ Got("want") = 0 /\ Got(qa) = 1 /\ qa \in Offering /\ pb \in Taking(a)
      /\ Said(pb) \in {1, 2, 3, 4} /\ cb = <<>> /\ qa # "offer" /\ qa # "want"
  <2>1. Said(pb) > Got("want") /\ (cb # <<>> => ca = <<>>)  BY <1>0, TurnFacts
  <2>2. pb \in Taking(a)  BY DEF Turn
  <2>3. Got("want") = 0 /\ Got(qa) = 1 /\ qa \in Offering /\ Said(pb) \in {0, 1, 2, 3, 4}
    BY Stages DEF Offering
  <2> QED  BY <1>0, <2>1, <2>2, <2>3
<1>2. Replies(qa, pb, da) /\ \A j \in 1..(Said(pb) - 1) : da[j] = ca[j + 1]
  <2>1. Replies("want", pb, ca) /\ Got(qa) = Got("want") + 1  BY <1>1 DEF Turn
  <2>2. Replies(qa, pb, da) /\ Shifted(Said(pb) - Got(qa), ca, da)
    BY <2>1, RepliesFewer
  <2> QED  BY <1>1, <2>2 DEF Shifted
<1>3. /\ Said(pb) = 1 => (pb = "push" /\ nb = k)
      /\ Said(pb) > 1 => k = 0
  BY <1>1, CountEmpty DEF Turn, Asks
<1>4. Pushes(qa, pb, k, nb, cb)
  <2>1. AllOf("Push", cb) /\ Len(cb) = 0  BY <1>1 DEF AllOf
  <2> QED  BY <1>1, <1>3, <2>1 DEF Pushes
<1>5. /\ Said(pb) > 1 => da[1] = ca[2]
      /\ Said(pb) = 4 => da[3] = ca[4]
  BY <1>1, <1>2, SMTT(60)
<1>6. AsksBlobs(qa, pb, nb, da)  BY <1>1, <1>5 DEF Turn, AsksBlobs
<1>7. OffersNext(qa, pb, da, tb)  BY <1>1, <1>5 DEF Turn, OffersNext
<1> QED
  BY <1>1, <1>2, <1>4, <1>6, <1>7 DEF Turn, Offers, Asks, Blobs

LEMMA AllMore ==
    ASSUME NEW type, NEW s \in Seq(Message), NEW t \in Seq(Message), NEW m,
           Longer(s, m, t), m.type = type, AllOf(type, s)
    PROVE  AllOf(type, t)
<1>1. DOMAIN t = 1..(Len(s) + 1) /\ DOMAIN s = 1..Len(s) /\ Len(s) \in Nat
  BY EmptySeq DEF Longer
<1> QED  BY <1>1, SMTT(30) DEF AllOf, Longer

LEMMA AllFewer ==
    ASSUME NEW type, NEW s \in Seq(Message), NEW t \in Seq(Message),
           Shorter(s, t), AllOf(type, s)
    PROVE  AllOf(type, t)
<1>1. DOMAIN t = 1..(Len(s) - 1) /\ DOMAIN s = 1..Len(s) /\ Len(s) \in Nat /\ Len(t) = Len(s) - 1
  BY EmptySeq DEF Shorter
<1>2. ASSUME NEW k \in DOMAIN t  PROVE  t[k].type = type
  <2>1. k + 1 \in DOMAIN s /\ t[k] = s[k + 1]  BY <1>1 DEF Shorter
  <2> QED  BY <2>1 DEF AllOf
<1> QED  BY <1>2 DEF AllOf

\* The offering end sends one of the clips it has to push.
LEMMA TurnPush ==
    ASSUME NEW a, NEW pb, NEW qa, NEW na \in Nat, NEW nb \in Nat,
           NEW ca \in Seq(Message), NEW cb \in Seq(Message), NEW ta, NEW tb,
           Turn(a, "pushing", pb, na, nb, ca, cb, ta, tb),
           NEW db \in Seq(Message), NEW m, Longer(cb, m, db), m.type = "Push",
           NEW k, k = na - 1, Loops(qa, "pushing", "blobwant", k)
    PROVE  Turn(a, qa, pb, k, nb, ca, db, ta, tb)
<1> USE DEF Loops
<1>1. /\ Got("pushing") = 1 /\ Got(qa) = 1 /\ qa \in Offering /\ pb \in Taking(a)
      /\ Said(pb) \in {0, 1, 2, 3, 4} /\ qa # "offer" /\ qa # "want"
  BY Stages DEF Turn, Offering
<1>2. Said(pb) = 1
  <2>1. Got("pushing") <= Said(pb)  BY TurnFacts
  <2>2. na > 0 /\ ~(Said(pb) > 1)  BY <1>1 DEF Turn, Pushes
  <2> QED  BY <1>1, <2>1, <2>2
<1>3. Replies(qa, pb, ca)  BY <1>1 DEF Turn, Replies
<1>4. AllOf("Push", cb) /\ nb = Len(cb) + na + (IF pb = "push" THEN 0 ELSE 1)
  BY <1>1, <1>2 DEF Turn, Pushes
<1>5. AllOf("Push", db) /\ Len(db) = Len(cb) + 1 /\ Len(cb) \in Nat
  BY <1>4, AllMore, EmptySeq DEF Longer
<1>6. Pushes(qa, pb, k, nb, db)  BY <1>1, <1>2, <1>4, <1>5 DEF Pushes
<1> QED
  BY <1>1, <1>2, <1>3, <1>6 DEF Turn, Offers, Asks, AsksBlobs, Blobs, OffersNext

\* Of nb clips that an end expects k are left once it is at qb.
Deals(qb, nb, k) ==
    k \in Nat /\ ((qb \in Applying /\ k = nb) \/ (qb = "push" /\ k = nb - 1))

\* The taking end takes a push and has it to apply, or ignores it.
LEMMA TurnTakePush ==
    ASSUME NEW a, NEW pa, NEW qb, NEW na \in Nat, NEW nb \in Nat,
           NEW ca \in Seq(Message), NEW cb \in Seq(Message), NEW ta, NEW tb,
           Turn(a, pa, "push", na, nb, ca, cb, ta, tb),
           NEW db \in Seq(Message), Shorter(cb, db), NEW k, Deals(qb, nb, k)
    PROVE  Turn(a, pa, qb, na, k, ca, db, ta, tb)
<1> USE DEF Deals
<1>0. cb # <<>>  BY DEF Shorter
<1>1. /\ Said("push") = 1 /\ Said(qb) = 1 /\ Got(pa) = 1 /\ pa \in Offering /\ qb \in Taking(a)
      /\ pa # "want" /\ pa # "offer"
  <2>1. Said("push") = Got(pa)  BY <1>0, TurnFacts
  <2>2. pa \in Offering  BY DEF Turn
  <2>3. qb \in Taking(a)  BY DEF Taking, Applying
  <2>4. Said(qb) = 1  BY Stages DEF Applying
  <2> QED  BY <2>1, <2>2, <2>3, <2>4, Stages
<1>2. Replies(pa, qb, ca)  BY <1>1 DEF Turn, Replies
<1>3. AllOf("Push", cb) /\ nb = Len(cb) + na /\ (pa = "pushing" <=> na > 0)
  BY <1>1 DEF Turn, Pushes
<1>4. AllOf("Push", db) /\ Len(db) = Len(cb) - 1 /\ Len(cb) \in Nat
  BY <1>3, AllFewer, EmptySeq DEF Shorter
<1>5. qb \in Applying => qb # "push"  BY DEF Applying
<1>6. Pushes(pa, qb, na, k, db)  BY <1>1, <1>3, <1>4, <1>5, SMTT(60) DEF Pushes
<1> QED
  BY <1>1, <1>2, <1>6 DEF Turn, Offers, Asks, AsksBlobs, Blobs, OffersNext

\* The taking end applies what it took.
LEMMA TurnApply ==
    ASSUME NEW a, NEW pa, NEW pb \in Applying, NEW qb, NEW na \in Nat, NEW nb \in Nat,
           NEW ca \in Seq(Message), NEW cb \in Seq(Message), NEW ta, NEW tb,
           Turn(a, pa, pb, na, nb, ca, cb, ta, tb), NEW k, Deals(qb, nb, k)
    PROVE  Turn(a, pa, qb, na, k, ca, cb, ta, tb)
<1> USE DEF Deals
<1>1. /\ Said(pb) = 1 /\ Said(qb) = 1 /\ Got(pa) = 1 /\ pa \in Offering /\ qb \in Taking(a)
      /\ pa # "want" /\ pa # "offer" /\ pb # "push"
  <2>1. Said(pb) = 1 /\ Said(qb) = 1 /\ pb # "push"  BY Stages DEF Applying
  <2>2. pa \in Offering  BY DEF Turn
  <2>3. qb \in Taking(a)  BY DEF Taking, Applying
  <2>4. Got(pa) = 1  BY <2>1, TurnFacts
  <2> QED  BY <2>1, <2>2, <2>3, <2>4, Stages
<1>2. Replies(pa, qb, ca)  BY <1>1 DEF Turn, Replies
<1>3. AllOf("Push", cb) /\ nb = Len(cb) + na + 1 /\ (pa = "pushing" <=> na > 0)
  BY <1>1 DEF Turn, Pushes
<1>4. Len(cb) \in Nat  BY EmptySeq
<1>5. qb \in Applying => qb # "push"  BY DEF Applying
<1>6. Pushes(pa, qb, na, k, cb)
  <2>1. k = Len(cb) + na + (IF qb = "push" THEN 0 ELSE 1)
    <3>1. CASE qb = "push"  BY <1>3, <1>4, <1>5, <3>1
    <3>2. CASE qb # "push"  BY <1>3, <1>4, <3>2
    <3> QED  BY <3>1, <3>2
  <2> QED  BY <1>1, <1>3, <1>4, <2>1 DEF Pushes
<1> QED
  BY <1>1, <1>2, <1>6 DEF Turn, Offers, Asks, AsksBlobs, Blobs, OffersNext

\* The taking end has applied every push and asks for blobs.
LEMMA TurnWantBlobs ==
    ASSUME NEW a, NEW pa, NEW na \in Nat, NEW nb, nb = 0,
           NEW ca \in Seq(Message), NEW cb \in Seq(Message), NEW ta, NEW tb,
           Turn(a, pa, "push", na, nb, ca, cb, ta, tb),
           NEW da \in Seq(Message), NEW m, Longer(ca, m, da), m.type = "Want"
    PROVE  Turn(a, pa, "blob", na, Count(m.hashes), da, cb, ta, tb)
<1>1. /\ pa \in Offering /\ "blob" \in Taking(a) /\ Said("push") = 1 /\ Said("blob") = 2
      /\ Got(pa) \in {0, 1} /\ pa # "offer" /\ Got("want") = 0 /\ (Got(pa) = 0 => pa = "want")
  <2>1. pa \in Offering /\ "blob" \in Taking(a)  BY DEF Turn, Taking
  <2>2. Got(pa) <= Said("push")  BY TurnFacts
  <2>3. Said("push") = 1 /\ Said("blob") = 2 /\ Got("want") = 0 /\ Got(pa) \in {0, 1, 2}
        /\ (Got(pa) = 0 => pa \in {"offer", "want"})
    BY <2>1, Stages
  <2>4. pa # "offer"  BY <2>3 DEF Turn, Offers
  <2> QED  BY <2>1, <2>2, <2>3, <2>4
<1>2. /\ Replies(pa, "blob", da) /\ da[2 - Got(pa)] = m
      /\ \A j \in 1..(1 - Got(pa)) : da[j] = ca[j]
  <2>1. Replies(pa, "push", ca)  BY DEF Turn
  <2>2. m.type = Answer(Said("blob")) /\ Said("blob") = Said("push") + 1  BY <1>1, AnswerIs
  <2>3. /\ Replies(pa, "blob", da) /\ da[Said("blob") - Got(pa)] = m
        /\ Same(Said("push") - Got(pa), ca, da)
    BY <2>1, <2>2, RepliesMore, SMTT(60)
  <2> QED  BY <1>1, <2>3 DEF Same
<1>3. Asks(pa, "blob", Count(m.hashes), da, ta)
  <2> SUFFICES ASSUME pa = "want" PROVE KnownHashes(da[1], ta) /\ da[1].hashes = EmptyList
    BY <1>1 DEF Asks
  <2>1. KnownHashes(ca[1], ta) /\ Count(ca[1].hashes) = 0
    BY <1>1 DEF Turn, Asks
  <2>2. Len(ca) = 1 /\ ca[1].type = "Want"
    BY <1>1, AnswerIs, EmptySeq DEF Turn, Replies
  <2>3. ca[1] \in Message
    <3>1. 1 \in 1..Len(ca)  BY <2>2
    <3> QED  BY <3>1
  <2>4. ca[1].hashes \in List(Hash)  BY <2>2, <2>3, MessageFields
  <2>5. ca[1].hashes = EmptyList  BY <2>1, <2>4, CountEmpty
  <2>6. da[1] = ca[1]  BY <1>1, <1>2, SMTT(30)
  <2> QED  BY <2>1, <2>5, <2>6
<1>4. AsksBlobs(pa, "blob", Count(m.hashes), da)  BY <1>1, <1>2 DEF AsksBlobs
<1>5. Got(pa) = 1 => (cb = <<>> /\ na = 0)
  <2>1. Got(pa) = 1 => nb = Len(cb) + na  BY <1>1 DEF Turn, Pushes
  <2> QED  BY <2>1, EmptySeq
<1>6. Pushes(pa, "blob", na, Count(m.hashes), cb)  BY <1>1, <1>5 DEF Turn, Pushes
<1>7. Offers(pa, "blob", cb, ta)  BY <1>1 DEF Turn, Offers
<1> QED
  BY <1>1, <1>2, <1>3, <1>4, <1>6, <1>7 DEF Turn, Blobs, OffersNext

\* The offering end takes the second Want.
LEMMA TurnBlobWant ==
    ASSUME NEW a, NEW pb, NEW qa, NEW na \in Nat, NEW nb \in Nat,
           NEW ca \in Seq(Message), NEW cb \in Seq(Message), NEW ta, NEW tb,
           Turn(a, "blobwant", pb, na, nb, ca, cb, ta, tb),
           NEW da \in Seq(Message), Shorter(ca, da),
           NEW k, k = Count(ca[1].hashes), Loops(qa, "blobs", "ack", k)
    PROVE  Turn(a, qa, pb, k, nb, da, cb, ta, tb)
<1> USE DEF Loops
<1>0. ca # <<>>  BY DEF Shorter
<1>1. /\ Got("blobwant") = 1 /\ Got(qa) = 2 /\ qa \in Offering /\ pb \in Taking(a)
      /\ Said(pb) \in {2, 3, 4} /\ cb = <<>> /\ qa # "offer" /\ qa # "want"
  <2>1. Said(pb) > Got("blobwant") /\ (cb # <<>> => ca = <<>>)  BY <1>0, TurnFacts
  <2>2. pb \in Taking(a)  BY DEF Turn
  <2>3. Got("blobwant") = 1 /\ Got(qa) = 2 /\ qa \in Offering /\ Said(pb) \in {0, 1, 2, 3, 4}
    BY Stages DEF Offering
  <2> QED  BY <1>0, <2>1, <2>2, <2>3
<1>2. Replies(qa, pb, da) /\ \A j \in 1..(Said(pb) - 2) : da[j] = ca[j + 1]
  <2>1. Replies("blobwant", pb, ca) /\ Got(qa) = Got("blobwant") + 1  BY <1>1 DEF Turn
  <2>2. Replies(qa, pb, da) /\ Shifted(Said(pb) - Got(qa), ca, da)
    BY <2>1, RepliesFewer
  <2> QED  BY <1>1, <2>2 DEF Shifted
<1>3. /\ Said(pb) = 2 => nb = k
      /\ Said(pb) > 2 => k = 0
  BY <1>1, CountEmpty DEF Turn, AsksBlobs
<1>4. Blobs(qa, pb, k, nb, cb)
  <2>1. AllOf("Blob", cb) /\ Len(cb) = 0  BY <1>1 DEF AllOf
  <2> QED  BY <1>1, <1>3, <2>1 DEF Blobs
<1>5. Said(pb) = 4 => da[2] = ca[3]  BY <1>1, <1>2
<1>6. OffersNext(qa, pb, da, tb)  BY <1>1, <1>5 DEF Turn, OffersNext
<1> QED
  BY <1>1, <1>2, <1>4, <1>6 DEF Turn, Offers, Asks, AsksBlobs, Pushes

\* The offering end sends a blob, and the taking end takes it.
LEMMA TurnBlob ==
    ASSUME NEW a, NEW pb, NEW qa, NEW na \in Nat, NEW nb \in Nat,
           NEW ca \in Seq(Message), NEW cb \in Seq(Message), NEW ta, NEW tb,
           Turn(a, "blobs", pb, na, nb, ca, cb, ta, tb),
           NEW db \in Seq(Message), NEW m, Longer(cb, m, db), m.type = "Blob",
           NEW k, k = na - 1, Loops(qa, "blobs", "ack", k)
    PROVE  Turn(a, qa, pb, k, nb, ca, db, ta, tb)
<1> USE DEF Loops
<1>1. /\ Got("blobs") = 2 /\ Got(qa) = 2 /\ qa \in Offering /\ pb \in Taking(a)
      /\ Said(pb) \in {0, 1, 2, 3, 4} /\ qa # "offer" /\ qa # "want"
  BY Stages DEF Turn, Offering
<1>2. Said(pb) = 2
  <2>1. Got("blobs") <= Said(pb)  BY TurnFacts
  <2>2. na > 0 /\ ~(Said(pb) > 2)  BY <1>1 DEF Turn, Blobs
  <2> QED  BY <1>1, <2>1, <2>2
<1>3. Replies(qa, pb, ca)  BY <1>1 DEF Turn, Replies
<1>4. AllOf("Blob", cb) /\ nb = Len(cb) + na  BY <1>1, <1>2 DEF Turn, Blobs
<1>5. AllOf("Blob", db) /\ Len(db) = Len(cb) + 1 /\ Len(cb) \in Nat
  BY <1>4, AllMore, EmptySeq DEF Longer
<1>6. Blobs(qa, pb, k, nb, db)  BY <1>1, <1>2, <1>4, <1>5 DEF Blobs
<1> QED
  BY <1>1, <1>2, <1>3, <1>6 DEF Turn, Offers, Asks, AsksBlobs, Pushes, OffersNext

LEMMA TurnTakeBlob ==
    ASSUME NEW a, NEW pa, NEW na \in Nat, NEW nb \in Nat,
           NEW ca \in Seq(Message), NEW cb \in Seq(Message), NEW ta, NEW tb,
           Turn(a, pa, "blob", na, nb, ca, cb, ta, tb),
           NEW db \in Seq(Message), Shorter(cb, db), NEW k \in Nat, k = nb - 1
    PROVE  Turn(a, pa, "blob", na, k, ca, db, ta, tb)
<1>0. cb # <<>>  BY DEF Shorter
<1>1. /\ Said("blob") = 2 /\ Got(pa) = 2 /\ pa \in Offering /\ pa # "want" /\ pa # "offer"
  <2>1. Said("blob") = Got(pa)  BY <1>0, TurnFacts
  <2>2. pa \in Offering  BY DEF Turn
  <2> QED  BY <2>1, <2>2, Stages
<1>3. AllOf("Blob", cb) /\ nb = Len(cb) + na /\ (pa = "blobs" <=> na > 0)
  BY <1>1 DEF Turn, Blobs
<1>4. AllOf("Blob", db) /\ Len(db) = Len(cb) - 1 /\ Len(cb) \in Nat
  BY <1>3, AllFewer, EmptySeq DEF Shorter
<1>6. Blobs(pa, "blob", na, k, db)  BY <1>1, <1>3, <1>4 DEF Blobs
<1> QED
  BY <1>1, <1>6 DEF Turn, Offers, Asks, AsksBlobs, Pushes, OffersNext

\* The taking end has every blob and acknowledges.
LEMMA TurnAcknowledge ==
    ASSUME NEW a \in Role, NEW pa, NEW qb, qb = (IF a = "dialler" THEN "offer" ELSE "idle"),
           NEW na \in Nat, NEW nb, nb = 0,
           NEW ca \in Seq(Message), NEW cb \in Seq(Message), NEW ta, NEW tb,
           Turn(a, pa, "blob", na, nb, ca, cb, ta, tb),
           NEW da \in Seq(Message), NEW m, Longer(ca, m, da), m.type = "Ack", NEW k
    PROVE  Turn(a, pa, qb, na, k, da, cb, ta, tb)
<1>1. /\ pa \in Offering /\ qb \in Taking(a) /\ Said("blob") = 2 /\ Said(qb) = 3
      /\ Got(pa) \in {0, 1, 2} /\ pa # "offer" /\ Got("want") = 0
  <2>1. pa \in Offering /\ qb \in Taking(a)  BY DEF Turn, Taking
  <2>2. Said("blob") = 2 /\ Said(qb) = 3 /\ Got("want") = 0 /\ Got(pa) \in {0, 1, 2}
    BY Stages
  <2>3. pa # "offer"  BY <2>2 DEF Turn, Offers
  <2> QED  BY <2>1, <2>2, <2>3
<1>2. Replies(pa, qb, da) /\ \A j \in 1..(2 - Got(pa)) : da[j] = ca[j]
  <2>1. Replies(pa, "blob", ca)  BY DEF Turn
  <2>2. m.type = Answer(Said(qb)) /\ Said(qb) = Said("blob") + 1  BY <1>1, AnswerIs
  <2>3. Replies(pa, qb, da) /\ Same(Said("blob") - Got(pa), ca, da)
    BY <2>1, <2>2, RepliesMore
  <2> QED  BY <1>1, <2>3 DEF Same
<1>3. Got(pa) < 2 => (da[1] = ca[1] /\ da[2 - Got(pa)] = ca[2 - Got(pa)])
  BY <1>1, <1>2, SMTT(30)
<1>4. Asks(pa, qb, k, da, ta)  BY <1>1, <1>3 DEF Turn, Asks
<1>5. AsksBlobs(pa, qb, k, da)
  <2> SUFFICES ASSUME Got(pa) < 2 PROVE ca[2 - Got(pa)].hashes = EmptyList
    BY <1>1, <1>3 DEF AsksBlobs
  <2>1. Count(ca[2 - Got(pa)].hashes) = 0  BY <1>1 DEF Turn, AsksBlobs
  <2>2. Len(ca) = 2 - Got(pa) /\ ca[2 - Got(pa)].type = "Want"
    <3>1. Len(ca) = 2 - Got(pa) /\ 2 - Got(pa) \in DOMAIN ca /\ Got(pa) + (2 - Got(pa)) = 2
      BY <1>1, EmptySeq DEF Turn, Replies
    <3>2. ca[2 - Got(pa)].type = Answer(Got(pa) + (2 - Got(pa)))
      BY <3>1 DEF Turn, Replies
    <3> QED  BY <3>1, <3>2, AnswerIs
  <2>3. 2 - Got(pa) \in 1..Len(ca)  BY <1>1, <2>2
  <2>4. ca[2 - Got(pa)] \in Message  BY <2>3
  <2>5. ca[2 - Got(pa)].hashes \in List(Hash)  BY <2>2, <2>4, MessageFields
  <2> QED  BY <2>1, <2>5, CountEmpty
<1>6. Got(pa) = 2 => (cb = <<>> /\ na = 0)
  <2>1. Got(pa) = 2 => nb = Len(cb) + na  BY <1>1 DEF Turn, Blobs
  <2> QED  BY <2>1, EmptySeq
<1>7. Blobs(pa, qb, na, k, cb)  BY <1>1, <1>6 DEF Turn, Blobs
<1>8. Pushes(pa, qb, na, k, cb)  BY <1>1 DEF Turn, Pushes
<1>9. Offers(pa, qb, cb, ta)  BY <1>1 DEF Turn, Offers
<1> QED
  BY <1>1, <1>2, <1>4, <1>5, <1>7, <1>8, <1>9 DEF Turn, OffersNext

\* What an end that is acknowledged finds.
Acked(a, pb, cb, da, tb) ==
    /\ cb = <<>> /\ pb \in Taking(a) /\ Said(pb) \in {3, 4}
    /\ Said(pb) = 3 => da = <<>>
    /\ Said(pb) = 4 => (Len(da) = 1 /\ da[1].type = "Summary" /\ KnownEntries(da[1], tb))
    /\ a = "responder" => (pb = "idle" /\ da = <<>>)

\* The offering end takes the acknowledgement: a dialler then listens, and a
\* responder is done, as the dialler is.
LEMMA TurnLastAck ==
    ASSUME NEW a \in Role, NEW pb, NEW na \in Nat, NEW nb \in Nat,
           NEW ca \in Seq(Message), NEW cb \in Seq(Message), NEW ta, NEW tb,
           Turn(a, "ack", pb, na, nb, ca, cb, ta, tb),
           NEW da \in Seq(Message), Shorter(ca, da)
    PROVE  Acked(a, pb, cb, da, tb)
<1>0. ca # <<>>  BY DEF Shorter
<1>1. /\ Got("ack") = 2 /\ pb \in Taking(a) /\ Said(pb) \in {3, 4} /\ cb = <<>>
      /\ Said("summary") = 0
  <2>1. Said(pb) > Got("ack") /\ (cb # <<>> => ca = <<>>)  BY <1>0, TurnFacts
  <2>2. pb \in Taking(a)  BY DEF Turn
  <2>3. Got("ack") = 2 /\ Said(pb) \in {0, 1, 2, 3, 4} /\ Said("summary") = 0  BY Stages
  <2> QED  BY <1>0, <2>1, <2>2, <2>3
<1>2. Len(ca) = Said(pb) - 2 /\ Len(da) = Said(pb) - 3
  BY <1>1 DEF Turn, Replies, Shorter
<1>3. Said(pb) = 3 => da = <<>>  BY <1>2, EmptySeq
<1>4. Said(pb) = 4 => (Len(da) = 1 /\ da[1].type = "Summary" /\ KnownEntries(da[1], tb))
  <2> SUFFICES ASSUME Said(pb) = 4 PROVE da[1].type = "Summary" /\ KnownEntries(da[1], tb)
    BY <1>2
  <2>1. Len(ca) = 2 /\ Len(da) = 1 /\ DOMAIN ca = 1..2  BY <1>2, EmptySeq
  <2>2. da[1] = ca[2]  BY <2>1 DEF Shorter
  <2>3. ca[2].type = Answer(4)
    <3>1. ca[2].type = Answer(Got("ack") + 2)  BY <2>1 DEF Turn, Replies
    <3>2. Got("ack") + 2 = 4  BY <1>1
    <3> QED  BY <3>1, <3>2
  <2>4. KnownEntries(ca[2], tb)  BY <1>1 DEF Turn, OffersNext
  <2> QED  BY <2>2, <2>3, <2>4, AnswerIs
<1>6. ASSUME a = "responder" PROVE pb = "idle" /\ Said(pb) = 3
  BY <1>1, <1>6, Stages DEF Taking
<1> QED  BY <1>1, <1>3, <1>4, <1>6 DEF Acked

LEMMA TurnAck ==
    ASSUME NEW pb, NEW na \in Nat, NEW nb \in Nat,
           NEW ca \in Seq(Message), NEW cb \in Seq(Message), NEW ta, NEW tb,
           Turn("dialler", "ack", pb, na, nb, ca, cb, ta, tb),
           NEW da \in Seq(Message), Shorter(ca, da), NEW k
    PROVE  Turn("responder", pb, "summary", nb, k, cb, da, tb, ta)
<1>1. /\ cb = <<>> /\ pb \in Taking("dialler") /\ Said(pb) \in {3, 4}
      /\ Said(pb) = 3 => da = <<>>
      /\ Said(pb) = 4 => (Len(da) = 1 /\ da[1].type = "Summary" /\ KnownEntries(da[1], tb))
  <2>1. "dialler" \in Role  BY DEF Role
  <2>2. Acked("dialler", pb, cb, da, tb)  BY <2>1, TurnLastAck
  <2> QED  BY <2>2 DEF Acked
<1>2. pb \in {"offer", "want"} /\ (Said(pb) = 3 <=> pb = "offer") /\ Got(pb) = 0
      /\ Said("summary") = 0
  BY <1>1, Stages DEF Taking
<1>3. pb \in Offering /\ "summary" \in Taking("responder")  BY <1>2 DEF Offering, Taking
<1>4. Replies(pb, "summary", cb)  BY <1>1, <1>2 DEF Replies
<1>5. Offers(pb, "summary", da, tb)  BY <1>1, <1>2 DEF Offers
<1> QED
  BY <1>2, <1>3, <1>4, <1>5 DEF Turn, Asks, AsksBlobs, Pushes, Blobs, OffersNext

\* Both have greeted: the dialler's turn starts.
LEMMA TurnStart ==
    ASSUME NEW na, NEW nb, NEW ta, NEW tb
    PROVE  Turn("dialler", "offer", "summary", na, nb, <<>>, <<>>, ta, tb)
<1>1. /\ Got("offer") = 0 /\ Said("summary") = 0 /\ "offer" \in Offering
      /\ "summary" \in Taking("dialler")
  BY Stages DEF Offering, Taking
<1> QED
  BY <1>1 DEF Turn, Replies, Offers, Asks, AsksBlobs, Pushes, Blobs, OffersNext

\* What Turn says of OneTalker and NeverStuck.
LEMMA TurnReads ==
    ASSUME NEW a, NEW pa, NEW pb, NEW na \in Nat, NEW nb \in Nat,
           NEW ca \in Seq(Message), NEW cb \in Seq(Message), NEW ta, NEW tb,
           Turn(a, pa, pb, na, nb, ca, cb, ta, tb)
    PROVE  /\ ca = <<>> \/ cb = <<>>
           /\ ca # <<>> => (/\ pa \in {"want", "blobwant", "ack"}
                            /\ ca[1].type = IF pa = "ack" THEN "Ack" ELSE "Want")
           /\ cb # <<>> => \/ pb = "summary" /\ cb[1].type = "Summary"
                           \/ pb = "push" /\ cb[1].type = "Push" /\ nb > 0
                           \/ pb \in Applying /\ cb[1].type = "Push"
                           \/ pb = "blob" /\ cb[1].type = "Blob" /\ nb > 0
           /\ \/ pa \in Sending \/ pb \in Applying \/ ca # <<>> \/ cb # <<>>
              \/ pb \in {"push", "blob"} /\ nb = 0
<1>1. /\ pa \in Offering /\ pb \in Taking(a) /\ Got(pa) \in {0, 1, 2} /\ Said(pb) \in {0, 1, 2, 3, 4}
      /\ Len(ca) = Said(pb) - Got(pa) /\ Len(ca) \in Nat /\ Len(cb) \in Nat
      /\ (Len(ca) = 0 <=> ca = <<>>) /\ (Len(cb) = 0 <=> cb = <<>>)
      /\ DOMAIN ca = 1..Len(ca) /\ DOMAIN cb = 1..Len(cb)
  BY TurnFacts, EmptySeq, Stages DEF Turn
<1>2. ca = <<>> \/ cb = <<>>  BY TurnFacts
<1>3. ASSUME ca # <<>>
      PROVE  pa \in {"want", "blobwant", "ack"} /\ ca[1].type = IF pa = "ack" THEN "Ack" ELSE "Want"
  <2>1. pa \in {"want", "blobwant", "ack"}  BY <1>3, TurnFacts
  <2>2. ca[1].type = Answer(Got(pa) + 1)  BY <1>1, <1>3 DEF Turn, Replies
  <2>3. Got("want") = 0 /\ Got("blobwant") = 1 /\ Got("ack") = 2  BY Stages
  <2>4. /\ pa = "want" => Got(pa) + 1 = 1
        /\ pa = "blobwant" => Got(pa) + 1 = 2
        /\ pa = "ack" => Got(pa) + 1 = 3
    BY <2>3
  <2> QED  BY <2>1, <2>2, <2>4, AnswerIs
<1>4. ASSUME cb # <<>>
      PROVE  \/ pb = "summary" /\ cb[1].type = "Summary"
             \/ pb = "push" /\ cb[1].type = "Push" /\ nb > 0
             \/ pb \in Applying /\ cb[1].type = "Push"
             \/ pb = "blob" /\ cb[1].type = "Blob" /\ nb > 0
  <2>1. Said(pb) = Got(pa) /\ pa # "offer" /\ Len(cb) > 0  BY <1>4, TurnFacts
  <2>2. 1 \in DOMAIN cb  BY <1>1, <2>1
  <2>3. CASE Got(pa) = 0
    <3>1. pa = "want" /\ pb = "summary"  BY <1>1, <2>1, <2>3, Stages
    <3> QED  BY <2>1, <2>3, <3>1 DEF Turn, Offers
  <2>4. CASE Got(pa) = 1
    <3>1. pb \in {"push", "insert", "pin", "tombstone"}  BY <1>1, <2>1, <2>4, Stages
    <3>2. AllOf("Push", cb) /\ nb = Len(cb) + na + (IF pb = "push" THEN 0 ELSE 1)
      BY <2>1, <2>4 DEF Turn, Pushes
    <3>3. cb[1].type = "Push" /\ nb > 0  BY <2>1, <2>2, <3>2, <1>1 DEF AllOf
    <3> QED  BY <3>1, <3>3 DEF Applying
  <2>5. CASE Got(pa) = 2
    <3>1. pb = "blob"  BY <1>1, <2>1, <2>5, Stages
    <3>2. AllOf("Blob", cb) /\ nb = Len(cb) + na  BY <2>1, <2>5 DEF Turn, Blobs
    <3>3. cb[1].type = "Blob" /\ nb > 0  BY <2>1, <2>2, <3>2, <1>1 DEF AllOf
    <3> QED  BY <3>1, <3>3
  <2> QED  BY <1>1, <2>3, <2>4, <2>5
<1>5. ASSUME pa \notin Sending, ca = <<>>, cb = <<>>
      PROVE  pb \in Applying \/ (pb \in {"push", "blob"} /\ nb = 0)
  <2>1. Said(pb) = Got(pa) /\ Len(cb) = 0 /\ pa \in {"want", "blobwant", "ack"}
    BY <1>1, <1>5 DEF Sending, Offering
  <2>2. CASE Got(pa) = 0
    <3>1. pa = "want" /\ pb = "summary"  BY <1>1, <2>1, <2>2, Stages
    <3> QED  BY <2>1, <2>2, <3>1 DEF Turn, Offers
  <2>3. CASE Got(pa) = 1
    <3>1. pb \in {"push", "insert", "pin", "tombstone"}  BY <1>1, <2>1, <2>3, Stages
    <3>2. nb = Len(cb) + na + (IF pb = "push" THEN 0 ELSE 1) /\ ~(na > 0)
      BY <2>1, <2>3, <1>5 DEF Turn, Pushes, Sending
    <3> QED  BY <2>1, <3>1, <3>2 DEF Applying
  <2>4. CASE Got(pa) = 2
    <3>1. pb = "blob"  BY <1>1, <2>1, <2>4, Stages
    <3>2. nb = Len(cb) + na /\ ~(na > 0)  BY <2>1, <2>4, <1>5 DEF Turn, Blobs, Sending
    <3> QED  BY <2>1, <3>1, <3>2
  <2> QED  BY <1>1, <2>2, <2>3, <2>4
<1> QED  BY <1>2, <1>3, <1>4, <1>5

------------------------------------------------------------------------------
(* The steps of SyncSession. *)

Left(l, r) == Count(work[l][r].todo)
TableAt(l, r) == table[DeviceOf(l, r)]

LEMMA Others == \A r \in Role : Other(r) \in Role /\ Other(Other(r)) = r /\ Other(r) # r
BY DEF Other, Role

LEMMA EndTypes ==
    ASSUME TypeOK, NEW l \in Link, NEW r \in Role
    PROVE  /\ chan[l][r] \in Seq(Message) /\ Left(l, r) \in Nat
           /\ TableAt(l, r) \in Table /\ work[l][r].todo \in List(Hash \cup Pushed)
           /\ pc[l][r] # "pushing" => work[l][r].todo \in List(Hash)
           /\ pc[l][r] = "pushing" => work[l][r].todo \in List(Pushed)
           /\ Left(l, r) = 0 <=> work[l][r].todo = EmptyList
<1>1. chan[l][r] \in Seq(Message)  BY DEF TypeOK
<1>2. TableAt(l, r) \in Table  BY DeviceOfType DEF TypeOK, TableAt
<1>3. work[l][r].todo \in List(Hash \cup Pushed)
  <2>1. work[l][r] \in Work  BY DEF TypeOK
  <2> QED  BY <2>1 DEF Work
<1>4. Fits(pc[l][r], work[l][r], table[DeviceOf(l, r)])  BY DEF TypeOK
<1>5. /\ pc[l][r] # "pushing" => work[l][r].todo \in List(Hash)
      /\ pc[l][r] = "pushing" => work[l][r].todo \in List(Pushed)
  BY <1>4 DEF Fits
<1>6. Left(l, r) \in Nat  BY CountType DEF Left
<1>7. Left(l, r) = 0 <=> work[l][r].todo = EmptyList  BY <1>3, CountEmpty DEF Left
<1> QED  BY <1>1, <1>2, <1>3, <1>5, <1>6, <1>7

LEMMA TurnOfIs ==
    ASSUME NEW l \in Link, NEW r \in Role
    PROVE  /\ TurnOf(l, r) <=>
                Turn(r, pc[l][r], pc[l][Other(r)], Left(l, r), Left(l, Other(r)),
                     chan[l][r], chan[l][Other(r)], TableAt(l, r), TableAt(l, Other(r)))
           /\ TurnOf(l, Other(r)) <=>
                Turn(Other(r), pc[l][Other(r)], pc[l][r], Left(l, Other(r)), Left(l, r),
                     chan[l][Other(r)], chan[l][r], TableAt(l, Other(r)), TableAt(l, r))
BY Others DEF TurnOf, Left, TableAt

\* Whose turn it is when an end does more than greet.
LEMMA SomeTurn ==
    ASSUME TypeOK, Alternation, NEW l \in Link, NEW r \in Role, up[l],
           pc[l][r] \notin {"hello", "idle"}, pc[l][r] = "summary" => chan[l][r] # <<>>
    PROVE  TurnOf(l, r) \/ TurnOf(l, Other(r))
<1>1. Talk(l)  BY DEF Alternation, Talks
<1>2. ~Over(l)  BY DEF Over
<1>3. ~Greeting(l)  BY DEF Greeting, Role
<1>4. \A a \in Role : a = r \/ a = Other(r)  BY DEF Other, Role
<1> QED  BY <1>1, <1>2, <1>3, <1>4 DEF Talk

\* A link that a step leaves alone.
LEMMA TalksStay ==
    ASSUME Aged, NEW l \in Link, Talks(l), up'[l] = up[l], chan'[l] = chan[l],
           pc'[l] = pc[l], work'[l] = work[l]
    PROVE  Talks(l)'
<1>1. Greeting(l) => Greeting(l)'  BY DEF Greeting
<1>2. Over(l) => Over(l)'  BY DEF Over
<1>3. ASSUME NEW a \in Role, TurnOf(l, a) PROVE TurnOf(l, a)'
  <2>1. Ages(TableAt(l, a), TableAt(l, a)') /\ Ages(TableAt(l, Other(a)), TableAt(l, Other(a))')
    BY DeviceOfType, Others DEF Aged, TableAt
  <2>2. Turn(a, pc[l][a], pc[l][Other(a)], Left(l, a), Left(l, Other(a)),
             chan[l][a], chan[l][Other(a)], TableAt(l, a)', TableAt(l, Other(a))')
    BY <1>3, <2>1, TurnOfIs, TurnAges
  <2> QED  BY <2>2 DEF TurnOf, Left, TableAt
<1>4. Talk(l) => Talk(l)'  BY <1>1, <1>2, <1>3 DEF Talk
<1> QED  BY <1>4 DEF Talks

\* A step that moves one end and its messages, to a turn of either end.
LEMMA TurnThen ==
    ASSUME Alternation, Aged, pc \in [Link -> [Role -> PC]], work \in [Link -> [Role -> Work]],
           NEW l \in Link, NEW r \in Role, NEW at, NEW w,
           Goto(l, r, at, w), up[l], up' = up, \A k \in Link : k # l => chan'[k] = chan[k],
           \/ Turn(r, at, pc[l][Other(r)], Count(w.todo), Left(l, Other(r)),
                   chan'[l][r], chan'[l][Other(r)], TableAt(l, r), TableAt(l, Other(r)))
           \/ Turn(Other(r), pc[l][Other(r)], at, Left(l, Other(r)), Count(w.todo),
                   chan'[l][Other(r)], chan'[l][r], TableAt(l, Other(r)), TableAt(l, r))
    PROVE  Alternation'
<1> DEFINE o == Other(r)
<1>1. o \in Role /\ o # r /\ Other(o) = r  BY Others
<1>2. /\ pc'[l][r] = at /\ pc'[l][o] = pc[l][o]
      /\ work'[l][r] = w /\ work'[l][o] = work[l][o]
      /\ \A k \in Link : k # l => (pc'[k] = pc[k] /\ work'[k] = work[k])
  BY <1>1 DEF Goto
<1>3. Ages(TableAt(l, r), TableAt(l, r)') /\ Ages(TableAt(l, o), TableAt(l, o)')
  BY <1>1, DeviceOfType DEF Aged, TableAt
<1>4. Left(l, r)' = Count(w.todo) /\ Left(l, o)' = Left(l, o)  BY <1>2 DEF Left
<1>5. \/ Turn(r, pc'[l][r], pc'[l][o], Left(l, r)', Left(l, o)',
              chan'[l][r], chan'[l][o], TableAt(l, r)', TableAt(l, o)')
      \/ Turn(o, pc'[l][o], pc'[l][r], Left(l, o)', Left(l, r)',
              chan'[l][o], chan'[l][r], TableAt(l, o)', TableAt(l, r)')
  BY <1>2, <1>3, <1>4, TurnAges
<1>6. TurnOf(l, r)' \/ TurnOf(l, o)'
  BY <1>1, <1>5 DEF TurnOf, Left, TableAt
<1>7. Talks(l)'  BY <1>1, <1>6 DEF Talks, Talk
<1> QED  BY <1>2, <1>7, TalksStay DEF Alternation

\* A step of an end whose link is already gone.
LEMMA DownThen ==
    ASSUME Alternation, Aged, pc \in [Link -> [Role -> PC]], work \in [Link -> [Role -> Work]],
           NEW l \in Link, NEW r \in Role, NEW at, NEW w, Goto(l, r, at, w),
           ~up[l], up' = up, chan' = chan
    PROVE  Alternation'
<1>1. \A k \in Link : k # l => (pc'[k] = pc[k] /\ work'[k] = work[k])  BY DEF Goto
<1>2. Talks(l)'  BY DEF Alternation, Talks
<1> QED  BY <1>1, <1>2, TalksStay DEF Alternation

LEMMA SendEffect ==
    ASSUME TypeOK, NEW l \in Link, NEW r \in Role, NEW m \in Message, Send(l, r, m)
    PROVE  /\ chan'[l][r] = chan[l][r]
           /\ chan'[l][Other(r)] \in Seq(Message)
           /\ Longer(chan[l][Other(r)], m, chan'[l][Other(r)])
           /\ \A k \in Link : k # l => chan'[k] = chan[k]
<1>1. chan \in [Link -> [Role -> Seq(Message)]]  BY DEF TypeOK
<1>2. /\ chan'[l][Other(r)] = Append(chan[l][Other(r)], m)
      /\ chan'[l][r] = chan[l][r]
      /\ \A k \in Link : k # l => chan'[k] = chan[k]
  BY <1>1, Others DEF Send
<1>3. chan[l][Other(r)] \in Seq(Message)  BY <1>1, Others
<1> QED  BY <1>2, <1>3, AppendSeq

LEMMA TakeEffect ==
    ASSUME TypeOK, NEW l \in Link, NEW r \in Role, Inbox(l, r) # <<>>,
           NEW ms \in Seq(Message), Exchange(l, r, ms)
    PROVE  /\ Head(Inbox(l, r)) = chan[l][r][1] /\ Head(Inbox(l, r)) \in Message
           /\ chan'[l][r] \in Seq(Message) /\ Shorter(chan[l][r], chan'[l][r])
           /\ chan'[l][Other(r)] = chan[l][Other(r)] \o ms
           /\ \A k \in Link : k # l => chan'[k] = chan[k]
<1>1. chan \in [Link -> [Role -> Seq(Message)]]  BY DEF TypeOK
<1>2. /\ chan'[l][r] = Tail(chan[l][r])
      /\ chan'[l][Other(r)] = chan[l][Other(r)] \o ms
      /\ \A k \in Link : k # l => chan'[k] = chan[k]
  BY <1>1, Others DEF Exchange
<1>3. chan[l][r] \in Seq(Message) /\ chan[l][r] # <<>>  BY <1>1 DEF Inbox
<1>4. Head(chan[l][r]) \in Message  BY <1>3
<1> QED  BY <1>2, <1>3, <1>4, TailSeq DEF Inbox

LEMMA TakeOnly ==
    ASSUME TypeOK, NEW l \in Link, NEW r \in Role, Inbox(l, r) # <<>>, Exchange(l, r, <<>>)
    PROVE  chan'[l][Other(r)] = chan[l][Other(r)]
<1>1. chan[l][Other(r)] \in Seq(Message) /\ <<>> \in Seq(Message)  BY Others, EndTypes
<1>2. chan'[l][Other(r)] = chan[l][Other(r)] \o <<>>  BY <1>1, TakeEffect
<1> QED  BY <1>1, <1>2

LEMMA TakeAndSend ==
    ASSUME TypeOK, NEW l \in Link, NEW r \in Role, Inbox(l, r) # <<>>,
           NEW m \in Message, Exchange(l, r, <<m>>)
    PROVE  /\ chan'[l][Other(r)] \in Seq(Message)
           /\ Longer(chan[l][Other(r)], m, chan'[l][Other(r)])
<1>1. chan[l][Other(r)] \in Seq(Message) /\ <<m>> \in Seq(Message)  BY Others, EndTypes
<1>2. chan'[l][Other(r)] = chan[l][Other(r)] \o <<m>>  BY <1>1, TakeEffect
<1>3. \A s \in Seq(Message) : s \o <<m>> \in Seq(Message) /\ Longer(s, m, s \o <<m>>)
  BY AppendSeq
<1> QED  BY <1>1, <1>2, <1>3, Zenon

LEMMA QuietStep ==
    ASSUME TypeOK, UNCHANGED table
    PROVE  Aged /\ pc \in [Link -> [Role -> PC]] /\ work \in [Link -> [Role -> Work]]
BY AgesRefl DEF Aged, TypeOK

LEMMA OfferTalks ==
    ASSUME TypeOK, Alternation, NEW l \in Link, NEW r \in Role, Offer(l, r)
    PROVE  Alternation'
<1> DEFINE t == TableAt(l, r)
           o == Other(r)
           entries(s) == [k \in Pos |->
             IF k \in DOMAIN s THEN [hash |-> t[s[k]].hash, hlc |-> t[s[k]].hlc] ELSE None]
<1>1. PICK s \in InHlcOrder(t) : Send(l, r, Summary(entries(s)))  BY DEF Offer, TableAt
<1> DEFINE m == Summary(entries(s))
<1>2. /\ pc[l][r] = "offer" /\ up[l] /\ Goto(l, r, "want", Idle) /\ UNCHANGED <<table, up>>
  BY DEF Offer, SessionOnly
<1>3. t \in Table /\ o \in Role /\ chan[l][r] \in Seq(Message) /\ chan[l][o] \in Seq(Message)
      /\ Left(l, r) \in Nat /\ Left(l, o) \in Nat
  BY EndTypes, Others
<1>4. \A k \in DOMAIN s : s[k] \in Ids(t)  BY DEF InHlcOrder
<1>5. entries(s) \in List(Entry) /\ KnownEntries(m, t)
  <2>1. \A k \in DOMAIN s : t[s[k]] \in Row /\ t[s[k]].hash \in Hashes(t)
    BY <1>3, <1>4 DEF Ids, Table, Hashes
  <2>2. entries(s) \in List(Entry)  BY <2>1 DEF List, Entry, Row
  <2>3. \A k \in Items(entries(s)) : entries(s)[k].hash \in Hashes(t)  BY <2>1 DEF Items
  <2> QED  BY <2>2, <2>3 DEF KnownEntries, Summary
<1>6. m \in Message /\ m.type = "Summary"  BY <1>5, MessageTypes DEF Summary
<1> HIDE DEF m
<1>7. /\ chan'[l][r] = chan[l][r] /\ chan'[l][o] \in Seq(Message)
      /\ Longer(chan[l][o], m, chan'[l][o])
      /\ \A k \in Link : k # l => chan'[k] = chan[k]
  <2>1. Send(l, r, m)  BY <1>1 DEF m
  <2> QED  BY <1>6, <2>1, SendEffect
<1>8. TurnOf(l, r) \/ TurnOf(l, o)  BY <1>2, SomeTurn
<1>9. \/ Turn(r, "want", pc[l][o], Count(Idle.todo), Left(l, o),
              chan'[l][r], chan'[l][o], TableAt(l, r), TableAt(l, o))
      \/ Turn(o, pc[l][o], "want", Left(l, o), Count(Idle.todo),
              chan'[l][o], chan'[l][r], TableAt(l, o), TableAt(l, r))
  <2>1. CASE TurnOf(l, r)
    <3>1. Turn(r, "offer", pc[l][o], Left(l, r), Left(l, o),
               chan[l][r], chan[l][o], TableAt(l, r), TableAt(l, o))
      BY <1>2, <2>1, TurnOfIs
    <3> QED  BY <1>3, <1>5, <1>6, <1>7, <3>1, TurnOffer
  <2>2. CASE TurnOf(l, o)
    <3>1. Turn(o, pc[l][o], "offer", Left(l, o), Left(l, r),
               chan[l][o], chan[l][r], TableAt(l, o), TableAt(l, r))
      BY <1>2, <2>2, TurnOfIs
    <3> QED  BY <1>3, <1>5, <1>6, <1>7, <3>1, TurnOfferNext
  <2> QED  BY <1>8, <2>1, <2>2
<1> QED  BY <1>2, <1>7, <1>9, QuietStep, TurnThen

LEMMA UntilCount ==
    ASSUME NEW S, NEW f \in List(S), NEW loop, NEW after, loop # after
    PROVE  Loops(Until(f, loop, after), loop, after, Count(f))
<1>1. Count(f) \in Nat /\ (Count(f) = 0 <=> f = EmptyList)  BY CountType, CountEmpty
<1> QED  BY <1>1 DEF Until, Loops

LEMMA RecvSummaryTalks ==
    ASSUME TypeOK, Alternation, NEW l \in Link, NEW r \in Role, RecvSummary(l, r)
    PROVE  Alternation'
<1> DEFINE t == TableAt(l, r)
           o == Other(r)
           entries == Head(Inbox(l, r)).entries
           wanted(found) == [k \in Pos |->
                            IF k \in Items(entries) /\ Wanted(t, found, entries[k])
                            THEN entries[k].hash ELSE None]
<1>1. PICK found \in Lookups(t) :
          /\ Exchange(l, r, <<Want(wanted(found))>>)
          /\ Goto(l, r, "push", [Idle EXCEPT !.todo = wanted(found)])
  BY DEF RecvSummary, TableAt
<1> DEFINE m == Want(wanted(found))
           w == [Idle EXCEPT !.todo = wanted(found)]
<1>2. /\ pc[l][r] = "summary" /\ up[l] /\ Inbox(l, r) # <<>>
      /\ Head(Inbox(l, r)).type = "Summary" /\ UNCHANGED <<table, up>>
  BY DEF RecvSummary, Receives, SessionOnly
<1>3. /\ t \in Table /\ o \in Role /\ chan[l][r] \in Seq(Message) /\ chan[l][o] \in Seq(Message)
      /\ Left(l, r) \in Nat /\ Left(l, o) \in Nat /\ chan[l][r] # <<>>
  BY <1>2, EndTypes, Others DEF Inbox
<1>4. Head(Inbox(l, r)) = chan[l][r][1] /\ Head(Inbox(l, r)) \in Message
  <2>1. Head(chan[l][r]) \in Message  BY <1>3
  <2> QED  BY <1>3, <2>1, TailSeq DEF Inbox
<1>5. entries \in List(Entry)  BY <1>2, <1>4, MessageFields
<1>6. \A k \in Items(entries) : entries[k] \in Entry /\ entries[k].hash \in Hash
  BY <1>5 DEF List, Items, Entry
<1>7. wanted(found) \in List(Hash)  BY <1>6 DEF List
<1>8. m \in Message /\ m.type = "Want" /\ m.hashes = wanted(found)
  BY <1>7, MessageTypes DEF Want
<1>9. \A u : KnownEntries(chan[l][r][1], u) => KnownHashes(m, u)
  <2>1. \A k \in Items(wanted(found)) :
            k \in Items(entries) /\ wanted(found)[k] = entries[k].hash
    BY DEF Items
  <2>2. chan[l][r][1].entries = entries  BY <1>4
  <2> HIDE DEF m, wanted, entries
  <2> QED  BY <1>8, <2>1, <2>2 DEF KnownEntries, KnownHashes
<1>10. w.todo = m.hashes  BY <1>8 DEF Idle
<1>11. Exchange(l, r, <<m>>) /\ Goto(l, r, "push", w)  BY <1>1
<1> HIDE DEF m, w, wanted, entries
<1>12. /\ chan'[l][r] \in Seq(Message) /\ Shorter(chan[l][r], chan'[l][r])
       /\ chan'[l][o] \in Seq(Message) /\ Longer(chan[l][o], m, chan'[l][o])
       /\ \A k \in Link : k # l => chan'[k] = chan[k]
  <2>1. <<m>> \in Seq(Message)  BY <1>8
  <2> QED  BY <1>2, <1>8, <1>11, <2>1, TakeEffect, TakeAndSend
<1>13. TurnOf(l, r) \/ TurnOf(l, o)  BY <1>2, <1>3, SomeTurn
<1>14. Turn(o, pc[l][o], "push", Left(l, o), Count(w.todo),
            chan'[l][o], chan'[l][r], TableAt(l, o), TableAt(l, r))
  <2>1. ~TurnOf(l, r)
    <3>1. TurnOf(l, r) => pc[l][r] \in Offering  BY TurnOfIs DEF Turn
    <3> QED  BY <1>2, <3>1 DEF Offering
  <2>2. Turn(o, pc[l][o], "summary", Left(l, o), Left(l, r),
             chan[l][o], chan[l][r], TableAt(l, o), TableAt(l, r))
    BY <1>2, <1>13, <2>1, TurnOfIs
  <2>3. Turn(o, pc[l][o], "push", Left(l, o), Count(m.hashes),
             chan'[l][o], chan'[l][r], TableAt(l, o), TableAt(l, r))
    BY <1>3, <1>8, <1>9, <1>12, <2>2, TurnSummary
  <2> QED  BY <1>10, <2>3
<1> QED  BY <1>2, <1>11, <1>12, <1>14, QuietStep, TurnThen

\* An offering end finds every clip it is asked for: it has offered it.
LEMMA RecvWantTalks ==
    ASSUME TypeOK, Alternation, NEW l \in Link, NEW r \in Role, RecvWant(l, r)
    PROVE  Alternation'
<1> DEFINE t == TableAt(l, r)
           o == Other(r)
           hashes == Head(Inbox(l, r)).hashes
           have(found) == {k \in Items(hashes) : found[hashes[k]] # None}
           clips(found) == [k \in Pos |->
                           IF k \in have(found)
                           THEN [id |-> found[hashes[k]], clip |-> t[found[hashes[k]]]]
                           ELSE None]
<1>1. PICK found \in Lookups(t) :
          Goto(l, r, Until(clips(found), "pushing", "blobwant"),
               [Idle EXCEPT !.todo = clips(found)])
  BY Zenon DEF RecvWant, TableAt
<1> DEFINE c == clips(found)
           w == [Idle EXCEPT !.todo = c]
           at == Until(c, "pushing", "blobwant")
<1>2. /\ pc[l][r] = "want" /\ up[l] /\ Inbox(l, r) # <<>> /\ Exchange(l, r, <<>>)
      /\ Head(Inbox(l, r)).type = "Want" /\ UNCHANGED <<table, up>>
  BY Zenon DEF RecvWant, Receives, SessionOnly
<1>3. /\ t \in Table /\ o \in Role /\ chan[l][r] \in Seq(Message) /\ chan[l][o] \in Seq(Message)
      /\ Left(l, r) \in Nat /\ Left(l, o) \in Nat /\ chan[l][r] # <<>>
  BY <1>2, EndTypes, Others DEF Inbox
<1>4. /\ Head(Inbox(l, r)) = chan[l][r][1] /\ Head(Inbox(l, r)) \in Message
      /\ chan'[l][r] \in Seq(Message) /\ Shorter(chan[l][r], chan'[l][r])
      /\ chan'[l][o] = chan[l][o]
      /\ \A k \in Link : k # l => chan'[k] = chan[k]
  <2>1. <<>> \in Seq(Message)  OBVIOUS
  <2> QED  BY <1>2, <2>1, TakeEffect, TakeOnly
<1>5. TurnOf(l, r)
  <2>1. TurnOf(l, r) \/ TurnOf(l, o)  BY <1>2, <1>3, SomeTurn
  <2>2. TurnOf(l, o) => Turn(o, pc[l][o], "want", Left(l, o), Left(l, r),
             chan[l][o], chan[l][r], TableAt(l, o), TableAt(l, r))
    BY <1>2, TurnOfIs
  <2>3. TurnOf(l, o) => Said("want") = Got(pc[l][o])  BY <1>3, <2>2, TurnFacts
  <2>4. Said("want") = 4 /\ Got(pc[l][o]) \in {0, 1, 2}  BY Stages
  <2> QED  BY <2>1, <2>3, <2>4
<1>6. Turn(r, "want", pc[l][o], Left(l, r), Left(l, o),
           chan[l][r], chan[l][o], TableAt(l, r), TableAt(l, o))
  BY <1>2, <1>5, TurnOfIs
<1>7. KnownHashes(chan[l][r][1], t)
  <2>1. Said(pc[l][o]) > Got("want") /\ Got("want") = 0  BY <1>3, <1>6, TurnFacts, Stages
  <2> QED  BY <1>6, <2>1 DEF Turn, Asks
<1>8. hashes \in List(Hash)  BY <1>2, <1>4, MessageFields
<1>9. \A k \in Items(hashes) : hashes[k] \in Hash /\ hashes[k] \in Hashes(t)
  BY <1>4, <1>7, <1>8 DEF KnownHashes, List, Items
<1>10. have(found) = Items(hashes)
  <2>1. \A h \in Hashes(t) : ByHash(t, h) # {} /\ ByHash(t, h) \subseteq Id
    BY DEF Hashes, ByHash, LiveWithHash, WithHash, Ids
  <2>2. \A h \in Hash : h \in Hashes(t) => found[h] # None
    BY <2>1, StoreAssumption DEF Lookups
  <2> QED  BY <1>9, <2>2
<1>11. \A k \in Items(hashes) : c[k] \in Pushed
  BY <1>3, <1>9, <1>10, LookupType DEF Items, Pushed
<1>12. Items(c) = Items(hashes) /\ c \in List(Pushed)
  BY <1>10, <1>11, BlankAssumption DEF Items, List
<1>13. Goto(l, r, at, w) /\ w.todo = c  BY <1>1, Zenon DEF Idle
<1>14. Count(c) = Count(chan[l][r][1].hashes)  BY <1>4, <1>12, Zenon DEF Count
<1> HIDE DEF w, c
<1>15. Loops(at, "pushing", "blobwant", Count(c))
  BY <1>12, UntilCount
<1> HIDE DEF at
<1>17. Turn(r, at, pc[l][o], Count(w.todo), Left(l, o),
            chan'[l][r], chan'[l][o], TableAt(l, r), TableAt(l, o))
  <2>1. Turn(r, at, pc[l][o], Count(c), Left(l, o),
             chan'[l][r], chan[l][o], TableAt(l, r), TableAt(l, o))
    BY <1>3, <1>4, <1>6, <1>14, <1>15, TurnWant, ZenonT(60)
  <2> QED  BY <1>4, <1>13, <2>1
<1> QED  BY <1>2, <1>4, <1>13, <1>17, QuietStep, TurnThen

LEMMA OffererTurn ==
    ASSUME TypeOK, Alternation, NEW l \in Link, NEW r \in Role, up[l],
           pc[l][r] \in {"pushing", "blobwant", "blobs", "ack"}
    PROVE  Turn(r, pc[l][r], pc[l][Other(r)], Left(l, r), Left(l, Other(r)),
                chan[l][r], chan[l][Other(r)], TableAt(l, r), TableAt(l, Other(r)))
<1>1. TurnOf(l, r) \/ TurnOf(l, Other(r))  BY SomeTurn
<1>2. TurnOf(l, Other(r)) => pc[l][r] \in Taking(Other(r))  BY TurnOfIs DEF Turn
<1>3. ~(pc[l][r] \in Taking(Other(r)))  BY DEF Taking
<1> QED  BY <1>1, <1>2, <1>3, TurnOfIs

LEMMA TakerTurn ==
    ASSUME TypeOK, Alternation, NEW l \in Link, NEW r \in Role, up[l],
           pc[l][r] \in {"push", "insert", "pin", "tombstone", "blob"}
    PROVE  Turn(Other(r), pc[l][Other(r)], pc[l][r], Left(l, Other(r)), Left(l, r),
                chan[l][Other(r)], chan[l][r], TableAt(l, Other(r)), TableAt(l, r))
<1>1. TurnOf(l, r) \/ TurnOf(l, Other(r))  BY SomeTurn
<1>2. TurnOf(l, r) => pc[l][r] \in Offering  BY TurnOfIs DEF Turn
<1>3. ~(pc[l][r] \in Offering)  BY DEF Offering
<1> QED  BY <1>1, <1>2, <1>3, TurnOfIs

LEMMA BothTypes ==
    ASSUME TypeOK, NEW l \in Link, NEW r \in Role
    PROVE  /\ chan[l][r] \in Seq(Message) /\ chan[l][Other(r)] \in Seq(Message)
           /\ Left(l, r) \in Nat /\ Left(l, Other(r)) \in Nat
BY EndTypes, Others

LEMMA SendPushTalks ==
    ASSUME TypeOK, Alternation, NEW l \in Link, NEW r \in Role, SendPush(l, r)
    PROVE  Alternation'
<1> DEFINE todo == work[l][r].todo
           o == Other(r)
           m == Push(todo[First(todo)])
           w == [Idle EXCEPT !.todo = Rest(todo)]
           at == Until(Rest(todo), "pushing", "blobwant")
<1>1. /\ pc[l][r] = "pushing" /\ up[l] /\ Send(l, r, m) /\ Goto(l, r, at, w)
      /\ UNCHANGED <<table, up>>
  BY DEF SendPush, SessionOnly
<1>2. todo \in List(Pushed)  BY <1>1, EndTypes
<1>3. todo # EmptyList  BY <1>1 DEF TypeOK, Fits
<1>4. m \in Message /\ m.type = "Push"
  <2>1. First(todo) \in Pos /\ todo[First(todo)] \in Pushed
    BY <1>2, <1>3, FirstItem DEF Items, List
  <2> QED  BY <2>1, MessageTypes DEF Push
<1>5. Rest(todo) \in List(Pushed)  BY <1>2, RestType
<1>6. Loops(at, "pushing", "blobwant", Count(Rest(todo)))  BY <1>5, UntilCount
<1>7. Count(Rest(todo)) = Left(l, r) - 1  BY <1>2, <1>3, CountRest DEF Left
<1>8. w.todo = Rest(todo)  BY DEF Idle
<1> HIDE DEF m, w, at, todo
<1>9. /\ chan'[l][r] = chan[l][r] /\ chan'[l][o] \in Seq(Message)
      /\ Longer(chan[l][o], m, chan'[l][o])
      /\ \A k \in Link : k # l => chan'[k] = chan[k]
  BY <1>1, <1>4, SendEffect
<1>10. Turn(r, "pushing", pc[l][o], Left(l, r), Left(l, o),
            chan[l][r], chan[l][o], TableAt(l, r), TableAt(l, o))
  BY <1>1, OffererTurn
<1>11. Turn(r, at, pc[l][o], Count(Rest(todo)), Left(l, o),
            chan[l][r], chan'[l][o], TableAt(l, r), TableAt(l, o))
  BY <1>4, <1>6, <1>7, <1>9, <1>10, TurnPush, BothTypes
<1> QED  BY <1>1, <1>8, <1>9, <1>11, QuietStep, TurnThen

LEMMA RecvPushTalks ==
    ASSUME TypeOK, Alternation, NEW l \in Link, NEW r \in Role, RecvPush(l, r)
    PROVE  Alternation'
<1> DEFINE w == work[l][r]
           o == Other(r)
<1>1. /\ pc[l][r] = "push" /\ up[l] /\ Inbox(l, r) # <<>> /\ Exchange(l, r, <<>>)
      /\ w.todo # EmptyList /\ UNCHANGED <<table, up>>
  BY Zenon DEF RecvPush, Receives, SessionOnly
<1>2. w \in Work /\ w.todo \in List(Hash)
  <2>1. w \in Work  BY DEF TypeOK
  <2> QED  BY <1>1, <2>1, EndTypes
<1>3. \E at, v : Goto(l, r, at, v) /\ Deals(at, Left(l, r), Count(v.todo))
  <2> DEFINE p == Head(Inbox(l, r)).pushed
             action(i) == Merge(IF i = None THEN None ELSE TableAt(l, r)[i], p.clip)
  <2>1. PICK i : CASE action(i) = "Insert" -> Goto(l, r, "insert", [w EXCEPT !.pushed = p])
                   [] action(i) = "UpdateMetadata" ->
                          Goto(l, r, "pin", [w EXCEPT !.pushed = p, !.target = i])
                   [] action(i) = "Ignore" -> Goto(l, r, "push", [w EXCEPT !.todo = Rest(@)])
    BY Zenon DEF RecvPush, TableAt
  <2>2. action(i) \in {"Insert", "UpdateMetadata", "Ignore"}  BY DEF Merge
  <2> HIDE DEF action
  <2>3. \/ Goto(l, r, "insert", [w EXCEPT !.pushed = p])
        \/ Goto(l, r, "pin", [w EXCEPT !.pushed = p, !.target = i])
        \/ Goto(l, r, "push", [w EXCEPT !.todo = Rest(@)])
    BY <2>1, <2>2
  <2>4. /\ [w EXCEPT !.pushed = p].todo = w.todo
        /\ [w EXCEPT !.pushed = p, !.target = i].todo = w.todo
        /\ [w EXCEPT !.todo = Rest(@)].todo = Rest(w.todo)
    BY <1>2 DEF Work
  <2>5. Count(w.todo) = Left(l, r) /\ Left(l, r) \in Nat  BY CountType DEF Left
  <2>6. Count(Rest(w.todo)) = Left(l, r) - 1 /\ Left(l, r) > 0
    BY <1>1, <1>2, CountRest DEF Left
  <2>7. /\ Deals("insert", Left(l, r), Count(w.todo)) /\ Deals("pin", Left(l, r), Count(w.todo))
        /\ Deals("push", Left(l, r), Count(Rest(w.todo)))
    BY <2>5, <2>6 DEF Deals, Applying
  <2> HIDE DEF w, p
  <2> QED  BY <2>3, <2>4, <2>7, Zenon
<1>4. PICK at, v : Goto(l, r, at, v) /\ Deals(at, Left(l, r), Count(v.todo))  BY <1>3
<1>5. /\ chan'[l][r] \in Seq(Message) /\ Shorter(chan[l][r], chan'[l][r])
      /\ chan'[l][o] = chan[l][o]
      /\ \A k \in Link : k # l => chan'[k] = chan[k]
  <2>1. <<>> \in Seq(Message)  OBVIOUS
  <2> QED  BY <1>1, <2>1, TakeEffect, TakeOnly
<1>6. Turn(o, pc[l][o], "push", Left(l, o), Left(l, r),
           chan[l][o], chan[l][r], TableAt(l, o), TableAt(l, r))
  BY <1>1, TakerTurn
<1>7. Turn(o, pc[l][o], at, Left(l, o), Count(v.todo),
           chan[l][o], chan'[l][r], TableAt(l, o), TableAt(l, r))
  BY <1>4, <1>5, <1>6, TurnTakePush, BothTypes
<1> QED  BY <1>1, <1>4, <1>5, <1>7, QuietStep, TurnThen

\* A step that applies a clip, whether the link is still there or not.
LEMMA ApplyTalks ==
    ASSUME TypeOK, Alternation, Aged, NEW l \in Link, NEW r \in Role, pc[l][r] \in Applying,
           NEW at, NEW v, Goto(l, r, at, v), Deals(at, Left(l, r), Count(v.todo)),
           up' = up, chan' = chan
    PROVE  Alternation'
<1> DEFINE o == Other(r)
<1>1. pc \in [Link -> [Role -> PC]] /\ work \in [Link -> [Role -> Work]]  BY DEF TypeOK
<1>2. CASE up[l]
  <2>1. Turn(o, pc[l][o], pc[l][r], Left(l, o), Left(l, r),
             chan[l][o], chan[l][r], TableAt(l, o), TableAt(l, r))
    BY <1>2, TakerTurn DEF Applying
  <2>2. Turn(o, pc[l][o], at, Left(l, o), Count(v.todo),
             chan[l][o], chan[l][r], TableAt(l, o), TableAt(l, r))
    BY <2>1, TurnApply, BothTypes
  <2> QED  BY <1>1, <1>2, <2>2, TurnThen
<1>3. CASE ~up[l]  BY <1>1, <1>3, DownThen
<1> QED  BY <1>2, <1>3

LEMMA AppliedDeals ==
    ASSUME TypeOK, NEW l \in Link, NEW r \in Role, pc[l][r] \in Applying
    PROVE  /\ Deals("push", Left(l, r), Count(Applied(work[l][r]).todo))
           /\ Deals("tombstone", Left(l, r), Count(work[l][r].todo))
<1> DEFINE todo == work[l][r].todo
<1>1. todo # EmptyList  BY DEF TypeOK, Fits
<1>2. todo \in List(Hash \cup Pushed)  BY EndTypes
<1>3. Applied(work[l][r]).todo = Rest(todo)  BY DEF Applied
<1>4. Count(Rest(todo)) = Left(l, r) - 1 /\ Left(l, r) > 0  BY <1>1, <1>2, CountRest DEF Left
<1>5. Count(todo) = Left(l, r) /\ Left(l, r) \in Nat  BY CountType DEF Left
<1> HIDE DEF todo
<1> QED  BY <1>3, <1>4, <1>5 DEF Deals, Applying, todo

LEMMA ApplyInsertTalks ==
    ASSUME TypeOK, Alternation, NEW l \in Link, NEW r \in Role, ApplyInsert(l, r)
    PROVE  Alternation'
<1>1. Aged  BY ApplyInsertType, OneStatementTable, DeviceOfType DEF TypeOK
<1>2. /\ pc[l][r] \in Applying /\ Goto(l, r, "push", Applied(work[l][r])) /\ up' = up /\ chan' = chan
  BY DEF ApplyInsert, Applying
<1> QED  BY <1>1, <1>2, AppliedDeals, ApplyTalks

LEMMA ApplyPinTalks ==
    ASSUME TypeOK, Alternation, NEW l \in Link, NEW r \in Role, ApplyPin(l, r)
    PROVE  Alternation'
<1>1. Aged  BY ApplyPinType, OneStatementTable, DeviceOfType DEF TypeOK
<1>2. /\ pc[l][r] \in Applying /\ up' = up /\ chan' = chan
      /\ \/ Goto(l, r, "push", Applied(work[l][r]))
         \/ Goto(l, r, "tombstone", work[l][r])
  BY DEF ApplyPin, Applying
<1> QED  BY <1>1, <1>2, AppliedDeals, ApplyTalks

LEMMA ApplyDeleteTalks ==
    ASSUME TypeOK, Alternation, NEW l \in Link, NEW r \in Role, ApplyDelete(l, r)
    PROVE  Alternation'
<1>1. Aged  BY ApplyDeleteType, OneStatementTable, DeviceOfType DEF TypeOK
<1>2. /\ pc[l][r] \in Applying /\ Goto(l, r, "push", Applied(work[l][r])) /\ up' = up /\ chan' = chan
  BY DEF ApplyDelete, Applying
<1> QED  BY <1>1, <1>2, AppliedDeals, ApplyTalks

LEMMA WantBlobsTalks ==
    ASSUME TypeOK, Alternation, NEW l \in Link, NEW r \in Role, WantBlobs(l, r)
    PROVE  Alternation'
<1> DEFINE w == work[l][r]
           o == Other(r)
           needed == {k \in Items(w.missing) :
                      /\ w.missing[k] \notin blobs[DeviceOf(l, r)]
                      /\ \A j \in Items(w.missing) : w.missing[j] = w.missing[k] => k <= j}
           asked == Filter(w.missing, needed)
           m == Want(asked)
           v == [Idle EXCEPT !.todo = asked]
<1>1. /\ pc[l][r] = "push" /\ w.todo = EmptyList /\ up[l] /\ Send(l, r, m) /\ Goto(l, r, "blob", v)
      /\ UNCHANGED <<table, up>>
  BY DEF WantBlobs, SessionOnly
<1>2. asked \in List(Hash)
  <2>1. w.missing \in List(Hash)  BY DEF TypeOK, Work
  <2> QED  BY <2>1 DEF Filter, List
<1>3. m \in Message /\ m.type = "Want" /\ m.hashes = asked  BY <1>2, MessageTypes DEF Want
<1>4. v.todo = m.hashes  BY <1>3, Zenon DEF Idle
<1>5. Left(l, r) = 0  BY <1>1, EndTypes
<1> HIDE DEF m, v, asked
<1>6. /\ chan'[l][r] = chan[l][r] /\ chan'[l][o] \in Seq(Message)
      /\ Longer(chan[l][o], m, chan'[l][o])
      /\ \A k \in Link : k # l => chan'[k] = chan[k]
  BY <1>1, <1>3, SendEffect
<1>7. Turn(o, pc[l][o], "push", Left(l, o), Left(l, r),
           chan[l][o], chan[l][r], TableAt(l, o), TableAt(l, r))
  BY <1>1, TakerTurn
<1>8. Turn(o, pc[l][o], "blob", Left(l, o), Count(m.hashes),
           chan'[l][o], chan[l][r], TableAt(l, o), TableAt(l, r))
  BY <1>3, <1>5, <1>6, <1>7, TurnWantBlobs, BothTypes
<1> QED  BY <1>1, <1>4, <1>6, <1>8, QuietStep, TurnThen

LEMMA RecvBlobWantTalks ==
    ASSUME TypeOK, Alternation, NEW l \in Link, NEW r \in Role, RecvBlobWant(l, r)
    PROVE  Alternation'
<1> DEFINE o == Other(r)
           asked == Head(Inbox(l, r)).hashes
           at == Until(asked, "blobs", "ack")
           v == [Idle EXCEPT !.todo = asked]
<1>1. /\ pc[l][r] = "blobwant" /\ up[l] /\ Inbox(l, r) # <<>> /\ Exchange(l, r, <<>>)
      /\ Head(Inbox(l, r)).type = "Want" /\ Goto(l, r, at, v) /\ UNCHANGED <<table, up>>
  BY DEF RecvBlobWant, Receives, SessionOnly
<1>2. /\ Head(Inbox(l, r)) = chan[l][r][1] /\ Head(Inbox(l, r)) \in Message
      /\ chan'[l][r] \in Seq(Message) /\ Shorter(chan[l][r], chan'[l][r])
      /\ chan'[l][o] = chan[l][o]
      /\ \A k \in Link : k # l => chan'[k] = chan[k]
  <2>1. <<>> \in Seq(Message)  OBVIOUS
  <2> QED  BY <1>1, <2>1, TakeEffect, TakeOnly
<1>3. asked \in List(Hash)  BY <1>1, <1>2, MessageFields
<1>4. Count(asked) = Count(chan[l][r][1].hashes)  BY <1>2
<1>5. v.todo = asked  BY DEF Idle
<1> HIDE DEF v, asked
<1>6. Loops(at, "blobs", "ack", Count(asked))  BY <1>3, UntilCount
<1> HIDE DEF at
<1>7. Turn(r, "blobwant", pc[l][o], Left(l, r), Left(l, o),
           chan[l][r], chan[l][o], TableAt(l, r), TableAt(l, o))
  BY <1>1, OffererTurn
<1>8. Turn(r, at, pc[l][o], Count(asked), Left(l, o),
           chan'[l][r], chan[l][o], TableAt(l, r), TableAt(l, o))
  BY <1>2, <1>4, <1>6, <1>7, TurnBlobWant, BothTypes, ZenonT(60)
<1> QED  BY <1>1, <1>2, <1>5, <1>8, QuietStep, TurnThen

LEMMA SendBlobTalks ==
    ASSUME TypeOK, Alternation, NEW l \in Link, NEW r \in Role, SendBlob(l, r)
    PROVE  Alternation'
<1> DEFINE todo == work[l][r].todo
           o == Other(r)
           digest == todo[First(todo)]
           m == Blob(IF digest \in blobs[DeviceOf(l, r)] THEN digest ELSE None)
           w == [Idle EXCEPT !.todo = Rest(todo)]
           at == Until(Rest(todo), "blobs", "ack")
<1>1. /\ pc[l][r] = "blobs" /\ up[l] /\ Send(l, r, m) /\ Goto(l, r, at, w)
      /\ UNCHANGED <<table, up>>
  BY DEF SendBlob, SessionOnly
<1>2. todo \in List(Hash)  BY <1>1, EndTypes
<1>3. todo # EmptyList  BY <1>1 DEF TypeOK, Fits
<1>4. m \in Message /\ m.type = "Blob"
  <2>1. digest \in Hash  BY <1>2, <1>3, FirstItem DEF Items, List
  <2> QED  BY <2>1, MessageTypes DEF Blob
<1>5. Rest(todo) \in List(Hash)  BY <1>2, RestType
<1>6. Loops(at, "blobs", "ack", Count(Rest(todo)))  BY <1>5, UntilCount
<1>7. Count(Rest(todo)) = Left(l, r) - 1  BY <1>2, <1>3, CountRest DEF Left
<1>8. w.todo = Rest(todo)  BY DEF Idle
<1> HIDE DEF m, w, at, todo
<1>9. /\ chan'[l][r] = chan[l][r] /\ chan'[l][o] \in Seq(Message)
      /\ Longer(chan[l][o], m, chan'[l][o])
      /\ \A k \in Link : k # l => chan'[k] = chan[k]
  BY <1>1, <1>4, SendEffect
<1>10. Turn(r, "blobs", pc[l][o], Left(l, r), Left(l, o),
            chan[l][r], chan[l][o], TableAt(l, r), TableAt(l, o))
  BY <1>1, OffererTurn
<1>11. Turn(r, at, pc[l][o], Count(Rest(todo)), Left(l, o),
            chan[l][r], chan'[l][o], TableAt(l, r), TableAt(l, o))
  BY <1>4, <1>6, <1>7, <1>9, <1>10, TurnBlob, BothTypes
<1> QED  BY <1>1, <1>8, <1>9, <1>11, QuietStep, TurnThen

LEMMA RecvBlobTalks ==
    ASSUME TypeOK, Alternation, NEW l \in Link, NEW r \in Role, RecvBlob(l, r)
    PROVE  Alternation'
<1> DEFINE todo == work[l][r].todo
           o == Other(r)
           v == [Idle EXCEPT !.todo = Rest(todo)]
<1>1. /\ pc[l][r] = "blob" /\ up[l] /\ Inbox(l, r) # <<>> /\ Exchange(l, r, <<>>)
      /\ todo # EmptyList /\ Goto(l, r, "blob", v) /\ UNCHANGED <<table, up>>
  BY DEF RecvBlob, Receives
<1>2. todo \in List(Hash)  BY <1>1, EndTypes
<1>3. Count(Rest(todo)) = Left(l, r) - 1 /\ Count(Rest(todo)) \in Nat
  BY <1>1, <1>2, CountRest, CountType DEF Left
<1>4. v.todo = Rest(todo)  BY DEF Idle
<1> HIDE DEF v, todo
<1>5. /\ chan'[l][r] \in Seq(Message) /\ Shorter(chan[l][r], chan'[l][r])
      /\ chan'[l][o] = chan[l][o]
      /\ \A k \in Link : k # l => chan'[k] = chan[k]
  <2>1. <<>> \in Seq(Message)  OBVIOUS
  <2> QED  BY <1>1, <2>1, TakeEffect, TakeOnly
<1>6. Turn(o, pc[l][o], "blob", Left(l, o), Left(l, r),
           chan[l][o], chan[l][r], TableAt(l, o), TableAt(l, r))
  BY <1>1, TakerTurn
<1>7. Turn(o, pc[l][o], "blob", Left(l, o), Count(Rest(todo)),
           chan[l][o], chan'[l][r], TableAt(l, o), TableAt(l, r))
  BY <1>3, <1>5, <1>6, TurnTakeBlob, BothTypes
<1> QED  BY <1>1, <1>4, <1>5, <1>7, QuietStep, TurnThen

LEMMA AcknowledgeTalks ==
    ASSUME TypeOK, Alternation, NEW l \in Link, NEW r \in Role, Acknowledge(l, r)
    PROVE  Alternation'
<1> DEFINE o == Other(r)
           at == IF r = "responder" THEN "offer" ELSE "idle"
<1>1. /\ pc[l][r] = "blob" /\ work[l][r].todo = EmptyList /\ up[l] /\ Send(l, r, Ack)
      /\ Goto(l, r, at, Idle) /\ UNCHANGED <<table, up>>
  BY DEF Acknowledge
<1>2. Ack \in Message /\ Ack.type = "Ack"  BY MessageTypes DEF Ack
<1>3. Left(l, r) = 0  BY <1>1, EndTypes
<1>4. o \in Role /\ at = (IF o = "dialler" THEN "offer" ELSE "idle")  BY DEF Other, Role
<1> HIDE DEF at
<1>5. /\ chan'[l][r] = chan[l][r] /\ chan'[l][o] \in Seq(Message)
      /\ Longer(chan[l][o], Ack, chan'[l][o])
      /\ \A k \in Link : k # l => chan'[k] = chan[k]
  BY <1>1, <1>2, SendEffect
<1>6. Turn(o, pc[l][o], "blob", Left(l, o), Left(l, r),
           chan[l][o], chan[l][r], TableAt(l, o), TableAt(l, r))
  BY <1>1, TakerTurn
<1>7. Turn(o, pc[l][o], at, Left(l, o), Count(Idle.todo),
           chan'[l][o], chan[l][r], TableAt(l, o), TableAt(l, r))
  BY <1>2, <1>3, <1>4, <1>5, <1>6, TurnAcknowledge, BothTypes
<1> QED  BY <1>1, <1>5, <1>7, QuietStep, TurnThen

LEMMA RecvAckTalks ==
    ASSUME TypeOK, Alternation, NEW l \in Link, NEW r \in Role, RecvAck(l, r)
    PROVE  Alternation'
<1> DEFINE o == Other(r)
           at == IF r = "dialler" THEN "summary" ELSE "idle"
<1>1. /\ pc[l][r] = "ack" /\ up[l] /\ Inbox(l, r) # <<>> /\ Exchange(l, r, <<>>)
      /\ Goto(l, r, at, Idle) /\ UNCHANGED <<table, up>>
  BY DEF RecvAck, Receives, SessionOnly
<1>2. /\ chan'[l][r] \in Seq(Message) /\ Shorter(chan[l][r], chan'[l][r])
      /\ chan'[l][o] = chan[l][o]
      /\ \A k \in Link : k # l => chan'[k] = chan[k]
  <2>1. <<>> \in Seq(Message)  OBVIOUS
  <2> QED  BY <1>1, <2>1, TakeEffect, TakeOnly
<1>3. Turn(r, "ack", pc[l][o], Left(l, r), Left(l, o),
           chan[l][r], chan[l][o], TableAt(l, r), TableAt(l, o))
  BY <1>1, OffererTurn
<1>4. /\ r = "dialler" => Turn("responder", pc[l][o], "summary", Left(l, o), Count(Idle.todo),
                               chan[l][o], chan'[l][r], TableAt(l, o), TableAt(l, r))
      /\ r = "responder" => (pc[l][o] = "idle" /\ chan'[l][r] = <<>> /\ chan[l][o] = <<>>)
  <2>1. CASE r = "dialler"  BY <1>2, <1>3, <2>1, TurnAck, BothTypes
  <2>2. CASE r = "responder"
    <3>1. /\ chan[l][r] \in Seq(Message) /\ chan[l][o] \in Seq(Message)
          /\ Left(l, r) \in Nat /\ Left(l, o) \in Nat
      BY BothTypes
    <3>2. Acked(r, pc[l][o], chan[l][o], chan'[l][r], TableAt(l, o))
      BY <1>2, <1>3, <3>1, TurnLastAck
    <3> QED  BY <2>2, <3>2 DEF Acked
  <2> QED  BY <2>1, <2>2 DEF Role
<1>5. CASE r = "dialler"
  <2>1. o = "responder" /\ at = "summary"  BY <1>5 DEF Other
  <2>2. Turn(o, pc[l][o], at, Left(l, o), Count(Idle.todo),
             chan'[l][o], chan'[l][r], TableAt(l, o), TableAt(l, r))
    BY <1>2, <1>4, <1>5, <2>1
  <2> HIDE DEF at
  <2> QED  BY <1>1, <1>2, <2>2, QuietStep, TurnThen
<1>6. CASE r = "responder"
  <2>1. at = "idle"  BY <1>6
  <2>2. o \in Role /\ o # r /\ \A q \in Role : q = r \/ q = o  BY DEF Other, Role
  <2>3. /\ pc'[l][r] = "idle" /\ pc'[l][o] = pc[l][o]
        /\ \A k \in Link : k # l => (pc'[k] = pc[k] /\ work'[k] = work[k])
    BY <1>1, <2>1, <2>2, QuietStep DEF Goto
  <2>4. Over(l)'  BY <1>2, <1>4, <1>6, <2>2, <2>3 DEF Over
  <2>5. Talks(l)'  BY <1>1, <2>4 DEF Talks, Talk
  <2>6. Aged  BY <1>1, QuietStep
  <2> QED  BY <1>1, <1>2, <2>3, <2>5, <2>6, TalksStay DEF Alternation
<1> QED  BY <1>5, <1>6 DEF Role

LEMMA RecvHelloTalks ==
    ASSUME TypeOK, Alternation, NEW l \in Link, NEW r \in Role, RecvHello(l, r)
    PROVE  Alternation'
<1> DEFINE ms == IF r = "responder" THEN <<Hello>> ELSE <<>>
           at == IF r = "responder" THEN "summary" ELSE "offer"
<1>1. /\ pc[l][r] = "hello" /\ up[l] /\ Inbox(l, r) # <<>> /\ Exchange(l, r, ms)
      /\ Goto(l, r, at, Idle) /\ UNCHANGED <<table, up>>
  BY DEF RecvHello, Receives, SessionOnly
<1>2. Greeting(l)
  <2>1. Talk(l)  BY <1>1 DEF Alternation, Talks
  <2>2. ~Over(l)  BY <1>1 DEF Over
  <2>3. ASSUME NEW a \in Role, TurnOf(l, a) PROVE FALSE
    <3>1. pc[l][a] \in Offering /\ pc[l][Other(a)] \in Taking(a)  BY <2>3, TurnOfIs DEF Turn
    <3>2. r = a \/ r = Other(a)  BY DEF Other, Role
    <3> QED  BY <1>1, <3>1, <3>2 DEF Offering, Taking
  <2> QED  BY <2>1, <2>2, <2>3 DEF Talk
<1>3. ms \in Seq(Message)  BY MessageTypes
<1>4. /\ chan'[l][r] \in Seq(Message) /\ Shorter(chan[l][r], chan'[l][r])
      /\ chan'[l][Other(r)] = chan[l][Other(r)] \o ms
      /\ \A k \in Link : k # l => chan'[k] = chan[k]
  BY <1>1, <1>3, TakeEffect, ZenonT(60)
<1>5. Aged /\ pc \in [Link -> [Role -> PC]] /\ work \in [Link -> [Role -> Work]]
  BY <1>1, QuietStep
<1>6. /\ pc'[l][r] = at /\ pc'[l][Other(r)] = pc[l][Other(r)]
      /\ \A k \in Link : k # l => (pc'[k] = pc[k] /\ work'[k] = work[k])
  BY <1>1, <1>5, Others DEF Goto
<1>7. CASE r = "responder"
  <2>1. Other(r) = "dialler" /\ at = "summary" /\ ms = <<Hello>>  BY <1>7 DEF Other
  <2>2. /\ pc[l]["dialler"] = "hello" /\ chan[l]["dialler"] = <<>>
        /\ Len(chan[l]["responder"]) = 1
    BY <1>1, <1>2, <1>7 DEF Greeting
  <2>3. chan'[l]["dialler"] = <<Hello>>
    <3>1. chan'[l]["dialler"] = <<>> \o <<Hello>>  BY <1>4, <2>1, <2>2
    <3> QED  BY <3>1
  <2>4. chan'[l]["responder"] = <<>>
    <3>1. Len(chan'[l][r]) = 0  BY <1>4, <1>7, <2>2 DEF Shorter
    <3> QED  BY <1>4, <1>7, <3>1, EmptySeq
  <2>5. Len(<<Hello>>) = 1 /\ <<Hello>>[1].type = "Hello"  BY DEF Hello
  <2>6. Greeting(l)'
    <3>1. pc'[l]["dialler"] = "hello" /\ pc'[l]["responder"] = "summary"
      BY <1>6, <1>7, <2>1, <2>2
    <3> QED  BY <2>3, <2>4, <2>5, <3>1 DEF Greeting
  <2>7. Talks(l)'  BY <1>1, <2>6 DEF Talks, Talk
  <2> QED  BY <1>1, <1>4, <1>5, <1>6, <2>7, TalksStay DEF Alternation
<1>8. CASE r = "dialler"
  <2>1. Other(r) = "responder" /\ at = "offer" /\ ms = <<>>  BY <1>8 DEF Other
  <2>2. /\ pc[l]["responder"] = "summary" /\ chan[l]["responder"] = <<>>
        /\ Len(chan[l]["dialler"]) = 1
    BY <1>1, <1>2, <1>8 DEF Greeting, Inbox
  <2>3. chan'[l]["responder"] = <<>>
    <3>1. chan'[l]["responder"] = <<>> \o <<>>  BY <1>4, <2>1, <2>2
    <3> QED  BY <3>1
  <2>4. chan'[l]["dialler"] = <<>>
    <3>1. Len(chan'[l][r]) = 0  BY <1>4, <1>8, <2>2 DEF Shorter
    <3> QED  BY <1>4, <1>8, <3>1, EmptySeq
  <2>5. Turn(r, at, pc[l][Other(r)], Count(Idle.todo), Left(l, Other(r)),
             chan'[l][r], chan'[l][Other(r)], TableAt(l, r), TableAt(l, Other(r)))
    BY <1>8, <2>1, <2>2, <2>3, <2>4, TurnStart
  <2> HIDE DEF at
  <2> QED  BY <1>1, <1>4, <1>5, <2>5, TurnThen
<1> QED  BY <1>7, <1>8 DEF Role

\* Links that a fault or the end of a session takes away.
LEMMA CutTalks ==
    ASSUME TypeOK, Alternation, NEW l \in Link, Cut(l), UNCHANGED table,
           \A k \in Link : k # l => (pc'[k] = pc[k] /\ work'[k] = work[k])
    PROVE  Alternation'
<1>1. /\ ~up'[l] /\ (\A r \in Role : chan'[l][r] = <<>>)
      /\ \A k \in Link : k # l => (chan'[k] = chan[k] /\ up'[k] = up[k])
  BY DEF Cut, TypeOK
<1>2. Talks(l)'  BY <1>1 DEF Talks
<1>3. Aged  BY QuietStep
<1> QED  BY <1>1, <1>2, <1>3, TalksStay DEF Alternation

LEMMA ApplyInsertFailsTalks ==
    ASSUME TypeOK, Alternation, NEW l \in Link, NEW r \in Role, ApplyInsertFails(l, r)
    PROVE  Alternation'
<1>1. \A k \in Link : k # l => (pc'[k] = pc[k] /\ work'[k] = work[k])
  BY DEF ApplyInsertFails, Goto, TypeOK
<1> QED  BY <1>1, CutTalks DEF ApplyInsertFails

LEMMA BreakTalks ==
    ASSUME TypeOK, Alternation, NEW l \in Link, Break(l)
    PROVE  Alternation'
BY CutTalks DEF Break

LEMMA DropTalks ==
    ASSUME TypeOK, Alternation, NEW l \in Link, NEW r \in Role, Drop(l, r)
    PROVE  Alternation'
<1>1. Aged /\ pc \in [Link -> [Role -> PC]] /\ work \in [Link -> [Role -> Work]]
  BY QuietStep DEF Drop
<1> QED  BY <1>1, DownThen DEF Drop

LEMMA DialTalks ==
    ASSUME TypeOK, Alternation, NEW l \in Link, Dial(l)
    PROVE  Alternation'
<1>1. /\ up'[l] /\ pc'[l] = [r \in Role |-> "hello"]
      /\ chan'[l] = [r \in Role |-> IF r = "responder" THEN <<Hello>> ELSE <<>>]
  BY DEF Dial, TypeOK
<1>2. \A k \in Link : k # l =>
          (pc'[k] = pc[k] /\ work'[k] = work[k] /\ chan'[k] = chan[k] /\ up'[k] = up[k])
  BY DEF Dial, TypeOK
<1>3. Greeting(l)'
  <2>1. Len(<<Hello>>) = 1 /\ <<Hello>>[1].type = "Hello"  BY DEF Hello
  <2> QED  BY <1>1, <2>1 DEF Greeting, Role
<1>4. Talks(l)'  BY <1>1, <1>3 DEF Talks, Talk
<1>5. Aged  BY QuietStep DEF Dial
<1> QED  BY <1>2, <1>4, <1>5, TalksStay DEF Alternation

LEMMA CrashTalks ==
    ASSUME TypeOK, Alternation, NEW d \in Device, Crash(d)
    PROVE  Alternation'
<1> DEFINE own(l, r) == DeviceOf(l, r) = d
           cut(l) == \E r \in Role : own(l, r)
<1>1. Aged  BY QuietStep DEF Crash
<1>2. ASSUME NEW l \in Link, cut(l) PROVE Talks(l)'
  <2>1. ~up'[l] /\ \A r \in Role : chan'[l][r] = <<>>  BY <1>2 DEF Crash
  <2> QED  BY <2>1 DEF Talks
<1>3. ASSUME NEW l \in Link, ~cut(l) PROVE Talks(l)'
  <2>1. up'[l] = up[l] /\ chan'[l] = chan[l]  BY <1>3 DEF Crash, TypeOK
  <2>2. \A r \in Role : pc'[l][r] = pc[l][r] /\ work'[l][r] = work[l][r]
    BY <1>3 DEF Crash
  <2>3. pc'[l] = pc[l] /\ work'[l] = work[l]
    <3>1. pc'[l] = [r \in Role |-> pc[l][r]] /\ work'[l] = [r \in Role |-> work[l][r]]
      BY <1>3 DEF Crash
    <3>2. pc[l] \in [Role -> PC] /\ work[l] \in [Role -> Work]  BY DEF TypeOK
    <3> QED  BY <3>1, <3>2
  <2> QED  BY <1>1, <2>1, <2>3, TalksStay DEF Alternation
<1> QED  BY <1>2, <1>3 DEF Alternation

\* Steps that touch no link.
LEMMA ElsewhereTalks ==
    ASSUME Alternation, Aged, UNCHANGED linkVars
    PROVE  Alternation'
BY TalksStay DEF Alternation, linkVars

LEMMA NextTalks ==
    ASSUME TypeOK, Alternation, Next
    PROVE  Alternation'
<1>1. ASSUME NEW d \in Device, LocalStep(d) PROVE Alternation'
  <2>1. OneStatement(d)  BY <1>1, CaptureType, PinClipType, DeleteClipType DEF LocalStep
  <2>2. Aged  BY <2>1, OneStatementTable DEF TypeOK
  <2>3. UNCHANGED linkVars  BY <1>1 DEF LocalStep, Capture, PinClip, DeleteClip, LocalEvent
  <2> QED  BY <2>2, <2>3, ElsewhereTalks
<1>2. ASSUME TimePasses PROVE Alternation'
  <2>1. Aged  BY <1>2, QuietStep DEF TimePasses
  <2> QED  BY <1>2, <2>1, ElsewhereTalks DEF TimePasses
<1>3. ASSUME NEW l \in Link, NEW r \in Role, EndStep(l, r) PROVE Alternation'
  BY <1>3, RecvHelloTalks, OfferTalks, RecvSummaryTalks, RecvWantTalks, SendPushTalks,
     RecvPushTalks, ApplyInsertTalks, ApplyInsertFailsTalks, ApplyPinTalks,
     ApplyDeleteTalks, WantBlobsTalks, RecvBlobWantTalks, SendBlobTalks, RecvBlobTalks,
     AcknowledgeTalks, RecvAckTalks, DropTalks DEF EndStep
<1> QED  BY <1>1, <1>2, <1>3, CrashTalks, DialTalks, BreakTalks DEF Next

\* The invariant holds in every behaviour.
LEMMA Alternates == Spec => []Alternation
<1>1. Init => Alternation  BY DEF Init, Alternation, Talks
<1>2. TypeOK /\ Alternation /\ [Next]_vars => Alternation'
  <2> SUFFICES ASSUME TypeOK, Alternation, [Next]_vars PROVE Alternation'
    OBVIOUS
  <2>1. CASE Next  BY <2>1, NextTalks
  <2>2. CASE UNCHANGED vars
    <3>1. Aged /\ UNCHANGED linkVars  BY <2>2, QuietStep DEF vars, linkVars
    <3> QED  BY <3>1, ElsewhereTalks
  <2> QED  BY <2>1, <2>2
<1> QED  BY <1>1, <1>2, TypeInvariant, PTL DEF Spec

\* Strict alternation (run_session): whatever users, other sessions, faults and
\* restarts do meanwhile, the two directions of a link never both hold messages,
\* so the two ends cannot be blocked writing to each other.
THEOREM StrictAlternation == Spec => []OneTalker
<1>1. TypeOK /\ Alternation => OneTalker
  <2> SUFFICES ASSUME TypeOK, Alternation, NEW l \in Link
               PROVE  \E r \in Role : chan[l][r] = <<>>
    BY DEF OneTalker
  <2>1. "dialler" \in Role /\ "responder" \in Role  BY DEF Role
  <2>2. CASE ~up[l] \/ Greeting(l) \/ Over(l)
    BY <2>1, <2>2 DEF Alternation, Talks, Greeting, Over
  <2>3. ASSUME NEW a \in Role, TurnOf(l, a) PROVE \E r \in Role : chan[l][r] = <<>>
    <3>1. chan[l][a] = <<>> \/ chan[l][Other(a)] = <<>>
      BY <2>3, TurnOfIs, TurnReads, BothTypes
    <3> QED  BY <3>1, Others
  <2> QED  BY <2>2, <2>3 DEF Alternation, Talks, Talk
<1> QED  BY <1>1, Alternates, TypeInvariant, PTL

\* A message that reaches an end of an open link is the one its position in
\* offer_our_history or take_their_history asks for, with the number of pushes
\* and blob streams that were asked for, and as long as a session runs one of
\* its ends can go on.
THEOREM NothingStuck == Spec => []NeverStuck
<1>1. TypeOK /\ Alternation => NeverStuck
  <2> SUFFICES ASSUME TypeOK, Alternation, NEW l \in Link, up[l]
               PROVE  /\ \A r \in Role : Inbox(l, r) # <<>> =>
                            \/ pc[l][r] \in Applying /\ Head(Inbox(l, r)).type = "Push"
                            \/ /\ pc[l][r] \in DOMAIN Awaits
                               /\ Head(Inbox(l, r)).type = Awaits[pc[l][r]]
                               /\ pc[l][r] \in {"push", "blob"} => work[l][r].todo # EmptyList
                      /\ (\A r \in Role : pc[l][r] = "idle") \/ (\E r \in Role : Ready(l, r))
    BY DEF NeverStuck
  <2> DEFINE Reads(r) == Inbox(l, r) # <<>> =>
                 \/ pc[l][r] \in Applying /\ Head(Inbox(l, r)).type = "Push"
                 \/ /\ pc[l][r] \in DOMAIN Awaits
                    /\ Head(Inbox(l, r)).type = Awaits[pc[l][r]]
                    /\ pc[l][r] \in {"push", "blob"} => work[l][r].todo # EmptyList
  <2>1. \A r \in Role : Inbox(l, r) # <<>> =>
            Head(Inbox(l, r)) = chan[l][r][1] /\ Inbox(l, r) = chan[l][r]
    BY EndTypes, TailSeq DEF Inbox
  <2>2. Talk(l)  BY DEF Alternation, Talks
  <2>3. CASE Greeting(l)
    <3>1. \A r \in Role : Inbox(l, r) # <<>> => (pc[l][r] = "hello" /\ chan[l][r][1].type = "Hello")
      BY <2>3 DEF Greeting, Role, Inbox
    <3>2. \A r \in Role : Reads(r)  BY <2>1, <3>1 DEF Awaits
    <3>3. \E r \in Role : Inbox(l, r) # <<>>  BY <2>3 DEF Greeting, Role, Inbox
    <3> QED  BY <3>2, <3>3 DEF Ready
  <2>4. CASE Over(l)  BY <2>4 DEF Over, Inbox
  <2>5. ASSUME NEW a \in Role, TurnOf(l, a)
        PROVE  (\A r \in Role : Reads(r)) /\ (\E r \in Role : Ready(l, r))
    <3> DEFINE b == Other(a)
    <3>1. Turn(a, pc[l][a], pc[l][b], Left(l, a), Left(l, b),
               chan[l][a], chan[l][b], TableAt(l, a), TableAt(l, b))
      BY <2>5, TurnOfIs
    <3>2. /\ chan[l][a] # <<>> => (/\ pc[l][a] \in {"want", "blobwant", "ack"}
                                   /\ chan[l][a][1].type = IF pc[l][a] = "ack" THEN "Ack" ELSE "Want")
          /\ chan[l][b] # <<>> => \/ pc[l][b] = "summary" /\ chan[l][b][1].type = "Summary"
                                  \/ pc[l][b] = "push" /\ chan[l][b][1].type = "Push" /\ Left(l, b) > 0
                                  \/ pc[l][b] \in Applying /\ chan[l][b][1].type = "Push"
                                  \/ pc[l][b] = "blob" /\ chan[l][b][1].type = "Blob" /\ Left(l, b) > 0
          /\ \/ pc[l][a] \in Sending \/ pc[l][b] \in Applying
             \/ chan[l][a] # <<>> \/ chan[l][b] # <<>>
             \/ pc[l][b] \in {"push", "blob"} /\ Left(l, b) = 0
      BY <3>1, TurnReads, BothTypes
    <3>3. b \in Role /\ \A r \in Role : r = a \/ r = b  BY DEF Other, Role
    <3>4. Left(l, b) \in Nat /\ (Left(l, b) = 0 <=> work[l][b].todo = EmptyList)
      BY <3>3, EndTypes
    <3>5. Reads(a)  BY <2>1, <3>2 DEF Awaits
    <3>6. Reads(b)
      <4>1. Left(l, b) > 0 => work[l][b].todo # EmptyList  BY <3>4
      <4> QED  BY <2>1, <3>2, <3>3, <4>1 DEF Awaits
    <3>7. Ready(l, a) \/ Ready(l, b)  BY <3>2, <3>4 DEF Ready, Inbox
    <3> QED  BY <3>3, <3>5, <3>6, <3>7
  <2> QED  BY <2>2, <2>3, <2>4, <2>5 DEF Talk
<1> QED  BY <1>1, Alternates, TypeInvariant, PTL

------------------------------------------------------------------------------
(***************************************************************************)
(* Agreement (CleanSessionAgrees).  While only a session writes to the two *)
(* histories it joins, the end that takes either has, of every content its *)
(* peer has, a row no older than its peer's, or is still to be sent that   *)
(* content or to write it (Taken); and every row under way is as its       *)
(* sender's table has it (MessagesCurrent, EndCurrent).  The responder     *)
(* takes first, and what it then has covers the dialler's history; that    *)
(* stays so while the dialler takes, because what it writes are rows of    *)
(* the responder's (Running).  The dialler's last message finds both       *)
(* covered.                                                                *)
(***************************************************************************)

Asking == {"push"} \cup Applying

\* The lookup of h has one answer; t has h, no older than u has it.
Sole(t, h) == \A i, j \in ByHash(t, h) : i = j
Latest(t, u, h) ==
    /\ h \in Hashes(t)
    /\ Sole(t, h) /\ Sole(u, h) =>
           \A i \in ByHash(t, h), j \in ByHash(u, h) : ~Newer(u[j].hlc, t[i].hlc)
Covered(t, u) == \A h \in Hashes(u) : Latest(t, u, h)
Agrees(t, u) ==
    /\ Hashes(t) = Hashes(u)
    /\ \A h \in Hash : Sole(t, h) /\ Sole(u, h) =>
          \A i \in ByHash(t, h), j \in ByHash(u, h) : t[i].hlc = u[j].hlc

\* A clip as u may return it; a summary that leaves out no row of u.
Current(c, u) == \E i \in ByHash(u, c.hash) : u[i].hlc = c.hlc
Whole(m, u) == \A i \in Ids(u) : \E k \in Items(m.entries) :
    m.entries[k].hash = u[i].hash /\ m.entries[k].hlc = u[i].hlc

\* An end of a device with history t, whose peer has history u.
MessageCurrent(m, u) ==
    /\ m.type = "Push" => Current(m.pushed.clip, u)
    /\ m.type = "Summary" => Whole(m, u)
MessagesCurrent(ms, u) == \A k \in DOMAIN ms : MessageCurrent(ms[k], u)
EndCurrent(at, w, t, u) ==
    /\ at = "pushing" => \A k \in Items(w.todo) : Current(w.todo[k].clip, t)
    /\ at \in Applying => Current(w.pushed.clip, u)
    /\ at \in {"pin", "tombstone"} => w.target \in ByHash(t, w.pushed.clip.hash)
    /\ at = "tombstone" => t[w.target].hlc = w.pushed.clip.hlc

\* h is still to be written by an end at `at` with c under way to it, or its
\* peer, at pa with ca under way to it, is still to send it.
Pending(h, at, w, c, pa, wa, ca) ==
    \/ at \in Applying /\ w.pushed.clip.hash = h
    \/ \E k \in DOMAIN c : c[k].type = "Push" /\ c[k].pushed.clip.hash = h
    \/ pa = "pushing" /\ \E k \in Items(wa.todo) : wa.todo[k].clip.hash = h
    \/ pa = "want" /\ \E k \in DOMAIN ca : ca[k].type = "Want"
                          /\ \E j \in Items(ca[k].hashes) : ca[k].hashes[j] = h
Taken(at, w, c, pa, wa, ca, t, u) ==
    at \in Asking \cup {"blob"} => \A h \in Hashes(u) :
        Latest(t, u, h) \/ (at # "blob" /\ Pending(h, at, w, c, pa, wa, ca))

TakenBy(l, r) ==
    Taken(pc[l][r], work[l][r], chan[l][r], pc[l][Other(r)], work[l][Other(r)],
          chan[l][Other(r)], TableAt(l, r), TableAt(l, Other(r)))
Running(l) ==
    /\ \A r \in Role :
         /\ MessagesCurrent(chan[l][r], TableAt(l, Other(r)))
         /\ EndCurrent(pc[l][r], work[l][r], TableAt(l, r), TableAt(l, Other(r)))
         /\ TakenBy(l, r)
    /\ pc[l]["responder"] \in Offering => Covered(TableAt(l, "responder"), TableAt(l, "dialler"))
Synced(l) ==
    /\ pc[l]["dialler"] = "idle" /\ pc[l]["responder"] \in Offering \cup {"idle"}
    /\ Agrees(TableAt(l, "dialler"), TableAt(l, "responder"))
Undisturbed(l) ==
    /\ quiet[l] = "running" => up[l] /\ Running(l)
    /\ quiet[l] = "synced" => up[l] /\ Synced(l)
Quietly == \A l \in Link : Undisturbed(l)

------------------------------------------------------------------------------
(* Lookups and timestamps. *)

LEMMA NewerOrder ==
    /\ \A x \in Hlc : ~Newer(x, x)
    /\ \A x, y \in Hlc : ~Newer(x, y) /\ ~Newer(y, x) => x = y
<1>0. ASSUME NEW x \in Hlc PROVE x.wall \in Nat /\ x.counter \in Nat /\ x.device \in Nat
  <2>1. x.wall \in Nat /\ x.counter \in 0..MaxCounter /\ x.device \in Device  BY DEF Hlc
  <2>2. MaxCounter \in Nat /\ Device \subseteq Nat  OBVIOUS
  <2>3. x.counter \in Nat  BY <2>1, <2>2
  <2>4. x.device \in Nat  BY <2>1, <2>2
  <2> QED  BY <2>1, <2>3, <2>4
<1>1. \A x \in Hlc : ~Newer(x, x)  BY <1>0 DEF Newer
<1>2. ASSUME NEW x \in Hlc, NEW y \in Hlc, ~Newer(x, y), ~Newer(y, x) PROVE x = y
  <2>1. x.wall = y.wall /\ x.counter = y.counter /\ x.device = y.device
    BY <1>0, <1>2 DEF Newer
  <2> QED  BY <2>1 DEF Hlc
<1> QED  BY <1>1, <1>2

LEMMA ByHashFacts ==
    ASSUME NEW t \in Table
    PROVE  /\ \A h, i : i \in ByHash(t, h) =>
                  i \in Id /\ i \in Ids(t) /\ t[i] \in Row /\ t[i].hash = h /\ t[i].hlc \in Hlc
           /\ \A h : h \in Hashes(t) <=> ByHash(t, h) # {}
           /\ \A i \in Ids(t) : t[i] \in Row /\ t[i].hash \in Hash /\ t[i].hlc \in Hlc
                  /\ t[i].hash \in Hashes(t)
<1>1. \A i \in Ids(t) : t[i] \in Row  BY DEF Ids, Table
<1>2. \A h, i : i \in ByHash(t, h) => i \in Ids(t) /\ t[i].hash = h
  BY DEF ByHash, LiveWithHash, WithHash
<1>3. \A h : h \in Hashes(t) <=> ByHash(t, h) # {}
  <2>1. \A h : h \in Hashes(t) <=> WithHash(t, h) # {}  BY DEF Hashes, WithHash
  <2>2. \A h : ByHash(t, h) = {} <=> WithHash(t, h) = {}  BY DEF ByHash, LiveWithHash
  <2> QED  BY <2>1, <2>2
<1>4. Ids(t) \subseteq Id  BY DEF Ids
<1>5. \A c \in Row : c.hash \in Hash /\ c.hlc \in Hlc  BY DEF Row
<1>6. \A i \in Ids(t) : t[i].hash \in Hashes(t)  BY DEF Hashes
<1> QED  BY <1>1, <1>2, <1>3, <1>4, <1>5, <1>6

LEMMA CoveredBoth ==
    ASSUME NEW t \in Table, NEW u \in Table, Covered(t, u), Covered(u, t)
    PROVE  Agrees(t, u)
<1>1. Hashes(t) = Hashes(u)  BY DEF Covered, Latest
<1>2. ASSUME NEW h \in Hash, Sole(t, h), Sole(u, h), NEW i \in ByHash(t, h), NEW j \in ByHash(u, h)
      PROVE  t[i].hlc = u[j].hlc
  <2>1. h \in Hashes(t) /\ h \in Hashes(u)  BY ByHashFacts
  <2>2. ~Newer(u[j].hlc, t[i].hlc) /\ ~Newer(t[i].hlc, u[j].hlc)
    BY <1>2, <2>1 DEF Covered, Latest
  <2>3. t[i].hlc \in Hlc /\ u[j].hlc \in Hlc  BY ByHashFacts
  <2> QED  BY <2>2, <2>3, NewerOrder
<1> QED  BY <1>1, <1>2 DEF Agrees

\* t and u differ in rows of content h only.
OnlyHash(t, u, h) ==
    \A i \in Id : t[i] = u[i] \/ (/\ t[i] = None \/ t[i].hash = h
                                  /\ u[i] = None \/ u[i].hash = h)

LEMMA OnlyHashLookups ==
    ASSUME NEW t, NEW u, NEW h, OnlyHash(t, u, h)
    PROVE  \A g : g # h =>
               /\ ByHash(t, g) = ByHash(u, g)
               /\ \A i \in ByHash(t, g) : t[i] = u[i]
               /\ g \in Hashes(t) <=> g \in Hashes(u)
<1> SUFFICES ASSUME NEW g, g # h
             PROVE  /\ ByHash(t, g) = ByHash(u, g)
                    /\ \A i \in ByHash(t, g) : t[i] = u[i]
                    /\ g \in Hashes(t) <=> g \in Hashes(u)
  OBVIOUS
<1>1. \A i \in Id : (t[i] # None /\ t[i].hash = g) \/ (u[i] # None /\ u[i].hash = g) => t[i] = u[i]
  BY DEF OnlyHash
<1>2. WithHash(t, g) = WithHash(u, g)  BY <1>1 DEF WithHash, Ids
<1>3. \A i \in WithHash(t, g) : t[i] = u[i]  BY <1>1 DEF WithHash, Ids
<1>4. LiveWithHash(t, g) = LiveWithHash(u, g)  BY <1>2, <1>3 DEF LiveWithHash
<1>5. ByHash(t, g) = ByHash(u, g) /\ ByHash(t, g) \subseteq WithHash(t, g)
  BY <1>2, <1>4 DEF ByHash, LiveWithHash
<1>6. \A v : g \in Hashes(v) <=> WithHash(v, g) # {}  BY DEF Hashes, WithHash
<1> QED  BY <1>2, <1>3, <1>5, <1>6

\* A session writes the row c of u into t: only what t has of c's content
\* changes, and for that content t is then as new as u, and u as t.
LEMMA WrittenLatest ==
    ASSUME NEW t \in Table, NEW t1 \in Table, NEW u \in Table, NEW c \in Row,
           OnlyHash(t, t1, c.hash), Current(c, t1), Current(c, u)
    PROVE  /\ Latest(t1, u, c.hash) /\ Latest(u, t1, c.hash)
           /\ \A g : g # c.hash => (Latest(t, u, g) <=> Latest(t1, u, g))
           /\ Covered(u, t) => Covered(u, t1)
<1> DEFINE h == c.hash
<1>1. c.hlc \in Hlc  BY DEF Row
<1>2. PICK i1 \in ByHash(t1, h) : t1[i1].hlc = c.hlc  BY DEF Current
<1>3. PICK j1 \in ByHash(u, h) : u[j1].hlc = c.hlc  BY DEF Current
<1>4. h \in Hashes(t1) /\ h \in Hashes(u)  BY <1>2, <1>3, ByHashFacts
<1>5. ASSUME Sole(t1, h), Sole(u, h), NEW i \in ByHash(t1, h), NEW j \in ByHash(u, h)
      PROVE  ~Newer(u[j].hlc, t1[i].hlc) /\ ~Newer(t1[i].hlc, u[j].hlc)
  <2>1. i = i1 /\ j = j1  BY <1>2, <1>3, <1>5, Zenon DEF Sole
  <2> QED  BY <1>1, <1>2, <1>3, <2>1, NewerOrder
<1>6. Latest(t1, u, h) /\ Latest(u, t1, h)  BY <1>4, <1>5, Zenon DEF Latest
<1>7. \A g : g # h => (/\ ByHash(t, g) = ByHash(t1, g)
                       /\ \A i \in ByHash(t, g) : t[i] = t1[i]
                       /\ g \in Hashes(t) <=> g \in Hashes(t1))
  BY OnlyHashLookups
<1>8. \A g : g # h => ((Latest(t, u, g) <=> Latest(t1, u, g))
                        /\ (Latest(u, t, g) <=> Latest(u, t1, g)))
  <2> SUFFICES ASSUME NEW g, g # h
               PROVE  /\ Latest(t, u, g) <=> Latest(t1, u, g)
                      /\ Latest(u, t, g) <=> Latest(u, t1, g)
    OBVIOUS
  <2>1. /\ ByHash(t, g) = ByHash(t1, g) /\ \A i \in ByHash(t, g) : t[i] = t1[i]
        /\ g \in Hashes(t) <=> g \in Hashes(t1)
    BY <1>7
  <2>2. Sole(t, g) <=> Sole(t1, g)  BY <2>1 DEF Sole
  <2> QED  BY <2>1, <2>2 DEF Latest
<1>9. ASSUME Covered(u, t) PROVE Covered(u, t1)
  <2> SUFFICES ASSUME NEW g \in Hashes(t1) PROVE Latest(u, t1, g)
    BY DEF Covered
  <2>1. CASE g = h  BY <1>6, <2>1
  <2>2. CASE g # h  BY <1>7, <1>8, <1>9, <2>2 DEF Covered
  <2> QED  BY <2>1, <2>2
<1> QED  BY <1>6, <1>8, <1>9

------------------------------------------------------------------------------
(* What the statements of a session write. *)

\* A row changes that has content h before, if it is there, and after.
LEMMA OneRowOnly ==
    ASSUME NEW t \in Table, NEW i \in Id, NEW c, t[i] # None => t[i].hash = c.hash
    PROVE  OnlyHash(t, [t EXCEPT ![i] = c], c.hash)
<1>1. \A j \in Id : [t EXCEPT ![i] = c][j] = IF j = i THEN c ELSE t[j]  BY DEF Table
<1> QED  BY <1>1 DEF OnlyHash

LEMMA InsertCurrent ==
    ASSUME NEW t \in Table, NEW i \in Id, NEW clip \in Row, ~InsertFails(t, i, clip)
    PROVE  /\ OnlyHash(t, Insert(t, i, clip), clip.hash)
           /\ Current(clip, Insert(t, i, clip))
<1> DEFINE h == clip.hash
<1>1. CASE LiveWithHash(t, h) # {}
  <2> DEFINE e == CHOOSE j \in LiveWithHash(t, h) : TRUE
             c == [t[e] EXCEPT !.hlc = clip.hlc]
             u == [t EXCEPT ![e] = c]
  <2>1. e \in LiveWithHash(t, h)  BY <1>1
  <2>2. Insert(t, i, clip) = u  BY <1>1 DEF Insert
  <2> HIDE DEF e
  <2>3. e \in Id /\ t[e] \in Row /\ t[e].hash = h /\ ~t[e].deleted
    BY <2>1 DEF LiveWithHash, WithHash, Ids, Table
  <2>4. c \in Row /\ c.hash = h /\ c.hlc = clip.hlc /\ c.deleted = t[e].deleted
    BY <2>3 DEF Row
  <2> HIDE DEF c
  <2>5. u[e] = c  BY <2>3 DEF Table
  <2>6. OnlyHash(t, u, h)  BY <2>3, <2>4, OneRowOnly
  <2> HIDE DEF u
  <2>7. e \in LiveWithHash(u, h)  BY <2>3, <2>4, <2>5 DEF LiveWithHash, WithHash, Ids
  <2>8. e \in ByHash(u, h)  BY <2>7 DEF ByHash
  <2> QED  BY <2>2, <2>4, <2>5, <2>6, <2>8 DEF Current
<1>2. CASE LiveWithHash(t, h) = {}
  <2> DEFINE u == [t EXCEPT ![i] = clip]
  <2>1. Insert(t, i, clip) = u /\ t[i] = None  BY <1>2 DEF Insert, InsertFails
  <2>2. OnlyHash(t, u, h)  BY <2>1, OneRowOnly
  <2>3. \A j \in Id : u[j] = IF j = i THEN clip ELSE t[j]  BY DEF Table
  <2> HIDE DEF u
  <2>4. i \in WithHash(u, h)  BY <2>3 DEF WithHash, Ids
  <2>5. LiveWithHash(u, h) \subseteq {i}
    BY <1>2, <2>3 DEF LiveWithHash, WithHash, Ids
  <2>6. i \in ByHash(u, h)  BY <2>4, <2>5 DEF ByHash
  <2> QED  BY <2>1, <2>2, <2>3, <2>6 DEF Current
<1> QED  BY <1>1, <1>2

LEMMA PinCurrent ==
    ASSUME NEW t \in Table, NEW h, NEW i \in ByHash(t, h), NEW p \in BOOLEAN, NEW hlc \in Hlc
    PROVE  LET u == SetPinned(t, i, p, hlc)
           IN  OnlyHash(t, u, h) /\ i \in ByHash(u, h) /\ u[i].hlc = hlc
<1> DEFINE c == [t[i] EXCEPT !.pinned = p, !.hlc = hlc]
           u == [t EXCEPT ![i] = c]
<1>1. i \in Id /\ i \in Ids(t) /\ t[i] \in Row /\ t[i].hash = h  BY ByHashFacts
<1>2. c \in Row /\ c.hash = h /\ c.hlc = hlc /\ c.deleted = t[i].deleted  BY <1>1 DEF Row
<1>3. c # None  BY <1>2
<1>4. SetPinned(t, i, p, hlc) = u  BY DEF SetPinned
<1> HIDE DEF c
<1>5. \A j \in Id : u[j] = IF j = i THEN c ELSE t[j]  BY DEF Table
<1>6. OnlyHash(t, u, h)  BY <1>1, <1>2, OneRowOnly
<1> HIDE DEF u
<1>7. \A j \in Id : /\ j \in WithHash(u, h) <=> j \in WithHash(t, h)
                    /\ j \in LiveWithHash(u, h) <=> j \in LiveWithHash(t, h)
  BY <1>1, <1>2, <1>3, <1>5 DEF WithHash, LiveWithHash, Ids
<1>8. WithHash(u, h) = WithHash(t, h) /\ LiveWithHash(u, h) = LiveWithHash(t, h)
  <2>1. \A v : WithHash(v, h) \subseteq Id /\ LiveWithHash(v, h) \subseteq Id
    BY DEF WithHash, LiveWithHash, Ids
  <2>2. \A j : j \in WithHash(u, h) <=> j \in WithHash(t, h)  BY <1>7, <2>1
  <2>3. \A j : j \in LiveWithHash(u, h) <=> j \in LiveWithHash(t, h)  BY <1>7, <2>1
  <2> QED  BY <2>2, <2>3, Zenon
<1>9. i \in ByHash(u, h)  BY <1>8 DEF ByHash
<1> QED  BY <1>1, <1>2, <1>4, <1>5, <1>6, <1>9

LEMMA DeleteCurrent ==
    ASSUME NEW t \in Table, OneLive(t), NEW h \in Hash, NEW i \in ByHash(t, h),
           NEW hlc \in Hlc, t[i].hlc = hlc
    PROVE  LET u == Delete(t, i, hlc)
           IN  OnlyHash(t, u, h) /\ i \in ByHash(u, h) /\ u[i].hlc = hlc
<1>1. i \in Id /\ i \in Ids(t) /\ t[i] \in Row /\ t[i].hash = h  BY ByHashFacts
<1>2. CASE t[i].deleted
  <2>1. Delete(t, i, hlc) = t  BY <1>2 DEF Delete
  <2>2. OnlyHash(t, t, h)  BY DEF OnlyHash
  <2> QED  BY <2>1, <2>2
<1>3. CASE ~t[i].deleted
  <2> DEFINE c == [t[i] EXCEPT !.deleted = TRUE, !.hlc = hlc]
             u == [t EXCEPT ![i] = c]
  <2>1. c.hash = h /\ c.hlc = hlc /\ c.deleted /\ c \in Row  BY <1>1 DEF Row
  <2>2. Delete(t, i, hlc) = u  BY <1>3 DEF Delete
  <2> HIDE DEF c
  <2>3. \A j \in Id : u[j] = IF j = i THEN c ELSE t[j]  BY DEF Table
  <2>4. OnlyHash(t, u, h)  BY <1>1, <2>1, OneRowOnly
  <2> HIDE DEF u
  <2>5. i \in LiveWithHash(t, h)  BY <1>1, <1>3 DEF LiveWithHash, WithHash
  <2>6. \A j \in LiveWithHash(t, h) : j = i  BY <2>5 DEF OneLive
  <2>7. LiveWithHash(u, h) = {}
    BY <2>1, <2>3, <2>6 DEF LiveWithHash, WithHash, Ids
  <2>8. i \in WithHash(u, h)  BY <1>1, <2>1, <2>3 DEF WithHash, Ids
  <2>9. i \in ByHash(u, h)  BY <2>7, <2>8 DEF ByHash
  <2> QED  BY <1>1, <2>1, <2>2, <2>3, <2>4, <2>9
<1> QED  BY <1>2, <1>3

\* A list of the rows in the order of their timestamps leaves none out.
LEMMA OrderLists ==
    ASSUME NEW t \in Table, NEW s \in InHlcOrder(t)
    PROVE  /\ DOMAIN s \subseteq Pos
           /\ \A i \in Ids(t) : \E k \in DOMAIN s : s[k] = i
<1> DEFINE n == Cardinality(Ids(t))
<1>1. Ids(t) \subseteq Id /\ IsFiniteSet(Ids(t)) /\ n \in Nat
      /\ Cardinality(Id) \in Nat /\ n <= Cardinality(Id)
  <2>1. Ids(t) \subseteq Id  BY DEF Ids
  <2> QED  BY <2>1, FS_Subset, FS_CardinalityType
<1>2. s \in [1..n -> Ids(t)] /\ \A j, k \in 1..n : j < k => s[j] # s[k]
  BY DEF InHlcOrder
<1> HIDE DEF n
<1>3. \A j, k \in 1..n : j # k => s[j] # s[k]
  <2> SUFFICES ASSUME NEW j \in 1..n, NEW k \in 1..n, j # k PROVE s[j] # s[k]
    OBVIOUS
  <2>1. j < k \/ k < j  BY <1>1
  <2> QED  BY <1>2, <2>1
<1>4. s \in Injection(1..n, Ids(t))  BY <1>2, <1>3 DEF Injection, IsInjective
<1>5. Cardinality(1..n) = n /\ IsFiniteSet(1..n)  BY <1>1, FS_Interval
<1>6. Cardinality(1..n) = Cardinality(Ids(t))  BY <1>5 DEF n
<1>7. s \in Surjection(1..n, Ids(t))  BY <1>1, <1>4, <1>6, FS_Injection
<1>8. \A i \in Ids(t) : \E k \in 1..n : s[k] = i  BY <1>7 DEF Surjection
<1>9. DOMAIN s = 1..n /\ 1..n \subseteq Pos  BY <1>1, <1>2 DEF Pos
<1> QED  BY <1>8, <1>9

------------------------------------------------------------------------------
(* What a step of one end keeps. *)

\* While an end takes, its peer offers.
LEMMA TakerOffered ==
    ASSUME TypeOK, Alternation, NEW l \in Link, NEW r \in Role, up[l],
           pc[l][r] \in Asking \cup {"blob"}
    PROVE  pc[l][Other(r)] \in Offering
<1>1. pc[l][r] \in {"push", "insert", "pin", "tombstone", "blob"}  BY DEF Asking, Applying
<1> QED  BY <1>1, TakerTurn DEF Turn

LEMMA NotTaking ==
    ASSUME NEW at, at \notin Asking \cup {"blob"}
    PROVE  \A w, c, pa, wa, ca, t, u : Taken(at, w, c, pa, wa, ca, t, u)
BY DEF Taken

LEMMA TakenStays ==
    ASSUME NEW at, NEW w, NEW c, NEW pa, NEW wa, NEW ca, NEW t, NEW u,
           Taken(at, w, c, pa, wa, ca, t, u), NEW c1, NEW pb, NEW wb, NEW cb,
           at \in Asking => \A h : Pending(h, at, w, c, pa, wa, ca) => Pending(h, at, w, c1, pb, wb, cb)
    PROVE  Taken(at, w, c1, pb, wb, cb, t, u)
<1> SUFFICES ASSUME at \in Asking \cup {"blob"}, NEW h \in Hashes(u)
             PROVE  Latest(t, u, h) \/ (at # "blob" /\ Pending(h, at, w, c1, pb, wb, cb))
  BY DEF Taken
<1>1. Latest(t, u, h) \/ (at # "blob" /\ Pending(h, at, w, c, pa, wa, ca))  BY DEF Taken
<1>2. at # "blob" => at \in Asking  OBVIOUS
<1> QED  BY <1>1, <1>2

\* A link whose ends and histories a step leaves alone.
LEMMA UntouchedLink ==
    ASSUME NEW k \in Link, Undisturbed(k),
           \/ quiet'[k] = "no"
           \/ /\ quiet'[k] = quiet[k] /\ up'[k] = up[k]
              /\ \A q \in Role : /\ chan'[k][q] = chan[k][q] /\ pc'[k][q] = pc[k][q]
                                 /\ work'[k][q] = work[k][q]
                                 /\ table'[DeviceOf(k, q)] = table[DeviceOf(k, q)]
    PROVE  Undisturbed(k)'
<1>1. CASE quiet'[k] = "no"  BY <1>1 DEF Undisturbed
<1>2. CASE quiet'[k] # "no"
  <2>1. /\ quiet'[k] = quiet[k] /\ up'[k] = up[k]
        /\ \A q \in Role : /\ chan'[k][q] = chan[k][q] /\ pc'[k][q] = pc[k][q]
                           /\ work'[k][q] = work[k][q] /\ TableAt(k, q)' = TableAt(k, q)
    BY <1>2 DEF TableAt
  <2>2. \A q \in Role : Other(q) \in Role  BY Others
  <2>3. "dialler" \in Role /\ "responder" \in Role  BY DEF Role
  <2>4. Running(k) => Running(k)'  BY <2>1, <2>2, <2>3 DEF Running, TakenBy
  <2>5. Synced(k) => Synced(k)'  BY <2>1, <2>3 DEF Synced
  <2> QED  BY <2>1, <2>4, <2>5 DEF Undisturbed
<1> QED  BY <1>1, <1>2

\* A step of one end, which writes no history but its own device's.
LEMMA StepQuietly ==
    ASSUME TypeOK, Quietly, NEW l \in Link, NEW r \in Role, NEW at, NEW w,
           Goto(l, r, at, w), up' = up, quiet'[l] = quiet[l],
           \A k \in Link : k # l =>
               /\ chan'[k] = chan[k]
               /\ \/ quiet'[k] = "no"
                  \/ /\ quiet'[k] = quiet[k]
                     /\ \A q \in Role : table'[DeviceOf(k, q)] = table[DeviceOf(k, q)],
           table'[DeviceOf(l, Other(r))] = TableAt(l, Other(r)),
           pc[l][r] # "idle",
           (r = "responder" /\ pc[l][r] \in Offering) =>
               (at \in Offering \cup {"idle"} /\ table'[DeviceOf(l, r)] = TableAt(l, r)),
           (quiet[l] = "running" /\ up[l] /\ Running(l)) =>
               /\ \A q \in Role : MessagesCurrent(chan'[l][q], table'[DeviceOf(l, Other(q))])
               /\ EndCurrent(at, w, table'[DeviceOf(l, r)], TableAt(l, Other(r)))
               /\ EndCurrent(pc[l][Other(r)], work[l][Other(r)], TableAt(l, Other(r)),
                             table'[DeviceOf(l, r)])
               /\ Taken(at, w, chan'[l][r], pc[l][Other(r)], work[l][Other(r)],
                        chan'[l][Other(r)], table'[DeviceOf(l, r)], TableAt(l, Other(r)))
               /\ Taken(pc[l][Other(r)], work[l][Other(r)], chan'[l][Other(r)], at, w,
                        chan'[l][r], TableAt(l, Other(r)), table'[DeviceOf(l, r)])
               /\ (r = "responder" /\ at \in Offering) =>
                      Covered(table'[DeviceOf(l, r)], TableAt(l, Other(r)))
               /\ (r = "dialler" /\ pc[l][Other(r)] \in Offering) =>
                      Covered(TableAt(l, Other(r)), table'[DeviceOf(l, r)])
    PROVE  Quietly'
<1> DEFINE o == Other(r)
<1>1. o \in Role /\ o # r /\ Other(o) = r /\ \A q \in Role : q = r \/ q = o
  BY Others DEF Role, Other
<1>2. /\ pc'[l][r] = at /\ pc'[l][o] = pc[l][o]
      /\ work'[l][r] = w /\ work'[l][o] = work[l][o]
      /\ \A k \in Link : k # l => (pc'[k] = pc[k] /\ work'[k] = work[k])
  BY <1>1 DEF Goto, TypeOK
<1>3. TableAt(l, o)' = TableAt(l, o) /\ \A q \in Role : TableAt(l, q)' = table'[DeviceOf(l, q)]
  BY DEF TableAt
<1>4. Undisturbed(l)  BY DEF Quietly
<1>5. ASSUME quiet[l] = "running" PROVE Running(l)'
  <2>1. up[l] /\ Running(l)  BY <1>4, <1>5 DEF Undisturbed
  <2>2. \A q \in Role : MessagesCurrent(chan'[l][q], TableAt(l, Other(q))')
    BY <1>5, <2>1 DEF TableAt
  <2>3. \A q \in Role : EndCurrent(pc'[l][q], work'[l][q], TableAt(l, q)', TableAt(l, Other(q))')
    BY <1>1, <1>2, <1>3, <1>5, <2>1
  <2>4. TakenBy(l, r)' /\ TakenBy(l, o)'
    <3>1. Taken(at, w, chan'[l][r], pc'[l][o], work'[l][o],
                chan'[l][o], TableAt(l, r)', TableAt(l, o)')
      BY <1>1, <1>2, <1>3, <1>5, <2>1
    <3>2. Taken(pc'[l][o], work'[l][o], chan'[l][o], at, w, chan'[l][r],
                TableAt(l, o)', TableAt(l, r)')
      BY <1>1, <1>2, <1>3, <1>5, <2>1
    <3> QED  BY <1>1, <1>2, <3>1, <3>2 DEF TakenBy
  <2>5. pc'[l]["responder"] \in Offering => Covered(TableAt(l, "responder")', TableAt(l, "dialler")')
    <3>1. CASE r = "responder"
      <4>1. o = "dialler"  BY <3>1 DEF Other
      <4> QED  BY <1>1, <1>2, <1>3, <1>5, <2>1, <3>1, <4>1
    <3>2. CASE r = "dialler"
      <4>1. o = "responder"  BY <3>2 DEF Other
      <4> QED  BY <1>1, <1>2, <1>3, <1>5, <2>1, <3>2, <4>1
    <3> QED  BY <3>1, <3>2 DEF Role
  <2> QED  BY <1>1, <2>2, <2>3, <2>4, <2>5 DEF Running
<1>6. ASSUME quiet[l] = "synced" PROVE Synced(l)'
  <2>1. Synced(l)  BY <1>4, <1>6 DEF Undisturbed
  <2>2. r = "responder" /\ o = "dialler"  BY <2>1 DEF Synced, Role, Other
  <2>3. pc[l][r] \in Offering  BY <2>1, <2>2 DEF Synced
  <2>4. TableAt(l, r)' = TableAt(l, r) /\ at \in Offering \cup {"idle"}  BY <1>3, <2>2, <2>3
  <2> QED  BY <1>2, <1>3, <2>1, <2>2, <2>4 DEF Synced
<1>7. Undisturbed(l)'  BY <1>4, <1>5, <1>6 DEF Undisturbed
<1>8. ASSUME NEW k \in Link, k # l PROVE Undisturbed(k)'
  BY <1>2, <1>8, UntouchedLink DEF Quietly
<1> QED  BY <1>7, <1>8 DEF Quietly

\* The messages on their way to the two ends of l, where no history is written.
MessagesRight(l, cs) == \A q \in Role : MessagesCurrent(cs[l][q], TableAt(l, Other(q)))

LEMMA SendCurrent ==
    ASSUME TypeOK, NEW l \in Link, NEW r \in Role, NEW m \in Message, Send(l, r, m),
           MessagesRight(l, chan), MessageCurrent(m, TableAt(l, r))
    PROVE  MessagesRight(l, chan')
<1> DEFINE o == Other(r)
           s == chan[l][o]
           t == chan'[l][o]
<1>1. o \in Role /\ Other(o) = r /\ \A q \in Role : q = r \/ q = o  BY Others DEF Other, Role
<1>2. chan'[l][r] = chan[l][r] /\ Longer(s, m, t) /\ s \in Seq(Message) /\ t \in Seq(Message)
  BY <1>1, SendEffect, EndTypes
<1>3. MessagesCurrent(chan[l][r], TableAt(l, o)) /\ MessagesCurrent(s, TableAt(l, r))
  BY <1>1 DEF MessagesRight
<1>4. MessagesCurrent(t, TableAt(l, r))
  <2> HIDE DEF s, t
  <2>1. DOMAIN t = 1..(Len(s) + 1) /\ DOMAIN s = 1..Len(s) /\ Len(s) \in Nat
    BY <1>2, EmptySeq DEF Longer
  <2> SUFFICES ASSUME NEW k \in DOMAIN t PROVE MessageCurrent(t[k], TableAt(l, r))
    BY DEF MessagesCurrent
  <2>2. k \in DOMAIN s \/ k = Len(s) + 1  BY <2>1
  <2>3. CASE k \in DOMAIN s  BY <1>2, <1>3, <2>1, <2>3 DEF Longer, MessagesCurrent
  <2>4. CASE k = Len(s) + 1  BY <1>2, <2>4 DEF Longer
  <2> QED  BY <2>2, <2>3, <2>4
<1> QED  BY <1>1, <1>2, <1>3, <1>4 DEF MessagesRight

LEMMA TakeCurrent ==
    ASSUME TypeOK, NEW l \in Link, NEW r \in Role, Inbox(l, r) # <<>>,
           NEW ms \in Seq(Message), \A k \in DOMAIN ms : ms[k].type \notin {"Push", "Summary"},
           Exchange(l, r, ms), MessagesRight(l, chan)
    PROVE  MessagesRight(l, chan')
<1> DEFINE o == Other(r)
<1>1. o \in Role /\ Other(o) = r /\ \A q \in Role : q = r \/ q = o  BY Others DEF Other, Role
<1>2. /\ chan'[l][o] = chan[l][o] \o ms /\ Shorter(chan[l][r], chan'[l][r])
      /\ chan[l][r] \in Seq(Message) /\ chan'[l][r] \in Seq(Message) /\ chan[l][o] \in Seq(Message)
  BY <1>1, TakeEffect, EndTypes
<1>3. MessagesCurrent(chan[l][r], TableAt(l, o)) /\ MessagesCurrent(chan[l][o], TableAt(l, r))
  BY <1>1 DEF MessagesRight
<1>4. MessagesCurrent(chan'[l][o], TableAt(l, r))
  <2> DEFINE s == chan[l][o]
  <2>1. \A k \in DOMAIN (s \o ms) :
            \/ (s \o ms)[k].type \notin {"Push", "Summary"}
            \/ k \in DOMAIN s /\ (s \o ms)[k] = s[k]
    BY <1>2
  <2> QED  BY <1>2, <1>3, <2>1 DEF MessagesCurrent, MessageCurrent
<1>5. MessagesCurrent(chan'[l][r], TableAt(l, o))
  <2> DEFINE s == chan[l][r]
             t == chan'[l][r]
  <2>1. \A k \in DOMAIN t : k + 1 \in DOMAIN s /\ t[k] = s[k + 1]
    <3>1. DOMAIN t = 1..Len(t) /\ DOMAIN s = 1..Len(s) /\ Len(s) \in Nat /\ Len(t) = Len(s) - 1
      BY <1>2, EmptySeq DEF Shorter
    <3>2. \A k \in 1..Len(t) : t[k] = s[k + 1]  BY <1>2 DEF Shorter
    <3> HIDE DEF s, t
    <3> QED  BY <3>1, <3>2
  <2> QED  BY <1>3, <2>1 DEF MessagesCurrent
<1> QED  BY <1>1, <1>2, <1>4, <1>5 DEF MessagesRight

LEMMA RunningParts ==
    ASSUME NEW l \in Link, NEW r \in Role, Running(l)
    PROVE  /\ MessagesRight(l, chan)
           /\ EndCurrent(pc[l][r], work[l][r], TableAt(l, r), TableAt(l, Other(r)))
           /\ EndCurrent(pc[l][Other(r)], work[l][Other(r)], TableAt(l, Other(r)), TableAt(l, r))
           /\ Taken(pc[l][r], work[l][r], chan[l][r], pc[l][Other(r)], work[l][Other(r)],
                    chan[l][Other(r)], TableAt(l, r), TableAt(l, Other(r)))
           /\ Taken(pc[l][Other(r)], work[l][Other(r)], chan[l][Other(r)], pc[l][r], work[l][r],
                    chan[l][r], TableAt(l, Other(r)), TableAt(l, r))
           /\ (r = "responder" /\ pc[l][r] \in Offering) =>
                  Covered(TableAt(l, r), TableAt(l, Other(r)))
           /\ (r = "dialler" /\ pc[l][Other(r)] \in Offering) =>
                  Covered(TableAt(l, Other(r)), TableAt(l, r))
<1>1. Other(r) \in Role /\ Other(Other(r)) = r  BY Others
<1>2. MessagesRight(l, chan)  BY DEF Running, MessagesRight
<1>3. /\ EndCurrent(pc[l][r], work[l][r], TableAt(l, r), TableAt(l, Other(r)))
      /\ EndCurrent(pc[l][Other(r)], work[l][Other(r)], TableAt(l, Other(r)), TableAt(l, r))
  BY <1>1 DEF Running
<1>4. TakenBy(l, r) /\ TakenBy(l, Other(r))  BY <1>1 DEF Running
<1>5. /\ r = "responder" => Other(r) = "dialler"
      /\ r = "dialler" => Other(r) = "responder"
  BY DEF Other
<1> QED  BY <1>1, <1>2, <1>3, <1>4, <1>5 DEF Running, TakenBy

\* A step of an end that does not take, in which it stays responsible for all
\* that its peer has yet to be sent.
LEMMA OffererQuietly ==
    ASSUME TypeOK, Quietly, NEW l \in Link, NEW r \in Role, NEW at, NEW w,
           Goto(l, r, at, w), UNCHANGED <<table, up, quiet>>, up[l],
           \A k \in Link : k # l => chan'[k] = chan[k],
           at \notin Asking \cup {"blob"}, pc[l][r] # "idle",
           r = "responder" => (pc[l][r] \in Offering <=> at \in Offering) \/ at = "idle",
           Running(l) => /\ MessagesRight(l, chan')
                         /\ EndCurrent(at, w, TableAt(l, r), TableAt(l, Other(r))),
           (Running(l) /\ pc[l][Other(r)] \in Asking) =>
               \A h : Pending(h, pc[l][Other(r)], work[l][Other(r)], chan[l][Other(r)],
                              pc[l][r], work[l][r], chan[l][r]) =>
                      Pending(h, pc[l][Other(r)], work[l][Other(r)], chan'[l][Other(r)],
                              at, w, chan'[l][r])
    PROVE  Quietly'
<1> DEFINE o == Other(r)
<1>1. \A k \in Link, q \in Role : table'[DeviceOf(k, q)] = table[DeviceOf(k, q)]
  OBVIOUS
<1>2. /\ table'[DeviceOf(l, o)] = TableAt(l, o) /\ table'[DeviceOf(l, r)] = TableAt(l, r)
      /\ \A q \in Role : table'[DeviceOf(l, Other(q))] = TableAt(l, Other(q))
  BY DEF TableAt
<1>3. "idle" \notin Offering  BY DEF Offering
<1>4. ASSUME Running(l)
      PROVE  /\ \A q \in Role : MessagesCurrent(chan'[l][q], TableAt(l, Other(q)))
             /\ EndCurrent(at, w, TableAt(l, r), TableAt(l, o))
             /\ EndCurrent(pc[l][o], work[l][o], TableAt(l, o), TableAt(l, r))
             /\ Taken(at, w, chan'[l][r], pc[l][o], work[l][o], chan'[l][o],
                      TableAt(l, r), TableAt(l, o))
             /\ Taken(pc[l][o], work[l][o], chan'[l][o], at, w,
                      chan'[l][r], TableAt(l, o), TableAt(l, r))
             /\ (r = "responder" /\ at \in Offering) => Covered(TableAt(l, r), TableAt(l, o))
             /\ (r = "dialler" /\ pc[l][o] \in Offering) => Covered(TableAt(l, o), TableAt(l, r))
  <2>1. \A q \in Role : MessagesCurrent(chan'[l][q], TableAt(l, Other(q)))
    BY <1>4 DEF MessagesRight
  <2>2. EndCurrent(pc[l][o], work[l][o], TableAt(l, o), TableAt(l, r))  BY <1>4, RunningParts
  <2>3. Taken(at, w, chan'[l][r], pc[l][o], work[l][o], chan'[l][o], TableAt(l, r), TableAt(l, o))
    BY NotTaking
  <2>4. Taken(pc[l][o], work[l][o], chan[l][o], pc[l][r], work[l][r],
              chan[l][r], TableAt(l, o), TableAt(l, r))
    BY <1>4, RunningParts
  <2>5. Taken(pc[l][o], work[l][o], chan'[l][o], at, w, chan'[l][r], TableAt(l, o), TableAt(l, r))
    BY <1>4, <2>4, TakenStays
  <2>6. (r = "responder" /\ at \in Offering) => Covered(TableAt(l, r), TableAt(l, o))
    BY <1>3, <1>4, RunningParts
  <2>7. (r = "dialler" /\ pc[l][o] \in Offering) => Covered(TableAt(l, o), TableAt(l, r))
    BY <1>4, RunningParts
  <2> QED  BY <1>4, <2>1, <2>2, <2>3, <2>5, <2>6, <2>7
<1> QED  BY <1>1, <1>2, <1>4, StepQuietly

\* A step of an end that does not offer: its peer has taken nothing yet.
LEMMA TakerQuietly ==
    ASSUME TypeOK, Alternation, Quietly, NEW l \in Link, NEW r \in Role, NEW at, NEW w,
           Goto(l, r, at, w), UNCHANGED <<table, up, quiet>>, up[l],
           \A k \in Link : k # l => chan'[k] = chan[k],
           pc[l][r] \notin Offering, pc[l][r] # "idle",
           (Running(l) /\ quiet[l] = "running") =>
               /\ MessagesRight(l, chan')
               /\ EndCurrent(at, w, TableAt(l, r), TableAt(l, Other(r)))
               /\ Taken(at, w, chan'[l][r], pc[l][Other(r)], work[l][Other(r)],
                        chan'[l][Other(r)], TableAt(l, r), TableAt(l, Other(r)))
               /\ (r = "responder" /\ at \in Offering) =>
                      Covered(TableAt(l, r), TableAt(l, Other(r)))
    PROVE  Quietly'
<1> DEFINE o == Other(r)
<1>1. \A k \in Link, q \in Role : table'[DeviceOf(k, q)] = table[DeviceOf(k, q)]
  OBVIOUS
<1>2. /\ table'[DeviceOf(l, o)] = TableAt(l, o) /\ table'[DeviceOf(l, r)] = TableAt(l, r)
      /\ \A q \in Role : table'[DeviceOf(l, Other(q))] = TableAt(l, Other(q))
  BY DEF TableAt
<1>3. pc[l][o] \notin Asking \cup {"blob"}
  <2>1. o \in Role /\ Other(o) = r  BY Others
  <2> QED  BY <2>1, TakerOffered
<1>4. ASSUME Running(l), quiet[l] = "running"
      PROVE  /\ \A q \in Role : MessagesCurrent(chan'[l][q], TableAt(l, Other(q)))
             /\ EndCurrent(at, w, TableAt(l, r), TableAt(l, o))
             /\ EndCurrent(pc[l][o], work[l][o], TableAt(l, o), TableAt(l, r))
             /\ Taken(at, w, chan'[l][r], pc[l][o], work[l][o], chan'[l][o],
                      TableAt(l, r), TableAt(l, o))
             /\ Taken(pc[l][o], work[l][o], chan'[l][o], at, w,
                      chan'[l][r], TableAt(l, o), TableAt(l, r))
             /\ (r = "responder" /\ at \in Offering) => Covered(TableAt(l, r), TableAt(l, o))
             /\ (r = "dialler" /\ pc[l][o] \in Offering) => Covered(TableAt(l, o), TableAt(l, r))
  <2>1. \A q \in Role : MessagesCurrent(chan'[l][q], TableAt(l, Other(q)))
    BY <1>4 DEF MessagesRight
  <2>2. EndCurrent(pc[l][o], work[l][o], TableAt(l, o), TableAt(l, r))  BY <1>4, RunningParts
  <2>3. Taken(pc[l][o], work[l][o], chan'[l][o], at, w, chan'[l][r], TableAt(l, o), TableAt(l, r))
    BY <1>3, NotTaking
  <2>4. (r = "dialler" /\ pc[l][o] \in Offering) => Covered(TableAt(l, o), TableAt(l, r))
    BY <1>4, RunningParts
  <2> QED  BY <1>4, <2>1, <2>2, <2>3, <2>4
<1> QED  BY <1>1, <1>2, <1>4, StepQuietly

------------------------------------------------------------------------------
(* The steps that write no history. *)

LEMMA PlainCurrent ==
    ASSUME NEW at, at \notin {"pushing"} \cup Applying
    PROVE  \A w, t, u : EndCurrent(at, w, t, u)
BY DEF EndCurrent, Applying

\* The offering end has nothing of the kind left to do.
LEMMA PendingKept ==
    ASSUME NEW at, NEW w, NEW c, NEW pa, NEW wa, NEW ca, NEW c1, NEW pb, NEW wb, NEW cb,
           pa \notin {"pushing", "want"}, \A k \in DOMAIN c : k \in DOMAIN c1 /\ c1[k] = c[k]
    PROVE  \A h : Pending(h, at, w, c, pa, wa, ca) => Pending(h, at, w, c1, pb, wb, cb)
BY DEF Pending

LEMMA LongerKeeps ==
    ASSUME TypeOK, NEW l \in Link, NEW r \in Role, NEW m \in Message, Send(l, r, m)
    PROVE  \A k \in DOMAIN chan[l][Other(r)] :
               k \in DOMAIN chan'[l][Other(r)] /\ chan'[l][Other(r)][k] = chan[l][Other(r)][k]
<1> DEFINE s == chan[l][Other(r)]
           t == chan'[l][Other(r)]
<1>1. s \in Seq(Message) /\ t \in Seq(Message) /\ Longer(s, m, t)
  BY SendEffect, BothTypes
<1> HIDE DEF s, t
<1>2. DOMAIN s = 1..Len(s) /\ DOMAIN t = 1..(Len(s) + 1) /\ Len(s) \in Nat
  BY <1>1, EmptySeq DEF Longer
<1>3. \A k \in DOMAIN s : k \in DOMAIN t /\ t[k] = s[k]  BY <1>1, <1>2 DEF Longer
<1> QED  BY <1>3 DEF s, t

LEMMA RecvHelloQuietly ==
    ASSUME TypeOK, Alternation, Quietly, NEW l \in Link, NEW r \in Role, RecvHello(l, r)
    PROVE  Quietly'
<1> DEFINE at == IF r = "responder" THEN "summary" ELSE "offer"
           ms == IF r = "responder" THEN <<Hello>> ELSE <<>>
<1>1. /\ pc[l][r] = "hello" /\ up[l] /\ Inbox(l, r) # <<>> /\ Exchange(l, r, ms)
      /\ Goto(l, r, at, Idle) /\ UNCHANGED <<table, quiet, up>>
  BY DEF RecvHello, Receives, SessionOnly
<1>2. ms \in Seq(Message) /\ \A k \in DOMAIN ms : ms[k].type \notin {"Push", "Summary"}
  BY MessageTypes DEF Hello
<1>3. at \notin {"pushing", "blob"} \cup Asking /\ (r = "responder" => at \notin Offering)
  BY DEF Asking, Applying, Offering
<1>4. pc[l][r] \notin Offering  BY <1>1 DEF Offering
<1> HIDE DEF at, ms
<1>5. \A k \in Link : k # l => chan'[k] = chan[k]  BY <1>1, <1>2, TakeEffect
<1>6. Running(l) => MessagesRight(l, chan')  BY <1>1, <1>2, TakeCurrent, RunningParts
<1>7. at \notin {"pushing"} \cup Applying /\ at \notin Asking \cup {"blob"}  BY <1>3 DEF Asking
<1>8. EndCurrent(at, Idle, TableAt(l, r), TableAt(l, Other(r)))  BY <1>7, PlainCurrent
<1>9. Taken(at, Idle, chan'[l][r], pc[l][Other(r)], work[l][Other(r)],
            chan'[l][Other(r)], TableAt(l, r), TableAt(l, Other(r)))
  BY <1>7, NotTaking
<1> QED  BY <1>1, <1>3, <1>4, <1>5, <1>6, <1>8, <1>9, TakerQuietly

\* A summary lists the whole history of the end that sends it.
LEMMA OfferQuietly ==
    ASSUME TypeOK, Alternation, Quietly, NEW l \in Link, NEW r \in Role, Offer(l, r)
    PROVE  Quietly'
<1> DEFINE t == TableAt(l, r)
           o == Other(r)
           sum(s) == [k \in Pos |->
             IF k \in DOMAIN s THEN [hash |-> t[s[k]].hash, hlc |-> t[s[k]].hlc] ELSE None]
<1>1. PICK s \in InHlcOrder(t) : Send(l, r, Summary(sum(s)))  BY DEF Offer, TableAt
<1>2. /\ pc[l][r] = "offer" /\ up[l] /\ Goto(l, r, "want", Idle) /\ UNCHANGED <<table, quiet, up>>
  BY DEF Offer, SessionOnly
<1>3. t \in Table  BY EndTypes
<1>4. sum(s) \in List(Entry)
  <2>1. \A k \in DOMAIN s : t[s[k]] \in Row  BY <1>3 DEF InHlcOrder, Ids, Table
  <2> QED  BY <2>1 DEF List, Entry, Row
<1> DEFINE m == Summary(sum(s))
<1>5. m \in Message /\ m.type = "Summary" /\ m.entries = sum(s)
  BY <1>4, MessageTypes DEF Summary
<1>6. Whole(m, t)
  <2> SUFFICES ASSUME NEW i \in Ids(t)
               PROVE  \E k \in Items(sum(s)) : sum(s)[k].hash = t[i].hash /\ sum(s)[k].hlc = t[i].hlc
    BY <1>5 DEF Whole
  <2>1. PICK k \in DOMAIN s : s[k] = i  BY <1>3, OrderLists
  <2>2. k \in Pos  BY <1>3, OrderLists
  <2>3. sum(s)[k] = [hash |-> t[i].hash, hlc |-> t[i].hlc]  BY <2>1, <2>2
  <2>4. sum(s)[k] # None
    <3>1. t[i].hash \in Hash /\ t[i].hlc \in Hlc  BY <1>3, ByHashFacts
    <3>2. sum(s)[k] \in Entry  BY <2>3, <3>1 DEF Entry
    <3> QED  BY <3>2, BlankAssumption
  <2> QED  BY <2>2, <2>3, <2>4 DEF Items
<1>7. MessageCurrent(m, t)  BY <1>5, <1>6 DEF MessageCurrent
<1>8. Send(l, r, m)  BY <1>1
<1> HIDE DEF m
<1>9. \A k \in Link : k # l => chan'[k] = chan[k]  BY <1>5, <1>8, SendEffect
<1>10. Running(l) => MessagesRight(l, chan')  BY <1>5, <1>7, <1>8, SendCurrent, RunningParts
<1>11. "want" \notin {"pushing"} \cup Applying /\ "want" \notin Asking \cup {"blob"}
  BY DEF Asking, Applying
<1>12. EndCurrent("want", Idle, t, TableAt(l, o))  BY <1>11, PlainCurrent
<1>13. pc[l][o] \notin Asking
  <2> SUFFICES ASSUME pc[l][o] \in Asking PROVE FALSE  OBVIOUS
  <2>1. o \in Role /\ Other(o) = r  BY Others
  <2>2. pc[l][o] \in {"push", "insert", "pin", "tombstone"}  BY DEF Asking, Applying
  <2>3. Turn(r, "offer", pc[l][o], Left(l, r), Left(l, o), chan[l][r], chan[l][o],
             TableAt(l, r), TableAt(l, o))
    BY <1>2, <2>1, <2>2, TakerTurn
  <2>4. Said(pc[l][o]) = 0  BY <2>3 DEF Turn, Offers
  <2> QED  BY <2>2, <2>4, Stages
<1>14. {"offer", "want"} \subseteq Offering  BY DEF Offering
<1> QED  BY <1>2, <1>9, <1>10, <1>11, <1>12, <1>13, <1>14, OffererQuietly

LEMMA RecvAckQuietly ==
    ASSUME TypeOK, Alternation, Quietly, NEW l \in Link, NEW r \in Role, RecvAck(l, r)
    PROVE  Quietly'
<1> DEFINE at == IF r = "dialler" THEN "summary" ELSE "idle"
           o == Other(r)
<1>1. /\ pc[l][r] = "ack" /\ up[l] /\ Inbox(l, r) # <<>> /\ Exchange(l, r, <<>>)
      /\ Goto(l, r, at, Idle) /\ UNCHANGED <<table, quiet, up>>
  BY DEF RecvAck, Receives, SessionOnly
<1>2. <<>> \in Seq(Message) /\ \A k \in DOMAIN <<>> : <<>>[k].type \notin {"Push", "Summary"}
  OBVIOUS
<1>3. at \notin {"pushing"} \cup Applying /\ at \notin Asking \cup {"blob"}
  BY DEF Asking, Applying
<1>4. r = "responder" => at = "idle"  OBVIOUS
<1> HIDE DEF at
<1>5. \A k \in Link : k # l => chan'[k] = chan[k]  BY <1>1, <1>2, TakeEffect
<1>6. Running(l) => MessagesRight(l, chan')  BY <1>1, <1>2, TakeCurrent, RunningParts
<1>7. EndCurrent(at, Idle, TableAt(l, r), TableAt(l, o))  BY <1>3, PlainCurrent
<1>8. chan'[l][o] = chan[l][o]  BY <1>1, TakeOnly
<1>9. \A h : Pending(h, pc[l][o], work[l][o], chan[l][o], pc[l][r], work[l][r], chan[l][r]) =>
             Pending(h, pc[l][o], work[l][o], chan'[l][o], at, Idle, chan'[l][r])
  BY <1>1, <1>8, PendingKept
<1>10. pc[l][r] # "idle"  BY <1>1
<1> QED  BY <1>1, <1>3, <1>4, <1>5, <1>6, <1>7, <1>9, <1>10, OffererQuietly

LEMMA RecvBlobWantQuietly ==
    ASSUME TypeOK, Alternation, Quietly, NEW l \in Link, NEW r \in Role, RecvBlobWant(l, r)
    PROVE  Quietly'
<1> DEFINE asked == Head(Inbox(l, r)).hashes
           at == Until(asked, "blobs", "ack")
           w == [Idle EXCEPT !.todo = asked]
           o == Other(r)
<1>1. /\ pc[l][r] = "blobwant" /\ up[l] /\ Inbox(l, r) # <<>> /\ Exchange(l, r, <<>>)
      /\ Goto(l, r, at, w) /\ UNCHANGED <<table, quiet, up>>
  BY DEF RecvBlobWant, Receives, SessionOnly
<1>2. <<>> \in Seq(Message) /\ \A k \in DOMAIN <<>> : <<>>[k].type \notin {"Push", "Summary"}
  OBVIOUS
<1>3. at \in {"blobs", "ack"}  BY DEF Until
<1> HIDE DEF at, w
<1>4. at \notin {"pushing"} \cup Applying /\ at \notin Asking \cup {"blob"} /\ at \in Offering
      /\ pc[l][r] \in Offering
  BY <1>1, <1>3 DEF Asking, Applying, Offering
<1>5. \A k \in Link : k # l => chan'[k] = chan[k]  BY <1>1, <1>2, TakeEffect
<1>6. Running(l) => MessagesRight(l, chan')  BY <1>1, <1>2, TakeCurrent, RunningParts
<1>7. EndCurrent(at, w, TableAt(l, r), TableAt(l, o))  BY <1>4, PlainCurrent
<1>8. chan'[l][o] = chan[l][o]  BY <1>1, TakeOnly
<1>9. \A h : Pending(h, pc[l][o], work[l][o], chan[l][o], pc[l][r], work[l][r], chan[l][r]) =>
             Pending(h, pc[l][o], work[l][o], chan'[l][o], at, w, chan'[l][r])
  BY <1>1, <1>8, PendingKept
<1>10. pc[l][r] # "idle"  BY <1>1
<1> QED  BY <1>1, <1>4, <1>5, <1>6, <1>7, <1>9, <1>10, OffererQuietly

LEMMA SendBlobQuietly ==
    ASSUME TypeOK, Alternation, Quietly, NEW l \in Link, NEW r \in Role, SendBlob(l, r)
    PROVE  Quietly'
<1> DEFINE todo == work[l][r].todo
           digest == todo[First(todo)]
           m == Blob(IF digest \in blobs[DeviceOf(l, r)] THEN digest ELSE None)
           at == Until(Rest(todo), "blobs", "ack")
           w == [Idle EXCEPT !.todo = Rest(todo)]
           o == Other(r)
<1>1. /\ pc[l][r] = "blobs" /\ up[l] /\ Send(l, r, m)
      /\ Goto(l, r, at, w) /\ UNCHANGED <<table, quiet, up>>
  BY DEF SendBlob, SessionOnly
<1>2. m \in Message /\ m.type = "Blob"
  <2>1. blobs[DeviceOf(l, r)] \subseteq Hash  BY DeviceOfType DEF TypeOK
  <2> QED  BY <2>1, MessageTypes DEF Blob
<1>3. at \in {"blobs", "ack"}  BY DEF Until
<1> HIDE DEF at, w, m
<1>4. at \notin {"pushing"} \cup Applying /\ at \notin Asking \cup {"blob"} /\ at \in Offering
      /\ pc[l][r] \in Offering
  BY <1>1, <1>3 DEF Asking, Applying, Offering
<1>5. \A k \in Link : k # l => chan'[k] = chan[k]  BY <1>1, <1>2, SendEffect
<1>6. MessageCurrent(m, TableAt(l, r))  BY <1>2 DEF MessageCurrent
<1>7. Running(l) => MessagesRight(l, chan')  BY <1>1, <1>2, <1>6, SendCurrent, RunningParts
<1>8. EndCurrent(at, w, TableAt(l, r), TableAt(l, o))  BY <1>4, PlainCurrent
<1>9. \A h : Pending(h, pc[l][o], work[l][o], chan[l][o], pc[l][r], work[l][r], chan[l][r]) =>
             Pending(h, pc[l][o], work[l][o], chan'[l][o], at, w, chan'[l][r])
  <2>1. \A k \in DOMAIN chan[l][o] : k \in DOMAIN chan'[l][o] /\ chan'[l][o][k] = chan[l][o][k]
    BY <1>1, <1>2, LongerKeeps
  <2> QED  BY <1>1, <2>1, PendingKept
<1>10. pc[l][r] # "idle"  BY <1>1
<1> QED  BY <1>1, <1>4, <1>5, <1>7, <1>8, <1>9, <1>10, OffererQuietly

\* What was wanted is read from the history, where all of it is.
LEMMA RecvWantQuietly ==
    ASSUME TypeOK, Alternation, Quietly, NEW l \in Link, NEW r \in Role, RecvWant(l, r)
    PROVE  Quietly'
<1> DEFINE t == table[DeviceOf(l, r)]
           o == Other(r)
           hashes == Head(Inbox(l, r)).hashes
           have(found) == {k \in Items(hashes) : found[hashes[k]] # None}
           clips(found) == [k \in Pos |->
               IF k \in have(found)
               THEN [id |-> found[hashes[k]], clip |-> t[found[hashes[k]]]] ELSE None]
           at(found) == Until(clips(found), "pushing", "blobwant")
<1>1. PICK found \in Lookups(t) : Goto(l, r, at(found), [Idle EXCEPT !.todo = clips(found)])
  BY Zenon DEF RecvWant
<1>2. /\ pc[l][r] = "want" /\ up[l] /\ Inbox(l, r) # <<>> /\ UNCHANGED <<table, quiet, up>>
      /\ Head(Inbox(l, r)).type = "Want" /\ Exchange(l, r, <<>>)
  BY Zenon DEF RecvWant, Receives, SessionOnly
<1>3. chan[l][r] \in Seq(Message) /\ chan[l][r] # <<>> /\ Head(Inbox(l, r)) = chan[l][r][1]
  BY <1>2, EndTypes DEF Inbox
<1>4. hashes \in List(Hash)
  <2>1. Head(Inbox(l, r)) \in Message  BY <1>3 DEF Inbox
  <2> QED  BY <1>2, <2>1, MessageFields
<1>5. t \in Table  BY DeviceOfType DEF TypeOK
<1> DEFINE w == [Idle EXCEPT !.todo = clips(found)]
           c == clips(found)
<1>6. \A k \in Items(c) :
          k \in Items(hashes) /\ found[hashes[k]] # None
          /\ c[k] = [id |-> found[hashes[k]], clip |-> t[found[hashes[k]]]]
  BY DEF Items
<1>7. \A k \in Items(hashes) : found[hashes[k]] # None =>
          k \in Items(c) /\ c[k].clip = t[found[hashes[k]]]
  <2> HIDE DEF hashes
  <2> SUFFICES ASSUME NEW k \in Items(hashes), found[hashes[k]] # None
               PROVE  k \in Items(c) /\ c[k].clip = t[found[hashes[k]]]
    OBVIOUS
  <2> DEFINE i == found[hashes[k]]
  <2>1. k \in Pos /\ hashes[k] \in Hash  BY <1>4 DEF Items, List
  <2>2. i \in Id /\ t[i] \in Row  BY <1>5, <2>1, LookupType
  <2>3. c[k] = [id |-> i, clip |-> t[i]]  BY <2>1
  <2> HIDE DEF i, c
  <2>4. c[k] \in Pushed /\ c[k].clip = t[i]  BY <2>2, <2>3 DEF Pushed
  <2>5. c[k] # None  BY <2>4, BlankAssumption
  <2> QED  BY <2>1, <2>4, <2>5 DEF Items, i
<1>8. \A h \in Hash : found[h] # None => found[h] \in ByHash(t, h) /\ t[found[h]].hash = h
  <2> HIDE DEF t
  <2> SUFFICES ASSUME NEW h \in Hash, found[h] # None
               PROVE  found[h] \in ByHash(t, h) /\ t[found[h]].hash = h
    OBVIOUS
  <2>1. found[h] \in ByHash(t, h)  BY DEF Lookups
  <2>2. t[found[h]].hash = h  BY <1>5, LookupType
  <2> QED  BY <2>1, <2>2
<1>9. w.todo = c  BY DEF Idle
<1>10. \A k \in Items(c) : Current(c[k].clip, t)
  <2> HIDE DEF c, hashes, t
  <2> SUFFICES ASSUME NEW k \in Items(c) PROVE Current(c[k].clip, t)
    OBVIOUS
  <2>1. k \in Items(hashes) /\ found[hashes[k]] # None /\ hashes[k] \in Hash
    BY <1>4, <1>6 DEF Items, List
  <2>2. c[k].clip = t[found[hashes[k]]]  BY <1>7, <2>1
  <2> QED  BY <1>8, <2>1, <2>2 DEF Current
<1> HIDE DEF w, c, clips
<1>11. at(found) \in {"pushing", "blobwant"} /\ (at(found) = "blobwant" => c = EmptyList)
  BY DEF Until, c
<1>12. EndCurrent(at(found), w, TableAt(l, r), TableAt(l, o))
  BY <1>9, <1>10, <1>11 DEF EndCurrent, Applying, TableAt
<1>13. <<>> \in Seq(Message) /\ \A k \in DOMAIN <<>> : <<>>[k].type \notin {"Push", "Summary"}
  OBVIOUS
<1>14. \A k \in Link : k # l => chan'[k] = chan[k]  BY <1>2, <1>13, TakeEffect
<1>15. Running(l) => MessagesRight(l, chan')  BY <1>2, <1>13, TakeCurrent, RunningParts
<1>16. chan'[l][o] = chan[l][o]  BY <1>2, TakeOnly
<1>17. ASSUME pc[l][o] \in Asking, NEW h,
              Pending(h, pc[l][o], work[l][o], chan[l][o], pc[l][r], work[l][r], chan[l][r])
       PROVE  Pending(h, pc[l][o], work[l][o], chan'[l][o], at(found), w, chan'[l][r])
  <2>1. Turn(r, "want", pc[l][o], Left(l, r), Left(l, o), chan[l][r], chan[l][o],
             TableAt(l, r), TableAt(l, o))
    <3>1. o \in Role /\ Other(o) = r  BY Others
    <3>2. pc[l][o] \in {"push", "insert", "pin", "tombstone"}  BY <1>17 DEF Asking, Applying
    <3> QED  BY <1>2, <3>1, <3>2, TakerTurn
  <2>2. Said(pc[l][o]) = 1  BY <1>17, Stages DEF Asking, Applying
  <2>3. DOMAIN chan[l][r] = {1}
    <3>1. Len(chan[l][r]) = 1 - 0  BY <2>1, <2>2, Stages DEF Turn, Replies
    <3> QED  BY <1>3, <3>1
  <2>4. KnownHashes(chan[l][r][1], t)
    <3>1. Asks("want", pc[l][o], Left(l, o), chan[l][r], TableAt(l, r))  BY <2>1 DEF Turn
    <3> QED  BY <2>2, <3>1 DEF Asks, TableAt
  <2>5. CASE \E j \in Items(hashes) : hashes[j] = h
    <3>1. PICK j \in Items(hashes) : hashes[j] = h  BY <2>5
    <3>2. h \in Hash  BY <1>4, <3>1 DEF List, Items
    <3>3. h \in Hashes(t)  BY <1>3, <2>4, <3>1 DEF KnownHashes
    <3>4. ByHash(t, h) # {}  BY <1>5, <3>3, ByHashFacts
    <3>5. found[h] # None
      <4>1. found[h] \in ByHash(t, h)  BY <3>2, <3>4 DEF Lookups
      <4>2. ByHash(t, h) \subseteq Id /\ None \notin Id  BY <1>5, ByHashFacts
      <4> QED  BY <4>1, <4>2
    <3>6. j \in Items(c) /\ c[j].clip = t[found[h]] /\ t[found[h]].hash = h
      BY <1>7, <1>8, <3>1, <3>2, <3>5
    <3>7. c # EmptyList  BY <3>6 DEF Items, EmptyList
    <3>8. at(found) = "pushing"  BY <1>11, <3>7
    <3> QED  BY <1>9, <3>6, <3>8, Zenon DEF Pending
  <2>6. CASE ~\E j \in Items(hashes) : hashes[j] = h
    <3>1. ~\E k \in DOMAIN chan[l][r] : chan[l][r][k].type = "Want"
              /\ \E j \in Items(chan[l][r][k].hashes) : chan[l][r][k].hashes[j] = h
      BY <1>3, <2>3, <2>6
    <3> QED  BY <1>2, <1>16, <1>17, <3>1, Zenon DEF Pending
  <2> QED  BY <2>5, <2>6
<1>18. {"want", "pushing", "blobwant"} \subseteq Offering
       /\ at(found) \notin Asking \cup {"blob"} /\ pc[l][r] # "idle"
  BY <1>2, <1>11 DEF Offering, Asking, Applying
<1>19. Goto(l, r, at(found), w)  BY <1>1 DEF w
<1>20. at(found) \in Offering /\ pc[l][r] \in Offering  BY <1>2, <1>11, <1>18
<1> HIDE DEF at
<1> QED  BY <1>2, <1>12, <1>14, <1>15, <1>17, <1>18, <1>19, <1>20, OffererQuietly

LEMMA SendPushQuietly ==
    ASSUME TypeOK, Alternation, Quietly, NEW l \in Link, NEW r \in Role, SendPush(l, r)
    PROVE  Quietly'
<1> DEFINE todo == work[l][r].todo
           o == Other(r)
           x == First(todo)
           m == Push(todo[x])
           w == [Idle EXCEPT !.todo = Rest(todo)]
           at == Until(Rest(todo), "pushing", "blobwant")
<1>1. /\ pc[l][r] = "pushing" /\ up[l] /\ Send(l, r, m) /\ Goto(l, r, at, w)
      /\ UNCHANGED <<table, quiet, up>>
  BY DEF SendPush, SessionOnly
<1>2. todo \in List(Pushed) /\ todo # EmptyList  BY <1>1, EndTypes DEF TypeOK, Fits
<1>3. /\ x \in Items(todo)
      /\ \A k : k \in Items(Rest(todo)) <=> (k \in Items(todo) /\ k # x)
      /\ \A k \in Pos : k # x => Rest(todo)[k] = todo[k]
  BY <1>2, RestItems
<1>4. Items(todo) \subseteq Pos /\ \A k \in Items(todo) : todo[k] \in Pushed
  BY <1>2 DEF Items, List
<1>5. m \in Message /\ m.type = "Push" /\ m.pushed = todo[x]
  BY <1>3, <1>4, MessageTypes DEF Push
<1>6. w.todo = Rest(todo)  BY DEF Idle
<1>7. at \in {"pushing", "blobwant"} /\ (at = "blobwant" => Rest(todo) = EmptyList)  BY DEF Until
<1> HIDE DEF w, at, m, x, todo
<1>8. Running(l) => \A k \in Items(todo) : Current(todo[k].clip, TableAt(l, r))
  BY <1>1, RunningParts DEF EndCurrent, todo
<1>9. Running(l) => MessagesRight(l, chan')
  <2> SUFFICES ASSUME Running(l) PROVE MessagesRight(l, chan')
    OBVIOUS
  <2>1. MessageCurrent(m, TableAt(l, r))  BY <1>3, <1>5, <1>8 DEF MessageCurrent
  <2> QED  BY <1>1, <1>5, <2>1, SendCurrent, RunningParts
<1>10. Running(l) => EndCurrent(at, w, TableAt(l, r), TableAt(l, o))
  BY <1>3, <1>4, <1>6, <1>7, <1>8 DEF EndCurrent, Applying
<1>11. \A k \in Link : k # l => chan'[k] = chan[k]  BY <1>1, <1>5, SendEffect
<1>12. ASSUME NEW h,
              Pending(h, pc[l][o], work[l][o], chan[l][o], pc[l][r], work[l][r], chan[l][r])
       PROVE  Pending(h, pc[l][o], work[l][o], chan'[l][o], at, w, chan'[l][r])
  <2>1. \A k \in DOMAIN chan[l][o] : k \in DOMAIN chan'[l][o] /\ chan'[l][o][k] = chan[l][o][k]
    BY <1>1, <1>5, LongerKeeps
  <2>2. \E k \in DOMAIN chan'[l][o] : chan'[l][o][k] = m
    <3> DEFINE s == chan[l][o]
               u == chan'[l][o]
    <3>1. s \in Seq(Message) /\ u \in Seq(Message) /\ Longer(s, m, u)
      BY <1>1, <1>5, SendEffect, BothTypes
    <3> HIDE DEF s, u
    <3>2. DOMAIN u = 1..(Len(s) + 1) /\ Len(s) \in Nat /\ u[Len(s) + 1] = m
      BY <3>1, EmptySeq DEF Longer
    <3>3. Len(s) + 1 \in DOMAIN u  BY <3>2
    <3> QED  BY <3>2, <3>3 DEF u
  <2>3. CASE \E k \in Items(todo) : todo[k].clip.hash = h
    <3>1. PICK k \in Items(todo) : todo[k].clip.hash = h  BY <2>3
    <3>2. CASE k = x
      <4>1. m.pushed.clip.hash = h  BY <1>5, <3>1, <3>2
      <4> QED  BY <1>5, <2>2, <4>1 DEF Pending
    <3>3. CASE k # x
      <4>1. k \in Items(w.todo) /\ w.todo[k].clip.hash = h  BY <1>3, <1>4, <1>6, <3>1, <3>3
      <4>2. at = "pushing"
        <5>1. Rest(todo) # EmptyList  BY <1>6, <4>1 DEF Items, EmptyList
        <5> QED  BY <1>7, <5>1
      <4> QED  BY <4>1, <4>2 DEF Pending
    <3> QED  BY <3>2, <3>3
  <2>4. CASE ~\E k \in Items(todo) : todo[k].clip.hash = h
    BY <1>1, <1>12, <2>1, <2>4, Zenon DEF Pending, todo
  <2> QED  BY <2>3, <2>4
<1>13. at \in Offering /\ pc[l][r] \in Offering /\ at \notin Asking \cup {"blob"} /\ pc[l][r] # "idle"
  BY <1>1, <1>7 DEF Offering, Asking, Applying
<1> QED  BY <1>1, <1>9, <1>10, <1>11, <1>12, <1>13, OffererQuietly

\* The end that begins to take wants whatever it has not, or has older.
LEMMA RecvSummaryQuietly ==
    ASSUME TypeOK, Alternation, Quietly, NEW l \in Link, NEW r \in Role, RecvSummary(l, r)
    PROVE  Quietly'
<1> DEFINE t == table[DeviceOf(l, r)]
           o == Other(r)
           u == TableAt(l, o)
           entries == Head(Inbox(l, r)).entries
           wanted(found) == [k \in Pos |->
               IF k \in Items(entries) /\ Wanted(t, found, entries[k]) THEN entries[k].hash ELSE None]
<1>1. PICK found \in Lookups(t) :
          /\ Exchange(l, r, <<Want(wanted(found))>>)
          /\ Goto(l, r, "push", [Idle EXCEPT !.todo = wanted(found)])
  BY DEF RecvSummary
<1>2. /\ pc[l][r] = "summary" /\ up[l] /\ Inbox(l, r) # <<>> /\ UNCHANGED <<table, quiet, up>>
      /\ Head(Inbox(l, r)).type = "Summary"
  BY DEF RecvSummary, Receives, SessionOnly
<1>3. /\ chan[l][r] \in Seq(Message) /\ chan[l][r] # <<>> /\ Head(Inbox(l, r)) = chan[l][r][1]
      /\ 1 \in DOMAIN chan[l][r]
  BY <1>2, EndTypes DEF Inbox
<1>4. entries \in List(Entry)
  <2>1. Head(Inbox(l, r)) \in Message  BY <1>3 DEF Inbox
  <2> QED  BY <1>2, <2>1, MessageFields
<1> DEFINE f == wanted(found)
           m == Want(f)
           w == [Idle EXCEPT !.todo = f]
<1>5. f \in List(Hash) /\ \A k \in Items(entries) : Wanted(t, found, entries[k]) =>
                              k \in Items(f) /\ f[k] = entries[k].hash
  <2> HIDE DEF entries
  <2>1. \A k \in Items(entries) : k \in Pos /\ entries[k].hash \in Hash
    BY <1>4 DEF List, Items, Entry
  <2> QED  BY <2>1 DEF List, Items
<1>6. m \in Message /\ m.type = "Want" /\ m.hashes = f  BY <1>5, MessageTypes DEF Want
<1>7. Exchange(l, r, <<m>>) /\ Goto(l, r, "push", w)  BY <1>1
<1> HIDE DEF m, w, f, wanted, u, t, entries
<1>8. <<m>> \in Seq(Message) /\ \A k \in DOMAIN <<m>> : <<m>>[k].type \notin {"Push", "Summary"}
  BY <1>6
<1>9. \A k \in Link : k # l => chan'[k] = chan[k]  BY <1>2, <1>7, <1>8, TakeEffect
<1>10. Running(l) => MessagesRight(l, chan')  BY <1>2, <1>7, <1>8, TakeCurrent, RunningParts
<1>11. EndCurrent("push", w, TableAt(l, r), TableAt(l, o))
  <2>1. "push" \notin {"pushing"} \cup Applying  BY DEF Applying
  <2> QED  BY <2>1, PlainCurrent
<1>12. pc[l][o] = "want"
  <2>1. TurnOf(l, r) \/ TurnOf(l, o)  BY <1>2, <1>3, SomeTurn
  <2>2. ~TurnOf(l, r)  BY <1>2, TurnOfIs DEF Turn, Offering
  <2>3. Turn(o, pc[l][o], "summary", Left(l, o), Left(l, r), chan[l][o], chan[l][r],
             TableAt(l, o), TableAt(l, r))
    BY <1>2, <2>1, <2>2, TurnOfIs
  <2>4. Got(pc[l][o]) = 0 /\ pc[l][o] \in Offering
    <3>1. Got(pc[l][o]) <= Said("summary")  BY <2>3, TurnFacts, BothTypes
    <3>2. Got(pc[l][o]) = 0  BY <3>1, Stages
    <3> QED  BY <2>3, <3>2 DEF Turn
  <2>5. pc[l][o] # "offer"  BY <1>3, <2>3 DEF Turn, Offers
  <2> QED  BY <2>4, <2>5, Stages
<1>13. \E k \in DOMAIN chan'[l][o] : chan'[l][o][k] = m
  <2> DEFINE s == chan[l][o]
             v == chan'[l][o]
  <2>1. s \in Seq(Message) /\ v \in Seq(Message) /\ Longer(s, m, v)
    BY <1>2, <1>6, <1>7, TakeAndSend, BothTypes
  <2> HIDE DEF s, v
  <2>2. DOMAIN v = 1..(Len(s) + 1) /\ Len(s) \in Nat /\ v[Len(s) + 1] = m
    BY <2>1, EmptySeq DEF Longer
  <2>3. Len(s) + 1 \in DOMAIN v  BY <2>2
  <2> QED  BY <2>2, <2>3 DEF v
<1>14. t \in Table /\ u \in Table /\ t = TableAt(l, r)
  BY DeviceOfType, EndTypes, Others DEF t, u, TableAt
<1>15. ASSUME Running(l)
       PROVE  Taken("push", w, chan'[l][r], pc[l][o], work[l][o], chan'[l][o], t, u)
  <2>1. Whole(chan[l][r][1], u)
    <3>1. MessagesCurrent(chan[l][r], u)  BY <1>15, RunningParts DEF MessagesRight, u
    <3> QED  BY <1>2, <1>3, <3>1 DEF MessagesCurrent, MessageCurrent
  <2> SUFFICES ASSUME NEW h \in Hashes(u)
               PROVE  \/ Latest(t, u, h)
                      \/ Pending(h, "push", w, chan'[l][r], pc[l][o], work[l][o], chan'[l][o])
    BY DEF Taken
  <2>2. CASE \E k \in Items(entries) : entries[k].hash = h /\ Wanted(t, found, entries[k])
    <3>1. \E j \in Items(f) : f[j] = h  BY <1>5, <2>2
    <3> QED  BY <1>6, <1>12, <1>13, <3>1, Zenon DEF Pending
  <2>3. CASE \A k \in Items(entries) : entries[k].hash = h => ~Wanted(t, found, entries[k])
    <3>1. \A j \in ByHash(u, h) : \E k \in Items(entries) :
              entries[k].hash = h /\ entries[k].hlc = u[j].hlc
      BY <1>3, <1>14, <2>1, ByHashFacts DEF Whole, entries
    <3>2. \A j \in ByHash(u, h) : found[h] # None /\ ~Newer(u[j].hlc, t[found[h]].hlc)
      BY <2>3, <3>1 DEF Wanted
    <3>3. ByHash(u, h) # {} /\ h \in Hash
      <4>1. ByHash(u, h) # {}  BY <1>14, ByHashFacts
      <4> QED  BY <1>14, <4>1, ByHashFacts
    <3>4. found[h] \in ByHash(t, h)  BY <3>2, <3>3 DEF Lookups
    <3>5. h \in Hashes(t)  BY <1>14, <3>4, ByHashFacts
    <3> QED  BY <3>2, <3>4, <3>5 DEF Latest, Sole
  <2> QED  BY <2>2, <2>3
<1>16. pc[l][r] \notin Offering /\ pc[l][r] # "idle" /\ "push" \notin Offering
  BY <1>2 DEF Offering
<1> QED  BY <1>2, <1>7, <1>9, <1>10, <1>11, <1>14, <1>15, <1>16, TakerQuietly DEF u

\* A clip that comes in is still to be written, or already here and no older.
LEMMA RecvPushQuietly ==
    ASSUME TypeOK, Alternation, Quietly, NEW l \in Link, NEW r \in Role, RecvPush(l, r)
    PROVE  Quietly'
<1> DEFINE o == Other(r)
           t == table[DeviceOf(l, r)]
           u == TableAt(l, o)
           v == work[l][r]
           p == Head(Inbox(l, r)).pushed
           action(i) == Merge(IF i = None THEN None ELSE t[i], p.clip)
<1>1. PICK found \in Lookups(t) :
          LET i == found[p.clip.hash]
          IN  CASE action(i) = "Insert" -> Goto(l, r, "insert", [v EXCEPT !.pushed = p])
                [] action(i) = "UpdateMetadata" ->
                       Goto(l, r, "pin", [v EXCEPT !.pushed = p, !.target = i])
                [] action(i) = "Ignore" -> Goto(l, r, "push", [v EXCEPT !.todo = Rest(@)])
  BY Zenon DEF RecvPush
<1>2. /\ pc[l][r] = "push" /\ up[l] /\ Inbox(l, r) # <<>> /\ UNCHANGED <<table, quiet, up>>
      /\ Head(Inbox(l, r)).type = "Push" /\ Exchange(l, r, <<>>)
  BY Zenon DEF RecvPush, Receives, SessionOnly
<1>3. /\ chan[l][r] \in Seq(Message) /\ chan[l][r] # <<>> /\ Head(Inbox(l, r)) = chan[l][r][1]
      /\ 1 \in DOMAIN chan[l][r]
  BY <1>2, EndTypes DEF Inbox
<1>4. v \in Work /\ p \in Pushed /\ p.clip \in Row /\ p.clip.hash \in Hash
  <2>1. Head(Inbox(l, r)) \in Message  BY <1>3 DEF Inbox
  <2>2. p \in Pushed  BY <1>2, <2>1, MessageFields
  <2> QED  BY <2>2 DEF TypeOK, Pushed, Row
<1> DEFINE h == p.clip.hash
           i == found[h]
<1>5. t \in Table /\ u \in Table /\ t = TableAt(l, r)
  BY DeviceOfType, EndTypes, Others DEF TableAt
<1>6. i # None => i \in ByHash(t, h) /\ t[i] \in Row
  BY <1>4, <1>5, LookupType DEF Lookups
<1>7. i = None => ByHash(t, h) = {}
  <2>1. ByHash(t, h) \subseteq Id /\ None \notin Id  BY <1>5, ByHashFacts
  <2> QED  BY <1>4, <2>1 DEF Lookups
<1>8. <<>> \in Seq(Message) /\ \A k \in DOMAIN <<>> : <<>>[k].type \notin {"Push", "Summary"}
  OBVIOUS
<1>9. \A k \in Link : k # l => chan'[k] = chan[k]  BY <1>2, <1>8, TakeEffect
<1>10. Running(l) => MessagesRight(l, chan')  BY <1>2, <1>8, TakeCurrent, RunningParts
<1>11. chan'[l][o] = chan[l][o]  BY <1>2, TakeOnly
<1>12. Running(l) => Current(p.clip, u)
  <2> SUFFICES ASSUME Running(l) PROVE Current(p.clip, u)  OBVIOUS
  <2>1. MessagesCurrent(chan[l][r], u)  BY RunningParts DEF MessagesRight
  <2> QED  BY <1>2, <1>3, <2>1 DEF MessagesCurrent, MessageCurrent
\* What was to come is still to come, but for the content of this clip.
<1>13. ASSUME NEW g, g # h, NEW at, NEW w,
              Pending(g, "push", v, chan[l][r], pc[l][o], work[l][o], chan[l][o])
       PROVE  Pending(g, at, w, chan'[l][r], pc[l][o], work[l][o], chan'[l][o])
  <2> DEFINE s == chan[l][r]
             q == chan'[l][r]
  <2>1. \A k \in DOMAIN s : k # 1 => (k - 1 \in DOMAIN q /\ q[k - 1] = s[k])
    <3>1. Shorter(s, q) /\ q \in Seq(Message) /\ s \in Seq(Message)
      BY <1>2, <1>3, <1>8, TakeEffect
    <3> HIDE DEF s, q
    <3>2. DOMAIN s = 1..Len(s) /\ DOMAIN q = 1..Len(q) /\ Len(s) \in Nat /\ Len(q) = Len(s) - 1
          /\ \A k \in 1..Len(q) : q[k] = s[k + 1]
      BY <3>1, EmptySeq DEF Shorter
    <3> SUFFICES ASSUME NEW k \in DOMAIN s, k # 1 PROVE k - 1 \in DOMAIN q /\ q[k - 1] = s[k]
      OBVIOUS
    <3>3. k - 1 \in 1..Len(q) /\ (k - 1) + 1 = k  BY <3>2
    <3> QED  BY <3>2, <3>3
  <2>2. s[1].pushed.clip.hash = h  BY <1>3
  <2>3. "push" \notin Applying  BY DEF Applying
  <2> HIDE DEF s, q, h
  <2>4. ASSUME NEW k \in DOMAIN s, s[k].type = "Push", s[k].pushed.clip.hash = g
        PROVE  \E j \in DOMAIN q : q[j].type = "Push" /\ q[j].pushed.clip.hash = g
    BY <1>13, <2>1, <2>2, <2>4
  <2> QED  BY <1>11, <1>13, <2>3, <2>4, Zenon DEF Pending, s, q
<1>14. Running(l) => \A g \in Hashes(u) :
           Latest(t, u, g) \/ Pending(g, "push", v, chan[l][r], pc[l][o], work[l][o], chan[l][o])
  <2>1. "push" \in Asking  BY DEF Asking
  <2> QED  BY <1>2, <1>5, <2>1, RunningParts DEF Taken
<1> HIDE DEF i, p, v, t, u, h
<1>15. \E at, w :
          /\ Goto(l, r, at, w) /\ at \in Asking
          /\ Running(l) => EndCurrent(at, w, t, u)
          /\ Running(l) =>
                 Latest(t, u, h) \/ Pending(h, at, w, chan'[l][r], pc[l][o], work[l][o], chan'[l][o])
  <2>1. CASE action(i) = "Insert"
    <3> DEFINE w == [v EXCEPT !.pushed = p]
    <3>1. Goto(l, r, "insert", w)  BY <1>1, <2>1 DEF i, h
    <3>2. w.pushed = p  BY <1>4 DEF Work
    <3> HIDE DEF w
    <3>3. Running(l) => EndCurrent("insert", w, t, u)  BY <1>12, <3>2 DEF EndCurrent, Applying
    <3>4. Pending(h, "insert", w, chan'[l][r], pc[l][o], work[l][o], chan'[l][o])
      BY <3>2 DEF Pending, Applying, h
    <3>5. "insert" \in Asking  BY DEF Asking, Applying
    <3> QED  BY <3>1, <3>3, <3>4, <3>5
  <2>2. CASE action(i) = "UpdateMetadata"
    <3> DEFINE w == [v EXCEPT !.pushed = p, !.target = i]
    <3>1. Goto(l, r, "pin", w)  BY <1>1, <2>2 DEF i, h
    <3>2. w.pushed = p /\ w.target = i  BY <1>4 DEF Work
    <3> HIDE DEF w
    <3>3. i # None  BY <2>2 DEF Merge
    <3>4. i \in ByHash(t, w.pushed.clip.hash)  BY <1>6, <3>2, <3>3 DEF h
    <3>5. Running(l) => EndCurrent("pin", w, t, u)
      BY <1>12, <3>2, <3>4 DEF EndCurrent, Applying
    <3>6. Pending(h, "pin", w, chan'[l][r], pc[l][o], work[l][o], chan'[l][o])
      BY <3>2 DEF Pending, Applying, h
    <3>7. "pin" \in Asking  BY DEF Asking, Applying
    <3> QED  BY <3>1, <3>5, <3>6, <3>7
  <2>3. CASE action(i) = "Ignore"
    <3> DEFINE w == [v EXCEPT !.todo = Rest(@)]
    <3>1. Goto(l, r, "push", w)  BY <1>1, <2>3 DEF i, h
    <3> HIDE DEF w
    <3>2. "push" \notin {"pushing"} \cup Applying /\ "push" \in Asking  BY DEF Asking, Applying
    <3>3. EndCurrent("push", w, t, u)  BY <3>2, PlainCurrent
    <3>4. i # None /\ ~Newer(p.clip.hlc, t[i].hlc)
      <4>1. i # None  BY <2>3 DEF Merge
      <4>2. t[i] # None  BY <1>6, <4>1
      <4> QED  BY <2>3, <4>1, <4>2 DEF Merge
    <3>5. ASSUME Running(l) PROVE Latest(t, u, h)
      <4>1. i \in ByHash(t, h) /\ h \in Hashes(t)  BY <1>5, <1>6, <3>4, ByHashFacts
      <4>2. PICK j \in ByHash(u, h) : u[j].hlc = p.clip.hlc  BY <1>12, <3>5 DEF Current, h
      <4> QED  BY <3>4, <4>1, <4>2 DEF Latest, Sole
    <3> QED  BY <3>1, <3>2, <3>3, <3>5
  <2> QED  BY <2>1, <2>2, <2>3 DEF Merge
<1>16. PICK at, w :
          /\ Goto(l, r, at, w) /\ at \in Asking
          /\ Running(l) => EndCurrent(at, w, t, u)
          /\ Running(l) =>
                 Latest(t, u, h) \/ Pending(h, at, w, chan'[l][r], pc[l][o], work[l][o], chan'[l][o])
  BY <1>15
<1>17. at # "blob" /\ at \notin Offering  BY <1>16 DEF Asking, Applying, Offering
<1>18. Running(l) => Taken(at, w, chan'[l][r], pc[l][o], work[l][o], chan'[l][o], t, u)
  <2> SUFFICES ASSUME Running(l), NEW g \in Hashes(u)
               PROVE  \/ Latest(t, u, g)
                      \/ Pending(g, at, w, chan'[l][r], pc[l][o], work[l][o], chan'[l][o])
    BY <1>17 DEF Taken
  <2>1. CASE g = h  BY <1>16, <2>1
  <2>2. CASE g # h  BY <1>13, <1>14, <2>2
  <2> QED  BY <2>1, <2>2
<1>19. pc[l][r] \notin Offering /\ pc[l][r] # "idle"  BY <1>2 DEF Offering
<1> QED  BY <1>2, <1>5, <1>9, <1>10, <1>16, <1>17, <1>18, <1>19, TakerQuietly DEF u

\* Every clip is in: none is pending.
LEMMA WantBlobsQuietly ==
    ASSUME TypeOK, Alternation, Quietly, NEW l \in Link, NEW r \in Role, WantBlobs(l, r)
    PROVE  Quietly'
<1> DEFINE o == Other(r)
           v == work[l][r]
           needed == {k \in Items(v.missing) :
                      /\ v.missing[k] \notin blobs[DeviceOf(l, r)]
                      /\ \A j \in Items(v.missing) : v.missing[j] = v.missing[k] => k <= j}
           asked == Filter(v.missing, needed)
           m == Want(asked)
           w == [Idle EXCEPT !.todo = asked]
<1>1. /\ pc[l][r] = "push" /\ v.todo = EmptyList /\ up[l] /\ Send(l, r, m) /\ Goto(l, r, "blob", w)
      /\ UNCHANGED <<table, quiet, up>>
  BY DEF WantBlobs, SessionOnly
<1>2. m \in Message /\ m.type = "Want"
  <2>1. v.missing \in List(Hash)  BY DEF TypeOK, Work
  <2>2. asked \in List(Hash)  BY <2>1 DEF Filter, List
  <2> QED  BY <2>2, MessageTypes DEF Want
<1> HIDE DEF m, w
<1>3. \A k \in Link : k # l => chan'[k] = chan[k]  BY <1>1, <1>2, SendEffect
<1>4. MessageCurrent(m, TableAt(l, r))  BY <1>2 DEF MessageCurrent
<1>5. Running(l) => MessagesRight(l, chan')  BY <1>1, <1>2, <1>4, SendCurrent, RunningParts
<1>6. "blob" \notin {"pushing"} \cup Applying /\ "push" \in Asking /\ "push" \notin Applying
      /\ "blob" \notin Offering /\ "push" \notin Offering
  BY DEF Asking, Applying, Offering
<1>7. EndCurrent("blob", w, TableAt(l, r), TableAt(l, o))  BY <1>6, PlainCurrent
<1>8. Turn(o, pc[l][o], "push", Left(l, o), Left(l, r), chan[l][o], chan[l][r],
           TableAt(l, o), TableAt(l, r))
  BY <1>1, TakerTurn
<1>9. /\ chan[l][r] \in Seq(Message) /\ chan[l][o] \in Seq(Message)
      /\ Left(l, o) \in Nat /\ Left(l, r) = 0
  BY <1>1, BothTypes, EndTypes
<1>10. pc[l][o] \in Offering /\ Said("push") = 1 /\ Got(pc[l][o]) <= 1
  <2>1. Got(pc[l][o]) <= Said("push")  BY <1>8, <1>9, TurnFacts
  <2>2. pc[l][o] \in Offering  BY <1>8 DEF Turn
  <2> QED  BY <2>1, <2>2, Stages
<1>11. chan[l][r] = <<>> /\ pc[l][o] # "pushing"
  <2>1. CASE Got(pc[l][o]) = 1
    <3>1. /\ 0 = Len(chan[l][r]) + Left(l, o) + 0
          /\ pc[l][o] = "pushing" <=> Left(l, o) > 0
      BY <1>8, <1>9, <1>10, <2>1 DEF Turn, Pushes
    <3>2. Len(chan[l][r]) \in Nat  BY <1>9
    <3>3. Len(chan[l][r]) = 0 /\ Left(l, o) = 0  BY <1>9, <3>1, <3>2
    <3>4. chan[l][r] = <<>>  BY <1>9, <3>3, EmptySeq
    <3> QED  BY <3>1, <3>3, <3>4
  <2>2. CASE Got(pc[l][o]) = 0
    <3>1. pc[l][o] \in {"offer", "want"}  BY <1>10, <2>2, Stages
    <3>2. chan[l][r] = <<>>  BY <1>8, <1>10, <3>1 DEF Turn, Offers
    <3> QED  BY <3>1, <3>2
  <2> QED  BY <1>10, <2>1, <2>2, Stages
<1>12. \A h : ~Pending(h, "push", v, chan[l][r], pc[l][o], work[l][o], chan[l][o])
  <2>1. ASSUME pc[l][o] = "want"
        PROVE  \A k \in DOMAIN chan[l][o] : Items(chan[l][o][k].hashes) = {}
    <3>1. Len(chan[l][o]) = 1 - 0  BY <1>8, <1>10, <2>1, Stages DEF Turn, Replies
    <3>2. 0 = Count(chan[l][o][1].hashes)  BY <1>8, <1>9, <1>10, <2>1 DEF Turn, Asks
    <3>3. Items(chan[l][o][1].hashes) = {}  BY <3>2, CountType
    <3>4. DOMAIN chan[l][o] = {1}  BY <1>9, <3>1
    <3> QED  BY <3>3, <3>4
  <2>2. DOMAIN chan[l][r] = {}  BY <1>11
  <2> QED  BY <1>6, <1>11, <2>1, <2>2 DEF Pending
<1>13. Running(l) => Taken("blob", w, chan'[l][r], pc[l][o], work[l][o], chan'[l][o],
                           TableAt(l, r), TableAt(l, o))
  <2> SUFFICES ASSUME Running(l), NEW h \in Hashes(TableAt(l, o))
               PROVE  Latest(TableAt(l, r), TableAt(l, o), h)
    BY DEF Taken
  <2>1. Taken("push", v, chan[l][r], pc[l][o], work[l][o], chan[l][o],
              TableAt(l, r), TableAt(l, o))
    BY <1>1, RunningParts
  <2> QED  BY <1>6, <1>12, <2>1 DEF Taken
<1> QED  BY <1>1, <1>3, <1>5, <1>6, <1>7, <1>13, TakerQuietly

LEMMA RecvBlobQuietly ==
    ASSUME TypeOK, Alternation, Quietly, NEW l \in Link, NEW r \in Role, RecvBlob(l, r)
    PROVE  Quietly'
<1> DEFINE w == [Idle EXCEPT !.todo = Rest(work[l][r].todo)]
           o == Other(r)
<1>1. /\ pc[l][r] = "blob" /\ up[l] /\ Inbox(l, r) # <<>> /\ Exchange(l, r, <<>>)
      /\ Goto(l, r, "blob", w) /\ UNCHANGED <<table, quiet, up>>
  BY DEF RecvBlob, Receives
<1>2. <<>> \in Seq(Message) /\ \A k \in DOMAIN <<>> : <<>>[k].type \notin {"Push", "Summary"}
  OBVIOUS
<1> HIDE DEF w
<1>3. \A k \in Link : k # l => chan'[k] = chan[k]  BY <1>1, <1>2, TakeEffect
<1>4. Running(l) => MessagesRight(l, chan')  BY <1>1, <1>2, TakeCurrent, RunningParts
<1>5. "blob" \notin {"pushing"} \cup Applying /\ "blob" \notin Offering
  BY DEF Applying, Offering
<1>6. EndCurrent("blob", w, TableAt(l, r), TableAt(l, o))  BY <1>5, PlainCurrent
<1>7. Running(l) => Taken("blob", w, chan'[l][r], pc[l][o], work[l][o], chan'[l][o],
                          TableAt(l, r), TableAt(l, o))
  <2> SUFFICES ASSUME Running(l), NEW h \in Hashes(TableAt(l, o))
               PROVE  Latest(TableAt(l, r), TableAt(l, o), h)
    BY DEF Taken
  <2>1. Taken("blob", work[l][r], chan[l][r], pc[l][o], work[l][o], chan[l][o],
              TableAt(l, r), TableAt(l, o))
    BY <1>1, RunningParts
  <2> QED  BY <2>1 DEF Taken
<1> QED  BY <1>1, <1>3, <1>4, <1>5, <1>6, <1>7, TakerQuietly

\* An end that has taken covers its peer's history: the responder, who offers
\* next, and the dialler, whose session is then over with both covered.
LEMMA AcknowledgeQuietly ==
    ASSUME TypeOK, Alternation, Quietly, NEW l \in Link, NEW r \in Role, Acknowledge(l, r)
    PROVE  Quietly'
<1> DEFINE at == IF r = "responder" THEN "offer" ELSE "idle"
           o == Other(r)
<1>1. /\ pc[l][r] = "blob" /\ up[l] /\ Send(l, r, Ack) /\ Goto(l, r, at, Idle)
      /\ UNCHANGED <<table, up>>
      /\ quiet' = IF r = "dialler" /\ quiet[l] = "running"
                  THEN [quiet EXCEPT ![l] = "synced"] ELSE quiet
  BY DEF Acknowledge
<1>2. Ack \in Message /\ Ack.type = "Ack"  BY MessageTypes DEF Ack
<1>3. \A k \in Link : k # l => chan'[k] = chan[k]  BY <1>1, <1>2, SendEffect
<1>4. Running(l) => Covered(TableAt(l, r), TableAt(l, o))
  <2> SUFFICES ASSUME Running(l), NEW h \in Hashes(TableAt(l, o))
               PROVE  Latest(TableAt(l, r), TableAt(l, o), h)
    BY DEF Covered
  <2>1. Taken("blob", work[l][r], chan[l][r], pc[l][o], work[l][o], chan[l][o],
              TableAt(l, r), TableAt(l, o))
    BY <1>1, RunningParts
  <2> QED  BY <2>1 DEF Taken
<1>5. CASE ~(r = "dialler" /\ quiet[l] = "running")
  <2>1. MessageCurrent(Ack, TableAt(l, r))  BY <1>2 DEF MessageCurrent
  <2>2. Running(l) => MessagesRight(l, chan')  BY <1>1, <1>2, <2>1, SendCurrent, RunningParts
  <2>3. at \notin {"pushing"} \cup Applying /\ at \notin Asking \cup {"blob"}
        /\ "blob" \notin Offering
    BY DEF Asking, Applying, Offering
  <2> HIDE DEF at
  <2>4. EndCurrent(at, Idle, TableAt(l, r), TableAt(l, o))  BY <2>3, PlainCurrent
  <2>5. Taken(at, Idle, chan'[l][r], pc[l][o], work[l][o], chan'[l][o],
              TableAt(l, r), TableAt(l, o))
    BY <2>3, NotTaking
  <2>6. quiet' = quiet  BY <1>1, <1>5
  <2> QED  BY <1>1, <1>3, <1>4, <2>2, <2>3, <2>4, <2>5, <2>6, TakerQuietly
<1>6. CASE r = "dialler" /\ quiet[l] = "running"
  <2>1. o = "responder" /\ o \in Role /\ r \in Role  BY <1>6 DEF Other, Role
  <2>2. Running(l)  BY <1>6 DEF Quietly, Undisturbed
  <2>3. pc[l][o] \in Offering  BY <1>1, TakerOffered
  <2>4. Covered(TableAt(l, o), TableAt(l, r))  BY <1>6, <2>2, <2>3, RunningParts
  <2>5. Agrees(TableAt(l, r), TableAt(l, o))
    <3>1. TableAt(l, r) \in Table /\ TableAt(l, o) \in Table  BY <2>1, EndTypes
    <3> QED  BY <1>4, <2>2, <2>4, <3>1, CoveredBoth
  <2>6. quiet'[l] = "synced" /\ \A k \in Link : k # l => quiet'[k] = quiet[k]
    BY <1>1, <1>6 DEF TypeOK
  <2>7. pc'[l][r] = "idle" /\ pc'[l][o] = pc[l][o]
        /\ \A k \in Link : k # l => (pc'[k] = pc[k] /\ work'[k] = work[k])
    BY <1>1, <1>6, <2>1 DEF Goto, TypeOK
  <2>8. TableAt(l, r)' = TableAt(l, r) /\ TableAt(l, o)' = TableAt(l, o)  BY <1>1 DEF TableAt
  <2>9. Synced(l)'  BY <1>6, <2>1, <2>3, <2>5, <2>7, <2>8 DEF Synced
  <2>10. Undisturbed(l)'  BY <1>1, <2>6, <2>9 DEF Undisturbed
  <2>11. ASSUME NEW k \in Link, k # l PROVE Undisturbed(k)'
    <3>1. \A q \in Role : table'[DeviceOf(k, q)] = table[DeviceOf(k, q)]  BY <1>1
    <3> QED  BY <1>1, <1>3, <2>6, <2>7, <2>11, <3>1, UntouchedLink DEF Quietly
  <2> QED  BY <2>10, <2>11 DEF Quietly
<1> QED  BY <1>5, <1>6

------------------------------------------------------------------------------
(* The writes of a session. *)

\* An end writes the clip c it holds, which is a row of its peer's: its peer
\* has had its answer and sent what it had of c's content, so nothing on its
\* way to the peer is outdated by the write.
LEMMA WriteQuietly ==
    ASSUME TypeOK, Alternation, Quietly, NEW l \in Link, NEW r \in Role,
           NEW at \in Asking, NEW w, NEW t1 \in Table, pc[l][r] \in Applying,
           table' = [table EXCEPT ![DeviceOf(l, r)] = t1], Goto(l, r, at, w),
           Disturb(DeviceOf(l, r), {l}), UNCHANGED <<up, chan>>,
           (up[l] /\ Running(l)) =>
               /\ OnlyHash(TableAt(l, r), t1, work[l][r].pushed.clip.hash)
               /\ Current(work[l][r].pushed.clip, t1)
               /\ EndCurrent(at, w, t1, TableAt(l, Other(r)))
    PROVE  Quietly'
<1> DEFINE o == Other(r)
           d == DeviceOf(l, r)
           t == TableAt(l, r)
           u == TableAt(l, o)
           c == work[l][r].pushed.clip
           h == c.hash
<1>1. o \in Role /\ o # r /\ Other(o) = r /\ \A q \in Role : q = r \/ q = o
  BY Others DEF Role, Other
<1>2. d \in Device /\ DeviceOf(l, o) \in Device /\ DeviceOf(l, o) # d
  <2>1. d \in Device /\ DeviceOf(l, o) \in Device  BY <1>1, DeviceOfType
  <2>2. DeviceOf(l, o) # d  BY <1>1 DEF DeviceOf, Role, Other
  <2> QED  BY <2>1, <2>2
<1>3. table'[d] = t1 /\ \A e \in Device : e # d => table'[e] = table[e]
  BY <1>2 DEF TypeOK
<1>4. table'[DeviceOf(l, o)] = u  BY <1>2, <1>3 DEF TableAt
<1>5. \A k \in Link : k # l =>
          /\ chan'[k] = chan[k]
          /\ \/ quiet'[k] = "no"
             \/ /\ quiet'[k] = quiet[k]
                /\ \A q \in Role : table'[DeviceOf(k, q)] = table[DeviceOf(k, q)]
  <2> SUFFICES ASSUME NEW k \in Link, k # l, quiet'[k] # "no"
               PROVE  /\ quiet'[k] = quiet[k]
                      /\ \A q \in Role : table'[DeviceOf(k, q)] = table[DeviceOf(k, q)]
    OBVIOUS
  <2>1. d \notin {Dialler[k], Responder[k]} /\ quiet'[k] = quiet[k]  BY DEF Disturb
  <2>2. \A q \in Role : DeviceOf(k, q) # d /\ DeviceOf(k, q) \in Device
    BY <2>1, DeviceOfType DEF DeviceOf
  <2> QED  BY <1>3, <2>1, <2>2
<1>6. quiet'[l] = quiet[l]  BY DEF Disturb
<1>7. pc[l][r] # "idle" /\ pc[l][r] \notin Offering /\ pc[l][r] \in Asking
      /\ at \notin Offering /\ at # "blob" /\ pc[l][r] # "blob"
      /\ pc[l][r] \in {"insert", "pin", "tombstone"}
  BY DEF Applying, Asking, Offering
<1>8. t \in Table /\ u \in Table  BY <1>1, EndTypes
<1>9. c \in Row
  <2>1. work[l][r].pushed \in Pushed  BY DEF TypeOK, Fits
  <2> QED  BY <2>1 DEF Pushed
<1> HIDE DEF u, t, h, c, d
<1>10. ASSUME up[l], Running(l)
       PROVE  /\ \A q \in Role : MessagesCurrent(chan'[l][q], table'[DeviceOf(l, Other(q))])
              /\ EndCurrent(at, w, t1, u)
              /\ EndCurrent(pc[l][o], work[l][o], u, t1)
              /\ Taken(at, w, chan'[l][r], pc[l][o], work[l][o], chan'[l][o], t1, u)
              /\ Taken(pc[l][o], work[l][o], chan'[l][o], at, w, chan'[l][r], u, t1)
              /\ (r = "responder" /\ at \in Offering) => Covered(t1, u)
              /\ (r = "dialler" /\ pc[l][o] \in Offering) => Covered(u, t1)
  <2>1. pc[l][o] \in Offering  BY <1>7, <1>10, TakerOffered
  <2>2. chan[l][o] = <<>>
    <3>1. Turn(o, pc[l][o], pc[l][r], Left(l, o), Left(l, r), chan[l][o], chan[l][r], u, t)
      BY <1>7, <1>10, TakerTurn DEF u, t
    <3>2. /\ chan[l][r] \in Seq(Message) /\ chan[l][o] \in Seq(Message)
          /\ Left(l, o) \in Nat /\ Left(l, r) \in Nat
      BY BothTypes
    <3>3. /\ Len(chan[l][o]) = Said(pc[l][r]) - Got(pc[l][o])
          /\ (Said(pc[l][r]) = 1 /\ pc[l][r] # "push") => Got(pc[l][o]) = 1
      BY <3>1, <3>2, TurnFacts
    <3>4. Said(pc[l][r]) = 1 /\ pc[l][r] # "push"  BY <1>7 DEF Said
    <3>5. Len(chan[l][o]) = 0  BY <3>3, <3>4
    <3> QED  BY <3>2, <3>5, EmptySeq
  <2>3. /\ MessagesCurrent(chan[l][r], u)
        /\ EndCurrent(pc[l][r], work[l][r], t, u)
        /\ EndCurrent(pc[l][o], work[l][o], u, t)
        /\ Taken(pc[l][r], work[l][r], chan[l][r], pc[l][o], work[l][o], chan[l][o], t, u)
        /\ (r = "dialler" /\ pc[l][o] \in Offering) => Covered(u, t)
    BY <1>10, RunningParts DEF MessagesRight, u, t
  <2>4. OnlyHash(t, t1, h) /\ Current(c, t1) /\ EndCurrent(at, w, t1, u)
    BY <1>10 DEF t, u, c, h
  <2>5. Current(c, u)  BY <2>3 DEF EndCurrent, c
  <2>6. /\ Latest(t1, u, h)
        /\ \A g : g # h => (Latest(t, u, g) <=> Latest(t1, u, g))
        /\ Covered(u, t) => Covered(u, t1)
    BY <1>8, <1>9, <2>4, <2>5, WrittenLatest DEF h
  <2>7. \A q \in Role : MessagesCurrent(chan'[l][q], table'[DeviceOf(l, Other(q))])
    <3>1. MessagesCurrent(chan'[l][r], table'[DeviceOf(l, o)])  BY <1>4, <2>3
    <3>2. \A v : MessagesCurrent(<<>>, v)  BY DEF MessagesCurrent
    <3>3. MessagesCurrent(chan'[l][o], table'[DeviceOf(l, r)])  BY <2>2, <3>2
    <3> QED  BY <1>1, <3>1, <3>3
  <2>8. EndCurrent(pc[l][o], work[l][o], u, t1)
    <3>1. pc[l][o] \notin Applying  BY <2>1 DEF Applying, Offering
    <3>2. pc[l][o] \notin {"pin", "tombstone"}  BY <3>1 DEF Applying
    <3> QED  BY <2>3, <3>1, <3>2 DEF EndCurrent
  <2>9. Taken(at, w, chan'[l][r], pc[l][o], work[l][o], chan'[l][o], t1, u)
    <3> SUFFICES ASSUME NEW g \in Hashes(u)
                 PROVE  \/ Latest(t1, u, g)
                        \/ Pending(g, at, w, chan[l][r], pc[l][o], work[l][o], chan[l][o])
      BY <1>7 DEF Taken
    <3>1. CASE g = h  BY <2>6, <3>1
    <3>2. CASE g # h
      <4>1. \/ Latest(t, u, g)
            \/ Pending(g, pc[l][r], work[l][r], chan[l][r], pc[l][o], work[l][o], chan[l][o])
        BY <1>7, <2>3 DEF Taken
      <4>2. work[l][r].pushed.clip.hash # g  BY <3>2 DEF h, c
      <4> QED  BY <2>6, <3>2, <4>1, <4>2, Zenon DEF Pending
    <3> QED  BY <3>1, <3>2
  <2>10. Taken(pc[l][o], work[l][o], chan'[l][o], at, w, chan'[l][r], u, t1)
    <3>1. pc[l][o] \notin Asking \cup {"blob"}  BY <2>1 DEF Asking, Applying, Offering
    <3> QED  BY <3>1, NotTaking
  <2> QED  BY <1>7, <2>3, <2>4, <2>6, <2>7, <2>8, <2>9, <2>10
<1>11. table'[DeviceOf(l, r)] = t1 /\ up' = up  BY <1>3 DEF d
<1> QED  BY <1>4, <1>5, <1>6, <1>7, <1>10, <1>11, StepQuietly DEF u

LEMMA AppliedCurrent ==
    \A w, t, u : EndCurrent("push", w, t, u)
BY DEF EndCurrent, Applying

LEMMA ApplyInsertQuietly ==
    ASSUME TypeOK, Alternation, Quietly, NEW l \in Link, NEW r \in Role, ApplyInsert(l, r)
    PROVE  Quietly'
<1> DEFINE d == DeviceOf(l, r)
           p == work[l][r].pushed
           t1 == Insert(table[d], p.id, p.clip)
           w == Applied(work[l][r])
<1>1. /\ pc[l][r] = "insert" /\ ~InsertFails(table[d], p.id, p.clip)
      /\ table' = [table EXCEPT ![d] = t1] /\ Goto(l, r, "push", w)
      /\ Disturb(d, {l}) /\ UNCHANGED <<up, chan>>
  BY DEF ApplyInsert
<1>2. "push" \in Asking /\ "insert" \in Applying  BY DEF Asking, Applying
<1>3. p \in Pushed  BY <1>1, <1>2 DEF TypeOK, Fits
<1>4. p.id \in Id /\ p.clip \in Row  BY <1>3 DEF Pushed
<1>5. table[d] \in Table  BY DeviceOfType DEF TypeOK
<1>6. t1 \in Table  BY <1>1, <1>4, <1>5, InsertTable
<1>7. OnlyHash(table[d], t1, p.clip.hash) /\ Current(p.clip, t1)
  BY <1>1, <1>4, <1>5, InsertCurrent
<1> HIDE DEF t1, w
<1>8. EndCurrent("push", w, t1, TableAt(l, Other(r)))  BY AppliedCurrent
<1> QED  BY <1>1, <1>2, <1>6, <1>7, <1>8, WriteQuietly DEF TableAt

LEMMA ApplyPinQuietly ==
    ASSUME TypeOK, Alternation, Quietly, NEW l \in Link, NEW r \in Role, ApplyPin(l, r)
    PROVE  Quietly'
<1> DEFINE d == DeviceOf(l, r)
           v == work[l][r]
           c == v.pushed.clip
           t == TableAt(l, r)
           t1 == SetPinned(table[d], v.target, c.pinned, c.hlc)
<1>1. /\ pc[l][r] = "pin" /\ table' = [table EXCEPT ![d] = t1]
      /\ IF c.deleted THEN Goto(l, r, "tombstone", v) ELSE Goto(l, r, "push", Applied(v))
      /\ Disturb(d, {l}) /\ UNCHANGED <<up, chan>>
  BY DEF ApplyPin
<1>2. "push" \in Asking /\ "tombstone" \in Asking /\ "tombstone" \in Applying
      /\ "pin" \in Applying /\ pc[l][r] \in Applying
  BY <1>1 DEF Asking, Applying
<1>3. v.pushed \in Pushed /\ v.target \in Ids(table[d])  BY <1>1, <1>2 DEF TypeOK, Fits
<1>4. c \in Row /\ c.pinned \in BOOLEAN /\ c.hlc \in Hlc  BY <1>3 DEF Pushed, Row
<1>5. table[d] \in Table /\ t = table[d]  BY DeviceOfType DEF TypeOK, TableAt
<1>6. t1 \in Table  BY <1>3, <1>4, <1>5, SetPinnedTable
<1>7. ASSUME Running(l)
      PROVE  /\ OnlyHash(t, t1, c.hash) /\ v.target \in ByHash(t1, c.hash)
             /\ t1[v.target].hlc = c.hlc /\ Current(c, t1) /\ Current(c, TableAt(l, Other(r)))
  <2>1. EndCurrent(pc[l][r], v, t, TableAt(l, Other(r)))  BY <1>7, RunningParts
  <2>2. v.target \in ByHash(t, c.hash) /\ Current(c, TableAt(l, Other(r)))
    BY <1>1, <1>2, <2>1 DEF EndCurrent
  <2>3. OnlyHash(t, t1, c.hash) /\ v.target \in ByHash(t1, c.hash) /\ t1[v.target].hlc = c.hlc
    BY <1>4, <1>5, <2>2, PinCurrent
  <2> QED  BY <2>2, <2>3, Zenon DEF Current
<1> HIDE DEF t1
<1>8. CASE c.deleted
  <2>1. Goto(l, r, "tombstone", v)  BY <1>1, <1>8
  <2>2. Running(l) => EndCurrent("tombstone", v, t1, TableAt(l, Other(r)))
    BY <1>7 DEF EndCurrent, Applying
  <2> QED  BY <1>1, <1>2, <1>6, <1>7, <2>1, <2>2, WriteQuietly
<1>9. CASE ~c.deleted
  <2>1. Goto(l, r, "push", Applied(v))  BY <1>1, <1>9
  <2>2. EndCurrent("push", Applied(v), t1, TableAt(l, Other(r)))  BY AppliedCurrent
  <2> QED  BY <1>1, <1>2, <1>6, <1>7, <2>1, <2>2, WriteQuietly
<1> QED  BY <1>8, <1>9

LEMMA ApplyDeleteQuietly ==
    ASSUME TypeOK, OneLiveRow, Alternation, Quietly, NEW l \in Link, NEW r \in Role,
           ApplyDelete(l, r)
    PROVE  Quietly'
<1> DEFINE d == DeviceOf(l, r)
           v == work[l][r]
           c == v.pushed.clip
           t == TableAt(l, r)
           t1 == Delete(table[d], v.target, c.hlc)
           w == Applied(v)
<1>1. /\ pc[l][r] = "tombstone" /\ table' = [table EXCEPT ![d] = t1]
      /\ Goto(l, r, "push", w) /\ Disturb(d, {l}) /\ UNCHANGED <<up, chan>>
  BY DEF ApplyDelete
<1>2. "push" \in Asking /\ "tombstone" \in Applying  BY DEF Asking, Applying
<1>3. v.pushed \in Pushed /\ v.target \in Ids(table[d])  BY <1>1, <1>2 DEF TypeOK, Fits
<1>4. c \in Row /\ c.hash \in Hash /\ c.hlc \in Hlc  BY <1>3 DEF Pushed, Row
<1>5. d \in Device /\ table[d] \in Table /\ t = table[d]  BY DeviceOfType DEF TypeOK, TableAt
<1>6. t1 \in Table  BY <1>3, <1>4, <1>5, DeleteTable
<1>7. OneLive(t)  BY <1>5 DEF OneLiveRow, OneLive
<1>8. ASSUME Running(l)
      PROVE  OnlyHash(t, t1, c.hash) /\ Current(c, t1)
  <2>1. EndCurrent(pc[l][r], v, t, TableAt(l, Other(r)))  BY <1>8, RunningParts
  <2>2. v.target \in ByHash(t, c.hash) /\ t[v.target].hlc = c.hlc
    BY <1>1, <2>1 DEF EndCurrent
  <2>3. OnlyHash(t, t1, c.hash) /\ v.target \in ByHash(t1, c.hash) /\ t1[v.target].hlc = c.hlc
    BY <1>4, <1>5, <1>7, <2>2, DeleteCurrent
  <2> QED  BY <2>3, Zenon DEF Current
<1> HIDE DEF t1, w
<1>9. EndCurrent("push", w, t1, TableAt(l, Other(r)))  BY AppliedCurrent
<1> QED  BY <1>1, <1>2, <1>6, <1>8, <1>9, WriteQuietly

------------------------------------------------------------------------------
(* Users, dials and faults. *)

\* A user writes one history, and every session over it is disturbed.
LEMMA LocalQuietly ==
    ASSUME TypeOK, Quietly, NEW d \in Device, LocalStep(d)
    PROVE  Quietly'
<1>1. /\ UNCHANGED linkVars /\ Disturb(d, {})
      /\ \A e \in Device : e # d => table'[e] = table[e]
  BY DEF LocalStep, Capture, PinClip, DeleteClip, LocalEvent, Record, TypeOK
<1>2. UNCHANGED <<up, chan, pc, work>>  BY <1>1 DEF linkVars
<1> SUFFICES ASSUME NEW k \in Link PROVE Undisturbed(k)'
  BY DEF Quietly
<1>3. CASE d \in {Dialler[k], Responder[k]}
  <2>1. quiet'[k] = "no"  BY <1>1, <1>3 DEF Disturb
  <2> QED  BY <2>1, UntouchedLink DEF Quietly
<1>4. CASE d \notin {Dialler[k], Responder[k]}
  <2>1. quiet'[k] = quiet[k]  BY <1>1, <1>4 DEF Disturb
  <2>2. \A q \in Role : table'[DeviceOf(k, q)] = table[DeviceOf(k, q)]
    <3>1. \A q \in Role : DeviceOf(k, q) # d /\ DeviceOf(k, q) \in Device
      BY <1>4, DeviceOfType DEF DeviceOf
    <3> QED  BY <1>1, <3>1
  <2> QED  BY <1>2, <2>1, <2>2, UntouchedLink DEF Quietly
<1> QED  BY <1>3, <1>4

LEMMA TablesStay ==
    ASSUME UNCHANGED table
    PROVE  \A k \in Link, q \in Role : table'[DeviceOf(k, q)] = table[DeviceOf(k, q)]
OBVIOUS

LEMMA ApplyInsertFailsQuietly ==
    ASSUME TypeOK, Quietly, NEW l \in Link, NEW r \in Role, ApplyInsertFails(l, r)
    PROVE  Quietly'
<1>1. Cut(l) /\ Goto(l, r, "idle", Idle) /\ quiet' = [quiet EXCEPT ![l] = "no"] /\ UNCHANGED table
  BY DEF ApplyInsertFails
<1>2. quiet'[l] = "no"  BY <1>1 DEF TypeOK
<1>3. \A k \in Link : k # l =>
          /\ quiet'[k] = quiet[k] /\ up'[k] = up[k] /\ chan'[k] = chan[k]
          /\ pc'[k] = pc[k] /\ work'[k] = work[k]
  BY <1>1 DEF Cut, Goto, TypeOK
<1> SUFFICES ASSUME NEW k \in Link PROVE Undisturbed(k)'
  BY DEF Quietly
<1> QED  BY <1>1, <1>2, <1>3, TablesStay, UntouchedLink DEF Quietly

LEMMA BreakQuietly ==
    ASSUME TypeOK, Quietly, NEW l \in Link, Break(l)
    PROVE  Quietly'
<1>1. Cut(l) /\ quiet' = [quiet EXCEPT ![l] = "no"] /\ UNCHANGED <<table, pc, work>>
  BY DEF Break
<1>2. quiet'[l] = "no"  BY <1>1 DEF TypeOK
<1>3. \A k \in Link : k # l => quiet'[k] = quiet[k] /\ up'[k] = up[k] /\ chan'[k] = chan[k]
  BY <1>1 DEF Cut, TypeOK
<1> SUFFICES ASSUME NEW k \in Link PROVE Undisturbed(k)'
  BY DEF Quietly
<1> QED  BY <1>1, <1>2, <1>3, TablesStay, UntouchedLink DEF Quietly

\* An end notices that its link is gone: the link was disturbed already.
LEMMA DropQuietly ==
    ASSUME TypeOK, Quietly, NEW l \in Link, NEW r \in Role, Drop(l, r)
    PROVE  Quietly'
<1>1. ~up[l] /\ Goto(l, r, "idle", Idle) /\ UNCHANGED <<table, quiet, up, chan>>
  BY DEF Drop
<1>2. quiet'[l] = "no"  BY <1>1 DEF Quietly, Undisturbed, TypeOK
<1>3. \A k \in Link : k # l => pc'[k] = pc[k] /\ work'[k] = work[k]
  BY <1>1 DEF Goto, TypeOK
<1> SUFFICES ASSUME NEW k \in Link PROVE Undisturbed(k)'
  BY DEF Quietly
<1> QED  BY <1>1, <1>2, <1>3, TablesStay, UntouchedLink DEF Quietly

LEMMA CrashQuietly ==
    ASSUME TypeOK, Quietly, NEW d \in Device, Crash(d)
    PROVE  Quietly'
<1> SUFFICES ASSUME NEW k \in Link PROVE Undisturbed(k)'
  BY DEF Quietly
<1>1. UNCHANGED table  BY DEF Crash
<1>2. CASE \E q \in Role : DeviceOf(k, q) = d
  <2>1. quiet'[k] = "no"  BY <1>2 DEF Crash
  <2> QED  BY <2>1, UntouchedLink DEF Quietly
<1>3. CASE ~\E q \in Role : DeviceOf(k, q) = d
  <2>1. quiet'[k] = quiet[k] /\ chan'[k] = chan[k]  BY <1>3 DEF Crash
  <2>2. up'[k] = up[k]  BY <1>3 DEF Crash, TypeOK
  <2>3. \A q \in Role : pc'[k][q] = pc[k][q] /\ work'[k][q] = work[k][q]
    BY <1>3 DEF Crash
  <2> QED  BY <1>1, <2>1, <2>2, <2>3, TablesStay, UntouchedLink DEF Quietly
<1> QED  BY <1>2, <1>3

\* A session starts with nothing under way but a Hello.
LEMMA DialQuietly ==
    ASSUME TypeOK, Quietly, NEW l \in Link, Dial(l)
    PROVE  Quietly'
<1>1. /\ up' = [up EXCEPT ![l] = TRUE]
      /\ pc' = [pc EXCEPT ![l] = [r \in Role |-> "hello"]]
      /\ work' = [work EXCEPT ![l] = [r \in Role |-> Idle]]
      /\ chan' = [chan EXCEPT ![l] = [r \in Role |-> IF r = "responder" THEN <<Hello>> ELSE <<>>]]
      /\ quiet' = [quiet EXCEPT ![l] = "running"] /\ UNCHANGED table
  BY DEF Dial
<1>2. /\ up'[l] /\ quiet'[l] = "running"
      /\ \A q \in Role : pc'[l][q] = "hello" /\ chan'[l][q] \in {<<Hello>>, <<>>}
  BY <1>1 DEF TypeOK
<1>3. \A u : MessagesCurrent(<<Hello>>, u) /\ MessagesCurrent(<<>>, u)
  BY DEF MessagesCurrent, MessageCurrent, Hello
<1>4. "hello" \notin {"pushing"} \cup Applying /\ "hello" \notin Asking \cup {"blob"}
      /\ "hello" \notin Offering
  BY DEF Applying, Asking, Offering
<1>5. \A w, t, u : EndCurrent("hello", w, t, u)  BY <1>4, PlainCurrent
<1>6. Running(l)'
  <2>1. \A q \in Role : MessagesCurrent(chan'[l][q], TableAt(l, Other(q))')  BY <1>2, <1>3
  <2>2. \A q \in Role : EndCurrent(pc'[l][q], work'[l][q], TableAt(l, q)', TableAt(l, Other(q))')
    BY <1>2, <1>5
  <2>3. \A q \in Role : TakenBy(l, q)'  BY <1>2, <1>4, NotTaking DEF TakenBy
  <2>4. pc'[l]["responder"] \notin Offering  BY <1>2, <1>4 DEF Role
  <2> QED  BY <2>1, <2>2, <2>3, <2>4 DEF Running
<1>7. Undisturbed(l)'  BY <1>2, <1>6 DEF Undisturbed
<1>8. ASSUME NEW k \in Link, k # l PROVE Undisturbed(k)'
  <2>1. /\ quiet'[k] = quiet[k] /\ up'[k] = up[k] /\ chan'[k] = chan[k]
        /\ pc'[k] = pc[k] /\ work'[k] = work[k]
    BY <1>1, <1>8 DEF TypeOK
  <2> QED  BY <1>1, <2>1, TablesStay, UntouchedLink DEF Quietly
<1> QED  BY <1>7, <1>8 DEF Quietly

------------------------------------------------------------------------------
LEMMA QuietlyNext ==
    ASSUME TypeOK, OneLiveRow, Alternation, Quietly, [Next]_vars
    PROVE  Quietly'
<1>1. ASSUME NEW d \in Device, LocalStep(d) \/ Crash(d) PROVE Quietly'
  BY <1>1, LocalQuietly, CrashQuietly
<1>2. ASSUME NEW l \in Link, Dial(l) \/ Break(l) PROVE Quietly'
  BY <1>2, DialQuietly, BreakQuietly
<1>3. ASSUME NEW l \in Link, NEW r \in Role, EndStep(l, r) PROVE Quietly'
  BY <1>3, RecvHelloQuietly, OfferQuietly, RecvSummaryQuietly, RecvWantQuietly, SendPushQuietly,
     RecvPushQuietly, ApplyInsertQuietly, ApplyInsertFailsQuietly, ApplyPinQuietly,
     ApplyDeleteQuietly, WantBlobsQuietly, RecvBlobWantQuietly, SendBlobQuietly,
     RecvBlobQuietly, AcknowledgeQuietly, RecvAckQuietly, DropQuietly DEF EndStep
<1>4. CASE TimePasses \/ UNCHANGED vars
  <2>1. UNCHANGED <<table, linkVars, quiet>>  BY <1>4 DEF TimePasses, vars, linkVars
  <2>2. UNCHANGED <<table, up, chan, pc, work, quiet>>  BY <2>1 DEF linkVars
  <2> SUFFICES ASSUME NEW k \in Link PROVE Undisturbed(k)'
    BY DEF Quietly
  <2> QED  BY <2>2, TablesStay, UntouchedLink DEF Quietly
<1> QED  BY <1>1, <1>2, <1>3, <1>4 DEF Next

LEMMA QuietlyAgrees == Quietly => CleanSessionAgrees
<1> SUFFICES ASSUME Quietly, NEW l \in Link, quiet[l] = "synced"
             PROVE  LET a == Dialler[l]
                        b == Responder[l]
                    IN  /\ Hashes(table[a]) = Hashes(table[b])
                        /\ \A h \in Hash : Unambiguous(a, h) /\ Unambiguous(b, h) =>
                             \A i \in ByHash(table[a], h), j \in ByHash(table[b], h) :
                                 table[a][i].hlc = table[b][j].hlc
  BY DEF CleanSessionAgrees
<1>1. Agrees(TableAt(l, "dialler"), TableAt(l, "responder"))
  BY DEF Quietly, Undisturbed, Synced
<1>2. TableAt(l, "dialler") = table[Dialler[l]] /\ TableAt(l, "responder") = table[Responder[l]]
  BY DEF TableAt, DeviceOf
<1>3. \A d, h : Unambiguous(d, h) <=> Sole(table[d], h)  BY DEF Unambiguous, Sole
<1> QED  BY <1>1, <1>2, <1>3 DEF Agrees

\* A session that ran to its end while nobody else wrote to either history,
\* and nothing written since, leaves both devices with the same contents, and
\* each content, where the lookup by_hash has one row of it to return at either
\* end, with the same timestamp (run_session, take_their_history and
\* offer_our_history of sync.rs), whatever the other devices do meanwhile.
THEOREM SessionsAgree == Spec => []CleanSessionAgrees
<1>1. Init => Quietly
  BY DEF Init, Quietly, Undisturbed
<1>2. TypeOK /\ OneLiveRow /\ Alternation /\ Quietly /\ [Next]_vars => Quietly'
  BY QuietlyNext
<1>3. Quietly => CleanSessionAgrees
  BY QuietlyAgrees
<1> QED
  BY <1>1, <1>2, <1>3, TypeInvariant, Deduplicated, Alternates, PTL DEF Spec

==============================================================================
