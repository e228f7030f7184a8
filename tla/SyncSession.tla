----------------------------- MODULE SyncSession -----------------------------
(***************************************************************************)
(* Devices that hold clip histories, users who change them, and the sync   *)
(* sessions that replicate them: clipsed/src/sync.rs over the tables of    *)
(* ClipStore, with the local writers of clipsed/src/capture.rs and         *)
(* daemon.rs interleaved at every point where the code awaits.             *)
(*                                                                         *)
(* A link is one QUIC connection: an ordered stream of messages each way.  *)
(* Each end of a link runs run_session; a step of an end is what the code  *)
(* does between two awaits that let another task reach the store.  In      *)
(* particular apply() looks a clip up in one step and writes in another.   *)
(*                                                                         *)
(* A list (a Vec of the code) is a function on positions, read in ascending*)
(* order; a position that holds None is skipped, so that filtering a list  *)
(* blanks positions of it.                                                 *)
(***************************************************************************)
EXTENDS ClipStore, Sequences

CONSTANTS
    Link,        \* connection slots
    Dialler,     \* Dialler[l]: the device that dials on l
    Responder,   \* Responder[l]: the device that accepts on l
    BlobHash,    \* hashes whose payload is too large to be inline
    Quota,       \* how many blobs a device keeps before it evicts
    Offset,      \* Offset[d]: how far d's wall clock is ahead of true time
    MaxWall,     \* bound: last millisecond of true time
    MaxOps,      \* bound: local operations of all users together
    MaxFaults    \* bound: broken links and crashed daemons together

ASSUME SessionAssumption ==
    /\ Dialler \in [Link -> Device]
    /\ Responder \in [Link -> Device]
    /\ \A l \in Link : Dialler[l] # Responder[l]
    /\ BlobHash \subseteq Hash
    /\ Offset \in [Device -> Nat]
    /\ Quota \in Nat /\ MaxWall \in Nat /\ MaxOps \in Nat /\ MaxFaults \in Nat

VARIABLES
    wall,     \* true time
    clock,    \* clock[d]: HlcClock state of d's daemon
    table,    \* table[d]: d's history
    blobs,    \* blobs[d]: digests whose blob file d holds
    up,       \* up[l]: the connection is open
    chan,     \* chan[l][r]: messages on their way to end r of l
    pc,       \* pc[l][r]: what end r of l does next
    work,     \* work[l][r]: local variables of end r of l
    quiet,    \* history variable: see CleanSessionAgrees
    log,      \* history variable: every row value a user's operation wrote
    raced,    \* history variable: see StampMeansState
    ops,      \* local operations so far
    faults    \* faults so far

vars == <<wall, clock, table, blobs, up, chan, pc, work, quiet, log, raced, ops, faults>>
linkVars == <<up, chan, pc, work>>

------------------------------------------------------------------------------
(* Lists, messages and the local variables of an end. *)

Role == {"dialler", "responder"}
Other(r) == IF r = "dialler" THEN "responder" ELSE "dialler"
DeviceOf(l, r) == IF r = "dialler" THEN Dialler[l] ELSE Responder[l]

Pos == 1..Cardinality(Id)
List(S) == [Pos -> S \cup {None}]
EmptyList == [k \in Pos |-> None]
Items(f) == {k \in Pos : f[k] # None}
First(f) == CHOOSE k \in Items(f) : \A j \in Items(f) : k <= j
Rest(f) == [f EXCEPT ![First(f)] = None]
Filter(f, keep) == [k \in Pos |-> IF k \in keep THEN f[k] ELSE None]

Entry == [hash : Hash, hlc : Hlc]
Pushed == [id : Id, clip : Row]

\* None, the blank of a list, is not an item of one.
ASSUME BlankAssumption == None \notin Entry \cup Pushed

Hello == [type |-> "Hello"]
Summary(entries) == [type |-> "Summary", entries |-> entries]
Want(hashes) == [type |-> "Want", hashes |-> hashes]
Push(p) == [type |-> "Push", pushed |-> p]
Blob(bytes) == [type |-> "Blob", bytes |-> bytes]
Ack == [type |-> "Ack"]

Message ==
    [type : {"Hello", "Ack"}]
        \cup [type : {"Summary"}, entries : List(Entry)]
        \cup [type : {"Want"}, hashes : List(Hash)]
        \cup [type : {"Push"}, pushed : Pushed]
        \cup [type : {"Blob"}, bytes : Hash \cup {None}]

\* What an end in each receiving state waits for, and the other states.
Awaits ==
    [hello |-> "Hello", summary |-> "Summary", want |-> "Want", push |-> "Push",
     blobwant |-> "Want", blob |-> "Blob", ack |-> "Ack"]
Sending == {"offer", "pushing", "blobs"}
Applying == {"insert", "pin", "tombstone"}
PC == DOMAIN Awaits \cup Sending \cup Applying \cup {"idle"}

\* todo: what this end still has to send, or still expects, in order;
\* missing: blob digests of the clips applied; pushed, target: the clip being
\* applied and the row the lookup found for it.
Work == [todo : List(Hash \cup Pushed), missing : List(Hash),
         pushed : Pushed \cup {None}, target : Id \cup {None}]
Idle == [todo |-> EmptyList, missing |-> EmptyList, pushed |-> None, target |-> None]

------------------------------------------------------------------------------
Init ==
    /\ wall = 0
    /\ clock = [d \in Device |-> NewClock]
    /\ table = [d \in Device |-> EmptyTable]
    /\ blobs = [d \in Device |-> {}]
    /\ up = [l \in Link |-> FALSE]
    /\ chan = [l \in Link |-> [r \in Role |-> <<>>]]
    /\ pc = [l \in Link |-> [r \in Role |-> "idle"]]
    /\ work = [l \in Link |-> [r \in Role |-> Idle]]
    /\ quiet = [l \in Link |-> "no"]
    /\ log = {}
    /\ raced = {}
    /\ ops = 0
    /\ faults = 0

\* The rows of d that a step writes.
Written(d) == {table'[d][i] : i \in {j \in Id : table'[d][j] # table[d][j]}}

\* The contents that sessions of d, those on writers aside, are applying: each
\* has looked its clip up and has a write to come.
InHand(d, writers) ==
    {h \in Hash : \E l \in Link \ writers, r \in Role :
        DeviceOf(l, r) = d /\ pc[l][r] \in Applying /\ work[l][r].pushed.clip.hash = h}

\* The rows of d between set_pinned and the delete that follows it.
HalfWritten(d) ==
    {i \in Id : \E l \in Link, r \in Role :
        DeviceOf(l, r) = d /\ pc[l][r] = "tombstone" /\ work[l][r].target = i}

\* A write to d's table ends the quiet of every link that touches d, except
\* the link the write is part of, and races with every other session of d that
\* is applying the same content.
Disturb(d, writers) ==
    /\ quiet' = [l \in Link |-> IF l \notin writers /\ d \in {Dialler[l], Responder[l]}
                                THEN "no" ELSE quiet[l]]
    /\ raced' = raced \cup {h \in InHand(d, writers) : \E c \in Written(d) : c.hash = h}
Record(d) == log' = log \cup Written(d) /\ Disturb(d, {})

------------------------------------------------------------------------------
(* Users: the handlers that stamp and write the local history. *)

Physical(d) == wall + Offset[d]

\* A local event of d: clock' and the timestamp it gets.
LocalEvent(d) ==
    /\ ops < MaxOps
    /\ ops' = ops + 1
    /\ clock' = [clock EXCEPT ![d] = Now(@, Physical(d))]
    /\ UNCHANGED <<wall, faults, linkVars>>

LocalStamp(d) == StampOf(Now(clock[d], Physical(d)), d)

\* enforce_blob_quota: evict until the quota is met, never a blob of a live
\* pinned clip.  The order (least recently used) is abstracted to any order.
Pinned(t) == {t[i].hash : i \in {j \in Ids(t) : t[j].pinned /\ ~t[j].deleted}}
AfterQuota(held, t) ==
    LET protected == held \cap Pinned(t)
        size == IF Cardinality(held) <= Quota THEN Cardinality(held)
                ELSE Larger(Quota, Cardinality(protected))
    IN  {kept \in SUBSET held : protected \subseteq kept /\ Cardinality(kept) = size}

\* store_capture: blobs first, then the row, then the quota.  A fresh id is
\* one no device has used.
FreshIds == {i \in Id : \A d \in Device : table[d][i] = None}
Capture(d, h) ==
    /\ LocalEvent(d)
    /\ \E i \in FreshIds :
         LET clip == [hash |-> h, hlc |-> LocalStamp(d), pinned |-> FALSE, deleted |-> FALSE]
         IN  /\ \A j \in FreshIds : i <= j
             /\ table' = [table EXCEPT ![d] = Insert(@, i, clip)]
    /\ \E kept \in AfterQuota(blobs[d] \cup ({h} \cap BlobHash), table'[d]) :
         blobs' = [blobs EXCEPT ![d] = kept]
    /\ Record(d)

\* Request::SetPinned and Request::Delete.
PinClip(d, i, pinned) ==
    /\ LocalEvent(d)
    /\ i \in Ids(table[d])
    /\ table' = [table EXCEPT ![d] = SetPinned(@, i, pinned, LocalStamp(d))]
    /\ Record(d)
    /\ UNCHANGED blobs

DeleteClip(d, i) ==
    /\ LocalEvent(d)
    /\ i \in Ids(table[d])
    /\ table' = [table EXCEPT ![d] = Delete(@, i, LocalStamp(d))]
    /\ Record(d)
    /\ UNCHANGED blobs

TimePasses ==
    /\ wall < MaxWall
    /\ wall' = wall + 1
    /\ UNCHANGED <<clock, table, blobs, linkVars, quiet, log, raced, ops, faults>>

------------------------------------------------------------------------------
(* Sessions.  An end that sends does so into its peer's channel; an end that *)
(* receives needs an open link and a message, and an open link may break.    *)

Inbox(l, r) == chan[l][r]
Receives(l, r, at, type) ==
    /\ pc[l][r] = at
    /\ up[l]
    /\ Inbox(l, r) # <<>>
    /\ Head(Inbox(l, r)).type = type

\* Consume the head of r's inbox and send msgs to the other end.
Exchange(l, r, msgs) ==
    chan' = [chan EXCEPT ![l] =
                [q \in Role |-> IF q = r THEN Tail(@[r]) ELSE @[q] \o msgs]]
Send(l, r, m) == chan' = [chan EXCEPT ![l][Other(r)] = Append(@, m)]

Goto(l, r, at, w) ==
    /\ pc' = [pc EXCEPT ![l][r] = at]
    /\ work' = [work EXCEPT ![l][r] = w]

\* A loop over a list: stay until it is empty, then go on.
UntilOnce(list, loop, after) == loop  \* mutant: the body runs at least once
Until(list, loop, after) == IF list = EmptyList THEN after ELSE loop

\* What a step of a session that leaves the history alone leaves alone.
SessionOnly == UNCHANGED <<wall, clock, table, blobs, quiet, log, raced, ops, faults, up>>

\* sync_one and accept_loop: a connection is up, run_session starts at both
\* ends, and the dialler's first act is its Hello.
Dial(l) ==
    /\ \A r \in Role : pc[l][r] = "idle"
    /\ up' = [up EXCEPT ![l] = TRUE]
    /\ pc' = [pc EXCEPT ![l] = [r \in Role |-> "hello"]]
    /\ work' = [work EXCEPT ![l] = [r \in Role |-> Idle]]
    /\ chan' = [chan EXCEPT ![l] =
                   [r \in Role |-> IF r = "responder" THEN <<Hello>> ELSE <<>>]]
    /\ quiet' = [quiet EXCEPT ![l] = "running"]
    /\ UNCHANGED <<wall, clock, table, blobs, log, raced, ops, faults>>

\* receive_hello, and the responder's answer.  The dialler then takes the
\* first turn to offer; the responder listens.
RecvHelloBothOffer(l, r) ==  \* mutant: both ends start by offering
    /\ Receives(l, r, "hello", "Hello")
    /\ Exchange(l, r, IF r = "responder" THEN <<Hello>> ELSE <<>>)
    /\ Goto(l, r, "offer", Idle)
    /\ SessionOnly
RecvHello(l, r) ==
    /\ Receives(l, r, "hello", "Hello")
    /\ Exchange(l, r, IF r = "responder" THEN <<Hello>> ELSE <<>>)
    /\ Goto(l, r, IF r = "responder" THEN "summary" ELSE "offer", Idle)
    /\ SessionOnly

\* The rows in the order changes_since(None) returns them: ascending HLC,
\* tombstones included.
InHlcOrder(t) ==
    {s \in [1..Cardinality(Ids(t)) -> Ids(t)] :
        \A j, k \in DOMAIN s : j < k => s[j] # s[k] /\ ~Newer(t[s[j]].hlc, t[s[k]].hlc)}

\* offer_our_history: the whole history, as summary entries.  The pages of
\* SUMMARY_PAGE entries carry one snapshot, and are one message here.
Offer(l, r) ==
    LET t == table[DeviceOf(l, r)] IN
    /\ pc[l][r] = "offer" /\ up[l]
    /\ \E s \in InHlcOrder(t) :
         Send(l, r, Summary([k \in Pos |->
             IF k \in DOMAIN s THEN [hash |-> t[s[k]].hash, hlc |-> t[s[k]].hlc] ELSE None]))
    /\ Goto(l, r, "want", Idle)
    /\ SessionOnly

\* The answers by_hash_including_deleted may give for every hash.
Lookups(t) ==
    {f \in [Hash -> Id \cup {None}] :
        \A h \in Hash : IF ByHash(t, h) = {} THEN f[h] = None ELSE f[h] \in ByHash(t, h)}

\* take_their_history up to its Want: an entry is wanted if its hash is
\* unknown, or known with an older timestamp.
WantedUnknown(t, found, e) == found[e.hash] = None  \* mutant: updates are not wanted
WantedKnown(t, found, e) ==  \* mutant: only updates are wanted
    found[e.hash] # None /\ Newer(e.hlc, t[found[e.hash]].hlc)
Wanted(t, found, e) == found[e.hash] = None \/ Newer(e.hlc, t[found[e.hash]].hlc)

RecvSummary(l, r) ==
    LET t == table[DeviceOf(l, r)] IN
    /\ Receives(l, r, "summary", "Summary")
    /\ \E found \in Lookups(t) :
         LET entries == Head(Inbox(l, r)).entries
             wanted  == [k \in Pos |->
                            IF k \in Items(entries) /\ Wanted(t, found, entries[k])
                            THEN entries[k].hash ELSE None]
         IN  /\ Exchange(l, r, <<Want(wanted)>>)
             /\ Goto(l, r, "push", [Idle EXCEPT !.todo = wanted])
    /\ SessionOnly

\* The offering end reads every wanted clip from the store as it is now, and
\* skips the ones it no longer has.
RecvWant(l, r) ==
    LET t == table[DeviceOf(l, r)] IN
    /\ Receives(l, r, "want", "Want")
    /\ \E found \in Lookups(t) :
         LET hashes == Head(Inbox(l, r)).hashes
             have   == {k \in Items(hashes) : found[hashes[k]] # None}
             clips  == [k \in Pos |->
                           IF k \in have
                           THEN [id |-> found[hashes[k]], clip |-> t[found[hashes[k]]]]
                           ELSE None]
         IN  /\ Goto(l, r, Until(clips, "pushing", "blobwant"), [Idle EXCEPT !.todo = clips])
             /\ raced' = raced \cup {hashes[k] : k \in {j \in have :
                                        found[hashes[j]] \in HalfWritten(DeviceOf(l, r))}}
    /\ Exchange(l, r, <<>>)
    /\ UNCHANGED <<wall, clock, table, blobs, quiet, log, ops, faults, up>>

SendPush(l, r) ==
    LET todo == work[l][r].todo IN
    /\ pc[l][r] = "pushing" /\ up[l]
    /\ Send(l, r, Push(todo[First(todo)]))
    /\ Goto(l, r, Until(Rest(todo), "pushing", "blobwant"), [Idle EXCEPT !.todo = Rest(todo)])
    /\ SessionOnly

\* apply, first half: look the clip up and decide.  Nothing holds the store
\* between this and the write it leads to.
RecvPush(l, r) ==
    LET t == table[DeviceOf(l, r)]
        w == work[l][r]
        p == Head(Inbox(l, r)).pushed
    IN
    /\ Receives(l, r, "push", "Push")
    /\ w.todo # EmptyList
    /\ \E found \in Lookups(t) :
         LET i == found[p.clip.hash]
             action == Merge(IF i = None THEN None ELSE t[i], p.clip)
         IN  CASE action = "Insert" -> Goto(l, r, "insert", [w EXCEPT !.pushed = p])
               [] action = "UpdateMetadata" ->
                      Goto(l, r, "pin", [w EXCEPT !.pushed = p, !.target = i])
               [] action = "Ignore" -> Goto(l, r, "push", [w EXCEPT !.todo = Rest(@)])
    /\ Exchange(l, r, <<>>)
    /\ SessionOnly

\* The end's variables once the clip at the head of todo has been applied.
AppliedNoBlobs(w) ==  \* mutant: the digests are not collected
    [todo |-> Rest(w.todo), missing |-> w.missing, pushed |-> None, target |-> None]
Applied(w) ==
    LET h == w.pushed.clip.hash
    IN  [todo    |-> Rest(w.todo),
         missing |-> [w.missing EXCEPT ![First(w.todo)] = IF h \in BlobHash THEN h ELSE None],
         pushed  |-> None,
         target  |-> None]

\* The link is gone: nothing in flight arrives.
Cut(l) ==
    /\ up' = [up EXCEPT ![l] = FALSE]
    /\ chan' = [chan EXCEPT ![l] = [r \in Role |-> <<>>]]

\* apply, second half, MergeAction::Insert: store.insert, whatever has
\* happened to the table since the lookup.  Its outcome is ignored; its error
\* ends the session.
ApplyInsert(l, r) ==
    LET d == DeviceOf(l, r)
        w == work[l][r]
    IN
    /\ pc[l][r] = "insert"
    /\ ~InsertFails(table[d], w.pushed.id, w.pushed.clip)
    /\ table' = [table EXCEPT ![d] = Insert(@, w.pushed.id, w.pushed.clip)]
    /\ Goto(l, r, "push", Applied(w))
    /\ Disturb(d, {l})
    /\ UNCHANGED <<wall, clock, blobs, up, chan, log, ops, faults>>

ApplyInsertFails(l, r) ==
    LET w == work[l][r] IN
    /\ pc[l][r] = "insert"
    /\ InsertFails(table[DeviceOf(l, r)], w.pushed.id, w.pushed.clip)
    /\ Cut(l)
    /\ Goto(l, r, "idle", Idle)
    /\ quiet' = [quiet EXCEPT ![l] = "no"]
    /\ UNCHANGED <<wall, clock, table, blobs, log, raced, ops, faults>>

\* MergeAction::UpdateMetadata: set_pinned and then, for a tombstone, delete.
\* Each takes the connection mutex by itself.
ApplyPinRestamp(l, r) ==  \* mutant: the write gets a timestamp of our own
    LET d == DeviceOf(l, r)
        w == work[l][r]
        c == w.pushed.clip
    IN
    /\ pc[l][r] = "pin"
    /\ table' = [table EXCEPT ![d] = SetPinned(@, w.target, c.pinned, LocalStamp(d))]
    /\ IF c.deleted THEN Goto(l, r, "tombstone", w) ELSE Goto(l, r, "push", Applied(w))
    /\ Disturb(d, {l})
    /\ UNCHANGED <<wall, clock, blobs, up, chan, log, ops, faults>>
ApplyPin(l, r) ==
    LET d == DeviceOf(l, r)
        w == work[l][r]
        c == w.pushed.clip
    IN
    /\ pc[l][r] = "pin"
    /\ table' = [table EXCEPT ![d] = SetPinned(@, w.target, c.pinned, c.hlc)]
    /\ IF c.deleted THEN Goto(l, r, "tombstone", w) ELSE Goto(l, r, "push", Applied(w))
    /\ Disturb(d, {l})
    /\ UNCHANGED <<wall, clock, blobs, up, chan, log, ops, faults>>

ApplyDelete(l, r) ==
    LET d == DeviceOf(l, r)
        w == work[l][r]
    IN
    /\ pc[l][r] = "tombstone"
    /\ table' = [table EXCEPT ![d] = Delete(@, w.target, w.pushed.clip.hlc)]
    /\ Goto(l, r, "push", Applied(w))
    /\ Disturb(d, {l})
    /\ UNCHANGED <<wall, clock, blobs, up, chan, log, ops, faults>>

\* Every expected clip is in: ask for the blobs of the clips just applied
\* that are not here yet, each once.
WantBlobs(l, r) ==
    LET w == work[l][r]
        needed == {k \in Items(w.missing) :
                      /\ w.missing[k] \notin blobs[DeviceOf(l, r)]
                      /\ \A j \in Items(w.missing) : w.missing[j] = w.missing[k] => k <= j}
        asked == Filter(w.missing, needed)
    IN
    /\ pc[l][r] = "push" /\ w.todo = EmptyList /\ up[l]
    /\ Send(l, r, Want(asked))
    /\ Goto(l, r, "blob", [Idle EXCEPT !.todo = asked])
    /\ SessionOnly

RecvBlobWant(l, r) ==
    /\ Receives(l, r, "blobwant", "Want")
    /\ LET asked == Head(Inbox(l, r)).hashes
       IN  Goto(l, r, Until(asked, "blobs", "ack"), [Idle EXCEPT !.todo = asked])
    /\ Exchange(l, r, <<>>)
    /\ SessionOnly

\* One stream per digest asked for, empty if the blob cannot be read.
SendBlob(l, r) ==
    LET todo == work[l][r].todo
        digest == todo[First(todo)]
    IN
    /\ pc[l][r] = "blobs" /\ up[l]
    /\ Send(l, r, Blob(IF digest \in blobs[DeviceOf(l, r)] THEN digest ELSE None))
    /\ Goto(l, r, Until(Rest(todo), "blobs", "ack"), [Idle EXCEPT !.todo = Rest(todo)])
    /\ SessionOnly

\* A stream whose bytes do not have the digest asked for is discarded.
RecvBlob(l, r) ==
    LET d == DeviceOf(l, r)
        todo == work[l][r].todo
        digest == todo[First(todo)]
    IN
    /\ Receives(l, r, "blob", "Blob")
    /\ todo # EmptyList
    /\ blobs' = [blobs EXCEPT ![d] =
                    IF Head(Inbox(l, r)).bytes = digest THEN @ \cup {digest} ELSE @]
    /\ Goto(l, r, "blob", [Idle EXCEPT !.todo = Rest(todo)])
    /\ Exchange(l, r, <<>>)
    /\ UNCHANGED <<wall, clock, table, quiet, log, raced, ops, faults, up>>

\* The end of take_their_history.  An empty store has no max_hlc and stamps
\* the Ack with clock.now() instead (bounded so that MaxOps local events
\* still have a counter).  The responder then takes its turn to offer; for
\* the dialler this is the end of the session.
Acknowledge(l, r) ==
    LET d == DeviceOf(l, r) IN
    /\ pc[l][r] = "blob" /\ work[l][r].todo = EmptyList /\ up[l]
    /\ clock' = IF Ids(table[d]) = {} /\ clock[d].counter + MaxOps < MaxCounter
                THEN [clock EXCEPT ![d] = Now(@, Physical(d))] ELSE clock
    /\ Send(l, r, Ack)
    /\ Goto(l, r, IF r = "responder" THEN "offer" ELSE "idle", Idle)
    /\ quiet' = IF r = "dialler" /\ quiet[l] = "running"
                THEN [quiet EXCEPT ![l] = "synced"] ELSE quiet
    /\ UNCHANGED <<wall, table, blobs, log, raced, ops, faults, up>>

RecvAck(l, r) ==
    /\ Receives(l, r, "ack", "Ack")
    /\ Exchange(l, r, <<>>)
    /\ Goto(l, r, IF r = "dialler" THEN "summary" ELSE "idle", Idle)
    /\ SessionOnly

------------------------------------------------------------------------------
(* Faults. *)

\* The connection dies.  An end notices at its next send or receive; a write
\* already handed to the store still happens.
Break(l) ==
    /\ up[l] /\ faults < MaxFaults
    /\ Cut(l)
    /\ faults' = faults + 1
    /\ quiet' = [quiet EXCEPT ![l] = "no"]
    /\ UNCHANGED <<wall, clock, table, blobs, pc, work, log, raced, ops>>

Drop(l, r) ==
    /\ ~up[l]
    /\ pc[l][r] \notin {"idle", "insert", "pin", "tombstone"}
    /\ Goto(l, r, "idle", Idle)
    /\ UNCHANGED <<wall, clock, table, blobs, quiet, log, raced, ops, faults, up, chan>>

\* The daemon of d stops and starts again, which takes longer than a
\* millisecond.  The history and the blobs are on disk; sessions and the
\* clock's state are not.
Crash(d) ==
    LET own(l, r) == DeviceOf(l, r) = d
        cut(l) == \E r \in Role : own(l, r)
    IN
    /\ faults < MaxFaults /\ wall < MaxWall
    /\ faults' = faults + 1
    /\ wall' = wall + 1
    /\ clock' = [clock EXCEPT ![d] = NewClock]
    /\ up' = [l \in Link |-> up[l] /\ ~cut(l)]
    /\ chan' = [l \in Link |-> IF cut(l) THEN [r \in Role |-> <<>>] ELSE chan[l]]
    /\ pc' = [l \in Link |-> [r \in Role |-> IF own(l, r) THEN "idle" ELSE pc[l][r]]]
    /\ work' = [l \in Link |-> [r \in Role |-> IF own(l, r) THEN Idle ELSE work[l][r]]]
    /\ quiet' = [l \in Link |-> IF cut(l) THEN "no" ELSE quiet[l]]
    /\ raced' = raced \cup {table[d][i].hash : i \in HalfWritten(d)}
    /\ UNCHANGED <<table, blobs, log, ops>>

------------------------------------------------------------------------------
LocalStep(d) ==
    \/ \E h \in Hash : Capture(d, h)
    \/ \E i \in Id, pinned \in BOOLEAN : PinClip(d, i, pinned)
    \/ \E i \in Id : DeleteClip(d, i)

EndStep(l, r) ==
    \/ RecvHello(l, r)
    \/ Offer(l, r)
    \/ RecvSummary(l, r)
    \/ RecvWant(l, r)
    \/ SendPush(l, r)
    \/ RecvPush(l, r)
    \/ ApplyInsert(l, r)
    \/ ApplyInsertFails(l, r)
    \/ ApplyPin(l, r)
    \/ ApplyDelete(l, r)
    \/ WantBlobs(l, r)
    \/ RecvBlobWant(l, r)
    \/ SendBlob(l, r)
    \/ RecvBlob(l, r)
    \/ Acknowledge(l, r)
    \/ RecvAck(l, r)
    \/ Drop(l, r)

Next ==
    \/ \E d \in Device : LocalStep(d) \/ Crash(d)
    \/ \E l \in Link : Dial(l) \/ Break(l)
    \/ \E l \in Link, r \in Role : EndStep(l, r)
    \/ TimePasses

Spec == Init /\ [][Next]_vars

\* No session runs.
Calm == \A l \in Link, r \in Role : pc[l][r] = "idle"

\* What the runtime owes: every session that can take a step takes it, and
\* the dial loop, which never stops ticking, dials an idle peer again.
FairSpec ==
    /\ Spec
    /\ \A l \in Link, r \in Role : WF_vars(EndStep(l, r))
    /\ \A l \in Link : WF_vars(Dial(l))

------------------------------------------------------------------------------
(* Properties. *)

\* An end's local variables fit its position: an end that is sending has
\* something to send; one that is applying a clip holds that clip and still
\* counts it in todo; and if it is updating, the row it found is a row.
Fits(at, w, t) ==
    /\ w.todo \in IF at = "pushing" THEN List(Pushed) ELSE List(Hash)
    /\ at \in {"pushing", "blobs"} \cup Applying => w.todo # EmptyList
    /\ at \in Applying => w.pushed \in Pushed
    /\ at \in {"pin", "tombstone"} => w.target \in Ids(t)

\* Type invariant.
TypeOK ==
    /\ wall \in Nat /\ ops \in Nat /\ faults \in Nat
    /\ clock \in [Device -> ClockState]
    /\ table \in [Device -> Table]
    /\ blobs \in [Device -> SUBSET Hash]
    /\ up \in [Link -> BOOLEAN]
    /\ chan \in [Link -> [Role -> Seq(Message)]]
    /\ pc \in [Link -> [Role -> PC]]
    /\ work \in [Link -> [Role -> Work]]
    /\ quiet \in [Link -> {"no", "running", "synced"}]
    /\ log \subseteq Row /\ raced \subseteq Hash
    /\ \A l \in Link, r \in Role :
         Fits(pc[l][r], work[l][r], table[DeviceOf(l, r)])

\* Store::insert's promise: deduplication leaves at most one live row for a
\* content hash on a device, whoever writes and however their lookups and
\* writes interleave.
OneLiveRow ==
    \A d \in Device, h \in Hash : \A i, j \in LiveWithHash(table[d], h) : i = j

\* Strict alternation (run_session, docs/sync-protocol.md section 5): the two
\* directions of an open link never both hold messages, so neither end can be
\* blocked writing while the other is.
OneTalker ==
    \A l \in Link : \E r \in Role : chan[l][r] = <<>>

\* Two daemons never put each other in a state where a message is not the
\* one its reader asks for, or where both wait for a message that nobody
\* sends: the number of pushes and blob streams is the number expected.
Ready(l, r) ==
    \/ pc[l][r] \in Sending \cup Applying
    \/ pc[l][r] \in {"push", "blob"} /\ work[l][r].todo = EmptyList
    \/ Inbox(l, r) # <<>>
NeverStuck ==
    \A l \in Link : up[l] =>
        /\ \A r \in Role : Inbox(l, r) # <<>> =>
              \/ pc[l][r] \in Applying /\ Head(Inbox(l, r)).type = "Push"
              \/ /\ pc[l][r] \in DOMAIN Awaits
                 /\ Head(Inbox(l, r)).type = Awaits[pc[l][r]]
                 /\ pc[l][r] \in {"push", "blob"} => work[l][r].todo # EmptyList
        /\ (\A r \in Role : pc[l][r] = "idle") \/ (\E r \in Role : Ready(l, r))

\* A session that ran to its end while nobody else wrote to either history,
\* and nothing written since, leaves both devices knowing the same hashes;
\* and where by_hash has only one row to return on each, those two rows carry
\* the same timestamp, so that a further session has nothing left to do.
Unambiguous(d, h) == \A i, j \in ByHash(table[d], h) : i = j
CleanSessionAgrees ==
    \A l \in Link : quiet[l] = "synced" =>
        LET a == Dialler[l]
            b == Responder[l]
        IN  /\ Hashes(table[a]) = Hashes(table[b])
            /\ \A h \in Hash : Unambiguous(a, h) /\ Unambiguous(b, h) =>
                 \A i \in ByHash(table[a], h), j \in ByHash(table[b], h) :
                     table[a][i].hlc = table[b][j].hlc

\* Nothing but a user's operation makes a timestamp: the timestamp of every
\* row on every device was given to that content by some user, however the
\* row got there.
Provenance ==
    \A d \in Device : \A i \in Ids(table[d]) :
        \E e \in log : e.hash = table[d][i].hash /\ e.hlc = table[d][i].hlc

\* Last writer wins: a row that carries the timestamp of a user's operation
\* carries the pin that operation left, and if the operation deleted it is
\* deleted; on whatever device, through however many sessions, faults and
\* restarts.  Two things excepted: a row between set_pinned and delete, and
\* contents that raced, which a second task of some device wrote, or read half
\* written, between a session's lookup and its last write, or a restart left
\* half written.  (Not the converse: see UndeleteReplicates.)
StampMeansState ==
    \A d \in Device : \A i \in Ids(table[d]) \ HalfWritten(d) :
        table[d][i].hash \notin raced =>
            \A e \in log : e.hash = table[d][i].hash /\ e.hlc = table[d][i].hlc =>
                /\ e.pinned = table[d][i].pinned
                /\ e.deleted => table[d][i].deleted

\* "The later HLC has to win in both directions or the clip would be permanently
\* stuck deleted" (the comment of merge.rs's an_undelete_replicates_too): once
\* a session has brought two histories together, the two rows of a content
\* carry one timestamp and agree on whether it is deleted.
UndeleteReplicates ==
    \A l \in Link : quiet[l] = "synced" =>
        LET a == Dialler[l]
            b == Responder[l]
        IN  \A h \in Hash : Unambiguous(a, h) /\ Unambiguous(b, h) =>
              \A i \in ByHash(table[a], h), j \in ByHash(table[b], h) :
                  table[a][i].hlc = table[b][j].hlc
                    => table[a][i].deleted = table[b][j].deleted

\* With no fault so far, no session under way and room for every blob, a
\* device that knows a clip holds its payload.
BlobsFollowRows ==
    faults = 0 /\ Calm /\ Cardinality(BlobHash) <= Quota =>
        \A d \in Device : Hashes(table[d]) \cap BlobHash \subseteq blobs[d]

\* Every session ends, whatever breaks and whatever users do meanwhile.
SessionsEnd ==
    \A l \in Link, r \in Role : pc[l][r] # "idle" ~> pc[l][r] = "idle"

\* Every clip reaches every device, at least as a row.
Delivered ==
    \A h \in Hash, d, e \in Device : h \in Hashes(table[d]) ~> h \in Hashes(table[e])
==============================================================================
