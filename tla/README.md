# Clipse: specifications and proofs

Clipse keeps a clipboard history on each of a user's machines and replicates it
between them, peer to peer. This directory holds TLA+ modules that model its
daemon (`clipsed` and the crates it is built from) and the desktop app's side of
it, TLC configurations that check them on small instances, and TLAPS proofs of the
properties that matter most.

Every definition that models code is listed with its source lines in
`PROJECT.json` under `map`; line numbers in this file are of the same commit.

## The system

| Part | Source | State it keeps | Operations |
|---|---|---|---|
| Hybrid logical clock | `clipse-core/src/hlc.rs` | `(wall_ms, counter)` under a mutex, in memory only | `now`, `observe` |
| History table | `clipse-store/src/store.rs` | SQLite tables `clip`, `payload`, `clip_fts`; one connection under a mutex | `insert`, `by_hash*`, `set_pinned`, `delete`, `changes_since`, `max_hlc`, `purge_tombstones` |
| Blob store | `clipse-store/src/blob.rs` | content-addressed files, table `blob_meta`, LRU sequence | `put_blob`, `read_blob`, `enforce_blob_quota` |
| Merge rules | `clipse-sync/src/merge.rs` | none | `merge` |
| Sync session | `clipsed/src/sync.rs`, `clipse-sync/src/message.rs` | local variables of `run_session` | Hello, two turns of Summary / Want / Push / blobs / Ack |
| Links | `clipse-net/src/quic.rs`, `framing.rs`, `clipse-crypto/src/session.rs` | one QUIC connection, one Noise session | `send`, `recv`, `send_blob`, `recv_blob`, `close`, `close_gracefully` |
| Peer manager | `clipsed/src/peers.rs`, `clipse-net/src/candidate.rs`, `transport.rs`, `discovery.rs`, `mdns.rs`, `tailnet.rs` | per peer: candidates, backoff, refused, last contact | accept loop, dial loop, discovery, nudge, settle |
| Pairing | `clipsed/src/pairing.rs`, `clipse-crypto/src/pairing.rs`, `daemon.rs`, `peers.rs` | the offer or the answer in progress, attempts, expiry | begin, answer, cancel, the ceremony, commit |
| Trust | `clipse-crypto/src/rotation.rs`, `identity.rs`, `clipsed/src/identity.rs` | peers and the trust epoch, on disk | `add_peer`, `remove_peer`, `authorize_*` |
| Clipboards | `clipse-clipboard/src/watch.rs`, `own_write_guard.rs`, `sensitive/`, `platform/*` | the watch thread, the last own write, a bounded channel | poll, classify, deliver, write |
| Capture loop | `clipsed/src/capture.rs` | the paused flag | `store_capture` |
| Loop guard | `clipse-sync/src/loop_guard.rs` | hashes received recently | `record_received`, `verdict`, `prune` |
| Requests and events | `clipsed/src/daemon.rs`, `ipc_server.rs`, `clipse-ipc` | settings, subscribers, a broadcast buffer of 256 events | `handle`, `emit`, `sync_soon` |
| Desktop app | `apps/clipse-app` | a command connection behind a mutex, an event connection, the tray, the hotkey, a copy of the history | reconnect, fetch, patch, commands |
| Notch panel | `apps/clipse-notch` | the same, in Swift | rendering |
| Startup | `clipsed/src/lib.rs`, `config.rs`, `clipse-ipc/src/transport.rs` | files, the socket | load, bind, shut down |

How they interact. The watcher thread delivers captures over a bounded channel to
the capture loop, which stamps each with the clock, writes its blobs and its row,
enforces the quota, publishes an event and nudges the dial loop. Requests from a
UI stamp and write the same tables from other tasks. The dial loop opens a link to
every reachable peer; the accept loop serves the links others open; each link runs
one `run_session` at each end. Sessions read and write the same store, off the
async runtime and one statement at a time, so anything may happen between a
session's lookup and its write. The newest clip a session brought is written to the
clipboard, where the watcher sees it again. Every task tells a broadcast channel what
it changed after it changed it; the app patches a list it fetched once with what it
is told.

What is hard here: writers of one table that only lock per statement; decisions
taken on rows read in an earlier step; links that break and daemons that restart in
the middle of a session whose steps are not undone; clocks that disagree; two
sessions at once between the same two devices; shared temporary files; a quota
that runs beside transfers; a ceremony and its user racing a timeout; a peer table
beside a trust set, each with its lock; addresses that come to belong to others;
streams without an order among them under one nonce counter; an echo of one's own
write that may be read before the guard is armed; events that are overtaken or
dropped on their way to a list.

What makes each part correct:

- clock: timestamps increase, come after what was heard, and are not pulled far ahead;
- history: one live row per content, every timestamp is a user's and stands for the
  state it was given to;
- blobs: what is at a blob's path is whole unless two tasks stored it at once,
  bookkeeping and files agree but for crashes, pinned blobs stay;
- sessions: one side talks at a time, nobody waits for a message that is not coming,
  an undisturbed session leaves the two histories in agreement, every clip arrives;
- pairing: a device enters the trust set only through digits a user typed, a code
  pairs once, what the user was told is kept, both sides end up alike;
- peers: an address that works is not lost, the loops know the devices in the trust
  set, an epoch tells the sessions of forgotten devices, a peer that can be reached is;
- links: a conversation arrives in order or is known to be cut, both ends hang up,
  the last word is heard;
- clipboards: nothing private is stored whose mark was seen, the last copy is, echoes
  die out;
- app: what the window and the tray show is true once things are quiet, or there is a
    known reason; the stream comes back; no call hangs unless its answer cannot be
  written.

## Modules

| Module | Models | Role |
|---|---|---|
| `HLC` | the order of timestamps, `now`, `observe` | operators |
| `HlcClock` | one `HlcClock` shared by tasks | state machine |
| `ClipStore` | the `clip` table and the statements on it, `merge` | operators |
| `SyncSession` | devices, users, links and sessions | state machine, composes `HLC` and `ClipStore` |
| `BlobStore` | blob files, `blob_meta`, the quota | state machine |
| `Pairing` | offers, attempts, the ceremony between daemons, the trust set | state machine |
| `Candidates` | the addresses known of a peer | operators |
| `Peers` | the peer table, the dial and accept loops, the trust set and its epoch | state machine, uses `Candidates` |
| `Channel` | what a session expects of a link | abstract specification |
| `Link` | frames, streams, nonces and hanging up | state machine, implements `Channel` |
| `Clipboards` | watchers, guards, capture loops and clipboard writes of several devices | state machine |
| `Ui` | the daemon's events, the IPC connections and the app | state machine |
| `MCHlc`, `MCSync`, `MCBlob`, `MCPairing`, `MCPeers`, `MCLink`, `MCClipboards`, `MCUi` | small instances for TLC | |
| `HlcProofs`, `SyncProofs`, `PairingProofs`, `PeersProofs`, `ClipboardsProofs`, `LinkProofs`, `BlobProofs`, `UiProofs` | theorems | proofs |

### HlcClock

`physical` is what the system clock would read and may be set to anything;
`state` is the mutex's contents. A call is two steps, because both `now` and
`observe` read the wall clock before they lock: `Begin` takes the reading,
`NowCall` or `ObserveCall` does the rest. `Restart` is a new clock, since
`lib.rs:132` seeds it with nothing. The daemon never calls `observe`; it is modelled
because it is what the crate promises.

### SyncSession

The state of a device is its clock, its table and the set of blobs it holds
(`BlobStore` is the detailed model of the last). Users act through `Capture`,
`PinClip` and `DeleteClip`, each of which stamps and writes. In the code a stamp
and its write are two steps with an await between; here they are one, so that the
log of operations is in timestamp order, and `BlobStore` has the steps of a
capture. A link has two ends; `pc[l][r]` is what end `r` does next and `work[l][r]`
its local variables. One message is one step, with two exceptions: the pages of a
summary carry one snapshot and are one message, and the lookups that one
`spawn_blocking` makes for a whole list are one step. `apply` is split where it
awaits: `RecvPush` looks up and decides, `ApplyInsert`, `ApplyPin` and
`ApplyDelete` write, and `set_pinned` and `delete` of one tombstone are two steps
because they are two commits. Blob streams are messages of type `Blob`; an
unreadable blob is an empty stream, which the receiver discards.

`Break` cuts a link at any moment, `Crash` restarts a daemon. `Drop` is an end
noticing. A list of the code is a function on positions in which a blank position
is skipped; the bound on its length is the number of rows there can be.

`log`, `quiet` and `raced` are history variables: every row value a user's operation
wrote; which links have run a session that nobody disturbed; and the contents that a
second task of a device wrote, or read half written, while a session was between its
lookup and its last write (`InHand`), or that a restart left half written
(`HalfWritten`).

### BlobStore

A digest has a path and a temporary path, each naming a file or nothing; a writer
keeps the file it opened whatever its name becomes. `put_blob` is `Check`, `Open`,
`Write`, `Rename`, `Record`; only `Record` takes the mutex. `enforce_blob_quota`
holds it from `EnforceQuota` to the last `ForgetBlob`, but is not a transaction, so
a `Crash` may fall between `RemoveFile` and `ForgetBlob`; `evict` holds the candidates
its loop has not come to, `Oldest` is the next of them. All blobs have size one. Files are
drawn from a set larger than what names and tasks can refer to at once, so that there is
always a new one. Nothing keeps two tasks from storing one digest: they then share the
temporary name and may have one file open, `Open` truncates what the other has written,
and `Write` may leave the file incomplete while the other has still to write it. Two
history variables say where that matters: `shared`, the files written while another
task stored the same digest, and `late`, the digests whose record was made when the
quota had already removed the file again.

### Pairing

`state[d]` is a device's one `PairingState`: idle, offering a code, proving one
attempt, or answering. `call[q]` is an attempt, the body of one `pair_with_code`;
`conn[q][n]` is the task that serves its `n`-th connection at the other device and
may outlive the attempt, since each end notices the other's departure in its own
time. The mutex around `PairingState` is held for one message, so one message is one
step: `ServeLookup`, `ServeAccept`, `ServeFinish` on the offering device, `Ask`,
`FromOffer`, `Verify` on the typing one. `CallEnds` is a reply that says no or never
comes, and `AfterFailure` where that leaves the attempt. Every device has its own
clock, so `late[d]` is the offers that have expired for `d`; only a device that
uses an offer looks.

A MAC is modelled by what it covers: an offer stands for its nonce, its device and
its digits, an attempt for the nonce and the identity it sent, and a check of one is
an equality. `finish` and the commit after it are one step, as are `cancel` and
the commit at the end of `pair_with_code`, and `reload_from_trust` is part of the
save. A save replaces the whole file or fails. `shown` is what the user was told.
`upsets` counts, and bounds, interruptions: cancelling, a forgotten device, a
stalled or broken connection, a failed save, a restart. `crossed` is a history
variable: `answer_accept` takes whatever the state is, so an accept that arrives
late can consume another ceremony.

### Candidates and Peers

A candidate list is a sequence without two entries of one address; `Upsert`,
`RefreshLan`, `PruneLan` and the dial order are those of `CandidateList`. Positions
matter because the sorts are stable.

`Peers` is one daemon. `trust`, `epoch` and `saved` are the trust set and its file,
`table` the peer table, `dial` the dial loop with the pass and the dial it is in,
`inbound` the connections of the accept loop. The other devices are the environment:
`answers` says who is at an address, which `Move` changes, and `trustsUs` who would let us in. A sweep of the network updates every peer it found (`Sweep`). A change
of the trust set is three steps: the set and its file under one
lock (`ChangeTrust`, whose save may fail, in which case the task returns there), the
copy (`ReadTrust`), the table (`Reload`). A dial walks the copy of the candidates it
took (`Connect`), and whoever accepts the connection ends the walk, peer or not
(`StartHandshake`, `FinishHandshake`); a reply that is no peer's may time out or be
rejected, and a rejection marks the peer refused. A session is one step. `accept_one` runs in
the loop, so `accepting` is the one connection whose first frame is awaited. The
backoff counts failures but nothing waits for it, as in the code. `worked` and `met`
are history variables: where a peer was last reached, and who has been reached since
the last copy.

### Link and Channel

`Link` is one `PeerLink` seen by both ends. The session above is a `script`, a list of
who says what, so the module is about what the link does with any conversation. A
message is frames on the main stream, all sealed before the first is written; a blob
is frames on a stream of its own, sealed one by one. `sealed` and `opened` are the
nonce counters of a direction, shared by all its streams; `count` is
`messages_since_rekey`, which counts both directions. QUIC is external: order within a
stream, streams accepted in the order they were opened, and when an end closes, any
prefix of what it wrote may still arrive (`CloseKeeping`). `Break` is the network.

`Channel` is the promise: items are said one after the other, the other end answers
only when it has heard everything, and each is heard once, in order and whole, until
the connection is lost; of a blob that was cut the listener knows it. `Link` implements
it with `lost` as the closed connection (`ImplementsChannel`); that a blob cut short is
recognised is the digest's merit, since `recv_blob` cannot tell.

### Clipboards

Several devices, each on a platform. A content is a set of payloads and stands for its
hash. `ReadBack` is what a backend reads of a content and `WriteTo` what is on the
clipboard after it wrote one: formats that are cut, dropped or relabelled are why an
echo may not have the hash that was recorded. `notes` is what tells the watch thread
of a change: a notification for each (Windows, X11), a change count (macOS), nothing at
all (Wayland, where every tick reads the clipboard and compares what it found). Windows
reads mark and content while it has the clipboard open (`Look`). The others ask for the
mark (`LookAtMark`) and then for one format after the other (`Load`, in `ReadOrder`), each
answered from what is on the clipboard by then; `LoadEnds` puts the poll together. The
request for the mark may fail, which X11 and Wayland take for a clipboard without one
(`HintFails`), and so may the request for a format (`LoadFails`). So there are two ways for
a concealed copy to be read, and the history variable `shown` counts its bytes as shown in
both: where `HintFails`, and what a copy brings of the formats that the thread is still to
ask for (`Copy`). Then `Classify` and `Deliver`. `guard` is the hash that waits
for its echo, `TtlPasses` its end at any time. The capture loop is `Receive` and
`StoreCapture`; `Daemon::apply` is `Write` (or `WriteRest`, when a blob is gone) and
`RecordWrite`, because the guard is told after the clipboard has changed. A session is
one step, `Receives`, followed by `apply` of one of the rows it brought. On macOS a write
waits for a poll to end (`MayWrite`, the pasteboard lock). The loop guard
(`loop_guard.rs`) is not there: the daemon never asks it.

### Ui

A task of the daemon writes and then works off its steps: read again, tell, look at
the status, report it, answer. `queue` is the receiver of the one subscribed
connection, which loses the oldest beyond `Buffer`. The app is `phase` (where
`run_loop` is), the client behind its mutex (`current`, `waiting`), the tray and the
registered hotkey; the webview is `list` and the handlers of its `inbox`, of which
`heard` says which kinds of event they listen to by now: the listeners are registered
asynchronously (`Listen`), and what the app emits before goes nowhere (`Show`). `alive` is
the command connection by itself. An answer that exceeds the frame limit does not end it:
`serve_connection` returns with the error, but the task that reads the other half of the
socket goes on, so the app's call stays `unanswered`, with the mutex, until the daemon
stops. A call made by the list is superseded by the next (`mine`).
`crossed`, `listDoubt` and `statusDoubt` are history variables for what the properties
except; an addition sent after crossed events does not take the clip out of `crossed`,
because the webview ignores an addition of a clip that it has.

## Runs

All passing runs explore their state space completely.

| Run | Checks | Bounds |
|---|---|---|
| `sync_live` | `TypeOK`, `OneTalker`, `Provenance`, `BlobsFollowRows`, `SessionsEnd`, `Delivered` | 2 devices whose clocks are one apart, 1 link, 1 large clip, 2 rows, 3 operations, 1 fault, fairness |
| `sync_concurrent` | `NeverStuck`, `OneLiveRow`, `CleanSessionAgrees`, `StampMeansState` | 2 links at once, 1 large clip that is always evicted, 2 operations |
| `sync_undelete` | `UndeleteReplicates`, violated, below | 1 link, 3 operations |
| `hlc` | `TypeOK`, `AfterHeard`, `NotPoisoned`, `StampsIncrease` | 2 tasks, counter of 0..2, wall clock jumping both ways |
| `blob` | `WholeAtPath`, `GhostsAreCrashes`, `LeaksAreCrashes`, `PinnedBlobsStay` | 2 digests, a capture loop and 2 sessions, quota 1, 4 writes, 1 crash |
| `pairing` | `TypeOK`, `Consent`, `OneCeremony`, `Durable`, `Mutual` | 3 devices, 2 offers, 2 attempts of 1 connection each, 2 codes, 2 wrong lookups, 1 interruption; symmetric in devices, attempts, offers and codes |
| `peers` | `WorkingAddressKept`, `StampMeansTrusted`, `PeersReached` | 1 peer, 1 stranger, 2 addresses of which 1 on the tailnet, 1 task that pairs or forgets, 1 inbound connection, 1 LAN address kept, 1 change of the environment or the set, 2 readings of the clock, fairness |
| `peers_two_tasks` | `TableFollowsTrust`, violated, below | as `peers`, with 2 tasks that pair or forget |
| `clipboards` | `NothingPrivateStored`, `OneEchoPerWrite`, `LastCopyStored`, `EchoesDieOut` | a Windows device beside one on each other platform, 3 formats, 2 copies or requests of stored clips (a page, a secret and a huge payload are copied on Windows, text with an image and a marked password beside it), channel of 1, 2 notifications, 1 failure, pause or stop, fairness |
| `link` | `NoncesAgree`, `LimitMeetsTheSpeaker`, `LastWordHeard`, `ImplementsChannel`, `BothEnd` | 3 items of 0 to 2 frames in any mix and a last word, keys for 5 frames, 1 break, fairness |
| `ui` | `ListTellsTheHistory`, `TrayTellsTheStatus`, `AppRecovers` | 1 clip, buffer of 1, 2 changes or commands, 1 retry, 1 stop, any page too large, any listener late, fairness |
| `ui_hotkey` | `HotkeyFollowsSettings`, violated, below | 1 command |

Why the bounds are enough for the interesting cases: two devices and three
operations give a copy, a deletion and a second copy of the same content on either
side, which is what two rows of one hash, an ambiguous lookup, a lost update and an
unrevivable tombstone need; two links give two sessions whose lookups and writes
interleave and race for one content; a quota below the number of blobs gives evictions during transfers; one
fault at any of some hundred points of a session gives every partial session. The
counter's width is small so that it fills up. Three devices and two attempts let a
ceremony be crossed by another of either direction, with the same digits by chance.
One peer at a time is dialled and the entries of the table are independent, so one
peer and a stranger show what an address or a pass can do to it; keeping one LAN
address makes every sighting a pruning. Keys for five frames run out in the middle of
a message, of a blob and between them. A channel and an event buffer of one are full
at once. One clip is enough for the list because patches touch one entry and a page
replaces all.
The theorems have no bounds.

Four runs may come to rest, so deadlock is not checked there: in `pairing` offers and
attempts are used up, in `link` both ends hang up, in `clipboards` applications stop
copying, and in `ui` users stop. Their liveness properties say how they come to rest.
Every other passing run checks for deadlock.

### Where the code does not do what a comment or a document says

- `sync_undelete` (`UndeleteReplicates`): a clip is deleted on both devices and copied
  again on one, which makes a new row there with a newer timestamp. `apply` writes that
  timestamp onto the other's tombstone and leaves it deleted (`sync.rs:462-479`), so the
  two rows carry one timestamp, no later session has anything to do, and the clip stays
  deleted there. `merge.rs:134-139` says that "the later HLC has to win in both directions
  or the clip would be permanently stuck deleted", and `docs/sync-protocol.md:135-137` that
  `deleted` takes the value from the higher HLC.
- `peers_two_tasks` (`TableFollowsTrust`): `reload_from_trust` copies the trust set and
  takes the lock of the table afterwards (`peers.rs:258-266`). Two tasks that pair or
  forget, one of them the accept loop's or each an IPC handler's, may apply their copies in
  the other order; the table then lists a forgotten device or misses a paired one until the
  next change. `peers.rs:255-256` says the table is rebuilt "whenever pairing adds or
  removes a device".
- `ui_hotkey` (`HotkeyFollowsSettings`): the daemon answers a settings update with `Ok`
  (`daemon.rs:687`), the app accepts only `Settings` (`commands.rs:262-282`): every save
  that worked is shown as an error, and the hotkey (and the login item) of before stays.
  `hotkey.rs:1-2` says it is registered again "whenever settings change".

Met while modelling, without a run of their own. In the sync session and the stores:

- `apply` commits a tombstone's timestamp with `set_pinned` before it commits the
  deletion; a restart between them loses the deletion for good, because nothing is
  newer any more (`sync.rs:467`);
- the write after `merge` does not compare again, so an operation between the lookup
  and the write is undone (`sync.rs:442`);
- two sessions of one device that both find a hash unknown insert it one after the
  other; the second only moves the row's timestamp (`store.rs:195-220`), so the row has
  the timestamp of one operation with the pin of another, and being as new as that operation's own row it stays so (`sync.rs:442`). TLC shows it with three devices, the
  third at two links. `StampMeansState` excepts contents that raced in one of these ways;
- the daemon never calls `observe`, so a device whose clock is behind stamps its own
  change of a received clip older than the clip (`hlc.rs:5-6`);
- blobs are asked for only in the session that brought the row; `sync.rs:403` says the
  next session asks again. A device that offers a row to one peer while it still waits for
  its payload from another sends an empty stream (`sync.rs:275`), so the third device keeps
  a row without a payload though nothing failed. TLC shows it with three devices in a
  chain; `BlobsFollowRows` is checked with two;
- the temporary name of a blob depends on the digest alone; two tasks storing the same
  payload can publish a truncated file (`blob.rs:49-51`), which is whole again when the
  other has written, unless the daemon crashes first. `WholeAtPath` says that nothing else
  leaves an incomplete file;
- `put_blob` looks for the file, or renames it, before it takes the mutex for the record
  (`blob.rs:48`, `:57`); if the quota removes file and record in between, the record it then
  makes is of no file, and the quota counts it. `GhostsAreCrashes` tells these from the
  ghosts of a crash;
- the quota is not enforced after a session's writes (`capture.rs:85-87` names writes
  as the reason to enforce it);
- after a restart with the wall clock set back `now` repeats timestamps
  (`hlc.rs:99-100`);
- a connection that breaks after the accept leaves the offering device proving, a
  state nothing but the user's cancel, another message or a restart ends
  (`peers.rs:462`, where only the timeout cancels);
- pairing may be one-sided: the typing device commits when it has verified the proof,
  whether or not `finish` was answered, and a second accept may have replaced what the
  offering device would have matched it with. `Mutual` names the exceptions.

In the peer manager and the links:

- the delay of the backoff is computed and logged, and nothing waits for it
  (`peers.rs:423`);
- a dial ends at the first address that accepts a connection, although another device
  may hold it by now and the working address is behind it (`quic.rs:262`);
- a peer without candidates is marked refused, and being seen on the network does not
  clear that (`peers.rs:229` resets the backoff only);
- an address on the tailnet that worked is kept as a LAN address (`peers.rs:624`);
- nothing calls `authorize_session`, so a session with a device that is forgotten runs
  to its end (`daemon.rs:443` says the epoch stops it); `StampMeansTrusted` shows that
  the check would tell;
- nothing calls `rekey`, so a session of more than 10,000 frames or 64 MiB fails.

At the clipboard and in the app:

- the guard records the hash of all representations while X11 and Wayland write one, so
  the echo re-enters as a clip of its own; the loop guard that `daemon.rs:157` relies
  on is never asked. `EchoesDieOut` shows that this ends;
- a concealed copy is captured if its mark is missed. On X11 and Wayland the request for
  the hint may fail or be late, which reads as a clipboard without one (`linux.rs:285`,
  `:531-538`); there and on macOS a concealed copy may arrive after that request, in the
  formats that are asked for next. `macos.rs:131-132` ("never holding a password manager's
  content in memory at all") and `linux.rs:290-291` ("never fetched into our address space
  at all") hold only otherwise; `NothingPrivateStored` names both ways in and shows that
  there is no third;
- on macOS a copy is dropped when a blocked application comes to the front before the
  poll (`macos.rs:170`);
- the UI that fell behind is logged and not told (`ipc_server.rs:19-21`, `:130`);
- a page that was asked for before an event and arrives after it undoes the event
  (`use-clip-history.ts:96`);
- two tasks that write one clip may tell of it in the other order, and an addition told
  of after them does not put the list right, because the webview ignores an addition of
  a clip that it has (`use-clip-history.ts:167`);
- two first starts at once may leave `config.toml` and `identity.json` of different
  devices, and two daemons may both remove the socket (`lib.rs:83`, `transport.rs:128`);
- an answer over the frame limit hangs the app. `serve_connection` returns with
  `write_frame`'s error (`ipc_server.rs:125`) before it aborts its reader task (`:138`),
  which keeps its half of the socket; the app is told nothing, `Client::call` has no timeout
  (`client.rs:58-66`), and the call keeps the mutex (`commands.rs:47-51`) that every command
  and the reconnect need, until the daemon stops. A page of 150 clips with inline payloads
  may be that large, though `codec.rs:11-13` calls the limit generous; `AppRecovers` names
  the case;
- what the app emits before the webview has registered its listeners goes nowhere. The
  comment at `use-clip-history.ts:128-130` says so of the connected event, for which a
  retry makes up; a clip event lost so is missing until the next fetch;
- `forget_device` emits no `DeviceChanged`, so the tray keeps the device.

## Fairness

Nothing is assumed of users, faults or time. Faults are bounded in every behaviour,
which is what "eventually" needs: a network that breaks every session delivers nothing.

- `SyncSession`: weak fairness of every end's steps (the runtime polls every task, and
  an end that can receive, send or write is never blocked for good) and of `Dial`
  (`dial_loop` ticks forever and dials a peer it has no session with).
- `Peers`: the dial loop takes a step when it can, its tick among them, and so do tasks
  that changed the trust set. A peer is not owed an advertisement, nor the accept loop
  a first frame.
- `Link`: each end's task takes a step when it can; QUIC delivers until the connection
  is gone.
- `Clipboards`: every watch thread gets on, being a thread of its own; the Wayland one
  polls for ever. Of the capture loops, tasks and sessions that have something to do, one
  gets on, which is the least one can ask and enough because nothing of them repeats for
  ever.
- `Ui`: the daemon's tasks, the app's loop, the calls (tokio's mutex is first come, first
  served) and the webview's handlers, not the registration of its listeners; and someone starts a daemon that is not running
  (the app does, or the login item).

## Proofs

`HlcProofs`, for every set of tasks, every counter width and any remote timestamps:
`ClockType`, `ClockNotPoisoned`, `ClockAfterHeard`, `ClockIncreases`. The inductive
invariant says that the last timestamp handed out is the state's, that every
reading under way is covered by the latest one, and that the state is past
everything heard. It rests on lemmas on what `Now` and `Observe` return and on
`Newer` being transitive.

`SyncProofs`, for every number of devices, links, rows and hashes:
`TypeInvariant`, whose invariant includes `Fits`, the relation between an end's
position and its local variables (without it neither `First(todo)` nor the row an
update is about to write is known to exist); and `Deduplicated`. The lemmas say what the lists of the model and each statement of the store
preserve; `FirstItem`, that a non-empty list has a first position, uses that
naturals are well-founded.

Then `ProvenanceHolds`, by the invariant `Origin`, which extends
`Provenance` from rows to everything that may become a row: clips that are waiting
to be sent, in flight, or held between a lookup and a write.

`LastWriterWins` (`StampMeansState`) is about any devices and links, users and other
sessions at any moment, faults and restarts; it assumes only that the counter is as wide as
the operations are many, since a full counter repeats timestamps. What it excepts is in the
property: contents that raced, and a row between `set_pinned` and `delete`. `Clocks` says
that a device's clock is past every timestamp it gave, so a new one means nothing yet, and
`Meaning` that rows, clips to be sent, clips in flight and clips being applied all mean what
the operations with their timestamp left. An end between its lookup and its writes finds
the table as it looked it up, or the content is in `raced` (`EndMeant`). TLC checked both
on an instance of `sync_concurrent` before they were proved.

`StrictAlternation` (`OneTalker`) and `NothingStuck` (`NeverStuck`) are about the
conversation, not the history. The invariant `Alternation` says that an open link is
greeting, over, or in a `Turn` of one of its ends: how many answers the offering end has
taken (`Got`) and the taking end has sent (`Said`) fix the messages on their way, and the
pushes or blobs still expected are those on their way and those still to be sent
(`Pushes`, `Blobs`). The counts agree because an offering end still has every clip it is
asked for: it was asked only for what it offered (`KnownHashes`), and tables never forget
a hash (`Aged`), though users write to them all the while. One lemma per step of a turn
(`TurnOffer` ... `TurnAck`) speaks of two positions, two counts and two channels only; the
lemmas on the actions (`OfferTalks` ... `DialTalks`) supply them. TLC checked `Alternation`
on an instance with one link before it was proved.

`SessionsAgree` (`CleanSessionAgrees`) is about the histories a session leaves behind; any
number of other links may be busy, and whoever else writes to one of its two histories ends
its claim. `Quietly` says of a session that is still undisturbed: a row under way is as its
sender's table has it (`MessagesCurrent`, `EndCurrent`), and of every content its peer has,
the end that takes has a row no older than its peer's (`Latest`), or the content is still
asked for, under way or being written (`Taken`, `Pending`). So the responder, once it has
taken, covers the dialler's history (`Covered`), and it still does while the dialler takes,
because all that the dialler writes are rows of the responder's (`WrittenLatest`). An end
writes only when nothing it said before is still on its way to its peer, which `Alternation`
gives; so no summary is outdated by a write (`WriteQuietly`). A tombstone written in two
halves needs `OneLiveRow`: without it the deletion could uncover another live row of the
same content. TLC checked `Quietly` on an instance of `sync_concurrent` before it was proved.

`PairingProofs`, for every set of devices, attempts, offers and codes, any number of
connections and any limit on wrong lookups: `TypeCorrect`, `SingleUse`
(`OneCeremony`), `TrustNeedsConsent` (`Consent`), `PairingIsDurable` (`Durable`),
`TrustIsMutual` (`Mutual`). The inductive invariant `Inv` adds to the types that a device
only offers its own offers (`OwnOffers`), that a device only proves to an attempt that has
sent its accept (`ProvingAttempts`), what an attempt and its serving task know of each
other (`Linked`), and that an offer whose
nonce was revealed is nobody's open offer any more and was revealed to one attempt
(`Revealed`), which is what single use comes from. Most steps only give something up;
`Retreat` states that once and `RetreatInv` proves it for all of them. `Consent` then
follows because a ceremony, once verified, stays (`CeremonyStays`) and trust grows
only by one (`TrustGrows`). `Durable` needs that memory holds what was shown as well
as the file (`Remembered`), since a later save writes whatever memory holds. `Mutual`
says something only when all is at rest; `Joint` says what holds on the way there as long
as nothing was upset or crossed: where an attempt is decides where the server of its
latest connection is and what the showing device holds (`Flow`), a device with an attempt
under way is in `Answering` and has no other (`Busy`), a server that has the finish serves
an attempt that still waits for the done (`Finishing`), and trust that is not returned yet
is owed by an attempt between its finish and its commit (`OneSided`). The showing device
commits first, so `OneSided` is only ever opened by `ServeFinish` and closed by `Commit`.

`PeersProofs`, for every set of peers, strangers, addresses, tasks and connections:
`EpochTells` (`StampMeansTrusted`). It needs that no stamp is ahead of the epoch
(`StampsBehind`) and the shape of the dial and the inbound connections (`Shape`); forgetting
a device then raises the epoch past every stamp there is.

`ClipboardsProofs`, for every set of devices on any mix of platforms, every content,
channel, number of notifications and conversion that keeps the assumptions on `Copies`:
`ClipboardsTypes`, `EchoesAreWrites` (`OneEchoPerWrite`, by `Owes`: what the guard still
waits for is owed), `HistoryIsClean` (`NothingPrivateStored`) and `LastCopyIsKept`
(`LastCopyStored`). `Private` follows bytes on their way: what can be read of a clipboard,
by its mark or by a thread that looks for it no more (`Readable`), and what a watch thread,
the channel, the capture loop or a write under way holds, was shown. `NotLost` is a chain of custody: a copy the
history does not have is still announced or being read, all of it (`ToldOf`, `Reading`), or
what the next poll is compared with (`Compared`), or on its way behind the poll (`Coming`),
or was recorded as a write (`Recorded`); every step passes it on or is a failure that sets `missed`.

`LinkProofs`, for every conversation, any number of messages and blobs of any number of
frames, any limits and a break at any point: `LinkTypes`, `FramesDecrypt` (`NoncesAgree`),
`SpeakerMeetsTheLimit` (`LimitMeetsTheSpeaker`), `GraceKeepsTheLastWord`
(`LastWordHeard`) and the refinement `LinkIsAChannel` (`ImplementsChannel`). The invariant
`LinkInv(b)` is about a tally `b` of the script, the number of frames each end has before
each item, whose existence `TallyExists` proves by the least counterexample. `Places` says
which items are said and heard from where the ends are; `Sealing` and `Opening` say that a
nonce counter is the tally at the item plus the part of it that is done; `Written` and
`Streams` that what is under way, on the main stream and on the blob streams, is an
unbroken piece of the conversation from the listener's place on, each frame with its nonce
and sealed under the limit. A break keeps all of it because a prefix of an unbroken piece
is one. From it the first frame a listener finds is the one it needs (`HeadFrame`,
`HeadStream`), so a decryption error means an item was torn, and a listener finds its keys
used up only if the speaker had. `Endings` then adds who hung up and why. For the
refinement the first frame of an item is `Say`, the last `Hear`, a cut blob `HearTorn`.

`BlobProofs`, for every set of digests and tasks, any quota, any number of writes and
crashes and whichever tasks store the same digests: `BlobTypes`, `PinnedStay`
(`PinnedBlobsStay`), `LeaksNeedCrashes` (`LeaksAreCrashes`), `PathsAreWhole`
(`WholeAtPath`) and `GhostsNeedCrashes` (`GhostsAreCrashes`). `Chosen` says that the
candidates stay unpinned while the quota has the mutex; `Claimed`, which the leaks need,
that a file which is back when its record is about to go has a task that will record it
again. `Files` is about who has which file open: a file belongs to one digest
(`OneDigest`), one that was never shared is the temporary file of the only task that has
it (`Alone`), a task that finds another's file in place of its own finds a shared one
(`Replaced`), and what is incomplete has a task that is still to write it, or had one when
the daemon crashed (`Half`, `Unfinished`). For the ghosts it is enough to count those that
no `put_blob` recorded afterwards (`Spirits`): no step but a crash in the middle of an
eviction adds to them.

`UiProofs`, for every set of clips, every buffer and any number of operations, retries and
stops: `TypeInvariant`, `TrayTells` (`TrayTellsTheStatus`) and `ListTellsHistory`
(`ListTellsTheHistory`). `Base` is about shapes and about truth: steps of a job are in the
order of the code, one task at most waits for a status, a client exists exactly while the
app is in touch and a daemon that sends to it is the one that answers it (`Wiring`), and nothing on its way, in a page or in the list speaks of a
clip that is not in the table or of a deletion that did not happen (`TrueRow`). The tray
follows from `Told`: unless the handler is about to report, the last status on its way is
the current one, and if there is none the tray has it. For the list, `NewestTells` says of
each clip that no task is about to tell of (`Known`) that the last events about it, in the
queue or else in what the webview has since it heard of the connection (`Seen`), carry its
row. A view of the history is as good as it is `Right` (what it shows of a clip nothing
more is coming about is its row) and has every clip `There` (or its addition is on the
way); `ViewStep` says that no step but the webview's own makes a view worse, and is applied
both to a page between its answer and its return (`PageTells`) and to the list
(`ListTells`). The list is only `Sure` while no fetch is under way that will replace it,
and a clip with a pin or a delete that is not handled yet (`Called`) is not promised: from
the change in the list on the request, from the handler's write on the event, vouches for
it.

Assumptions are the `ASSUME`s of the modules and no more: identifiers are distinct
from each other, ids are a finite set of naturals, a link joins two devices, an offer
tolerates at least one lookup, a conversation ends with a message of the dialler.

Only model-checked: liveness and everything under fairness (beyond the prover);
`WorkingAddressKept` of `Peers` (what a fold over a list of sightings computes needs
induction over data); and `BlobsFollowRows`, which needs two devices of one peer each, as
in its run: with three it is false ("Met while modelling"). `UndeleteReplicates`,
`TableFollowsTrust` and `HotkeyFollowsSettings` are violated.

## Plan

1. Done: the clock, the table, the session, the blob store, the pairing ceremony with
   its trust set; their first theorems.
2. Done: peers and the epoch, links and the channel they implement, clipboards with the
   guard and the capture loop, the app and its events.
3. Done: the proofs of `Peers`, `Clipboards`, `BlobStore` and `Link`, with the refinement of
   `Channel`.
4. Done: the alternation of a session (`OneTalker`, `NeverStuck`), mutual trust
   (`Mutual`) and what a timestamp means (`StampMeansState`).
5. Done: the safety properties of `Ui`, and that a session leaves two histories that agree
   (`CleanSessionAgrees`).
6. Done: what a timestamp means with any sessions, users and faults, blobs that two tasks
   store at once, polls of the clipboard request by request, answers that are too large.
7. Left: a notch panel beside the app, the list's filters and paging, and a bound on what a
   chain of three devices may miss of its payloads.

## Not modelled

Previews, search and rendering; SQLCipher; the cryptography of Noise and of the pairing
MACs; which strings are secrets; the encodings of mDNS, Tailscale and IPC; paste
keystrokes; packaging; the notch panel, which is a second client of what `Ui` models.
They are pure input and output or third-party, or no property tells their states apart.
Startup: that two daemons may start at once (`transport.rs:128`, `lib.rs:83`) is a race
of files and sockets. The loop guard and the chunk assembler are not used by the daemon.
`purge_tombstones` and `prune_orphan_blobs` are never called by the daemon.
