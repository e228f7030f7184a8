----------------------------- MODULE Clipboards -----------------------------
(***************************************************************************)
(* The way from the system clipboard to the history and back: the watch    *)
(* thread of a platform backend, the suppression pipeline, the own-write   *)
(* guard, the bounded channel, the capture loop, and the tasks that put a  *)
(* stored clip on the clipboard.  Several devices, which exchange rows in  *)
(* sessions of one step (SyncSession has their steps).  The content of a   *)
(* clipboard or of a row is a set of payloads, and stands for its hash.    *)
(***************************************************************************)
EXTENDS Integers, FiniteSets, Sequences

CONSTANTS Device,
          Format,     \* the formats in use, of the six clipboards carry
          Setups,     \* the platforms the devices may run on
          Bytes,
          Secret,     \* bytes detect_secret finds something in
          Big,        \* bytes over DEFAULT_MAX_PAYLOAD_BYTES
          Trim,       \* bytes without what a format does not carry (NULs, blank lines)
          Evicted,    \* formats whose blob the quota may have evicted
          Copies,     \* what applications put on a device's clipboard
          Asking,     \* devices whose user asks for stored clips
          Task,       \* tasks in Daemon::apply: one per session or request
          Capacity,   \* channel_capacity
          MaxNotes,   \* notifications waiting for the watch thread
          MaxCopies,  \* copies and requests in a behaviour
          MaxUpsets   \* failures, pauses and stops in a behaviour

ReadOrder == [Text |-> 1, Html |-> 2, Rtf |-> 3, Png |-> 4, Tiff |-> 5, FileList |-> 6]
TextLike == {"Text", "Html", "Rtf"}
Common == Format \ {"Tiff"}
Payload == [format : Format, bytes : Bytes]
Platform == {"windows", "macos", "x11", "wayland", "manual"}
App == {"none", "blocked", "other", "clipse"}

ASSUME ClipboardsAssumption ==
    /\ "Text" \in Format /\ Format \subseteq DOMAIN ReadOrder
    /\ Setups \subseteq [Device -> Platform]
    /\ Secret \subseteq Bytes /\ Big \subseteq Bytes /\ Evicted \subseteq Format
    /\ Asking \subseteq Device
    /\ Trim \in [Bytes -> Bytes] /\ \A b \in Bytes : Trim[Trim[b]] = Trim[b]
    /\ \A d \in Device :
          Copies[d] \subseteq [content : SUBSET Payload, marked : BOOLEAN, app : App \ {"clipse"}]
    /\ Capacity \in Nat \ {0} /\ MaxNotes \in Nat \ {0} /\ MaxCopies \in Nat /\ MaxUpsets \in Nat

VARIABLES
    platform,
    os,       \* the clipboard: content, the concealed mark, the application
    notes,    \* changes the watch thread has not looked at
    last,     \* what the Wayland poll compares with
    watch,    \* the watch thread
    stopping,
    guard,    \* OwnWriteGuard: the hash that waits for its echo
    chan,     \* the event channel
    loop,     \* the capture loop
    paused,
    store,    \* contents of the rows
    task,     \* Daemon::apply
    copies, upsets,
    shown,    \* bytes an application copied without the mark, or where a watch
              \* thread missed it: the request failed, or was made before (history)
    owed,     \* writes recorded less captures dropped as echoes (history)
    echoed,   \* hashes the guard was given (history)
    missed    \* a capture was dropped or cut by a failure or a pause, or for an
              \* application that had come to the front since (history)

outside == <<platform, copies, shown>>
watcher == <<os, notes, last, watch, stopping, guard>>
vars == <<platform, os, notes, last, watch, stopping, guard, chan, loop, paused, store, task,
          copies, upsets, shown, owed, echoed, missed>>

----------------------------------------------------------------------------
(* What the backends read and write.                                        *)

(* Where reading or writing drops a part of the bytes: text is cut at the   *)
(* first NUL, an RTF loses trailing ones, a file list its blank lines.      *)
Trims(pf) == CASE pf = "windows" -> {"Text", "Rtf", "FileList"}
               [] pf \in {"x11", "manual"} -> {"FileList"}
               [] OTHER -> {}
Converted(pf, content) ==
    {IF x.format \in Trims(pf) THEN [x EXCEPT !.bytes = Trim[@]] ELSE x : x \in content}

Carried(pf, content) ==
    {x \in content : \/ x.format \in Common
                     \/ /\ pf = "macos" /\ x.format = "Tiff"
                        /\ \A y \in content : y.format # "Png"}

(* poll_clipboard, SelectionReader::poll, read_clipboard, poll_pasteboard   *)
ReadBack(pf, content) == Converted(pf, Carried(pf, content))

(* X11 and Wayland offer one representation: the text, or else the first.   *)
Chosen(payloads) ==
    LET texts == {x \in payloads : x.format = "Text"} IN
    IF texts # {} THEN texts ELSE {CHOOSE x \in payloads : TRUE}

(* The X11 backend offers what has no target of its own as text.            *)
WriteX11(payloads) ==
    {[x EXCEPT !.format = IF @ \in Common THEN @ ELSE "Text"] : x \in Chosen(payloads)}

(* Windows writes every representation that has a format of its own.        *)
WriteWindows(payloads) == Converted("windows", {x \in payloads : x.format \in Common})

(* Clipboard::write *)
WriteTo(pf, payloads) ==
    IF payloads = {} THEN {}
    ELSE CASE pf = "windows" -> WriteWindows(payloads)
           [] pf = "macos" -> payloads
           [] pf = "wayland" -> Chosen(payloads)
           [] OTHER -> WriteX11(payloads)

(* The application a poll names: the owner, which may be unknown (Windows), *)
(* whatever is in front by now (macOS), or none.                            *)
Seen(pf, app) == CASE pf = "windows" -> {app, "none"}
                   [] pf = "macos" -> App
                   [] OTHER -> {"none"}
IsBlocked(app) == app = "blocked"

----------------------------------------------------------------------------
NoPoll == [tag |-> "Empty", content |-> {}, blocked |-> FALSE]
Concealed == [NoPoll EXCEPT !.tag = "Concealed"]
DataOf(content, blocked) ==
    IF content = {} THEN NoPoll ELSE [tag |-> "Data", content |-> content, blocked |-> blocked]
Suppressed == [captured |-> FALSE, content |-> {}]
Captured(content) == [captured |-> TRUE, content |-> content]

(* same: Wayland compares the hashes of what two polls found.               *)
Same(a, b) == a.tag = b.tag /\ a.content = b.content
Peek(d) == IF os[d].marked THEN Concealed ELSE DataOf(ReadBack(platform[d], os[d].content), FALSE)

Idle == [at |-> "idle", raw |-> NoPoll, event |-> Suppressed, left |-> {}]
Waiting == [at |-> "idle", content |-> {}]
NoEcho == {}

Init ==
    /\ platform \in Setups
    /\ os = [d \in Device |-> [content |-> {}, marked |-> FALSE, app |-> "none"]]
    /\ notes = [d \in Device |-> 0]
    /\ last = [d \in Device |-> NoPoll]
    /\ watch = [d \in Device |-> Idle]
    /\ stopping = [d \in Device |-> FALSE]
    /\ guard = [d \in Device |-> NoEcho]
    /\ chan = [d \in Device |-> <<>>]
    /\ loop = [d \in Device |-> Waiting]
    /\ paused = [d \in Device |-> FALSE]
    /\ store = [d \in Device |-> {}]
    /\ task = [d \in Device |-> [k \in Task |-> Waiting]]
    /\ copies = 0 /\ upsets = 0
    /\ shown = {}
    /\ owed = [d \in Device |-> 0]
    /\ echoed = [d \in Device |-> {}]
    /\ missed = [d \in Device |-> FALSE]

Upset == upsets < MaxUpsets /\ upsets' = upsets + 1
Running(d) == ~stopping[d]

(* The clipboard changes.  Windows and X11 queue a notification for every   *)
(* change, the change count of macOS says only that there was one.          *)
ChangeClipboard(d, new) ==
    /\ os' = [os EXCEPT ![d] = new]
    /\ IF Running(d) /\ platform[d] \in {"windows", "x11"}
       THEN notes[d] < MaxNotes /\ notes' = [notes EXCEPT ![d] = @ + 1]
       ELSE notes' = [notes EXCEPT ![d] = IF platform[d] = "macos" THEN 1 ELSE @]

(* A poll that has looked for the mark asks for one format after the other. *)
Requests(pf) == IF pf = "macos" THEN Format ELSE Common

(* What becomes of copied payloads that are read, converted or not.         *)
BytesOf(content) == {x.bytes : x \in content} \cup {Trim[x.bytes] : x \in content}

(* An application copies.  Nobody looks any more for the mark of what a     *)
(* thread asks for next.                                                    *)
Copy(d, c) ==
    /\ copies < MaxCopies
    /\ copies' = copies + 1
    /\ ChangeClipboard(d, c)
    /\ shown' = shown \cup BytesOf({x \in c.content : ~c.marked \/ x.format \in watch[d].left})
    /\ UNCHANGED <<platform, last, watch, stopping, guard, chan, loop, paused, store, task,
                   upsets, owed, echoed, missed>>

----------------------------------------------------------------------------
(* The watch thread: message_loop, event_loop and the poll loops.  A        *)
(* change count takes all the changes so far together; Wayland reads the    *)
(* clipboard at every tick.  In "manual" nobody watches.                    *)

Notified(d) ==
    CASE platform[d] = "wayland" -> TRUE
      [] platform[d] = "manual" -> FALSE
      [] OTHER -> notes[d] > 0

NotesLeft(d) == IF platform[d] \in {"windows", "x11"} THEN notes[d] - 1 ELSE 0

(* The poll has found something.  Wayland compares it with the last.        *)
Finds(d, poll) ==
    IF platform[d] # "wayland"
    THEN /\ watch' = [watch EXCEPT ![d] = [Idle EXCEPT !.at = "raw", !.raw = poll]]
         /\ UNCHANGED last
    ELSE IF Same(poll, last[d])
    THEN /\ watch' = [watch EXCEPT ![d] = Idle]
         /\ UNCHANGED last
    ELSE /\ watch' = [watch EXCEPT ![d] = [Idle EXCEPT !.at = "raw", !.raw = poll]]
         /\ last' = [last EXCEPT ![d] = poll]

BeginsToLoad(d) ==
    /\ watch' = [watch EXCEPT ![d] = [Idle EXCEPT !.at = "load", !.left = Requests(platform[d])]]
    /\ UNCHANGED last

(* Windows reads mark and content while the clipboard is open, and nobody   *)
(* else can open it; the others ask for the mark first.                     *)
LookUnmarked(d) ==
    IF platform[d] = "windows"
    THEN \E app \in Seen("windows", os[d].app) :
            Finds(d, DataOf(ReadBack("windows", os[d].content), IsBlocked(app)))
    ELSE BeginsToLoad(d)

LookAtMark(d) == IF os[d].marked THEN Finds(d, Concealed) ELSE LookUnmarked(d)

Looks(d) ==
    /\ Running(d) /\ watch[d].at = "idle"
    /\ Notified(d)
    /\ notes' = [notes EXCEPT ![d] = NotesLeft(d)]

Look(d) ==
    /\ Looks(d)
    /\ LookAtMark(d)
    /\ UNCHANGED <<outside, os, stopping, guard, chan, loop, paused, store, task,
                   upsets, owed, echoed, missed>>

(* poll_with_retry: another process keeps the clipboard open.               *)
LookFails(d) ==
    /\ Looks(d)
    /\ platform[d] = "windows"
    /\ Upset
    /\ Finds(d, NoPoll)
    /\ missed' = [missed EXCEPT ![d] = TRUE]
    /\ UNCHANGED <<outside, os, stopping, guard, chan, loop, paused, store, task, owed, echoed>>

(* The request for the password hint fails or is late, which X11 and        *)
(* Wayland take for a clipboard without one: what is marked is read.        *)
HintFails(d) ==
    /\ Looks(d)
    /\ platform[d] \in {"x11", "wayland"} /\ os[d].marked
    /\ Upset
    /\ BeginsToLoad(d)
    /\ shown' = shown \cup BytesOf(os[d].content)
    /\ UNCHANGED <<platform, copies, os, stopping, guard, chan, loop, paused, store, task,
                   owed, echoed, missed>>

(* The answer to a request comes from whatever is on the clipboard by now.  *)
(* A TIFF is asked for only where there was no PNG.                         *)
Answer(d, f) ==
    {x \in Converted(platform[d], os[d].content) :
        x.format = f /\ (f = "Tiff" => \A y \in watch[d].raw.content : y.format # "Png")}

Asks(d, f) ==
    /\ watch[d].at = "load"
    /\ f \in watch[d].left /\ \A g \in watch[d].left : ReadOrder[f] <= ReadOrder[g]

Load(d) ==
    /\ \E f \in Format :
          /\ Asks(d, f)
          /\ watch' = [watch EXCEPT ![d].left = @ \ {f}, ![d].raw.content = @ \cup Answer(d, f)]
    /\ UNCHANGED <<outside, os, notes, last, stopping, guard, chan, loop, paused, store, task,
                   upsets, owed, echoed, missed>>

(* A request fails, and the poll goes on without that format.               *)
LoadFails(d) ==
    /\ \E f \in Format :
          /\ Asks(d, f) /\ Answer(d, f) # {}
          /\ watch' = [watch EXCEPT ![d].left = @ \ {f}]
    /\ Upset
    /\ missed' = [missed EXCEPT ![d] = TRUE]
    /\ UNCHANGED <<outside, os, notes, last, stopping, guard, chan, loop, paused, store, task,
                   owed, echoed>>

(* The poll has asked for everything; macOS sees who is in front.           *)
LoadEnds(d) ==
    /\ watch[d].at = "load" /\ watch[d].left = {}
    /\ \E app \in Seen(platform[d], os[d].app) :
          /\ Finds(d, DataOf(watch[d].raw.content, IsBlocked(app)))
          /\ missed' = IF IsBlocked(app) /\ ~IsBlocked(os[d].app)
                       THEN [missed EXCEPT ![d] = TRUE] ELSE missed
    /\ UNCHANGED <<outside, os, notes, stopping, guard, chan, loop, paused, store, task,
                   upsets, owed, echoed>>

(* OwnWriteGuard::check; an entry past its time is none (TtlPasses).        *)
IsEchoAny(d, content) == guard[d] # NoEcho
IsEcho(d, content) == content \in guard[d]
AfterCheckKept(d, content) == guard
AfterCheck(d, content) ==
    IF IsEcho(d, content) THEN [guard EXCEPT ![d] = NoEcho] ELSE guard

(* classify up to the guard, and after it.                                  *)
Blocked(raw) ==
    \/ raw.tag # "Data"
    \/ \E x \in raw.content : x.bytes \in Big
    \/ raw.blocked
LooksSecret(content) == \E x \in content : x.format \in TextLike /\ x.bytes \in Secret

Classify(d) ==
    LET raw == watch[d].raw
        asked == ~Blocked(raw)
        echo == asked /\ IsEcho(d, raw.content)
    IN
    /\ watch[d].at = "raw"
    /\ guard' = IF asked THEN AfterCheck(d, raw.content) ELSE guard
    /\ owed' = IF echo THEN [owed EXCEPT ![d] = @ - 1] ELSE owed
    /\ watch' = [watch EXCEPT ![d] =
          [Idle EXCEPT !.at = "deliver",
                       !.event = IF ~asked \/ echo \/ LooksSecret(raw.content) THEN Suppressed
                                 ELSE Captured(raw.content)]]
    /\ UNCHANGED <<outside, os, notes, last, stopping, chan, loop, paused, store, task,
                   upsets, echoed, missed>>

(* The own-write ttl runs out.                                              *)
TtlPasses(d) ==
    /\ guard[d] # NoEcho
    /\ guard' = [guard EXCEPT ![d] = NoEcho]
    /\ UNCHANGED <<outside, os, notes, last, watch, stopping, chan, loop, paused, store, task,
                   upsets, owed, echoed, missed>>

(* The channel is bounded, and deliver waits for room.                      *)
HasRoom(d) == Len(chan[d]) < Capacity

Deliver(d) ==
    /\ watch[d].at = "deliver"
    /\ Running(d)
    /\ HasRoom(d)
    /\ chan' = [chan EXCEPT ![d] = Append(@, watch[d].event)]
    /\ watch' = [watch EXCEPT ![d] = Idle]
    /\ UNCHANGED <<outside, os, notes, last, stopping, guard, loop, paused, store, task,
                   upsets, owed, echoed, missed>>

(* deliver and the loops around it look at the flag.                        *)
SeesStopParked(d) == stopping[d] /\ watch[d].at = "idle"
SeesStop(d) == stopping[d] /\ watch[d].at \in {"idle", "deliver"}

WatchEnds(d) ==
    /\ SeesStop(d)
    /\ watch' = [watch EXCEPT ![d] = [Idle EXCEPT !.at = "ended"]]
    /\ UNCHANGED <<outside, os, notes, last, stopping, guard, chan, loop, paused, store, task,
                   upsets, owed, echoed, missed>>

(* The daemon shuts down: the capture loop is aborted, the watcher dropped. *)
Stop(d) ==
    /\ Running(d)
    /\ Upset
    /\ stopping' = [stopping EXCEPT ![d] = TRUE]
    /\ loop' = [loop EXCEPT ![d] = Waiting]
    /\ UNCHANGED <<outside, os, notes, last, watch, guard, chan, paused, store, task, owed, echoed, missed>>

----------------------------------------------------------------------------
(* The capture loop (capture::run, store_capture).                          *)

Receive(d) ==
    /\ Running(d) /\ loop[d].at = "idle" /\ chan[d] # <<>>
    /\ LET event == Head(chan[d]) IN
       /\ chan' = [chan EXCEPT ![d] = Tail(@)]
       /\ loop' = IF event.captured /\ ~paused[d]
                  THEN [loop EXCEPT ![d] = [at |-> "store", content |-> event.content]]
                  ELSE loop
       /\ missed' = IF event.captured /\ paused[d] THEN [missed EXCEPT ![d] = TRUE] ELSE missed
    /\ UNCHANGED <<outside, watcher, paused, store, task, upsets, owed, echoed>>

(* The row is there already, or is inserted.                                *)
StoreCapture(d) ==
    /\ loop[d].at = "store"
    /\ store' = [store EXCEPT ![d] = @ \cup {loop[d].content}]
    /\ loop' = [loop EXCEPT ![d] = Waiting]
    /\ UNCHANGED <<outside, watcher, chan, paused, task, upsets, owed, echoed, missed>>

StoreFails(d) ==
    /\ loop[d].at = "store"
    /\ Upset
    /\ loop' = [loop EXCEPT ![d] = Waiting]
    /\ missed' = [missed EXCEPT ![d] = TRUE]
    /\ UNCHANGED <<outside, watcher, chan, paused, store, task, owed, echoed>>

SetPaused(d) ==
    /\ Running(d)
    /\ Upset
    /\ paused' = [paused EXCEPT ![d] = ~@]
    /\ UNCHANGED <<outside, watcher, chan, loop, store, task, owed, echoed, missed>>

----------------------------------------------------------------------------
(* Sessions, and Daemon::apply.                                             *)

Begin(d, k, content) == [task EXCEPT ![d][k] = [at |-> "write", content |-> content]]
Free(d) == {k \in Task : task[d][k].at = "idle"}

(* The rows a session inserts: the ones the receiver does not have.         *)
NewRows(a, b) == store[a] \ store[b]

(* A session brings the rows of a to b; apply_incoming takes the newest.    *)
Receives(a, b) ==
    /\ a # b /\ Running(a) /\ Running(b)
    /\ NewRows(a, b) # {}
    /\ Free(b) # {}
    /\ store' = [store EXCEPT ![b] = @ \cup NewRows(a, b)]
    /\ IF paused[b] THEN UNCHANGED task
       ELSE \E newest \in NewRows(a, b) : task' = Begin(b, CHOOSE k \in Free(b) : TRUE, newest)
    /\ UNCHANGED <<outside, watcher, chan, loop, paused, upsets, owed, echoed, missed>>

(* Request::Apply and Request::Paste                                        *)
Request(d) ==
    /\ d \in Asking /\ Running(d)
    /\ copies < MaxCopies
    /\ copies' = copies + 1
    /\ Free(d) # {}
    /\ \E content \in store[d] : task' = Begin(d, CHOOSE k \in Free(d) : TRUE, content)
    /\ UNCHANGED <<platform, shown, watcher, chan, loop, paused, store, upsets, owed, echoed, missed>>

(* pasteboard_lock: a write on macOS waits for the poll to end.             *)
MayWrite(d) == platform[d] = "macos" => watch[d].at # "load"

(* The clipboard after the write.  Writing no payload does nothing on X11   *)
(* and Wayland.                                                             *)
Puts(d, k, payloads) ==
    /\ task[d][k].at = "write" /\ MayWrite(d)
    /\ IF payloads = {} /\ platform[d] \notin {"windows", "macos"}
       THEN /\ UNCHANGED <<os, notes>>
            /\ task' = [task EXCEPT ![d][k] = Waiting]
       ELSE /\ ChangeClipboard(d, [content |-> WriteTo(platform[d], payloads),
                                   marked |-> FALSE, app |-> "clipse"])
            /\ task' = [task EXCEPT ![d][k] = [at |-> "record", content |-> payloads]]
    /\ UNCHANGED <<outside, last, watch, stopping, guard, chan, loop, paused, store,
                   owed, echoed, missed>>

Write(d, k) == Puts(d, k, task[d][k].content) /\ UNCHANGED upsets

(* materialize: a representation whose blob is gone is skipped.             *)
Materialized(content) == {x \in content : x.format \notin Evicted}
WriteRest(d, k) == Upset /\ Puts(d, k, Materialized(task[d][k].content))

(* The clipboard cannot be opened, or refuses after it has been emptied.    *)
WriteFails(d, k) ==
    /\ task[d][k].at = "write" /\ MayWrite(d)
    /\ Upset
    /\ task' = [task EXCEPT ![d][k] = Waiting]
    /\ \/ UNCHANGED <<os, notes>>
       \/ /\ platform[d] \in {"windows", "macos"}
          /\ ChangeClipboard(d, [content |-> {}, marked |-> FALSE, app |-> "clipse"])
    /\ UNCHANGED <<outside, last, watch, stopping, guard, chan, loop, paused, store,
                   owed, echoed, missed>>

(* OwnWriteGuard::record_write, after the write is on the clipboard.        *)
RecordWrite(d, k) ==
    /\ task[d][k].at = "record"
    /\ guard' = [guard EXCEPT ![d] = {task[d][k].content}]
    /\ owed' = [owed EXCEPT ![d] = @ + 1]
    /\ echoed' = [echoed EXCEPT ![d] = @ \cup {task[d][k].content}]
    /\ task' = [task EXCEPT ![d][k] = Waiting]
    /\ UNCHANGED <<outside, os, notes, last, watch, stopping, chan, loop, paused, store,
                   upsets, missed>>

----------------------------------------------------------------------------
WatchThread(d) ==
    Look(d) \/ Load(d) \/ LoadEnds(d) \/ Classify(d) \/ Deliver(d) \/ WatchEnds(d)
WatchFails(d) == LookFails(d) \/ HintFails(d) \/ LoadFails(d)
CaptureLoop(d) == Receive(d) \/ StoreCapture(d)
Applies(d, k) == Write(d, k) \/ RecordWrite(d, k)

Next ==
    \E d \in Device :
        \/ \E c \in Copies[d] : Copy(d, c)
        \/ WatchThread(d) \/ WatchFails(d) \/ TtlPasses(d) \/ Stop(d)
        \/ CaptureLoop(d) \/ StoreFails(d) \/ SetPaused(d) \/ Request(d)
        \/ \E k \in Task : Applies(d, k) \/ WriteRest(d, k) \/ WriteFails(d, k)
        \/ \E a \in Device : Receives(a, d)

Spec == Init /\ [][Next]_vars

(* Every watch thread gets on, and of the tasks that have something to do   *)
(* and the devices that have something for each other (Peers) one does;     *)
(* copies, failures, the ttl and the user are not owed.                     *)
Tasks ==
    \E d \in Device : \/ CaptureLoop(d)
                      \/ \E k \in Task : Applies(d, k)
                      \/ \E a \in Device : Receives(a, d)

FairSpec == Spec /\ WF_vars(Tasks) /\ \A d \in Device : WF_vars(WatchThread(d))

----------------------------------------------------------------------------
Content == SUBSET Payload

TypeOK ==
    /\ platform \in Setups
    /\ \A d \in Device :
          /\ os[d].content \subseteq Payload /\ os[d].marked \in BOOLEAN /\ os[d].app \in App
          /\ notes[d] \in 0..MaxNotes
          /\ last[d].tag \in {"Empty", "Concealed", "Data"}
          /\ watch[d].at \in {"idle", "load", "raw", "deliver", "ended"}
          /\ chan[d] \in Seq([captured : BOOLEAN, content : Content])
          /\ Len(chan[d]) <= Capacity
          /\ \A c \in guard[d] \cup store[d] \cup echoed[d] : c \subseteq Payload
          /\ Cardinality(guard[d]) <= 1
          /\ loop[d].at \in {"idle", "store"}
          /\ \A k \in Task : task[d][k].at \in {"idle", "write", "record"}
          /\ stopping[d] \in BOOLEAN /\ paused[d] \in BOOLEAN /\ missed[d] \in BOOLEAN
          /\ owed[d] \in Int
    /\ copies \in 0..MaxCopies /\ upsets \in 0..MaxUpsets /\ shown \subseteq Bytes

(* No history holds text that looks like a secret, a payload over the       *)
(* limit, or bytes that applications only ever copied as concealed: not on  *)
(* the device where they were copied, and not through a session or an       *)
(* application of another's clip (capture.rs: "a capture that               *)
(* clipse-clipboard suppressed never reaches this module").  A concealed    *)
(* copy comes in where the watch thread misses its mark, and the history    *)
(* variable counts it as shown then: on X11 and Wayland when the request    *)
(* for the hint fails, and on macOS too when it arrives after that request, *)
(* in the formats the thread asks for next.                                 *)
NothingPrivateStored ==
    \A d \in Device : \A content \in store[d] :
        /\ ~LooksSecret(content)
        /\ \A x \in content : x.bytes \in shown \ Big

(* The guard drops at most one capture for each write it was told of,       *)
(* however writes, echoes and copies of the same content interleave.        *)
OneEchoPerWrite == \A d \in Device : owed[d] >= 0

(* What a poll under way on Wayland finds if the clipboard stays as it is.  *)
Outlook(d) ==
    IF watch[d].at = "load"
    THEN DataOf(watch[d].raw.content \cup
                {x \in ReadBack("wayland", os[d].content) : x.format \in watch[d].left}, FALSE)
    ELSE Peek(d)

(* No change waits for the watch thread.  The one of Wayland polls on, but  *)
(* neither the poll under way nor the next has anything new for it.         *)
Unchanged(d) ==
    IF platform[d] = "wayland"
    THEN watch[d].at \in {"idle", "load"} /\ Same(Outlook(d), last[d]) /\ Same(Peek(d), last[d])
    ELSE watch[d].at = "idle" /\ ~Notified(d)

(* The device has nothing left to do with its clipboard.                    *)
Settled(d) ==
    \/ stopping[d] /\ watch[d].at = "ended"
    \/ Running(d) /\ Unchanged(d) /\ chan[d] = <<>> /\ loop[d] = Waiting

Worth(content) ==
    content # {} /\ ~LooksSecret(content) /\ \A x \in content : x.bytes \notin Big

(* When a device has settled, the copy that is on its clipboard is in its   *)
(* history, unless it must be suppressed, or is what the daemon itself has  *)
(* written, or a failure, a pause or a blocked application that has come to *)
(* the front (macOS) dropped a capture: no notification that comes late or  *)
(* twice and no full channel loses it.                                      *)
LastCopyStored ==
    \A d \in Device :
        LET content == ReadBack(platform[d], os[d].content) IN
        Settled(d) /\ Running(d) /\ platform[d] # "manual" /\ ~missed[d]
            /\ ~os[d].marked /\ os[d].app = "other" /\ Worth(content)
        => content \in store[d] \cup echoed[d]

(* Copies do not bounce between the devices for ever, and nobody waits for  *)
(* ever: once applications stop copying, every clipboard comes to rest, no  *)
(* row is left to send, and a dropped watcher's thread has ended, with the  *)
(* channel full and nobody to drain it too.  Each write may come back as a  *)
(* capture with fewer payloads, and the guard misses an echo that is read   *)
(* before it is told of the write ("devices would ping-pong the same clip   *)
(* forever"; "A plain blocking_send deadlocks on teardown").                *)
EchoesDieOut ==
    <>[](\A d \in Device :
            /\ Settled(d)
            /\ \A k \in Task : task[d][k] = Waiting
            /\ Running(d) => \A a \in Device : Running(a) => store[a] \subseteq store[d])

=============================================================================
