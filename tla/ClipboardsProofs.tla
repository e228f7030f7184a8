------------------------- MODULE ClipboardsProofs -------------------------
(***************************************************************************)
(* Theorems about Clipboards, for every set of devices on any platforms,   *)
(* any bytes and formats, any number of copies, writes and failures, and   *)
(* any capacity of the channel.                                            *)
(***************************************************************************)
EXTENDS Clipboards, FiniteSetTheorems, SequenceTheorems, TLAPS

----------------------------------------------------------------------------
(* The types.                                                               *)

Clip == [content : Content, marked : BOOLEAN, app : App]
Poll == [tag : {"Empty", "Concealed", "Data"}, content : Content, blocked : BOOLEAN]
Event == [captured : BOOLEAN, content : Content]
Watch == [at : {"idle", "load", "raw", "deliver", "ended"}, raw : Poll, event : Event,
          left : SUBSET Format]
Loop == [at : {"idle", "store"}, content : Content]
Apply == [at : {"idle", "write", "record"}, content : Content]

Types ==
    /\ platform \in Setups
    /\ os \in [Device -> Clip]
    /\ notes \in [Device -> 0..MaxNotes]
    /\ last \in [Device -> Poll]
    /\ watch \in [Device -> Watch]
    /\ stopping \in [Device -> BOOLEAN]
    /\ guard \in [Device -> {NoEcho} \cup {{c} : c \in Content}]
    /\ chan \in [Device -> Seq(Event)]
    /\ \A d \in Device : Len(chan[d]) <= Capacity
    /\ loop \in [Device -> Loop]
    /\ paused \in [Device -> BOOLEAN]
    /\ store \in [Device -> SUBSET Content]
    /\ task \in [Device -> [Task -> Apply]]
    /\ copies \in 0..MaxCopies /\ upsets \in 0..MaxUpsets
    /\ shown \subseteq Bytes
    /\ owed \in [Device -> Int]
    /\ echoed \in [Device -> SUBSET Content]
    /\ missed \in [Device -> BOOLEAN]

LEMMA ConvertedType ==
    ASSUME NEW pf, NEW content \in Content
    PROVE  Converted(pf, content) \in Content
<1> SUFFICES ASSUME NEW x \in content
             PROVE  (IF x.format \in Trims(pf) THEN [x EXCEPT !.bytes = Trim[@]] ELSE x) \in Payload
  BY DEF Converted, Content
<1>1. x \in Payload  BY DEF Content
<1>2. Trim[x.bytes] \in Bytes  BY <1>1, ClipboardsAssumption DEF Payload
<1> QED  BY <1>1, <1>2 DEF Payload

LEMMA ReadBackType ==
    ASSUME NEW pf, NEW content \in Content
    PROVE  ReadBack(pf, content) \in Content
<1>1. Carried(pf, content) \in Content  BY DEF Carried, Content
<1> QED  BY <1>1, ConvertedType DEF ReadBack

(* A conversion keeps the format, so a poll carries what it may ask for.     *)
LEMMA ConvertedFormats ==
    ASSUME NEW pf, NEW content \in Content, NEW formats
    PROVE  /\ \A x \in Converted(pf, content) : \E y \in content : y.format = x.format
           /\ \A y \in content : \E x \in Converted(pf, content) : y.format = x.format
           /\ Converted(pf, {y \in content : y.format \in formats})
                = {x \in Converted(pf, content) : x.format \in formats}
<1> DEFINE to(y) == IF y.format \in Trims(pf) THEN [y EXCEPT !.bytes = Trim[@]] ELSE y
           part == {y \in content : y.format \in formats}
<1>1. \A y \in content : to(y).format = y.format  BY DEF Content, Payload
<1>2. Converted(pf, content) = {to(y) : y \in content}  BY DEF Converted
<1>3. Converted(pf, part) = {to(y) : y \in part}  BY DEF Converted
<1> HIDE DEF to
<1>4. {to(y) : y \in part} = {x \in {to(y) : y \in content} : x.format \in formats}
  BY <1>1
<1> QED  BY <1>1, <1>2, <1>3, <1>4

LEMMA ReadBackIs ==
    ASSUME NEW pf, NEW content \in Content
    PROVE  \A x : x \in ReadBack(pf, content)
                    <=> /\ x \in Converted(pf, content)
                        /\ \/ x.format \in Common
                           \/ /\ pf = "macos" /\ x.format = "Tiff"
                              /\ \A y \in Converted(pf, content) : y.format # "Png"
<1> DEFINE tiff == pf = "macos" /\ \A y \in content : y.format # "Png"
           formats == IF tiff THEN Common \cup {"Tiff"} ELSE Common
<1>1. Carried(pf, content) = {x \in content : x.format \in formats}  BY DEF Carried
<1>2. tiff <=> pf = "macos" /\ \A y \in Converted(pf, content) : y.format # "Png"
  BY ConvertedFormats
<1> HIDE DEF formats
<1>3. ReadBack(pf, content) = {x \in Converted(pf, content) : x.format \in formats}
  BY <1>1, ConvertedFormats DEF ReadBack
<1> QED  BY <1>2, <1>3 DEF formats

LEMMA ReadBackFormats ==
    ASSUME NEW pf, NEW content \in Content, NEW x \in ReadBack(pf, content)
    PROVE  x.format \in Requests(pf)
<1>1. x \in Payload  BY ReadBackType DEF Content
<1>2. x.format \in Common \/ pf = "macos"  BY ReadBackIs
<1> QED  BY <1>1, <1>2 DEF Requests, Common, Payload

LEMMA ChosenType ==
    ASSUME NEW content \in Content, content # {}
    PROVE  Chosen(content) \in Content /\ Chosen(content) \subseteq content
BY DEF Chosen, Content

LEMMA WriteX11Type ==
    ASSUME NEW content \in Content, content # {}
    PROVE  WriteX11(content) \in Content
<1> SUFFICES ASSUME NEW x \in Chosen(content)
             PROVE  [x EXCEPT !.format = IF @ \in Common THEN @ ELSE "Text"] \in Payload
  BY DEF WriteX11, Content
<1>1. x \in Payload  BY ChosenType DEF Content
<1> QED  BY <1>1, ClipboardsAssumption DEF Payload, Common

LEMMA WriteToType ==
    ASSUME NEW pf, NEW content \in Content
    PROVE  WriteTo(pf, content) \in Content
<1>1. {x \in content : x.format \in Common} \in Content  BY DEF Content
<1>2. WriteWindows(content) \in Content  BY <1>1, ConvertedType DEF WriteWindows
<1>3. {} \in Content  BY DEF Content
<1>4. CASE content = {}  BY <1>3, <1>4 DEF WriteTo
<1>5. CASE content # {}
  <2>1. WriteX11(content) \in Content /\ Chosen(content) \in Content
    BY <1>5, WriteX11Type, ChosenType
  <2> QED  BY <1>2, <1>5, <2>1 DEF WriteTo
<1> QED  BY <1>4, <1>5

LEMMA DataOfType ==
    ASSUME NEW content \in Content, NEW blocked \in BOOLEAN
    PROVE  DataOf(content, blocked) \in Poll
BY DEF DataOf, NoPoll, Poll

LEMMA Constants ==
    /\ NoPoll \in Poll /\ Concealed \in Poll /\ Suppressed \in Event /\ Idle \in Watch
    /\ Waiting \in Loop /\ Waiting \in Apply
    /\ \A c \in Content : Captured(c) \in Event
    /\ \A p \in Poll : [Idle EXCEPT !.at = "raw", !.raw = p] \in Watch
    /\ \A e \in Event : [Idle EXCEPT !.at = "deliver", !.event = e] \in Watch
<1>1. {} \in Content  BY DEF Content
<1>2. NoPoll \in Poll /\ Suppressed \in Event  BY <1>1 DEF NoPoll, Poll, Suppressed, Event
<1> QED  BY <1>1, <1>2 DEF NoPoll, Concealed, Poll, Suppressed, Event, Idle, Watch, Waiting, Loop,
                           Apply, Captured

LEMMA ChangeType ==
    ASSUME Types, NEW d \in Device, NEW new \in Clip, ChangeClipboard(d, new)
    PROVE  os' \in [Device -> Clip] /\ notes' \in [Device -> 0..MaxNotes]
<1>1. os' \in [Device -> Clip]  BY DEF Types, ChangeClipboard
<1>2. MaxNotes \in Nat \ {0} /\ notes \in [Device -> 0..MaxNotes]
  BY ClipboardsAssumption DEF Types
<1>3. notes[d] < MaxNotes => notes[d] + 1 \in 0..MaxNotes  BY <1>2
<1>4. 1 \in 0..MaxNotes  BY <1>2
<1>5. \/ notes[d] < MaxNotes /\ notes' = [notes EXCEPT ![d] = @ + 1]
      \/ notes' = [notes EXCEPT ![d] = 1]
      \/ notes' = [notes EXCEPT ![d] = @]
  BY DEF ChangeClipboard
<1> QED  BY <1>1, <1>2, <1>3, <1>4, <1>5

LEMMA BeginType ==
    ASSUME Types, NEW d \in Device, Free(d) # {}, NEW content \in Content
    PROVE  Begin(d, CHOOSE k \in Free(d) : TRUE, content) \in [Device -> [Task -> Apply]]
<1> DEFINE k == CHOOSE j \in Free(d) : TRUE
<1>1. k \in Task  BY DEF Free
<1> QED  BY <1>1 DEF Begin, Types, Apply

LEMMA PutsType ==
    ASSUME Types, NEW d \in Device, NEW k \in Task, NEW payloads \in Content, Puts(d, k, payloads)
    PROVE  /\ os' \in [Device -> Clip] /\ notes' \in [Device -> 0..MaxNotes]
           /\ task' \in [Device -> [Task -> Apply]]
<1>1. [content |-> WriteTo(platform[d], payloads), marked |-> FALSE, app |-> "clipse"] \in Clip
  BY WriteToType DEF Clip, App
<1>2. [at |-> "record", content |-> payloads] \in Apply  BY DEF Apply
<1>3. task' \in [Device -> [Task -> Apply]]
  <2>1. \E r \in Apply : task' = [task EXCEPT ![d][k] = r]  BY <1>2, Constants DEF Puts
  <2> QED  BY <2>1 DEF Types
<1>4. CASE UNCHANGED <<os, notes>>  BY <1>3, <1>4 DEF Types
<1>5. CASE ChangeClipboard(d, [content |-> WriteTo(platform[d], payloads), marked |-> FALSE,
                               app |-> "clipse"])
  BY <1>1, <1>3, <1>5, ChangeType
<1> QED  BY <1>4, <1>5 DEF Puts

LEMMA UpsetType ==
    ASSUME Types, Upset
    PROVE  upsets' \in 0..MaxUpsets
BY ClipboardsAssumption DEF Types, Upset

LEMMA InitTypes == Init => Types
<1> SUFFICES ASSUME Init PROVE Types  OBVIOUS
<1>1. {} \in Content  BY DEF Content
<1>2. [content |-> {}, marked |-> FALSE, app |-> "none"] \in Clip  BY <1>1 DEF Clip, App
<1>3. \A d \in Device : chan[d] = <<>> /\ Len(chan[d]) <= Capacity
  BY ClipboardsAssumption DEF Init
<1>4. /\ os \in [Device -> Clip] /\ last \in [Device -> Poll] /\ watch \in [Device -> Watch]
      /\ loop \in [Device -> Loop] /\ task \in [Device -> [Task -> Apply]]
  BY <1>2, Constants DEF Init
<1>5. chan \in [Device -> Seq(Event)]  BY DEF Init
<1>6. notes \in [Device -> 0..MaxNotes] /\ copies \in 0..MaxCopies /\ upsets \in 0..MaxUpsets
  BY ClipboardsAssumption DEF Init
<1> QED  BY <1>3, <1>4, <1>5, <1>6 DEF Init, Types

LEMMA BytesType ==
    ASSUME NEW content \in Content
    PROVE  BytesOf(content) \subseteq Bytes
<1>1. \A x \in content : x.bytes \in Bytes /\ Trim[x.bytes] \in Bytes
  BY ClipboardsAssumption DEF Content, Payload
<1> QED  BY <1>1 DEF BytesOf

LEMMA CopyTypes ==
    ASSUME Types, NEW d \in Device, NEW c \in Copies[d], Copy(d, c)
    PROVE  Types'
<1>1. c \in Clip  BY ClipboardsAssumption DEF Clip, Content
<1>2. os' \in [Device -> Clip] /\ notes' \in [Device -> 0..MaxNotes]
  BY <1>1, ChangeType DEF Copy
<1>3. copies' \in 0..MaxCopies  BY ClipboardsAssumption DEF Types, Copy
<1>4. {x \in c.content : ~c.marked \/ x.format \in watch[d].left} \in Content
  BY <1>1 DEF Clip, Content
<1>5. shown' \subseteq Bytes  BY <1>4, BytesType DEF Types, Copy
<1> QED  BY <1>2, <1>3, <1>5 DEF Types, Copy

LEMMA FindsTypes ==
    ASSUME Types, NEW d \in Device, NEW poll \in Poll, Finds(d, poll)
    PROVE  watch' \in [Device -> Watch] /\ last' \in [Device -> Poll]
<1>1. /\ \E thread \in Watch : watch' = [watch EXCEPT ![d] = thread]
      /\ last' = last \/ last' = [last EXCEPT ![d] = poll]
  BY Constants DEF Finds
<1> QED  BY <1>1 DEF Types

LEMMA BeginsTypes ==
    ASSUME Types, NEW d \in Device, BeginsToLoad(d)
    PROVE  watch' \in [Device -> Watch] /\ last' \in [Device -> Poll]
<1>1. Requests(platform[d]) \subseteq Format  BY DEF Requests, Common
<1>2. [Idle EXCEPT !.at = "load", !.left = Requests(platform[d])] \in Watch
  BY <1>1, Constants DEF Idle, Watch
<1> QED  BY <1>2 DEF Types, BeginsToLoad

LEMMA LooksTypes ==
    ASSUME Types, NEW d \in Device, Looks(d)
    PROVE  notes' \in [Device -> 0..MaxNotes]
<1>1. CASE NotesLeft(d) \in 0..MaxNotes  BY <1>1 DEF Types, Looks
<1>2. CASE platform[d] \in {"windows", "x11"}
  <2>1. notes[d] > 0 /\ notes[d] \in 0..MaxNotes  BY <1>2 DEF Looks, Notified, Types
  <2> QED  BY <1>1, <1>2, <2>1, ClipboardsAssumption DEF NotesLeft
<1>3. CASE platform[d] \notin {"windows", "x11"}
  BY <1>1, <1>3, ClipboardsAssumption DEF NotesLeft
<1> QED  BY <1>2, <1>3

LEMMA LookTypes ==
    ASSUME Types, NEW d \in Device, Look(d) \/ LookFails(d) \/ HintFails(d)
    PROVE  Types'
<1>1. os[d].content \in Content  BY DEF Types, Clip
<1>2. ASSUME NEW app  PROVE DataOf(ReadBack(platform[d], os[d].content), IsBlocked(app)) \in Poll
  BY <1>1, ReadBackType, DataOfType DEF IsBlocked
<1>3. watch' \in [Device -> Watch] /\ last' \in [Device -> Poll]
  <2>1. (\E poll \in Poll : Finds(d, poll)) \/ BeginsToLoad(d)
    BY <1>2, Constants DEF Look, LookAtMark, LookUnmarked, LookFails, HintFails
  <2> QED  BY <2>1, FindsTypes, BeginsTypes
<1>4. notes' \in [Device -> 0..MaxNotes]  BY LooksTypes DEF Look, LookFails, HintFails
<1>5. CASE Look(d)  BY <1>3, <1>4, <1>5 DEF Types, Look, outside
<1>6. CASE LookFails(d)
  <2>1. upsets' \in 0..MaxUpsets  BY <1>6, UpsetType DEF LookFails
  <2> QED  BY <1>3, <1>4, <1>6, <2>1 DEF Types, LookFails, outside
<1>7. CASE HintFails(d)
  <2>1. upsets' \in 0..MaxUpsets  BY <1>7, UpsetType DEF HintFails
  <2>2. shown' \subseteq Bytes  BY <1>1, <1>7, BytesType DEF Types, HintFails
  <2> QED  BY <1>3, <1>4, <1>7, <2>1, <2>2 DEF Types, HintFails
<1> QED  BY <1>5, <1>6, <1>7

LEMMA AnswerType ==
    ASSUME Types, NEW d \in Device, NEW f
    PROVE  Answer(d, f) \in Content
<1>1. Converted(platform[d], os[d].content) \in Content  BY ConvertedType DEF Types, Clip
<1> QED  BY <1>1 DEF Answer, Content

LEMMA LoadTypes ==
    ASSUME Types, NEW d \in Device, Load(d) \/ LoadFails(d) \/ LoadEnds(d)
    PROVE  Types'
<1>1. watch[d] \in Watch /\ watch[d].raw \in Poll /\ watch[d].raw.content \in Content
  BY DEF Types, Watch, Poll
<1>2. CASE Load(d)
  <2>1. PICK f \in Format :
          watch' = [watch EXCEPT ![d].left = @ \ {f}, ![d].raw.content = @ \cup Answer(d, f)]
    BY <1>2 DEF Load
  <2>2. watch[d].raw.content \cup Answer(d, f) \in Content  BY <1>1, AnswerType DEF Content
  <2>3. watch' \in [Device -> Watch]  BY <1>1, <2>1, <2>2 DEF Types, Watch, Poll
  <2> QED  BY <1>2, <2>3 DEF Types, Load, outside
<1>3. CASE LoadFails(d)
  <2>1. PICK f : watch' = [watch EXCEPT ![d].left = @ \ {f}]  BY <1>3 DEF LoadFails
  <2>3. watch' \in [Device -> Watch]  BY <1>1, <2>1 DEF Types, Watch
  <2>2. upsets' \in 0..MaxUpsets  BY <1>3, UpsetType DEF LoadFails
  <2> QED  BY <1>3, <2>2, <2>3 DEF Types, LoadFails, outside
<1>4. CASE LoadEnds(d)
  <2>1. PICK app : Finds(d, DataOf(watch[d].raw.content, IsBlocked(app)))
    BY <1>4 DEF LoadEnds
  <2>2. DataOf(watch[d].raw.content, IsBlocked(app)) \in Poll
    BY <1>1, DataOfType DEF IsBlocked
  <2>3. watch' \in [Device -> Watch] /\ last' \in [Device -> Poll]
    BY <2>1, <2>2, FindsTypes
  <2>4. missed' \in [Device -> BOOLEAN]  BY <1>4 DEF LoadEnds, Types
  <2> QED  BY <1>4, <2>3, <2>4 DEF Types, LoadEnds, outside
<1> QED  BY <1>2, <1>3, <1>4

LEMMA ClassifyTypes ==
    ASSUME Types, NEW d \in Device, Classify(d)
    PROVE  Types'
<1> DEFINE raw == watch[d].raw
           out == IF Blocked(raw) \/ (~Blocked(raw) /\ IsEcho(d, raw.content)) \/ LooksSecret(raw.content)
                  THEN Suppressed ELSE Captured(raw.content)
<1>1. raw.content \in Content  BY DEF Types, Watch, Poll
<1>2. out \in Event  BY <1>1, Constants
<1>3. watch' = [watch EXCEPT ![d] = [Idle EXCEPT !.at = "deliver", !.event = out]]
  BY DEF Classify
<1>4. watch' \in [Device -> Watch]
  <2> HIDE DEF out
  <2> QED  BY <1>2, <1>3, Constants DEF Types
<1>5. guard' = guard \/ guard' = [guard EXCEPT ![d] = NoEcho]  BY DEF Classify, AfterCheck
<1>6. owed' = owed \/ owed' = [owed EXCEPT ![d] = @ - 1]  BY DEF Classify
<1>7. guard' \in [Device -> {NoEcho} \cup {{c} : c \in Content}]  BY <1>5 DEF Types
<1>8. owed' \in [Device -> Int]  BY <1>6 DEF Types
<1> QED  BY <1>4, <1>7, <1>8 DEF Types, Classify, outside

LEMMA WatchTypes ==
    ASSUME Types, NEW d \in Device, TtlPasses(d) \/ Deliver(d) \/ WatchEnds(d) \/ Stop(d)
    PROVE  Types'
<1>1. CASE TtlPasses(d)  BY <1>1 DEF Types, TtlPasses, outside
<1>2. CASE Deliver(d)
  <2>1. watch[d].event \in Event /\ chan[d] \in Seq(Event)  BY DEF Types, Watch
  <2>2. /\ Append(chan[d], watch[d].event) \in Seq(Event)
        /\ Len(Append(chan[d], watch[d].event)) = Len(chan[d]) + 1
    BY <2>1
  <2>3. Len(chan[d]) + 1 <= Capacity
    BY <1>2, <2>1, ClipboardsAssumption DEF Deliver, HasRoom
  <2>4. chan' \in [Device -> Seq(Event)] /\ \A e \in Device : Len(chan'[e]) <= Capacity
    BY <1>2, <2>2, <2>3 DEF Types, Deliver
  <2>5. watch' \in [Device -> Watch]  BY <1>2, Constants DEF Types, Deliver
  <2> QED  BY <1>2, <2>4, <2>5 DEF Types, Deliver, outside
<1>3. CASE WatchEnds(d)
  <2>1. [Idle EXCEPT !.at = "ended"] \in Watch  BY Constants DEF Idle, Watch
  <2> QED  BY <1>3, <2>1 DEF Types, WatchEnds, outside
<1>4. CASE Stop(d)
  <2>1. upsets' \in 0..MaxUpsets  BY <1>4, UpsetType DEF Stop
  <2> QED  BY <1>4, <2>1, Constants DEF Types, Stop, outside
<1> QED  BY <1>1, <1>2, <1>3, <1>4

LEMMA LoopTypes ==
    ASSUME Types, NEW d \in Device,
           Receive(d) \/ StoreCapture(d) \/ StoreFails(d) \/ SetPaused(d)
    PROVE  Types'
<1>1. CASE Receive(d)
  <2>1. chan[d] \in Seq(Event) /\ chan[d] # <<>>  BY <1>1 DEF Types, Receive
  <2>2. /\ Head(chan[d]) \in Event /\ Tail(chan[d]) \in Seq(Event)
        /\ Len(Tail(chan[d])) = Len(chan[d]) - 1
    BY <2>1
  <2>3. [at |-> "store", content |-> Head(chan[d]).content] \in Loop
    BY <2>2 DEF Event, Loop
  <2>4. loop' \in [Device -> Loop] /\ missed' \in [Device -> BOOLEAN]
    BY <1>1, <2>3 DEF Types, Receive
  <2>5. Len(Tail(chan[d])) <= Capacity  BY <2>1, <2>2, ClipboardsAssumption DEF Types
  <2>6. chan' \in [Device -> Seq(Event)] /\ \A e \in Device : Len(chan'[e]) <= Capacity
    BY <1>1, <2>2, <2>5 DEF Types, Receive
  <2> QED  BY <1>1, <2>4, <2>6 DEF Types, Receive, outside, watcher
<1>2. CASE StoreCapture(d)
  <2>1. loop[d].content \in Content  BY DEF Types, Loop
  <2> QED  BY <1>2, <2>1, Constants DEF Types, StoreCapture, outside, watcher
<1>3. CASE StoreFails(d)
  <2>1. upsets' \in 0..MaxUpsets  BY <1>3, UpsetType DEF StoreFails
  <2> QED  BY <1>3, <2>1, Constants DEF Types, StoreFails, outside, watcher
<1>4. CASE SetPaused(d)
  <2>1. upsets' \in 0..MaxUpsets  BY <1>4, UpsetType DEF SetPaused
  <2> QED  BY <1>4, <2>1 DEF Types, SetPaused, outside, watcher
<1> QED  BY <1>1, <1>2, <1>3, <1>4

LEMMA ReceivesTypes ==
    ASSUME Types, NEW a \in Device, NEW d \in Device, Receives(a, d)
    PROVE  Types'
<1>1. NewRows(a, d) \subseteq Content  BY DEF Types, NewRows
<1>2. store' \in [Device -> SUBSET Content]  BY <1>1 DEF Types, Receives
<1>3. task' \in [Device -> [Task -> Apply]]
  <2>1. CASE task' = task  BY <2>1 DEF Types
  <2>2. CASE task' # task
    <3>1. PICK newest \in NewRows(a, d) : task' = Begin(d, CHOOSE k \in Free(d) : TRUE, newest)
      BY <2>2 DEF Receives
    <3>2. Free(d) # {} /\ newest \in Content  BY <1>1 DEF Receives
    <3> QED  BY <3>1, <3>2, BeginType
  <2> QED  BY <2>1, <2>2
<1> QED  BY <1>2, <1>3 DEF Types, Receives, outside, watcher

LEMMA TaskTypes ==
    ASSUME Types, NEW d \in Device,
           \/ Request(d)
           \/ \E k \in Task : Applies(d, k) \/ WriteRest(d, k) \/ WriteFails(d, k)
    PROVE  Types'
<1>1. CASE Request(d)
  <2>1. copies' \in 0..MaxCopies  BY <1>1, ClipboardsAssumption DEF Types, Request
  <2>2. task' \in [Device -> [Task -> Apply]]
    <3>1. PICK content \in store[d] : task' = Begin(d, CHOOSE k \in Free(d) : TRUE, content)
      BY <1>1 DEF Request
    <3>2. Free(d) # {} /\ content \in Content  BY <1>1 DEF Request, Types
    <3> QED  BY <3>1, <3>2, BeginType
  <2> QED  BY <1>1, <2>1, <2>2 DEF Types, Request, outside, watcher
<1>2. ASSUME NEW k \in Task, Write(d, k) \/ WriteRest(d, k)  PROVE Types'
  <2>1. task[d][k].content \in Content  BY DEF Types, Apply
  <2>2. Materialized(task[d][k].content) \in Content  BY <2>1 DEF Materialized, Content
  <2>3. PICK payloads \in Content : Puts(d, k, payloads)
    BY <1>2, <2>1, <2>2 DEF Write, WriteRest
  <2>4. /\ os' \in [Device -> Clip] /\ notes' \in [Device -> 0..MaxNotes]
        /\ task' \in [Device -> [Task -> Apply]]
    BY <2>3, PutsType
  <2>5. upsets' \in 0..MaxUpsets  BY <1>2, UpsetType DEF Write, WriteRest, Types
  <2> QED  BY <2>3, <2>4, <2>5 DEF Types, Puts, outside
<1>3. ASSUME NEW k \in Task, WriteFails(d, k)  PROVE Types'
  <2>1. upsets' \in 0..MaxUpsets  BY <1>3, UpsetType DEF WriteFails
  <2>2. [content |-> {}, marked |-> FALSE, app |-> "clipse"] \in Clip
    BY DEF Clip, Content, App
  <2>3. os' \in [Device -> Clip] /\ notes' \in [Device -> 0..MaxNotes]
    BY <1>3, <2>2, ChangeType DEF WriteFails, Types
  <2>4. task' \in [Device -> [Task -> Apply]]  BY <1>3, Constants DEF WriteFails, Types
  <2> QED  BY <1>3, <2>1, <2>3, <2>4 DEF Types, WriteFails, outside
<1>4. ASSUME NEW k \in Task, RecordWrite(d, k)  PROVE Types'
  <2>1. task[d][k].content \in Content  BY DEF Types, Apply
  <2>2. task' \in [Device -> [Task -> Apply]]  BY <1>4, Constants DEF RecordWrite, Types
  <2>3. guard' \in [Device -> {NoEcho} \cup {{c} : c \in Content}]
    BY <1>4, <2>1 DEF RecordWrite, Types
  <2>4. echoed' \in [Device -> SUBSET Content]  BY <1>4, <2>1 DEF RecordWrite, Types
  <2>5. owed' \in [Device -> Int]  BY <1>4 DEF RecordWrite, Types
  <2> QED  BY <1>4, <2>2, <2>3, <2>4, <2>5 DEF Types, RecordWrite, outside
<1> QED  BY <1>1, <1>2, <1>3, <1>4 DEF Applies

LEMMA NextTypes == Types /\ [Next]_vars => Types'
<1> SUFFICES ASSUME Types, [Next]_vars PROVE Types'  OBVIOUS
<1>1. CASE UNCHANGED vars  BY <1>1 DEF Types, vars
<1>2. CASE Next
  BY <1>2, CopyTypes, LookTypes, LoadTypes, ClassifyTypes, WatchTypes, LoopTypes, ReceivesTypes, TaskTypes
     DEF Next, WatchThread, WatchFails, CaptureLoop
<1> QED  BY <1>1, <1>2

(* The state has its types, whatever the platforms, the copies and the       *)
(* failures: the channel is within its capacity and the guard holds at most *)
(* one hash.                                                                *)
THEOREM ClipboardsTypes == Spec => []TypeOK
<1>1. Types => TypeOK
  <2> SUFFICES ASSUME Types PROVE TypeOK  OBVIOUS
  <2>1. \A d \in Device : Cardinality(guard[d]) <= 1
    <3> SUFFICES ASSUME NEW d \in Device PROVE Cardinality(guard[d]) <= 1  OBVIOUS
    <3>1. guard[d] = {} \/ \E c \in Content : guard[d] = {c}  BY DEF Types, NoEcho
    <3> QED  BY <3>1, FS_EmptySet, FS_Singleton
  <2>2. \A d \in Device :
          /\ os[d].content \subseteq Payload /\ os[d].marked \in BOOLEAN /\ os[d].app \in App
          /\ last[d].tag \in {"Empty", "Concealed", "Data"}
          /\ watch[d].at \in {"idle", "load", "raw", "deliver", "ended"}
          /\ loop[d].at \in {"idle", "store"}
    BY DEF Types, Clip, Poll, Watch, Loop, Content
  <2>3. \A d \in Device : \A k \in Task : task[d][k].at \in {"idle", "write", "record"}
    BY DEF Types, Apply
  <2>4. \A d \in Device : \A c \in guard[d] \cup store[d] \cup echoed[d] : c \subseteq Payload
    <3> SUFFICES ASSUME NEW d \in Device, NEW c \in guard[d] \cup store[d] \cup echoed[d]
                 PROVE  c \in Content
      BY DEF Content
    <3>1. guard[d] = {} \/ \E e \in Content : guard[d] = {e}  BY DEF Types, NoEcho
    <3>2. guard[d] \subseteq Content  BY <3>1
    <3>3. store[d] \subseteq Content /\ echoed[d] \subseteq Content  BY DEF Types
    <3> QED  BY <3>2, <3>3
  <2>5. \A d \in Device : chan[d] \in Seq([captured : BOOLEAN, content : Content])
    BY DEF Types, Event
  <2> QED  BY <2>1, <2>2, <2>3, <2>4, <2>5 DEF TypeOK, Types
<1> QED  BY <1>1, InitTypes, NextTypes, PTL DEF Spec

----------------------------------------------------------------------------
(* The guard.                                                               *)

(* A hash that waits is a write no capture has been dropped for.            *)
Owes ==
    \A d \in Device : owed[d] >= 0 /\ (guard[d] # NoEcho => owed[d] > 0)

LEMMA NextOwes == Types /\ Owes /\ [Next]_vars => Owes'
<1> SUFFICES ASSUME Types, Owes, [Next]_vars PROVE Owes'  OBVIOUS
<1>1. CASE UNCHANGED <<guard, owed>>  BY <1>1 DEF Owes
<1>2. ASSUME NEW d \in Device, Classify(d)  PROVE Owes'
  <2> DEFINE raw == watch[d].raw
  <2>1. CASE ~Blocked(raw) /\ IsEcho(d, raw.content)
    <3>1. guard' = [guard EXCEPT ![d] = NoEcho] /\ owed' = [owed EXCEPT ![d] = @ - 1]
      BY <1>2, <2>1 DEF Classify, AfterCheck
    <3>2. owed[d] > 0  BY <2>1 DEF Owes, IsEcho, NoEcho
    <3> QED  BY <3>1, <3>2 DEF Owes, Types
  <2>2. CASE ~(~Blocked(raw) /\ IsEcho(d, raw.content))
    <3>1. guard' = guard /\ owed' = owed  BY <1>2, <2>2 DEF Classify, AfterCheck
    <3> QED  BY <1>1, <3>1
  <2> QED  BY <2>1, <2>2
<1>3. ASSUME NEW d \in Device, TtlPasses(d)  PROVE Owes'
  BY <1>3 DEF TtlPasses, Owes, Types
<1>4. ASSUME NEW d \in Device, NEW k \in Task, RecordWrite(d, k)  PROVE Owes'
  BY <1>4 DEF RecordWrite, Owes, Types
<1>5. CASE UNCHANGED vars  BY <1>1, <1>5 DEF vars
<1>6. CASE Next
  <2>1. PICK d \in Device :
            \/ \E c \in Copies[d] : Copy(d, c)
            \/ WatchThread(d) \/ WatchFails(d) \/ TtlPasses(d) \/ Stop(d)
            \/ CaptureLoop(d) \/ StoreFails(d) \/ SetPaused(d) \/ Request(d)
            \/ \E k \in Task : Applies(d, k) \/ WriteRest(d, k) \/ WriteFails(d, k)
            \/ \E a \in Device : Receives(a, d)
    BY <1>6 DEF Next
  <2>2. CASE \/ \E c \in Copies[d] : Copy(d, c)
             \/ Look(d) \/ Load(d) \/ LoadEnds(d) \/ Deliver(d) \/ WatchEnds(d)
             \/ WatchFails(d) \/ Stop(d)
    BY <1>1, <2>2 DEF Copy, Look, Load, LoadEnds, Deliver, WatchEnds, WatchFails, LookFails,
                      HintFails, LoadFails, Stop
  <2>3. CASE \/ CaptureLoop(d) \/ StoreFails(d) \/ SetPaused(d) \/ Request(d)
             \/ \E a \in Device : Receives(a, d)
    BY <1>1, <2>3 DEF CaptureLoop, Receive, StoreCapture, StoreFails, SetPaused, Request, Receives,
                      watcher
  <2>4. CASE \E k \in Task : Write(d, k) \/ WriteRest(d, k) \/ WriteFails(d, k)
    BY <1>1, <2>4 DEF Write, WriteRest, Puts, WriteFails
  <2> QED  BY <1>2, <1>3, <1>4, <2>1, <2>2, <2>3, <2>4 DEF WatchThread, Applies
<1> QED  BY <1>5, <1>6

(* OwnWriteGuard::check drops at most one capture for every write it was     *)
(* told of, however writes, captures and the ttl interleave.                *)
THEOREM EchoesAreWrites == Spec => []OneEchoPerWrite
<1>1. Init => Owes  BY DEF Init, Owes, NoEcho
<1>2. Owes => OneEchoPerWrite  BY DEF Owes, OneEchoPerWrite
<1> QED  BY <1>1, <1>2, InitTypes, NextTypes, NextOwes, PTL DEF Spec

----------------------------------------------------------------------------
(* Privacy.  What can be read of a clipboard was shown, and what has passed *)
(* classify has neither a secret nor too large a payload, wherever it is.   *)

Within(bytes, content) == \A x \in content : x.bytes \in bytes
Fit(bytes, content) == ~LooksSecret(content) /\ \A x \in content : x.bytes \in bytes \ Big

(* What the watch thread reads of a copy, having looked for its mark.       *)
Open(clip, thread) == {x \in clip.content : ~clip.marked \/ x.format \in thread.left}

Readable ==
    /\ \A b \in shown : Trim[b] \in shown
    /\ \A d \in Device :
          /\ Within(shown, Open(os[d], watch[d]))
          /\ Within(shown, watch[d].raw.content)

OnTheWayIn ==
    \A d \in Device :
        /\ Fit(shown, watch[d].event.content)
        /\ \A i \in DOMAIN chan[d] : Fit(shown, chan[d][i].content)
        /\ Fit(shown, loop[d].content)

Held ==
    \A d \in Device :
        /\ \A c \in store[d] : Fit(shown, c)
        /\ \A k \in Task : Fit(shown, task[d][k].content)

Private == Readable /\ OnTheWayIn /\ Held

LEMMA FitShown ==
    ASSUME NEW c, Fit(shown, c)
    PROVE  Within(shown, c)
BY DEF Fit, Within

LEMMA EmptyFit == Fit(shown, {}) /\ Within(shown, {})
BY DEF Fit, Within, LooksSecret

(* Nothing becomes unshown.                                                 *)
LEMMA ShownStays ==
    ASSUME shown \subseteq shown'
    PROVE  \A c : (Within(shown, c) => Within(shown', c)) /\ (Fit(shown, c) => Fit(shown', c))
BY DEF Within, Fit, LooksSecret

LEMMA ConvertedShown ==
    ASSUME \A b \in shown : Trim[b] \in shown, NEW pf, NEW content \in Content, Within(shown, content)
    PROVE  Within(shown, Converted(pf, content))
<1> SUFFICES ASSUME NEW x \in content
             PROVE  (IF x.format \in Trims(pf) THEN [x EXCEPT !.bytes = Trim[@]] ELSE x).bytes \in shown
  BY DEF Converted, Within
<1>1. x \in Payload /\ x.bytes \in shown  BY DEF Content, Within
<1> QED  BY <1>1 DEF Payload

LEMMA ReadBackShown ==
    ASSUME \A b \in shown : Trim[b] \in shown, NEW pf, NEW content \in Content, Within(shown, content)
    PROVE  Within(shown, ReadBack(pf, content))
<1>1. Carried(pf, content) \in Content /\ Within(shown, Carried(pf, content))
  BY DEF Carried, Content, Within
<1> QED  BY <1>1, ConvertedShown DEF ReadBack

LEMMA WriteToShown ==
    ASSUME \A b \in shown : Trim[b] \in shown, NEW pf, NEW content \in Content, Within(shown, content)
    PROVE  Within(shown, WriteTo(pf, content))
<1>1. CASE content = {}  BY <1>1, EmptyFit DEF WriteTo
<1>2. CASE content # {}
  <2>1. {x \in content : x.format \in Common} \in Content
        /\ Within(shown, {x \in content : x.format \in Common})
    BY DEF Content, Within
  <2>2. Within(shown, WriteWindows(content))  BY <2>1, ConvertedShown DEF WriteWindows
  <2>3. Within(shown, Chosen(content))  BY <1>2, ChosenType DEF Within
  <2>4. Within(shown, WriteX11(content))
    <3> SUFFICES ASSUME NEW x \in Chosen(content)
                 PROVE  [x EXCEPT !.format = IF @ \in Common THEN @ ELSE "Text"].bytes \in shown
      BY DEF WriteX11, Within
    <3>1. x \in Payload /\ x.bytes \in shown  BY <1>2, <2>3, ChosenType DEF Content, Within
    <3> QED  BY <3>1 DEF Payload
  <2> QED  BY <1>2, <2>2, <2>3, <2>4 DEF WriteTo
<1> QED  BY <1>1, <1>2

(* BytesOf is closed under Trim.                                            *)
LEMMA BytesShown ==
    ASSUME \A b \in shown : Trim[b] \in shown, NEW content \in Content,
           shown' = shown \cup BytesOf(content)
    PROVE  /\ shown \subseteq shown'
           /\ \A b \in shown' : Trim[b] \in shown'
           /\ Within(shown', content)
<1>1. \A x \in content : Trim[Trim[x.bytes]] = Trim[x.bytes]
  BY ClipboardsAssumption DEF Content, Payload
<1> QED  BY <1>1 DEF BytesOf, Within

(* What a device may read on, if its clipboard is as it was or all open.    *)
LEMMA OpenAfter ==
    ASSUME Private, shown \subseteq shown', \A b \in shown' : Trim[b] \in shown',
           \A e \in Device : \/ Open(os'[e], watch'[e]) \subseteq Open(os[e], watch[e])
                            \/ Within(shown', Open(os'[e], watch'[e])),
           \A e \in Device : \/ watch'[e].raw = watch[e].raw
                            \/ Within(shown', watch'[e].raw.content)
    PROVE  Readable'
<1> SUFFICES ASSUME NEW e \in Device
             PROVE  /\ Within(shown', Open(os'[e], watch'[e]))
                    /\ Within(shown', watch'[e].raw.content)
  BY DEF Readable
<1>1. Within(shown, Open(os[e], watch[e])) /\ Within(shown, watch[e].raw.content)
  BY DEF Private, Readable
<1>2. Within(shown', Open(os[e], watch[e])) /\ Within(shown', watch[e].raw.content)
  BY <1>1 DEF Within
<1>3. Within(shown', Open(os'[e], watch'[e]))  BY <1>2 DEF Within
<1> QED  BY <1>2, <1>3

LEMMA InitPrivate == Init => Private
<1> SUFFICES ASSUME Init PROVE Private  OBVIOUS
<1>1. Readable
  <2>1. \A d \in Device : os[d].content = {} /\ watch[d].raw.content = {}
    BY DEF Init, Idle, NoPoll
  <2>2. shown = {}  BY DEF Init
  <2> QED  BY <2>1, <2>2 DEF Readable, Open, Within
<1>2. OnTheWayIn
  <2>1. \A d \in Device : DOMAIN chan[d] = {}  BY DEF Init
  <2> QED  BY <2>1, EmptyFit DEF Init, OnTheWayIn, Idle, Suppressed, Waiting
<1>3. Held  BY EmptyFit DEF Init, Held, Waiting
<1> QED  BY <1>1, <1>2, <1>3 DEF Private

LEMMA CopyPrivate ==
    ASSUME Types, Private, NEW d \in Device, NEW c \in Copies[d], Copy(d, c)
    PROVE  Private'
<1> DEFINE open == {x \in c.content : ~c.marked \/ x.format \in watch[d].left}
<1>1. open \in Content  BY ClipboardsAssumption DEF Content
<1>2. shown' = shown \cup BytesOf(open)  BY DEF Copy
<1>3. /\ shown \subseteq shown'
      /\ \A b \in shown' : Trim[b] \in shown'
      /\ Within(shown', open)
  <2> HIDE DEF open
  <2> QED  BY <1>1, <1>2, BytesShown DEF Private, Readable
<1>4. \A e : (Within(shown, e) => Within(shown', e)) /\ (Fit(shown, e) => Fit(shown', e))  BY <1>3, ShownStays
<1>5. OnTheWayIn' /\ Held'  BY <1>4 DEF Copy, Private, OnTheWayIn, Held
<1>6. os' = [os EXCEPT ![d] = c] /\ watch' = watch  BY DEF Copy, ChangeClipboard
<1>7. Open(os'[d], watch'[d]) = open  BY <1>6 DEF Types, Open
<1>8. \A e \in Device : \/ Open(os'[e], watch'[e]) \subseteq Open(os[e], watch[e])
                       \/ Within(shown', Open(os'[e], watch'[e]))
  <2> HIDE DEF open
  <2> QED  BY <1>3, <1>6, <1>7 DEF Types
<1>9. Readable'  BY <1>3, <1>6, <1>8, OpenAfter
<1> QED  BY <1>5, <1>9 DEF Private

(* The steps of the watch thread that leave the clipboard as it is.          *)
Polls(d) == Look(d) \/ LookFails(d) \/ HintFails(d) \/ Load(d) \/ LoadFails(d) \/ LoadEnds(d)

(* A poll that has found something.                                          *)
LEMMA FindsPrivate ==
    ASSUME Types, Private, NEW d \in Device, NEW poll, Within(shown, poll.content), Finds(d, poll),
           NEW e \in Device
    PROVE  /\ \/ watch'[e] = watch[e]
              \/ watch'[e].left = {} /\ Fit(shown, watch'[e].event.content)
           /\ Within(shown, watch'[e].raw.content)
<1>1. Within(shown, watch[e].raw.content)  BY DEF Private, Readable
<1>2. PICK thread \in {Idle, [Idle EXCEPT !.at = "raw", !.raw = poll]} :
         watch' = [watch EXCEPT ![d] = thread]
  BY DEF Finds
<1>3. thread.left = {} /\ thread.event = Suppressed /\ thread.raw \in {NoPoll, poll}
  <2>1. CASE thread = Idle  BY <2>1 DEF Idle
  <2>2. CASE thread = [Idle EXCEPT !.at = "raw", !.raw = poll]  BY <2>2 DEF Idle
  <2> QED  BY <2>1, <2>2
<1>4. Fit(shown, thread.event.content) /\ Within(shown, thread.raw.content)
  BY <1>3, EmptyFit DEF Suppressed, NoPoll
<1>5. watch'[e] = thread \/ watch'[e] = watch[e]  BY <1>2 DEF Types
<1> QED  BY <1>1, <1>3, <1>4, <1>5

LEMMA BeginsPrivate ==
    ASSUME Types, Private, NEW d \in Device, BeginsToLoad(d), NEW e \in Device
    PROVE  /\ Fit(shown, watch'[e].event.content)
           /\ Within(shown, watch'[e].raw.content)
           /\ e # d => watch'[e] = watch[e]
<1>1. Within(shown, watch[e].raw.content) /\ Fit(shown, watch[e].event.content)
  BY DEF Private, Readable, OnTheWayIn
<1>2. CASE e # d  BY <1>1, <1>2 DEF BeginsToLoad, Types
<1>3. CASE e = d
  <2>1. watch'[d] = [Idle EXCEPT !.at = "load", !.left = Requests(platform[d])]
    BY DEF BeginsToLoad, Types
  <2>2. watch'[d].event = Suppressed /\ watch'[d].raw = NoPoll  BY <2>1 DEF Idle
  <2> QED  BY <1>3, <2>2, EmptyFit DEF Suppressed, NoPoll
<1> QED  BY <1>2, <1>3

(* What is read of the clipboard, with its mark missed or not there.        *)
LEMMA AnswerShown ==
    ASSUME Types, Private, NEW d \in Device, NEW f \in watch[d].left
    PROVE  Within(shown, Answer(d, f))
<1> DEFINE asked == {x \in os[d].content : x.format = f}
<1>1. asked \in Content  BY DEF Types, Clip, Content
<1>2. Within(shown, asked)
  <2>1. asked \subseteq Open(os[d], watch[d])  BY DEF Open
  <2> QED  BY <2>1 DEF Private, Readable, Within
<1>3. Within(shown, Converted(platform[d], asked))
  <2> HIDE DEF asked
  <2> QED  BY <1>1, <1>2, ConvertedShown DEF Private, Readable
<1>4. Answer(d, f) \subseteq Converted(platform[d], asked)
  <2> SUFFICES ASSUME NEW x \in os[d].content,
                      (IF x.format \in Trims(platform[d]) THEN [x EXCEPT !.bytes = Trim[@]] ELSE x).format = f
               PROVE  x \in asked
    BY DEF Answer, Converted
  <2>1. x \in Payload  BY DEF Types, Clip, Content
  <2> QED  BY <2>1 DEF Payload
<1> QED  BY <1>3, <1>4 DEF Within

LEMMA PollStep ==
    ASSUME Types, Private, NEW d \in Device, Polls(d), ~HintFails(d)
    PROVE  \A e \in Device :
              /\ Open(os[e], watch'[e]) \subseteq Open(os[e], watch[e])
              /\ Within(shown, watch'[e].raw.content)
              /\ Fit(shown, watch'[e].event.content)
<1> SUFFICES ASSUME NEW e \in Device
             PROVE  /\ Open(os[e], watch'[e]) \subseteq Open(os[e], watch[e])
                    /\ Within(shown, watch'[e].raw.content)
                    /\ Fit(shown, watch'[e].event.content)
  OBVIOUS
<1>0. /\ Within(shown, watch[e].raw.content) /\ Fit(shown, watch[e].event.content)
      /\ Within(shown, watch[d].raw.content)
      /\ watch[e] \in Watch /\ watch[d] \in Watch
  BY DEF Types, Private, Readable, OnTheWayIn
<1>1. ASSUME NEW poll, Within(shown, poll.content), Finds(d, poll)
      PROVE  /\ Open(os[e], watch'[e]) \subseteq Open(os[e], watch[e])
             /\ Within(shown, watch'[e].raw.content)
             /\ Fit(shown, watch'[e].event.content)
  <2>1. /\ \/ watch'[e] = watch[e]
           \/ watch'[e].left = {} /\ Fit(shown, watch'[e].event.content)
        /\ Within(shown, watch'[e].raw.content)
    BY <1>1, FindsPrivate
  <2> QED  BY <1>0, <2>1 DEF Open
<1>2. ASSUME NEW content \in Content, Within(shown, content), NEW b
      PROVE  Within(shown, DataOf(content, b).content)
  BY <1>2, EmptyFit DEF DataOf, NoPoll
<1>3. Within(shown, NoPoll.content) /\ Within(shown, Concealed.content)
  BY EmptyFit DEF NoPoll, Concealed
<1>4. CASE Look(d)
  <2>1. CASE os[d].marked  BY <1>1, <1>3, <1>4, <2>1 DEF Look, LookAtMark
  <2>2. CASE ~os[d].marked
    <3>1. os[d].content \in Content  BY DEF Types, Clip
    <3>2. Open(os[d], watch[d]) = os[d].content  BY <2>2 DEF Open
    <3>3. Within(shown, ReadBack("windows", os[d].content))
      BY <3>1, <3>2, ReadBackShown DEF Private, Readable
    <3>4. ReadBack("windows", os[d].content) \in Content  BY <3>1, ReadBackType
    <3>5. CASE platform[d] = "windows"
      <4>1. PICK app : Finds(d, DataOf(ReadBack("windows", os[d].content), IsBlocked(app)))
        BY <1>4, <2>2, <3>5 DEF Look, LookAtMark, LookUnmarked
      <4> QED  BY <1>1, <1>2, <3>3, <3>4, <4>1
    <3>6. CASE platform[d] # "windows"
      <4>1. BeginsToLoad(d)  BY <1>4, <2>2, <3>6 DEF Look, LookAtMark, LookUnmarked
      <4>2. e = d => Open(os[e], watch'[e]) \subseteq Open(os[e], watch[e])
        BY <3>2 DEF Open
      <4> QED  BY <1>0, <4>1, <4>2, BeginsPrivate
    <3> QED  BY <3>5, <3>6
  <2> QED  BY <2>1, <2>2
<1>5. CASE LookFails(d)  BY <1>1, <1>3, <1>5 DEF LookFails
<1>6. CASE Load(d)
  <2>1. PICK f \in Format :
          /\ f \in watch[d].left
          /\ watch' = [watch EXCEPT ![d].left = @ \ {f}, ![d].raw.content = @ \cup Answer(d, f)]
    BY <1>6 DEF Load, Asks
  <2>2. Within(shown, watch[d].raw.content \cup Answer(d, f))
    BY <1>0, <2>1, AnswerShown DEF Within
  <2>3. CASE e # d  BY <1>0, <2>1, <2>3 DEF Types
  <2>4. CASE e = d
    <3>1. /\ watch'[d].left = watch[d].left \ {f} /\ watch'[d].event = watch[d].event
          /\ watch'[d].raw.content = watch[d].raw.content \cup Answer(d, f)
      BY <1>0, <2>1 DEF Types, Watch, Poll
    <3> QED  BY <1>0, <2>2, <2>4, <3>1 DEF Open
  <2> QED  BY <2>3, <2>4
<1>7. CASE LoadFails(d)
  <2>1. PICK f \in Format : watch' = [watch EXCEPT ![d].left = @ \ {f}]
    BY <1>7 DEF LoadFails
  <2>2. /\ watch'[e].left \subseteq watch[e].left /\ watch'[e].event = watch[e].event
        /\ watch'[e].raw = watch[e].raw
    BY <1>0, <2>1 DEF Types, Watch
  <2> QED  BY <1>0, <2>2 DEF Open
<1>8. CASE LoadEnds(d)
  <2>1. watch[d].raw.content \in Content  BY <1>0 DEF Watch, Poll
  <2>2. PICK app : Finds(d, DataOf(watch[d].raw.content, IsBlocked(app)))
    BY <1>8 DEF LoadEnds
  <2> QED  BY <1>0, <1>1, <1>2, <2>1, <2>2
<1> QED  BY <1>4, <1>5, <1>6, <1>7, <1>8 DEF Polls

LEMMA LookPrivate ==
    ASSUME Types, Private, NEW d \in Device, Polls(d)
    PROVE  Private'
<1>1. UNCHANGED <<os, chan, loop, store, task>>
  BY DEF Polls, Look, LookFails, HintFails, Load, LoadFails, LoadEnds, outside
<1>2. CASE HintFails(d)
  <2>1. os[d].content \in Content /\ shown' = shown \cup BytesOf(os[d].content)
    BY <1>2 DEF HintFails, Types, Clip
  <2>2. /\ shown \subseteq shown'
        /\ \A b \in shown' : Trim[b] \in shown'
        /\ Within(shown', os[d].content)
    BY <2>1, BytesShown DEF Private, Readable
  <2>3. \A c : (Within(shown, c) => Within(shown', c)) /\ (Fit(shown, c) => Fit(shown', c))
    BY <2>2, ShownStays
  <2>4. \A e \in Device :
          /\ Fit(shown, watch'[e].event.content)
          /\ Within(shown, watch'[e].raw.content)
          /\ e # d => watch'[e] = watch[e]
    BY <1>2, BeginsPrivate DEF HintFails
  <2>5. Within(shown', Open(os'[d], watch'[d]))  BY <1>1, <2>2 DEF Open, Within
  <2>6. \A e \in Device : \/ Open(os'[e], watch'[e]) \subseteq Open(os[e], watch[e])
                         \/ Within(shown', Open(os'[e], watch'[e]))
    BY <1>1, <2>4, <2>5
  <2>7. \A e \in Device : Within(shown', watch'[e].raw.content) /\ Fit(shown', watch'[e].event.content)
    BY <2>3, <2>4
  <2>8. Readable'  BY <2>2, <2>6, <2>7, OpenAfter
  <2>9. OnTheWayIn'
    <3>1. OnTheWayIn  BY DEF Private
    <3> QED  BY <1>1, <2>3, <2>7, <3>1 DEF OnTheWayIn
  <2>10. Held'
    <3>1. Held  BY DEF Private
    <3> QED  BY <1>1, <2>3, <3>1 DEF Held
  <2> QED  BY <2>8, <2>9, <2>10 DEF Private
<1>3. CASE ~HintFails(d)
  <2>1. shown' = shown
    BY <1>3 DEF Polls, Look, LookFails, Load, LoadFails, LoadEnds, outside
  <2>2. \A c : (Within(shown, c) => Within(shown', c)) /\ (Fit(shown, c) => Fit(shown', c))
    BY <2>1
  <2>3. \A e \in Device :
          /\ Open(os[e], watch'[e]) \subseteq Open(os[e], watch[e])
          /\ Within(shown, watch'[e].raw.content)
          /\ Fit(shown, watch'[e].event.content)
    BY <1>3, PollStep
  <2>4. \A b \in shown' : Trim[b] \in shown'  BY <2>1 DEF Private, Readable
  <2>5. Readable'  BY <1>1, <2>1, <2>3, <2>4, OpenAfter
  <2>6. OnTheWayIn' /\ Held'  BY <1>1, <2>2, <2>3 DEF Private, OnTheWayIn, Held
  <2> QED  BY <2>5, <2>6 DEF Private
<1> QED  BY <1>2, <1>3

LEMMA ClassifyPrivate ==
    ASSUME Types, Private, NEW d \in Device, Classify(d)
    PROVE  Private'
<1> DEFINE raw == watch[d].raw
           out == IF Blocked(raw) \/ (~Blocked(raw) /\ IsEcho(d, raw.content)) \/ LooksSecret(raw.content)
                  THEN Suppressed ELSE Captured(raw.content)
<1>1. UNCHANGED <<os, shown, chan, loop, store, task>>  BY DEF Classify, outside
<1>2. \A c : (Within(shown, c) <=> Within(shown', c)) /\ (Fit(shown, c) <=> Fit(shown', c))
  BY <1>1 DEF Within, Fit, LooksSecret
<1>3. watch' = [watch EXCEPT ![d] = [Idle EXCEPT !.at = "deliver", !.event = out]]
  BY DEF Classify
<1>4. Fit(shown, out.content)
  <2>1. Within(shown, raw.content)  BY DEF Private, Readable
  <2>2. CASE out = Suppressed  BY <2>2, EmptyFit DEF Suppressed
  <2>3. CASE out # Suppressed
    <3>1. ~Blocked(raw) /\ ~LooksSecret(raw.content) /\ out = Captured(raw.content)  BY <2>3
    <3> QED  BY <2>1, <3>1 DEF Blocked, Fit, Within, Captured
  <2> QED  BY <2>2, <2>3
<1>5. \A e \in Device :
        /\ Open(os'[e], watch'[e]) \subseteq Open(os[e], watch[e])
        /\ Within(shown, watch'[e].raw.content)
        /\ Fit(shown, watch'[e].event.content)
  <2> SUFFICES ASSUME NEW e \in Device
               PROVE  /\ Open(os'[e], watch'[e]) \subseteq Open(os[e], watch[e])
                      /\ Within(shown, watch'[e].raw.content)
                      /\ Fit(shown, watch'[e].event.content)
    OBVIOUS
  <2>1. CASE e = d
    <3>1. watch'[d].left = {} /\ watch'[d].raw = NoPoll /\ watch'[d].event = out
      <4> HIDE DEF out
      <4> QED  BY <1>3 DEF Types, Idle
    <3> QED  BY <1>1, <1>4, <2>1, <3>1, EmptyFit DEF NoPoll, Open
  <2>2. CASE e # d
    <3>1. watch'[e] = watch[e]  BY <1>3, <2>2 DEF Types
    <3> QED  BY <1>1, <3>1 DEF Private, Readable, OnTheWayIn
  <2> QED  BY <2>1, <2>2
<1>6. Readable'
  <2>1. shown' = shown /\ \A b \in shown : Trim[b] \in shown  BY <1>1 DEF Private, Readable
  <2> QED  BY <1>2, <1>5, <2>1, OpenAfter
<1>7. OnTheWayIn' /\ Held'  BY <1>1, <1>2, <1>5 DEF Private, OnTheWayIn, Held
<1> QED  BY <1>6, <1>7 DEF Private

(* A step that leaves clipboards, watch threads and copies alone.            *)
LEMMA ReadableStays ==
    ASSUME Readable, UNCHANGED <<os, watch, shown>>
    PROVE  Readable'
BY DEF Readable

LEMMA DeliverPrivate ==
    ASSUME Types, Private, NEW d \in Device, Deliver(d) \/ WatchEnds(d)
    PROVE  Private'
<1>1. UNCHANGED <<os, shown, loop, store, task>>  BY DEF Deliver, WatchEnds, outside
<1>2. \E at \in {"idle", "ended"} : watch' = [watch EXCEPT ![d] = [Idle EXCEPT !.at = at]]
  BY DEF Deliver, WatchEnds, Idle
<1>3. \A e \in Device :
        /\ Open(os'[e], watch'[e]) \subseteq Open(os[e], watch[e])
        /\ Within(shown, watch'[e].raw.content)
        /\ Fit(shown, watch'[e].event.content)
  <2> SUFFICES ASSUME NEW e \in Device
               PROVE  /\ Open(os'[e], watch'[e]) \subseteq Open(os[e], watch[e])
                      /\ Within(shown, watch'[e].raw.content)
                      /\ Fit(shown, watch'[e].event.content)
    OBVIOUS
  <2>1. CASE e = d
    <3>1. watch'[d].left = {} /\ watch'[d].raw = NoPoll /\ watch'[d].event = Suppressed
      BY <1>2 DEF Types, Idle
    <3> QED  BY <1>1, <2>1, <3>1, EmptyFit DEF NoPoll, Suppressed, Open
  <2>2. CASE e # d
    <3>1. watch'[e] = watch[e]  BY <1>2, <2>2 DEF Types
    <3> QED  BY <1>1, <3>1 DEF Private, Readable, OnTheWayIn
  <2> QED  BY <2>1, <2>2
<1>4. Readable'
  <2>1. shown' = shown /\ \A b \in shown : Trim[b] \in shown  BY <1>1 DEF Private, Readable
  <2> QED  BY <1>3, <2>1, OpenAfter
<1>5. \A e \in Device : \A i \in DOMAIN chan'[e] : Fit(shown, chan'[e][i].content)
  <2>1. CASE chan' = chan  BY <2>1 DEF Private, OnTheWayIn
  <2>2. CASE chan' = [chan EXCEPT ![d] = Append(@, watch[d].event)]
    <3> SUFFICES ASSUME NEW e \in Device, NEW i \in DOMAIN chan'[e]
                 PROVE  Fit(shown, chan'[e][i].content)
      OBVIOUS
    <3>1. watch[d].event \in Event /\ chan[d] \in Seq(Event)  BY DEF Types, Watch
    <3>2. CASE e # d  BY <2>2, <3>2 DEF Types, Private, OnTheWayIn
    <3>3. CASE e = d
      <4>1. chan'[d] = Append(chan[d], watch[d].event)  BY <2>2 DEF Types
      <4>2. CASE i = Len(chan[d]) + 1
        BY <3>1, <3>3, <4>1, <4>2 DEF Private, OnTheWayIn
      <4>3. CASE i # Len(chan[d]) + 1
        <5>1. i \in DOMAIN chan[d] /\ chan'[d][i] = chan[d][i]  BY <3>1, <3>3, <4>1, <4>3
        <5> QED  BY <3>3, <5>1 DEF Private, OnTheWayIn
      <4> QED  BY <4>2, <4>3
    <3> QED  BY <3>2, <3>3
  <2> QED  BY <2>1, <2>2 DEF Deliver, WatchEnds
<1>6. OnTheWayIn' /\ Held'  BY <1>1, <1>3, <1>5 DEF Private, OnTheWayIn, Held
<1> QED  BY <1>4, <1>6 DEF Private

LEMMA LoopPrivate ==
    ASSUME Types, Private, NEW d \in Device,
           \/ TtlPasses(d) \/ Stop(d) \/ SetPaused(d)
           \/ Receive(d) \/ StoreCapture(d) \/ StoreFails(d)
    PROVE  Private'
<1>1. UNCHANGED <<os, watch, shown, task>>
  BY DEF TtlPasses, Stop, SetPaused, Receive, StoreCapture, StoreFails, outside, watcher
<1>2. \A e \in Device : \A i \in DOMAIN chan'[e] : Fit(shown, chan'[e][i].content)
  <2>1. CASE chan' = chan  BY <2>1 DEF Private, OnTheWayIn
  <2>2. CASE Receive(d)
    <3> SUFFICES ASSUME NEW e \in Device, NEW i \in DOMAIN chan'[e]
                 PROVE  Fit(shown, chan'[e][i].content)
      OBVIOUS
    <3>1. CASE e # d  BY <2>2, <3>1 DEF Receive, Types, Private, OnTheWayIn
    <3>2. CASE e = d
      <4>1. chan'[d] = Tail(chan[d]) /\ chan[d] \in Seq(Event) /\ chan[d] # <<>>
        BY <2>2 DEF Receive, Types
      <4>2. i + 1 \in DOMAIN chan[d] /\ chan'[d][i] = chan[d][i + 1]  BY <3>2, <4>1
      <4> QED  BY <3>2, <4>2 DEF Private, OnTheWayIn
    <3> QED  BY <3>1, <3>2
  <2> QED  BY <2>1, <2>2 DEF TtlPasses, Stop, SetPaused, StoreCapture, StoreFails
<1>3. \A e \in Device : Fit(shown, loop'[e].content)
  <2>1. CASE loop' = loop  BY <2>1 DEF Private, OnTheWayIn
  <2>2. CASE loop' = [loop EXCEPT ![d] = Waiting]
    BY <2>2, EmptyFit DEF Types, Waiting, Private, OnTheWayIn
  <2>3. CASE Receive(d) /\ loop' # loop
    <3>1. loop' = [loop EXCEPT ![d] = [at |-> "store", content |-> Head(chan[d]).content]]
      BY <2>3 DEF Receive
    <3>2. chan[d] \in Seq(Event) /\ chan[d] # <<>>  BY <2>3 DEF Receive, Types
    <3>3. Head(chan[d]) = chan[d][1] /\ 1 \in DOMAIN chan[d]  BY <3>2
    <3>4. Fit(shown, Head(chan[d]).content)  BY <3>3 DEF Private, OnTheWayIn
    <3> QED  BY <3>1, <3>4 DEF Types, Private, OnTheWayIn
  <2> QED
    BY <2>1, <2>2, <2>3 DEF TtlPasses, Stop, SetPaused, StoreCapture, StoreFails
<1>4. \A e \in Device : \A c \in store'[e] : Fit(shown, c)
  <2>1. CASE store' = store  BY <2>1 DEF Private, Held
  <2>2. CASE StoreCapture(d)
    <3>1. Fit(shown, loop[d].content)  BY DEF Private, OnTheWayIn
    <3> QED  BY <2>2, <3>1 DEF StoreCapture, Types, Private, Held
  <2> QED  BY <2>1, <2>2 DEF TtlPasses, Stop, SetPaused, Receive, StoreFails
<1>5. Readable'  BY <1>1, ReadableStays DEF Private
<1>6. OnTheWayIn' /\ Held'  BY <1>1, <1>2, <1>3, <1>4 DEF Private, OnTheWayIn, Held
<1> QED  BY <1>5, <1>6 DEF Private

LEMMA TaskFit ==
    ASSUME Types, Private, NEW d \in Device, NEW k \in Task, NEW r, Fit(shown, r.content),
           task' = [task EXCEPT ![d][k] = r]
    PROVE  \A e \in Device : \A i \in Task : Fit(shown, task'[e][i].content)
<1> SUFFICES ASSUME NEW e \in Device, NEW i \in Task PROVE Fit(shown, task'[e][i].content)
  OBVIOUS
<1>1. task'[e][i] = r \/ task'[e][i] = task[e][i]  BY DEF Types
<1>2. Fit(shown, task[e][i].content)  BY DEF Private, Held
<1> QED  BY <1>1, <1>2

LEMMA BeginPrivate ==
    ASSUME Types, Private, NEW d \in Device, Free(d) # {}, NEW content, Fit(shown, content),
           task' = Begin(d, CHOOSE k \in Free(d) : TRUE, content)
    PROVE  \A e \in Device : \A k \in Task : Fit(shown, task'[e][k].content)
<1> DEFINE j == CHOOSE k \in Free(d) : TRUE
           r == [at |-> "write", content |-> content]
<1>1. j \in Task  BY DEF Free
<1>2. task' = [task EXCEPT ![d][j] = r] /\ r.content = content  BY DEF Begin
<1> HIDE DEF j, r
<1> QED  BY <1>1, <1>2, TaskFit

LEMMA SessionPrivate ==
    ASSUME Types, Private, NEW d \in Device, Request(d) \/ \E a \in Device : Receives(a, d)
    PROVE  Private'
<1>1. UNCHANGED <<os, watch, shown, chan, loop>>  BY DEF Request, Receives, outside, watcher
<1>2. \A e \in Device : \A c \in store'[e] : Fit(shown, c)
  <2>1. CASE store' = store  BY <2>1 DEF Private, Held
  <2>2. ASSUME NEW a \in Device, Receives(a, d)
        PROVE  \A e \in Device : \A c \in store'[e] : Fit(shown, c)
    BY <2>2 DEF Receives, NewRows, Types, Private, Held
  <2> QED  BY <2>1, <2>2 DEF Request
<1>3. \A e \in Device : \A k \in Task : Fit(shown, task'[e][k].content)
  <2>1. CASE task' = task  BY <2>1 DEF Private, Held
  <2>2. CASE task' # task
    <3>1. PICK content \in UNION {store[a] : a \in Device} :
            Free(d) # {} /\ task' = Begin(d, CHOOSE k \in Free(d) : TRUE, content)
      BY <2>2 DEF Request, Receives, NewRows
    <3>2. Fit(shown, content)  BY DEF Private, Held
    <3> QED  BY <3>1, <3>2, BeginPrivate
  <2> QED  BY <2>1, <2>2
<1>4. Readable'  BY <1>1, ReadableStays DEF Private
<1>5. OnTheWayIn' /\ Held'  BY <1>1, <1>2, <1>3 DEF Private, OnTheWayIn, Held
<1> QED  BY <1>4, <1>5 DEF Private

LEMMA ApplyPrivate ==
    ASSUME Types, Private, NEW d \in Device, NEW k \in Task,
           Applies(d, k) \/ WriteRest(d, k) \/ WriteFails(d, k)
    PROVE  Private'
<1> DEFINE written(payloads) == [content |-> WriteTo(platform[d], payloads),
                                 marked |-> FALSE, app |-> "clipse"]
<1>1. UNCHANGED <<watch, shown, chan, loop, store>>
  BY DEF Applies, Write, WriteRest, WriteFails, RecordWrite, Puts, outside
<1>2. task[d][k].content \in Content /\ Fit(shown, task[d][k].content)
  BY DEF Types, Apply, Private, Held
<1>3. ASSUME NEW payloads \in Content, Puts(d, k, payloads), Fit(shown, payloads)
      PROVE  /\ os' = os \/ os' = [os EXCEPT ![d] = written(payloads)]
             /\ \/ task' = [task EXCEPT ![d][k] = Waiting]
                \/ task' = [task EXCEPT ![d][k] = [at |-> "record", content |-> payloads]]
  BY <1>3 DEF Puts, ChangeClipboard
<1>4. \E payloads \in Content :
        /\ Fit(shown, payloads)
        /\ \/ os' = os
           \/ os' = [os EXCEPT ![d] = written(payloads)]
           \/ os' = [os EXCEPT ![d] = [content |-> {}, marked |-> FALSE, app |-> "clipse"]]
        /\ \/ task' = [task EXCEPT ![d][k] = Waiting]
           \/ task' = [task EXCEPT ![d][k] = [at |-> "record", content |-> payloads]]
  <2>1. CASE Write(d, k)  BY <1>2, <1>3, <2>1 DEF Write
  <2>2. CASE WriteRest(d, k)
    <3>1. Materialized(task[d][k].content) \in Content
          /\ Fit(shown, Materialized(task[d][k].content))
      BY <1>2 DEF Materialized, Content, Fit, LooksSecret
    <3> QED  BY <1>3, <2>2, <3>1 DEF WriteRest
  <2>3. CASE WriteFails(d, k)  BY <1>2, <2>3 DEF WriteFails, ChangeClipboard
  <2>4. CASE RecordWrite(d, k)  BY <1>2, <2>4 DEF RecordWrite
  <2> QED  BY <2>1, <2>2, <2>3, <2>4 DEF Applies
<1>5. PICK payloads \in Content :
        /\ Fit(shown, payloads)
        /\ \/ os' = os
           \/ os' = [os EXCEPT ![d] = written(payloads)]
           \/ os' = [os EXCEPT ![d] = [content |-> {}, marked |-> FALSE, app |-> "clipse"]]
        /\ \/ task' = [task EXCEPT ![d][k] = Waiting]
           \/ task' = [task EXCEPT ![d][k] = [at |-> "record", content |-> payloads]]
  BY <1>4
<1>6. \A e \in Device : \A i \in Task : Fit(shown, task'[e][i].content)
  <2>1. Fit(shown, Waiting.content)  BY EmptyFit DEF Waiting
  <2>2. CASE task' = [task EXCEPT ![d][k] = Waiting]  BY <2>1, <2>2, TaskFit
  <2>3. CASE task' = [task EXCEPT ![d][k] = [at |-> "record", content |-> payloads]]
    <3> DEFINE r == [at |-> "record", content |-> payloads]
    <3>1. task' = [task EXCEPT ![d][k] = r] /\ Fit(shown, r.content)  BY <1>5, <2>3
    <3> HIDE DEF r
    <3> QED  BY <3>1, TaskFit
  <2> QED  BY <1>5, <2>2, <2>3
<1>7. Within(shown, WriteTo(platform[d], payloads))
  <2>1. Within(shown, payloads)  BY <1>5, FitShown
  <2> QED  BY <2>1, WriteToShown DEF Private, Readable
<1>8. \A e \in Device : os'[e] = os[e] \/ Within(shown, os'[e].content)
  <2>1. CASE os' = os  BY <2>1
  <2>2. CASE os' = [os EXCEPT ![d] = written(payloads)]
    BY <1>7, <2>2 DEF Types
  <2>3. CASE os' = [os EXCEPT ![d] = [content |-> {}, marked |-> FALSE, app |-> "clipse"]]
    BY <2>3, EmptyFit DEF Types
  <2> QED  BY <1>5, <2>1, <2>2, <2>3
<1>9. Readable'
  <2>1. shown' = shown /\ \A b \in shown : Trim[b] \in shown  BY <1>1 DEF Private, Readable
  <2>2. \A e \in Device : \/ Open(os'[e], watch'[e]) \subseteq Open(os[e], watch[e])
                         \/ Within(shown, Open(os'[e], watch'[e]))
    BY <1>1, <1>8 DEF Open, Within
  <2> QED  BY <1>1, <2>1, <2>2, OpenAfter
<1>10. OnTheWayIn' /\ Held'  BY <1>1, <1>6 DEF Private, OnTheWayIn, Held
<1> QED  BY <1>9, <1>10 DEF Private

LEMMA NextPrivate == Types /\ Private /\ [Next]_vars => Private'
<1> SUFFICES ASSUME Types, Private, [Next]_vars PROVE Private'  OBVIOUS
<1>1. CASE UNCHANGED vars
  BY <1>1 DEF vars, Private, Readable, OnTheWayIn, Held
<1>2. CASE Next
  BY <1>2, CopyPrivate, LookPrivate, ClassifyPrivate, DeliverPrivate, LoopPrivate,
     SessionPrivate, ApplyPrivate DEF Next, WatchThread, WatchFails, Polls, CaptureLoop
<1> QED  BY <1>1, <1>2

(* No history holds what looks like a secret, is too large, or was only ever *)
(* copied as concealed: what classify suppresses on one device comes in by   *)
(* no session, no request and no echo on any other, whatever their           *)
(* platforms convert.  (A concealed copy counts as shown where the watch     *)
(* thread misses its mark: the request for the hint fails, or the copy       *)
(* arrives after that request, in the formats asked for next.)               *)
THEOREM HistoryIsClean == Spec => []NothingPrivateStored
<1>1. Private => NothingPrivateStored  BY DEF Private, Held, Fit, NothingPrivateStored
<1> QED  BY <1>1, InitTypes, NextTypes, InitPrivate, NextPrivate, PTL DEF Spec

----------------------------------------------------------------------------
(* The last copy.  A content that the watch thread has read is somewhere     *)
(* between its poll and the history, or was recorded as a write.            *)

Between(thread, queue, capture, kept, content) ==
    \/ /\ thread.at = "raw" /\ thread.raw.tag = "Data"
       /\ thread.raw.content = content /\ ~thread.raw.blocked
    \/ thread.at = "deliver" /\ thread.event = Captured(content)
    \/ \E i \in DOMAIN queue : queue[i] = Captured(content)
    \/ capture.at = "store" /\ capture.content = content
    \/ content \in kept
Coming(d, content) == Between(watch[d], chan[d], loop[d], store[d] \cup echoed[d], content)

(* Nothing the history variable tells of has dropped a capture.              *)
Complete(d) == Running(d) /\ ~missed[d]

(* What is on the clipboard must be captured.                               *)
Wanted(clip, content) == ~clip.marked /\ clip.app = "other" /\ Worth(content)

(* The poll under way reads this content: it has what it asked for so far.   *)
Reading(d, content) ==
    /\ watch[d].at = "load" /\ watch[d].left \subseteq Requests(platform[d])
    /\ watch[d].raw.content = {x \in content : x.format \notin watch[d].left}

(* Windows, X11 and macOS: the change is known of, or its content is read.   *)
ToldOf(d) ==
    LET content == ReadBack(platform[d], os[d].content) IN
    Complete(d) /\ platform[d] \in {"windows", "x11", "macos"} /\ Wanted(os[d], content)
        => notes[d] > 0 \/ Reading(d, content) \/ Coming(d, content)

(* Wayland: what the next poll is compared with is not lost.                 *)
Compared(d) ==
    Complete(d) /\ platform[d] = "wayland" /\ last[d].tag = "Data" /\ Worth(last[d].content)
        => Coming(d, last[d].content)

Recorded(d) == guard[d] \subseteq echoed[d]

NotLost == \A d \in Device : ToldOf(d) /\ Compared(d) /\ Recorded(d)

(* A step does not drop a content on its way.                                *)
Carries(d) ==
    \A c : Worth(c) /\ Coming(d, c)
             => Between(watch'[d], chan'[d], loop'[d], store'[d] \cup echoed'[d], c)

LEMMA CarriesOnward ==
    ASSUME NEW d, chan'[d] = chan[d], loop'[d] = loop[d],
           store[d] \subseteq store'[d], echoed[d] \subseteq echoed'[d],
           watch'[d] = watch[d] \/ watch[d].at \notin {"raw", "deliver"}
    PROVE  Carries(d)
<1> SUFFICES ASSUME NEW c, Coming(d, c)
             PROVE  Between(watch'[d], chan'[d], loop'[d], store'[d] \cup echoed'[d], c)
  BY DEF Carries
<1> QED  BY DEF Coming, Between

(* A device on which nothing happens but that contents move on.              *)
LEMMA LostNothing ==
    ASSUME NEW d \in Device, ToldOf(d), Compared(d), Carries(d),
           (~stopping'[d] /\ ~missed'[d]) => Complete(d),
           platform' = platform, os'[d] = os[d], last'[d] = last[d],
           notes[d] > 0 => notes'[d] > 0,
           watch[d].at = "load" => watch'[d] = watch[d]
    PROVE  ToldOf(d)' /\ Compared(d)'
<1> DEFINE content == ReadBack(platform[d], os[d].content)
<1>1. Carries(d)
  OBVIOUS
<1>2. ASSUME Worth(content), Coming(d, content)
      PROVE  Between(watch'[d], chan'[d], loop'[d], store'[d] \cup echoed'[d], content)
  BY <1>2 DEF Carries
<1>3. ASSUME Worth(last[d].content), Coming(d, last[d].content)
      PROVE  Between(watch'[d], chan'[d], loop'[d], store'[d] \cup echoed'[d], last[d].content)
  BY <1>3 DEF Carries
<1>4. ToldOf(d)'  BY <1>2 DEF ToldOf, Reading, Requests, Complete, Running, Wanted, Coming, Worth, LooksSecret
<1>5. Compared(d)'  BY <1>3 DEF Compared, Complete, Running, Coming, Worth, LooksSecret
<1> QED  BY <1>4, <1>5

(* A device a step does not touch.                                          *)
Unmoved(e) ==
    /\ platform' = platform /\ os'[e] = os[e] /\ notes'[e] = notes[e] /\ last'[e] = last[e]
    /\ watch'[e] = watch[e] /\ stopping'[e] = stopping[e] /\ guard'[e] = guard[e]
    /\ chan'[e] = chan[e] /\ loop'[e] = loop[e]
    /\ store'[e] = store[e] /\ echoed'[e] = echoed[e] /\ missed'[e] = missed[e]

LEMMA UnmovedKeeps ==
    ASSUME NotLost, NEW e \in Device, Unmoved(e)
    PROVE  ToldOf(e)' /\ Compared(e)' /\ Recorded(e)'
<1>1. Carries(e)  BY CarriesOnward DEF Unmoved
<1>2. ToldOf(e)' /\ Compared(e)'
  BY <1>1, LostNothing DEF Unmoved, NotLost, Complete, Running
<1>3. Recorded(e)'  BY DEF Unmoved, NotLost, Recorded
<1> QED  BY <1>2, <1>3

LEMMA CopyKeeps ==
    ASSUME Types, NotLost, NEW d \in Device, NEW c \in Copies[d], Copy(d, c)
    PROVE  NotLost'
<1>1. ASSUME NEW e \in Device, e # d PROVE Unmoved(e)
  BY <1>1 DEF Types, Copy, ChangeClipboard, Unmoved
<1>2. Recorded(d)' /\ Compared(d)'
  <2>1. Carries(d)  BY CarriesOnward DEF Copy
  <2>2. ASSUME Worth(last[d].content), Coming(d, last[d].content)
        PROVE  Between(watch'[d], chan'[d], loop'[d], store'[d] \cup echoed'[d], last[d].content)
    BY <2>1, <2>2 DEF Carries
  <2>3. Compared(d)'
    BY <2>2 DEF NotLost, Compared, Complete, Running, Coming, Worth, LooksSecret, Copy
  <2>4. Recorded(d)'  BY DEF NotLost, Recorded, Copy
  <2> QED  BY <2>3, <2>4
<1>3. ToldOf(d)'
  <2> SUFFICES ASSUME ~stopping[d], platform[d] \in {"windows", "x11", "macos"}
               PROVE  notes'[d] > 0
    BY DEF ToldOf, Copy, Complete, Running
  <2>1. notes[d] \in Nat  BY ClipboardsAssumption DEF Types
  <2>2. notes' = [notes EXCEPT ![d] = @ + 1] \/ notes' = [notes EXCEPT ![d] = 1]
    BY DEF Copy, ChangeClipboard, Running
  <2> QED  BY <2>1, <2>2 DEF Types
<1> QED  BY <1>1, <1>2, <1>3, UnmovedKeeps DEF NotLost

(* A poll that finds a content to capture.                                  *)
LEMMA PollComes ==
    ASSUME NEW d \in Device, NEW content, Worth(content),
           watch'[d].at = "raw", watch'[d].raw = DataOf(content, FALSE)
    PROVE  Between(watch'[d], chan'[d], loop'[d], store'[d] \cup echoed'[d], content)
BY DEF Worth, DataOf, Between

(* A poll that has found something, or begins to load, on Wayland.           *)
LEMMA FindsCompared ==
    ASSUME Types, NotLost, NEW d \in Device, NEW poll, platform' = platform, Carries(d),
           Running(d) /\ ~missed'[d] => Complete(d), stopping' = stopping,
           \/ Finds(d, poll) /\ (platform[d] = "wayland" => ~poll.blocked)
           \/ UNCHANGED last
    PROVE  Compared(d)'
<1> SUFFICES ASSUME platform[d] = "wayland", ~stopping[d], ~missed'[d],
                    last'[d].tag = "Data", Worth(last'[d].content)
             PROVE  Between(watch'[d], chan'[d], loop'[d], store'[d] \cup echoed'[d],
                            last'[d].content)
  BY DEF Compared, Coming, Complete, Running, Worth, LooksSecret
<1>1. CASE last' = last
  <2>1. Coming(d, last[d].content)  BY <1>1 DEF NotLost, Compared, Complete, Running
  <2> QED  BY <1>1, <2>1 DEF Carries
<1>2. CASE last' # last
  <2>1. /\ watch' = [watch EXCEPT ![d] = [Idle EXCEPT !.at = "raw", !.raw = poll]]
        /\ last' = [last EXCEPT ![d] = poll]
        /\ ~poll.blocked
    BY <1>2 DEF Finds
  <2>2. last'[d] = poll /\ watch'[d].at = "raw" /\ watch'[d].raw = poll
    BY <2>1 DEF Types, Idle
  <2> QED  BY <2>1, <2>2 DEF Between
<1> QED  BY <1>1, <1>2

LEMMA FindsElsewhere ==
    ASSUME Types, NEW d \in Device, NEW poll, Finds(d, poll) \/ BeginsToLoad(d)
    PROVE  \A e \in Device : e # d => watch'[e] = watch[e] /\ last'[e] = last[e]
BY DEF Types, Finds, BeginsToLoad

LEMMA LookKeeps ==
    ASSUME Types, NotLost, NEW d \in Device, Look(d) \/ HintFails(d)
    PROVE  NotLost'
<1> DEFINE content == ReadBack(platform[d], os[d].content)
<1>1. UNCHANGED <<platform, os, stopping, guard, chan, loop, store, echoed, missed>>
  BY DEF Look, HintFails, outside
<1>2. PICK poll : \/ Finds(d, poll) /\ (platform[d] = "wayland" => ~poll.blocked)
                 \/ BeginsToLoad(d)
  <2>1. Concealed.blocked = FALSE  BY DEF Concealed, NoPoll
  <2> QED  BY <2>1 DEF Look, HintFails, LookAtMark, LookUnmarked
<1>3. ASSUME NEW e \in Device, e # d PROVE Unmoved(e)
  <2>1. watch'[e] = watch[e] /\ last'[e] = last[e]  BY <1>2, <1>3, FindsElsewhere
  <2>2. notes'[e] = notes[e]  BY <1>3 DEF Types, Look, HintFails, Looks
  <2> QED  BY <1>1, <2>1, <2>2 DEF Unmoved
<1>4. watch[d].at = "idle"  BY DEF Look, HintFails, Looks
<1>5. Carries(d)  BY <1>1, <1>4, CarriesOnward
<1>6. ToldOf(d)'
  <2> SUFFICES ASSUME platform[d] \in {"windows", "x11", "macos"}, Wanted(os[d], content)
               PROVE  \/ Reading(d, content)'
                      \/ Between(watch'[d], chan'[d], loop'[d], store'[d] \cup echoed'[d], content)
    BY <1>1 DEF ToldOf, Coming, Wanted, Worth, LooksSecret, Reading
  <2>1. ~os[d].marked /\ os[d].app = "other" /\ Worth(content)  BY DEF Wanted
  <2>2. LookUnmarked(d)  BY <2>1 DEF Look, LookAtMark, HintFails
  <2>3. CASE platform[d] = "windows"
    <3>1. PICK app \in Seen("windows", os[d].app) : Finds(d, DataOf(content, IsBlocked(app)))
      BY <2>2, <2>3 DEF LookUnmarked
    <3>2. IsBlocked(app) = FALSE  BY <2>1 DEF Seen, IsBlocked
    <3>3. watch' = [watch EXCEPT ![d] = [Idle EXCEPT !.at = "raw", !.raw = DataOf(content, FALSE)]]
      BY <2>3, <3>1, <3>2 DEF Finds
    <3>4. watch'[d].at = "raw" /\ watch'[d].raw = DataOf(content, FALSE)
      <4> HIDE DEF content
      <4> QED  BY <3>3 DEF Types, Idle
    <3> QED  BY <2>1, <3>4, PollComes
  <2>4. CASE platform[d] # "windows"
    <3>1. watch' = [watch EXCEPT ![d] = [Idle EXCEPT !.at = "load", !.left = Requests(platform[d])]]
      BY <2>2, <2>4 DEF LookUnmarked, BeginsToLoad
    <3>2. /\ watch'[d].at = "load" /\ watch'[d].left = Requests(platform[d])
          /\ watch'[d].raw.content = {}
      BY <3>1 DEF Types, Idle, NoPoll
    <3>3. \A x \in content : x.format \in Requests(platform[d])  BY ReadBackFormats DEF Types, Clip
    <3>4. {x \in content : x.format \notin Requests(platform[d])} = {}  BY <3>3
    <3> QED  BY <1>1, <3>2, <3>4 DEF Reading
  <2> QED  BY <2>3, <2>4
<1>7. Compared(d)'
  <2>1. Running(d) /\ ~missed'[d] => Complete(d)  BY <1>1 DEF Complete
  <2>2. BeginsToLoad(d) => UNCHANGED last  BY DEF BeginsToLoad
  <2> QED  BY <1>1, <1>2, <1>5, <2>1, <2>2, FindsCompared
<1>8. Recorded(d)'  BY <1>1 DEF NotLost, Recorded
<1> QED  BY <1>3, <1>6, <1>7, <1>8, UnmovedKeeps DEF NotLost

(* A failure the history variable tells of.                                  *)
LEMMA LookFailsKeeps ==
    ASSUME Types, NotLost, NEW d \in Device, LookFails(d) \/ LoadFails(d)
    PROVE  NotLost'
<1>1. ASSUME NEW e \in Device, e # d PROVE Unmoved(e)
  <2>1. watch'[e] = watch[e] /\ last'[e] = last[e]
    BY <1>1, FindsElsewhere DEF LookFails, LoadFails, Types
  <2> QED  BY <1>1, <2>1 DEF Types, LookFails, LoadFails, Looks, Unmoved, outside
<1>2. missed'[d]  BY DEF LookFails, LoadFails, Types
<1>3. ToldOf(d)' /\ Compared(d)'  BY <1>2 DEF ToldOf, Compared, Complete
<1>4. Recorded(d)'  BY DEF NotLost, Recorded, LookFails, LoadFails
<1> QED  BY <1>1, <1>3, <1>4, UnmovedKeeps DEF NotLost

(* The answer to a request is what the clipboard has in that format.         *)
LEMMA AnswerReads ==
    ASSUME Types, NEW d \in Device, NEW f \in Format, Asks(d, f),
           Reading(d, ReadBack(platform[d], os[d].content))
    PROVE  watch[d].raw.content \cup Answer(d, f)
             = {x \in ReadBack(platform[d], os[d].content) : x.format \notin watch[d].left \ {f}}
<1> DEFINE pf == platform[d]
           clip == os[d].content
           content == ReadBack(pf, clip)
           now == watch[d].raw.content
<1>1. f \in watch[d].left /\ f \in Requests(pf)  BY DEF Asks, Reading
<1>2. now = {x \in content : x.format \notin watch[d].left}  BY DEF Reading
<1>3. \A x : x \in content <=> /\ x \in Converted(pf, clip)
                              /\ \/ x.format \in Common
                                 \/ /\ pf = "macos" /\ x.format = "Tiff"
                                    /\ \A y \in Converted(pf, clip) : y.format # "Png"
  BY ReadBackIs DEF Types, Clip
<1>4. f = "Tiff" => "Png" \notin watch[d].left
  <2> SUFFICES ASSUME f = "Tiff", "Png" \in watch[d].left PROVE FALSE  OBVIOUS
  <2>1. ReadOrder["Tiff"] <= ReadOrder["Png"]  BY DEF Asks
  <2> QED  BY <2>1 DEF ReadOrder
<1>5. f = "Tiff" => pf = "macos"  BY <1>1 DEF Requests, Common
<1>6. \A x \in Converted(pf, clip) : x.format \in Format
  <2>1. Converted(pf, clip) \in Content  BY ConvertedType DEF Types, Clip
  <2> QED  BY <2>1 DEF Content, Payload
<1>7. "Tiff" = f => ((\A y \in now : y.format # "Png")
                      <=> \A y \in Converted(pf, clip) : y.format # "Png")
  <2> SUFFICES ASSUME f = "Tiff"
               PROVE  (\A y \in now : y.format # "Png")
                        <=> \A y \in Converted(pf, clip) : y.format # "Png"
    OBVIOUS
  <2>1. \A y : y \in now => y \in Converted(pf, clip)  BY <1>2, <1>3
  <2>2. ASSUME NEW y \in Converted(pf, clip), y.format = "Png" PROVE y \in now
    <3>1. "Png" \in Common  BY <1>6, <2>2 DEF Common
    <3> QED  BY <1>2, <1>3, <1>4, <2>2, <3>1
  <2> QED  BY <2>1, <2>2
<1>8. \A x : x \in Answer(d, f) <=> x \in content /\ x.format = f
  <2> SUFFICES ASSUME NEW x, x.format = f
               PROVE  x \in Answer(d, f) <=> x \in content
    BY DEF Answer
  <2>1. CASE f = "Tiff"
    <3>1. x.format \notin Common  BY <2>1 DEF Common
    <3> QED  BY <1>3, <1>5, <1>7, <2>1, <3>1 DEF Answer
  <2>2. CASE f # "Tiff"
    <3>1. x.format \in Common  BY <2>2 DEF Common
    <3> QED  BY <1>3, <2>2, <3>1 DEF Answer
  <2> QED  BY <2>1, <2>2
<1> HIDE DEF content, now
<1>9. \A x : x \in now \cup Answer(d, f) <=> x \in content /\ x.format \notin watch[d].left \ {f}
  BY <1>1, <1>2, <1>8
<1> QED  BY <1>9 DEF content, now, pf, clip

LEMMA LoadKeeps ==
    ASSUME Types, NotLost, NEW d \in Device, Load(d)
    PROVE  NotLost'
<1> DEFINE content == ReadBack(platform[d], os[d].content)
<1>1. PICK f \in Format :
        /\ Asks(d, f)
        /\ watch' = [watch EXCEPT ![d].left = @ \ {f}, ![d].raw.content = @ \cup Answer(d, f)]
  BY DEF Load
<1>2. UNCHANGED <<platform, os, notes, last, stopping, guard, chan, loop, store, echoed, missed>>
  BY DEF Load, outside
<1>3. ASSUME NEW e \in Device, e # d PROVE Unmoved(e)
  <2>1. watch'[e] = watch[e]  BY <1>1, <1>3 DEF Types
  <2> QED  BY <1>2, <2>1 DEF Unmoved
<1>4. watch[d].at = "load"  BY <1>1 DEF Asks
<1>5. Carries(d)  BY <1>2, <1>4, CarriesOnward
<1>6. ToldOf(d)'
  <2>1. /\ watch'[d].at = "load" /\ watch'[d].left = watch[d].left \ {f}
        /\ watch'[d].raw.content = watch[d].raw.content \cup Answer(d, f)
    <3>1. watch[d] \in Watch /\ watch[d].raw \in Poll  BY DEF Types, Watch
    <3> QED  BY <1>1, <1>4, <3>1 DEF Types, Watch, Poll
  <2>2. Reading(d, content) => Reading(d, content)'
    <3> SUFFICES ASSUME Reading(d, content) PROVE Reading(d, content)'  OBVIOUS
    <3>1. watch[d].raw.content \cup Answer(d, f)
            = {x \in content : x.format \notin watch[d].left \ {f}}
      BY <1>1, AnswerReads
    <3>2. watch'[d].left \subseteq Requests(platform'[d])
      BY <1>2, <2>1 DEF Reading
    <3> QED  BY <1>2, <2>1, <3>1, <3>2 DEF Reading
  <2>3. Worth(content) /\ Coming(d, content) => Coming(d, content)'
    BY <1>2, <1>5 DEF Carries, Coming
  <2> HIDE DEF content
  <2>4. ToldOf(d)  BY DEF NotLost
  <2> QED
    BY <1>2, <2>2, <2>3, <2>4 DEF ToldOf, Complete, Running, Wanted, Worth, LooksSecret, content
<1>7. Compared(d)'
  <2>1. Running(d) /\ ~missed'[d] => Complete(d)  BY <1>2 DEF Complete
  <2> QED  BY <1>2, <1>5, <2>1, FindsCompared
<1>8. Recorded(d)'  BY <1>2 DEF NotLost, Recorded
<1> QED  BY <1>3, <1>6, <1>7, <1>8, UnmovedKeeps DEF NotLost

LEMMA LoadEndsKeeps ==
    ASSUME Types, NotLost, NEW d \in Device, LoadEnds(d)
    PROVE  NotLost'
<1> DEFINE content == ReadBack(platform[d], os[d].content)
           read == watch[d].raw.content
<1>1. PICK app \in Seen(platform[d], os[d].app) :
        /\ Finds(d, DataOf(read, IsBlocked(app)))
        /\ missed' = IF IsBlocked(app) /\ ~IsBlocked(os[d].app)
                     THEN [missed EXCEPT ![d] = TRUE] ELSE missed
  BY DEF LoadEnds
<1>2. UNCHANGED <<platform, os, notes, stopping, guard, chan, loop, store, echoed>>
  BY DEF LoadEnds, outside
<1>3. ASSUME NEW e \in Device, e # d PROVE Unmoved(e)
  <2>1. watch'[e] = watch[e] /\ last'[e] = last[e]  BY <1>1, <1>3, FindsElsewhere
  <2>2. missed'[e] = missed[e]  BY <1>1, <1>3 DEF Types
  <2> QED  BY <1>2, <2>1, <2>2 DEF Unmoved
<1>4. watch[d].at = "load" /\ watch[d].left = {}  BY DEF LoadEnds
<1>5. Carries(d)  BY <1>2, <1>4, CarriesOnward
<1>6. ~missed'[d] => ~missed[d]  BY <1>1 DEF Types
<1>7. ToldOf(d)'
  <2> SUFFICES ASSUME ~stopping[d], ~missed'[d], platform[d] \in {"windows", "x11", "macos"},
                      Wanted(os[d], content)
               PROVE  \/ notes[d] > 0
                      \/ Between(watch'[d], chan'[d], loop'[d], store'[d] \cup echoed'[d], content)
    BY <1>2 DEF ToldOf, Coming, Complete, Running, Wanted, Worth, LooksSecret
  <2>1. os[d].app = "other" /\ Worth(content)  BY DEF Wanted
  <2>2. notes[d] > 0 \/ Reading(d, content) \/ Coming(d, content)
    BY <1>6 DEF NotLost, ToldOf, Complete, Running
  <2>3. CASE Coming(d, content)  BY <1>5, <2>1, <2>3 DEF Carries
  <2>4. CASE Reading(d, content)
    <3>1. read = content
      <4>1. read = {x \in content : x.format \notin {}}  BY <1>4, <2>4 DEF Reading
      <4> HIDE DEF content, read
      <4> QED  BY <4>1
    <3>2. IsBlocked(app) = FALSE  BY <1>1, <2>1 DEF IsBlocked, Types
    <3>3. watch' = [watch EXCEPT ![d] = [Idle EXCEPT !.at = "raw", !.raw = DataOf(content, FALSE)]]
      BY <1>1, <3>1, <3>2 DEF Finds
    <3>4. watch'[d].at = "raw" /\ watch'[d].raw = DataOf(content, FALSE)
      <4> HIDE DEF content
      <4> QED  BY <3>3 DEF Types, Idle
    <3> QED  BY <2>1, <3>4, PollComes
  <2> QED  BY <2>2, <2>3, <2>4
<1>8. Compared(d)'
  <2>1. Running(d) /\ ~missed'[d] => Complete(d)  BY <1>6 DEF Complete
  <2>2. platform[d] = "wayland" => ~DataOf(read, IsBlocked(app)).blocked
    <3>1. platform[d] = "wayland" => IsBlocked(app) = FALSE  BY <1>1 DEF Seen, IsBlocked
    <3> QED  BY <3>1 DEF DataOf, NoPoll
  <2> QED  BY <1>1, <1>2, <1>5, <2>1, <2>2, FindsCompared
<1>9. Recorded(d)'  BY <1>2 DEF NotLost, Recorded
<1> QED  BY <1>3, <1>7, <1>8, <1>9, UnmovedKeeps DEF NotLost

(* Steps behind the poll: contents move on.                                 *)
LEMMA ClassifyKeeps ==
    ASSUME Types, NotLost, NEW d \in Device, Classify(d)
    PROVE  NotLost'
<1> DEFINE raw == watch[d].raw
           echo == ~Blocked(raw) /\ IsEcho(d, raw.content)
           out == IF Blocked(raw) \/ echo \/ LooksSecret(raw.content)
                  THEN Suppressed ELSE Captured(raw.content)
<1>1. watch' = [watch EXCEPT ![d] = [Idle EXCEPT !.at = "deliver", !.event = out]]
  BY DEF Classify
<1>2. guard' = guard \/ guard' = [guard EXCEPT ![d] = NoEcho]  BY DEF Classify, AfterCheck
<1>3. ASSUME NEW e \in Device, e # d PROVE Unmoved(e)
  <2>1. watch'[e] = watch[e] /\ guard'[e] = guard[e]  BY <1>1, <1>2, <1>3 DEF Types
  <2> QED  BY <2>1 DEF Classify, Unmoved, outside
<1>4. watch'[d].at = "deliver" /\ watch'[d].event = out /\ watch[d].at = "raw"
  <2>1. watch[d].at = "raw"  BY DEF Classify
  <2> HIDE DEF out
  <2> QED  BY <1>1, <2>1 DEF Types, Idle
<1>5. Carries(d)
  <2> SUFFICES ASSUME NEW c, Worth(c), Coming(d, c)
               PROVE  Between(watch'[d], chan'[d], loop'[d], store'[d] \cup echoed'[d], c)
    BY DEF Carries
  <2>1. UNCHANGED <<chan, loop, store, echoed>>  BY DEF Classify
  <2>2. CASE raw.tag = "Data" /\ raw.content = c /\ ~raw.blocked
    <3>1. ~Blocked(raw) /\ ~LooksSecret(raw.content)  BY <2>2 DEF Worth, Blocked
    <3>2. CASE echo
      <4>1. c \in echoed[d]  BY <2>2, <3>2 DEF IsEcho, NotLost, Recorded
      <4> QED  BY <2>1, <4>1 DEF Between
    <3>3. CASE ~echo
      <4>1. out = Captured(c)  BY <2>2, <3>1, <3>3
      <4> QED  BY <1>4, <4>1 DEF Between
    <3> QED  BY <3>2, <3>3
  <2>3. CASE ~(raw.tag = "Data" /\ raw.content = c /\ ~raw.blocked)
    BY <1>4, <2>1, <2>3 DEF Coming, Between
  <2> QED  BY <2>2, <2>3
<1>6. ToldOf(d)' /\ Compared(d)'
  <2>1. UNCHANGED <<platform, os, notes, last, stopping, missed>>  BY DEF Classify, outside
  <2> QED  BY <1>4, <1>5, <2>1, LostNothing DEF NotLost, Complete, Running
<1>7. Recorded(d)'
  <2>1. guard'[d] \subseteq guard[d] /\ echoed' = echoed  BY <1>2 DEF NoEcho, Types, Classify
  <2> QED  BY <2>1 DEF NotLost, Recorded
<1> QED  BY <1>3, <1>6, <1>7, UnmovedKeeps DEF NotLost

LEMMA DeliverKeeps ==
    ASSUME Types, NotLost, NEW d \in Device, Deliver(d)
    PROVE  NotLost'
<1>1. ASSUME NEW e \in Device, e # d PROVE Unmoved(e)
  BY <1>1 DEF Types, Deliver, Unmoved, outside
<1>2. Carries(d)
  <2> SUFFICES ASSUME NEW c, Coming(d, c)
               PROVE  Between(watch'[d], chan'[d], loop'[d], store'[d] \cup echoed'[d], c)
    BY DEF Carries
  <2>1. UNCHANGED <<loop, store, echoed>> /\ watch[d].at = "deliver"  BY DEF Deliver
  <2>2. chan'[d] = Append(chan[d], watch[d].event) /\ chan[d] \in Seq(Event)
    BY DEF Deliver, Types
  <2>3. watch[d].event \in Event  BY DEF Types, Watch
  <2>4. CASE watch[d].event = Captured(c)
    <3>1. Len(chan[d]) + 1 \in DOMAIN chan'[d] /\ chan'[d][Len(chan[d]) + 1] = Captured(c)
      BY <2>2, <2>3, <2>4
    <3> QED  BY <3>1 DEF Between
  <2>5. ASSUME NEW i \in DOMAIN chan[d], chan[d][i] = Captured(c)
        PROVE  Between(watch'[d], chan'[d], loop'[d], store'[d] \cup echoed'[d], c)
    <3>1. i \in DOMAIN chan'[d] /\ chan'[d][i] = Captured(c)  BY <2>2, <2>3, <2>5
    <3> QED  BY <3>1 DEF Between
  <2>6. CASE (loop[d].at = "store" /\ loop[d].content = c) \/ c \in store[d] \cup echoed[d]
    BY <2>1, <2>6 DEF Between
  <2> QED  BY <2>1, <2>4, <2>5, <2>6 DEF Coming, Between
<1>3. UNCHANGED <<platform, os, notes, last, stopping, missed, guard, echoed>>
  BY DEF Deliver, outside
<1>4. watch[d].at # "load"  BY DEF Deliver
<1>5. ToldOf(d)' /\ Compared(d)'
  BY <1>2, <1>3, <1>4, LostNothing DEF NotLost, Complete, Running
<1>6. Recorded(d)'  BY <1>3 DEF NotLost, Recorded
<1> QED  BY <1>1, <1>5, <1>6, UnmovedKeeps DEF NotLost

LEMMA EndsKeep ==
    ASSUME Types, NotLost, NEW d \in Device, WatchEnds(d) \/ Stop(d) \/ StoreFails(d)
    PROVE  NotLost'
<1>1. ASSUME NEW e \in Device, e # d PROVE Unmoved(e)
  BY <1>1 DEF Types, WatchEnds, Stop, StoreFails, Unmoved, outside, watcher
<1>2. stopping'[d] \/ missed'[d]  BY DEF Types, WatchEnds, SeesStop, Stop, StoreFails
<1>3. ToldOf(d)' /\ Compared(d)'  BY <1>2 DEF ToldOf, Compared, Complete, Running
<1>4. Recorded(d)'  BY DEF NotLost, Recorded, WatchEnds, Stop, StoreFails, watcher
<1> QED  BY <1>1, <1>3, <1>4, UnmovedKeeps DEF NotLost

LEMMA ReceiveKeeps ==
    ASSUME Types, NotLost, NEW d \in Device, Receive(d)
    PROVE  NotLost'
<1>1. ASSUME NEW e \in Device, e # d PROVE Unmoved(e)
  <2>1. loop'[e] = loop[e] /\ missed'[e] = missed[e]  BY <1>1 DEF Types, Receive
  <2> QED  BY <1>1, <2>1 DEF Types, Receive, Unmoved, outside, watcher
<1>2. UNCHANGED <<platform, os, notes, last, stopping, guard, echoed, watch, store>>
  BY DEF Receive, outside, watcher
<1>3. ASSUME ~missed'[d] PROVE Carries(d) /\ ~missed[d]
  <2>1. ~missed[d]  BY <1>3 DEF Receive, Types
  <2>2. chan[d] \in Seq(Event) /\ chan[d] # <<>> /\ loop[d].at = "idle"
    BY DEF Receive, Types
  <2>3. Head(chan[d]) = chan[d][1] /\ Head(chan[d]) \in Event  BY <2>2
  <2> SUFFICES ASSUME NEW c, Coming(d, c)
               PROVE  Between(watch'[d], chan'[d], loop'[d], store'[d] \cup echoed'[d], c)
    BY <2>1 DEF Carries
  <2>4. ASSUME NEW i \in DOMAIN chan[d], chan[d][i] = Captured(c)
        PROVE  Between(watch'[d], chan'[d], loop'[d], store'[d] \cup echoed'[d], c)
    <3>1. CASE i = 1
      <4>1. Head(chan[d]).captured /\ Head(chan[d]).content = c
        BY <2>3, <2>4, <3>1 DEF Captured
      <4>2. ~paused[d]  BY <1>3, <4>1 DEF Receive, Types
      <4>3. loop' = [loop EXCEPT ![d] = [at |-> "store", content |-> Head(chan[d]).content]]
        BY <4>1, <4>2 DEF Receive
      <4>4. loop'[d].at = "store" /\ loop'[d].content = c  BY <4>1, <4>3 DEF Types
      <4> QED  BY <4>4 DEF Between
    <3>2. CASE i # 1
      <4>1. chan'[d] = Tail(chan[d])  BY DEF Receive, Types
      <4>2. i - 1 \in DOMAIN chan'[d] /\ chan'[d][i - 1] = Captured(c)
        BY <2>2, <2>4, <3>2, <4>1
      <4> QED  BY <4>2 DEF Between
    <3> QED  BY <3>1, <3>2
  <2>5. CASE ~\E i \in DOMAIN chan[d] : chan[d][i] = Captured(c)
    BY <1>2, <2>2, <2>5 DEF Coming, Between
  <2> QED  BY <2>4, <2>5
<1>4. ToldOf(d)' /\ Compared(d)'
  <2>1. CASE missed'[d]  BY <2>1 DEF ToldOf, Compared, Complete
  <2>2. CASE ~missed'[d]
    BY <1>2, <1>3, <2>2, LostNothing DEF NotLost, Complete, Running
  <2> QED  BY <2>1, <2>2
<1>5. Recorded(d)'  BY <1>2 DEF NotLost, Recorded
<1> QED  BY <1>1, <1>4, <1>5, UnmovedKeeps DEF NotLost

LEMMA StoreKeeps ==
    ASSUME Types, NotLost, NEW d \in Device, StoreCapture(d)
    PROVE  NotLost'
<1>1. ASSUME NEW e \in Device, e # d PROVE Unmoved(e)
  BY <1>1 DEF Types, StoreCapture, Unmoved, outside, watcher
<1>2. UNCHANGED <<platform, os, notes, last, stopping, guard, echoed, watch, chan, missed>>
  BY DEF StoreCapture, outside, watcher
<1>3. store'[d] = store[d] \cup {loop[d].content}  BY DEF StoreCapture, Types
<1>4. Carries(d)  BY <1>2, <1>3 DEF Carries, Coming, Between
<1>5. ToldOf(d)' /\ Compared(d)'
  BY <1>2, <1>4, LostNothing DEF NotLost, Complete, Running
<1>6. Recorded(d)'  BY <1>2 DEF NotLost, Recorded
<1> QED  BY <1>1, <1>5, <1>6, UnmovedKeeps DEF NotLost

(* Steps that do not touch the way from the clipboard.                      *)
LEMMA OthersKeep ==
    ASSUME Types, NotLost, NEW d \in Device,
           \/ TtlPasses(d) \/ SetPaused(d) \/ Request(d)
           \/ \E a \in Device : Receives(a, d)
           \/ \E k \in Task : RecordWrite(d, k)
    PROVE  NotLost'
<1>1. UNCHANGED <<platform, os, notes, last, watch, stopping, chan, loop, missed>>
  BY DEF TtlPasses, SetPaused, Request, Receives, RecordWrite, outside, watcher
<1>2. \A e \in Device :
        store[e] \subseteq store'[e] /\ echoed[e] \subseteq echoed'[e] /\ Recorded(e)'
  <2>1. CASE SetPaused(d) \/ Request(d)
    BY <2>1 DEF SetPaused, Request, NotLost, Recorded, watcher
  <2>2. CASE TtlPasses(d)
    BY <2>2 DEF TtlPasses, NotLost, Recorded, NoEcho, Types
  <2>3. CASE \E a \in Device : Receives(a, d)
    BY <2>3 DEF Receives, NotLost, Recorded, Types, watcher
  <2>4. CASE \E k \in Task : RecordWrite(d, k)
    BY <2>4 DEF RecordWrite, NotLost, Recorded, Types
  <2> QED  BY <2>1, <2>2, <2>3, <2>4
<1>3. ASSUME NEW e \in Device PROVE ToldOf(e)' /\ Compared(e)'
  <2>1. Carries(e)  BY <1>1, <1>2, CarriesOnward
  <2> QED  BY <1>1, <2>1, LostNothing DEF NotLost, Complete, Running
<1> QED  BY <1>2, <1>3 DEF NotLost

LEMMA WriteKeeps ==
    ASSUME Types, NotLost, NEW d \in Device, NEW k \in Task,
           Write(d, k) \/ WriteRest(d, k) \/ WriteFails(d, k)
    PROVE  NotLost'
<1>1. UNCHANGED <<platform, last, watch, stopping, guard, chan, loop, store, echoed, missed>>
  BY DEF Write, WriteRest, Puts, WriteFails, outside
<1>2. \/ UNCHANGED <<os, notes>>
      \/ \E content : ChangeClipboard(d, [content |-> content, marked |-> FALSE, app |-> "clipse"])
  BY DEF Write, WriteRest, Puts, WriteFails
<1>3. ASSUME NEW e \in Device PROVE Carries(e)  BY <1>1, CarriesOnward
<1>4. ASSUME NEW e \in Device PROVE Recorded(e)'  BY <1>1 DEF NotLost, Recorded
<1>5. CASE UNCHANGED <<os, notes>>
  <2>1. ASSUME NEW e \in Device PROVE ToldOf(e)' /\ Compared(e)'
    BY <1>1, <1>3, <1>5, LostNothing DEF NotLost, Complete, Running
  <2> QED  BY <1>4, <2>1 DEF NotLost
<1>6. CASE ~UNCHANGED <<os, notes>>
  <2>1. PICK content : ChangeClipboard(d, [content |-> content, marked |-> FALSE, app |-> "clipse"])
    BY <1>2, <1>6
  <2>2. ASSUME NEW e \in Device, e # d PROVE Unmoved(e)
    BY <1>1, <2>1, <2>2 DEF Types, ChangeClipboard, Unmoved
  <2>3. os'[d].app = "clipse"  BY <2>1 DEF Types, ChangeClipboard
  <2>4. ToldOf(d)'  BY <2>3 DEF ToldOf, Wanted
  <2>5. Compared(d)'
    <3>1. ASSUME Worth(last[d].content), Coming(d, last[d].content)
          PROVE  Between(watch'[d], chan'[d], loop'[d], store'[d] \cup echoed'[d], last[d].content)
      BY <1>3, <3>1 DEF Carries
    <3> QED  BY <1>1, <3>1 DEF NotLost, Compared, Complete, Running, Coming, Worth, LooksSecret
  <2> QED  BY <1>4, <2>2, <2>4, <2>5, UnmovedKeeps DEF NotLost
<1> QED  BY <1>5, <1>6

LEMMA NextKeeps == Types /\ NotLost /\ [Next]_vars => NotLost'
<1> SUFFICES ASSUME Types, NotLost, [Next]_vars PROVE NotLost'  OBVIOUS
<1>1. CASE UNCHANGED vars
  <2>1. ASSUME NEW e \in Device PROVE Unmoved(e)  BY <1>1 DEF vars, Unmoved
  <2> QED  BY <2>1, UnmovedKeeps DEF NotLost
<1>2. CASE Next
  BY <1>2, CopyKeeps, LookKeeps, LookFailsKeeps, LoadKeeps, LoadEndsKeeps, ClassifyKeeps, DeliverKeeps, EndsKeep,
     ReceiveKeeps, StoreKeeps, OthersKeep, WriteKeeps
     DEF Next, WatchThread, WatchFails, CaptureLoop, Applies
<1> QED  BY <1>1, <1>2

LEMMA InitKeeps == Init => NotLost
<1> SUFFICES ASSUME Init, NEW d \in Device PROVE ToldOf(d) /\ Compared(d) /\ Recorded(d)
  BY DEF NotLost
<1>1. ToldOf(d)  BY DEF Init, ToldOf, Wanted
<1>2. Compared(d)  BY DEF Init, Compared, NoPoll
<1>3. Recorded(d)  BY DEF Init, Recorded, NoEcho
<1> QED  BY <1>1, <1>2, <1>3

(* When a device has nothing left to do with its clipboard, what an          *)
(* application put there is in the history, unless it must be suppressed or  *)
(* the daemon itself has written it, or something dropped a capture: on      *)
(* every platform, with any number of notifications waiting and any channel. *)
THEOREM LastCopyIsKept == Spec => []LastCopyStored
<1>1. Types /\ NotLost => LastCopyStored
  <2> SUFFICES ASSUME Types, NotLost, NEW d \in Device
               PROVE  LET content == ReadBack(platform[d], os[d].content) IN
                      Settled(d) /\ Running(d) /\ platform[d] # "manual" /\ ~missed[d]
                          /\ ~os[d].marked /\ os[d].app = "other" /\ Worth(content)
                      => content \in store[d] \cup echoed[d]
    BY DEF LastCopyStored
  <2> DEFINE content == ReadBack(platform[d], os[d].content)
  <2> SUFFICES ASSUME Settled(d), Running(d), platform[d] # "manual", ~missed[d],
                      ~os[d].marked, os[d].app = "other", Worth(content)
               PROVE  content \in store[d] \cup echoed[d]
    OBVIOUS
  <2>1. Unchanged(d)  BY DEF Settled, Running
  <2>2. platform[d] \in Platform  BY ClipboardsAssumption DEF Types
  <2>3. Coming(d, content) => content \in store[d] \cup echoed[d]
    <3>1. chan[d] = <<>> /\ loop[d] = Waiting  BY DEF Settled, Running
    <3>2. DOMAIN chan[d] = {} /\ loop[d].at = "idle"  BY <3>1 DEF Waiting
    <3>3. watch[d].at \in {"idle", "load"}  BY <2>1 DEF Unchanged
    <3> QED  BY <3>2, <3>3 DEF Coming, Between
  <2>4. CASE platform[d] = "wayland"
    <3>1. Same(Peek(d), last[d])  BY <2>1, <2>4 DEF Unchanged
    <3>2. Peek(d) = DataOf(content, FALSE)  BY DEF Peek
    <3>3. last[d].tag = "Data" /\ last[d].content = content
      BY <3>1, <3>2 DEF Same, DataOf, Worth
    <3>4. Coming(d, content)  BY <2>4, <3>3 DEF NotLost, Compared, Complete
    <3> QED  BY <2>3, <3>4
  <2>5. CASE platform[d] # "wayland"
    <3>1. watch[d].at = "idle" /\ ~(notes[d] > 0)
      BY <2>1, <2>2, <2>5 DEF Unchanged, Notified
    <3>2. Coming(d, content)
      BY <2>2, <2>5, <3>1 DEF NotLost, ToldOf, Complete, Wanted, Reading, Platform
    <3> QED  BY <2>3, <3>2
  <2> QED  BY <2>4, <2>5
<1> QED  BY <1>1, InitTypes, NextTypes, InitKeeps, NextKeeps, PTL DEF Spec

===========================================================================
