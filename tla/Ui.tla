--------------------------------- MODULE Ui ---------------------------------
(***************************************************************************)
(* A window, a tray and the daemon behind them.  The daemon's tasks write  *)
(* to the store and then tell the broadcast channel; the IPC server passes *)
(* what a subscribed connection is told; the app keeps a command           *)
(* connection behind a mutex and an event connection, reconnects when the  *)
(* daemon goes away, and its webview patches a list that it once fetched.  *)
(* A status is its paused flag, a settings object its hotkey; device rows, *)
(* filters, paging and the notch panel are left out.                       *)
(***************************************************************************)
EXTENDS Naturals, Sequences, SequencesExt, FiniteSets

CONSTANTS Id,         \* clips
          Buffer,     \* EVENT_BUFFER
          MaxOps,     \* changes of the history and calls of the user
          MaxRetries, \* STARTUP_ATTEMPTS
          MaxStops    \* stops of the daemon

ASSUME UiAssumption ==
    Buffer \in Nat \ {0} /\ {MaxOps, MaxRetries, MaxStops} \subseteq Nat

Row == {"none", "live", "pinned", "deleted"}
Task == {"capture", "session", "handler"}
Hotkey == {"default", "custom"}

VARIABLES
    \* the daemon
    up, rows, paused, hotkey,
    job,       \* what a task still has to do after its write
    queue,     \* events the subscriber has not been sent
    listening, \* its receiver exists
    \* the app
    phase,     \* where run_loop is
    client,    \* the Client in AppState: "none" or "open"
    alive,     \* the command connection is
    current,   \* the call that holds the mutex
    waiting,   \* calls that wait for it, first come first served
    tray,      \* TrayModel
    registered,\* the hotkey the OS knows
    \* the webview
    heard,     \* the kinds of events that it has registered a listener for
    list, inbox,
    failed,    \* its last fetch failed, and it says so
    \* bounds
    ops, retries, stops,
    \* history
    crossed,     \* clips told of by an event that was no longer true when it was
                 \* sent, and by no true update or removal since
    listDoubt,   \* an event was dropped or not yet listened to, or a page was
                 \* overtaken by an event
    statusDoubt  \* the last status was dropped, or no longer true when sent

daemon == <<up, rows, paused, hotkey, job>>
events == <<queue, listening>>
calls == <<current, waiting>>
view == <<heard, list, inbox, failed>>
bounds == <<ops, retries, stops>>
history == <<crossed, listDoubt, statusDoubt>>
vars == <<daemon, events, phase, client, alive, calls, tray, registered, view, bounds, history>>

NoJob == [steps |-> <<>>, kind |-> "added", id |-> 0, row |-> "none", paused |-> FALSE]
Call(who, req) == [who |-> who, req |-> req, id |-> 0, to |-> "none", stage |-> "asked",
                   mine |-> TRUE, overtaken |-> FALSE, page |-> <<>>, paused |-> FALSE]
NoCall == [Call("nobody", "none") EXCEPT !.stage = "none"]

Init ==
    /\ up = FALSE
    /\ rows \in [Id -> {"none", "live"}]
    /\ paused = FALSE /\ hotkey = "default"
    /\ job = [t \in Task |-> NoJob]
    /\ queue = <<>> /\ listening = FALSE
    /\ phase = "off" /\ client = "none" /\ alive = FALSE
    /\ current = NoCall /\ waiting = <<>>
    /\ tray = [connected |-> FALSE, paused |-> FALSE]
    /\ registered = "default"
    /\ heard = {} /\ list = [i \in Id |-> "none"] /\ inbox = <<>> /\ failed = FALSE
    /\ ops = 0 /\ retries = 0 /\ stops = 0
    /\ crossed = {} /\ listDoubt = FALSE /\ statusDoubt = FALSE

----------------------------------------------------------------------------
(* The daemon: a task writes, then does the rest of its steps.             *)

Idle(t) == up /\ job[t].steps = <<>>
ToDo(t, step) == up /\ job[t].steps # <<>> /\ Head(job[t].steps) = step
Done(t, j) == job' = [job EXCEPT ![t] = IF Len(j.steps) = 1 THEN NoJob
                                        ELSE [j EXCEPT !.steps = Tail(@)]]
Begin(t, kind, i, row, steps) ==
    job' = [job EXCEPT ![t] = [steps |-> steps, kind |-> kind, id |-> i, row |-> row,
                               paused |-> FALSE]]

(* store_capture: a new clip, or the row with its content.                 *)
Capture ==
    /\ Idle("capture") /\ ops < MaxOps /\ ~paused
    /\ ops' = ops + 1
    /\ \E i \in Id :
          \/ /\ rows[i] = "none"
             /\ rows' = [rows EXCEPT ![i] = "live"]
             /\ Begin("capture", "added", i, "live", <<"tell", "look", "report">>)
          \/ /\ rows[i] \in {"live", "pinned"}
             /\ Begin("capture", "updated", i, "none", <<"reread", "tell", "look", "report">>)
             /\ UNCHANGED rows
    /\ UNCHANGED <<up, paused, hotkey, events, phase, client, alive, calls, tray, registered,
                   view, retries, stops, history>>

(* apply of a session: insert, or set_pinned and delete.                   *)
Pinned(row, to) == IF row \in {"live", "pinned"} THEN to ELSE row
Merge ==
    /\ Idle("session") /\ ops < MaxOps
    /\ ops' = ops + 1
    /\ \E i \in Id :
          \/ /\ rows[i] = "none"
             /\ rows' = [rows EXCEPT ![i] = "live"]
             /\ Begin("session", "added", i, "live", <<"tell">>)
          \/ /\ rows[i] # "none"
             /\ \E to \in {"live", "pinned"} :
                   /\ rows' = [rows EXCEPT ![i] = Pinned(@, to)]
                   /\ Begin("session", "updated", i, "none", <<"reread", "tell">>)
          \/ /\ rows[i] # "none"
             /\ rows' = [rows EXCEPT ![i] = "deleted"]
             /\ Begin("session", "removed", i, "deleted", <<"tell">>)
    /\ UNCHANGED <<up, paused, hotkey, events, phase, client, alive, calls, tray, registered,
                   view, retries, stops, history>>

(* load_clip: what is published is read again after the write.             *)
Reread(t) ==
    /\ ToDo(t, "reread")
    /\ Done(t, [job[t] EXCEPT !.row = rows[job[t].id]])
    /\ UNCHANGED <<up, rows, paused, hotkey, events, phase, client, alive, calls, tray,
                   registered, view, bounds, history>>

(* External: tokio's broadcast channel.  A receiver that is behind by more *)
(* than the buffer loses the oldest; serve_connection only logs that.      *)
Kept(q) == IF Len(q) > Buffer THEN SubSeq(q, Len(q) - Buffer + 1, Len(q)) ELSE q
Lost(q) == IF Len(q) > Buffer THEN {q[1]} ELSE {}

OfStatus(event) == event.kind = "status"

(* Daemon::emit and the emit of a session.                                 *)
Emit(event) ==
    LET q == Append(queue, event) IN
    /\ queue' = IF listening THEN Kept(q) ELSE queue
    /\ listDoubt' = (listDoubt \/ (listening /\ \E l \in Lost(q) : ~OfStatus(l)))
    /\ statusDoubt' =
          IF OfStatus(event) THEN event.paused # paused
          ELSE \/ statusDoubt
               \/ /\ listening /\ \E l \in Lost(q) : OfStatus(l)
                  /\ \A i \in 2..Len(q) : ~OfStatus(q[i])
    /\ crossed' = IF OfStatus(event) THEN crossed
                  ELSE IF event.row # rows[event.id] THEN crossed \cup {event.id}
                  ELSE IF event.kind = "added" THEN crossed
                  ELSE crossed \ {event.id}
    /\ UNCHANGED listening

Tell(t) ==
    /\ ToDo(t, "tell")
    /\ LET j == job[t] IN
       Emit([kind |-> j.kind, id |-> j.id, row |-> j.row, paused |-> FALSE])
    /\ Done(t, job[t])
    /\ UNCHANGED <<up, rows, paused, hotkey, phase, client, alive, calls, tray, registered,
                   view, bounds>>

(* emit_status takes the status, and then sends it.                        *)
Look(t) ==
    /\ ToDo(t, "look")
    /\ Done(t, [job[t] EXCEPT !.id = 0, !.row = "none", !.paused = paused])
    /\ UNCHANGED <<up, rows, paused, hotkey, events, phase, client, alive, calls, tray,
                   registered, view, bounds, history>>

Report(t) ==
    /\ ToDo(t, "report")
    /\ Emit([kind |-> "status", id |-> 0, row |-> "none", paused |-> job[t].paused])
    /\ Done(t, job[t])
    /\ UNCHANGED <<up, rows, paused, hotkey, phase, client, alive, calls, tray, registered,
                   view, bounds>>

AfterPauseSilent == <<"answer">>
AfterPause == <<"look", "report", "answer">>

(* Daemon::handle, for the request on the command connection.              *)
Handle ==
    /\ Idle("handler") /\ alive /\ current.stage = "asked"
    /\ current' = [current EXCEPT !.stage = "handled"]
    /\ LET i == current.id IN
       \/ /\ current.req = "pin"
          /\ rows' = [rows EXCEPT ![i] = Pinned(@, current.to)]
          /\ Begin("handler", "updated", i, "none", <<"reread", "tell", "answer">>)
          /\ UNCHANGED <<paused, hotkey>>
       \/ /\ current.req = "delete"
          /\ rows' = [rows EXCEPT ![i] = "deleted"]
          /\ Begin("handler", "removed", i, "deleted", <<"tell", "look", "report", "answer">>)
          /\ UNCHANGED <<paused, hotkey>>
       \/ /\ current.req = "pause"
          /\ paused' = (current.to = "pinned")
          /\ Begin("handler", "updated", 0, "none", AfterPause)
          /\ UNCHANGED <<rows, hotkey>>
       \/ /\ current.req = "settings"
          /\ hotkey' = "custom"
          /\ Begin("handler", "updated", 0, "none", <<"look", "report", "answer">>)
          /\ UNCHANGED <<rows, paused>>
    /\ UNCHANGED <<up, events, phase, client, alive, waiting, tray, registered, view, bounds,
                   history>>

Answer ==
    /\ ToDo("handler", "answer")
    /\ Done("handler", job["handler"])
    /\ current' = [current EXCEPT !.stage = "answered"]
    /\ UNCHANGED <<up, rows, paused, hotkey, events, phase, client, alive, waiting, tray,
                   registered, view, bounds, history>>

(* A query runs and its answer is written; a page that was asked for makes *)
(* up for an event dropped before it, unless an older event is still on    *)
(* its way and will be applied after the page.  write_frame refuses a page *)
(* over MAX_FRAME_BYTES, and serve_connection returns with its error; but  *)
(* the task it spawned still reads the other half of the socket, so the    *)
(* app is told nothing: this call waits for as long as the daemon runs.    *)
Query ==
    /\ Idle("handler") /\ alive /\ current.stage = "asked"
    /\ \/ /\ current.req = "page"
          /\ current' = [current EXCEPT !.stage = "answered", !.page = rows]
          /\ listDoubt' = (listDoubt /\ ~(current.mine /\ queue = <<>> /\ inbox = <<>>))
       \/ /\ current.req = "page"
          /\ current' = [current EXCEPT !.stage = "unanswered"]
          /\ UNCHANGED listDoubt
       \/ /\ current.req = "status"
          /\ current' = [current EXCEPT !.stage = "answered", !.paused = paused]
          /\ UNCHANGED listDoubt
    /\ UNCHANGED <<daemon, events, phase, client, alive, waiting, tray, registered, view, bounds,
                   crossed, statusDoubt>>

(* The daemon stops, and what it had not sent is gone.                     *)
Stop ==
    /\ up /\ stops < MaxStops
    /\ stops' = stops + 1
    /\ up' = FALSE
    /\ job' = [t \in Task |-> NoJob]
    /\ listening' = FALSE /\ alive' = FALSE
    /\ \E n \in 0..Len(queue) : queue' = SubSeq(queue, 1, n)
    /\ UNCHANGED <<rows, paused, hotkey, phase, client, calls, tray, registered, view, ops,
                   retries, history>>

(* Daemon::new, and serve when everything else is wired up.                *)
Start ==
    /\ ~up
    /\ up' = TRUE
    /\ paused' = FALSE
    /\ UNCHANGED <<rows, hotkey, job, events, phase, client, alive, calls, tray, registered,
                   view, bounds, history>>

----------------------------------------------------------------------------
(* connection.rs: run_loop.                                                *)

Disconnected == tray' = [tray EXCEPT !.connected = FALSE]

(* connect_both: the command connection first; it answers a Hello.         *)
ConnectCommands ==
    /\ phase = "off"
    /\ \/ up /\ phase' = "commands" /\ alive' = TRUE /\ UNCHANGED tray
       \/ ~up /\ phase' = "off" /\ Disconnected /\ UNCHANGED alive
    /\ UNCHANGED <<daemon, events, client, calls, registered, view, bounds, history>>

(* The receiver exists from the accept on.                                 *)
ConnectEvents ==
    /\ phase = "commands"
    /\ \/ /\ up /\ alive
          /\ phase' = "events"
          /\ listening' = TRUE /\ queue' = <<>>
          /\ crossed' = {} /\ statusDoubt' = FALSE
          /\ UNCHANGED tray
       \/ /\ ~(up /\ alive)
          /\ phase' = "off" /\ Disconnected
          /\ UNCHANGED <<events, crossed, statusDoubt>>
    /\ UNCHANGED <<daemon, client, alive, calls, registered, view, bounds, listDoubt>>

(* External: Tauri's emit.  An event that the webview has no listener for  *)
(* yet goes nowhere.                                                       *)
Show(event) ==
    /\ inbox' = IF event.kind \in heard THEN Append(inbox, event) ELSE inbox
    /\ listDoubt' = (listDoubt \/ event.kind \notin heard)

(* Subscribe is answered; the client is put where the commands find it and *)
(* the windows are told.                                                   *)
Subscribe ==
    /\ phase = "events"
    /\ \/ /\ listening /\ current = NoCall
          /\ phase' = "connected"
          /\ client' = "open"
          /\ Show([kind |-> "connected", id |-> 0, row |-> "none", paused |-> FALSE])
          /\ UNCHANGED tray
       \/ /\ ~listening
          /\ phase' = "off" /\ Disconnected
          /\ UNCHANGED <<client, inbox, listDoubt>>
    /\ UNCHANGED <<daemon, events, alive, calls, registered, heard, list, failed, bounds, crossed,
                   statusDoubt>>

FetchStatus ==
    /\ phase = "connected"
    /\ phase' = "asking"
    /\ waiting' = Append(waiting, Call("task", "status"))
    /\ UNCHANGED <<daemon, events, client, alive, current, tray, registered, view, bounds, history>>

(* forward_event: the tray is told at once, the webview gets it later.     *)
Forward ==
    /\ phase = "streaming" /\ queue # <<>>
    /\ LET event == Head(queue) IN
       IF OfStatus(event)
       THEN /\ tray' = [connected |-> TRUE, paused |-> event.paused]
            /\ UNCHANGED <<inbox, listDoubt>>
       ELSE Show(event) /\ UNCHANGED tray
    /\ queue' = Tail(queue)
    /\ UNCHANGED <<daemon, listening, phase, client, alive, calls, registered, heard, list, failed,
                   bounds, crossed, statusDoubt>>

(* events.next fails; the mutex is needed to take the client away.         *)
StreamEnds ==
    /\ phase = "streaming" /\ queue = <<>> /\ ~listening /\ current = NoCall
    /\ client' = "none"
    /\ Disconnected
    /\ phase' = "off"
    /\ UNCHANGED <<daemon, events, alive, calls, registered, view, bounds, history>>

----------------------------------------------------------------------------
(* Calls: commands.rs and Client::call, one at a time.                     *)

(* runFetch: the answer to an earlier fetch no longer counts.              *)
Superseded(c) == [c EXCEPT !.mine = @ /\ c.who # "list"]
Fetching(q) == Append([k \in DOMAIN q |-> Superseded(q[k])], Call("list", "page"))

Unpinned(to) == IF to = "live" THEN "pinned" ELSE "live"

(* A status that the run loop cannot fetch does not stop it.               *)
AfterStatusStuck == "asking"
AfterStatus == "streaming"

(* What a caller does about an error; q is the calls that wait.            *)
Failed(c, q) ==
    /\ CASE c.who = "list" /\ c.mine ->
               failed' = TRUE /\ list' = [i \in Id |-> "none"] /\ waiting' = q
         [] c.req = "pin" ->
               /\ list' = [list EXCEPT ![c.id] = Pinned(@, Unpinned(c.to))]
               /\ waiting' = q /\ UNCHANGED failed
         [] c.req = "delete" ->
               waiting' = Fetching(q) /\ UNCHANGED <<list, failed>>
         [] OTHER -> waiting' = q /\ UNCHANGED <<list, failed>>
    /\ phase' = IF c.who = "task" THEN AfterStatus ELSE phase

Lock ==
    /\ waiting # <<>> /\ current = NoCall
    /\ \/ /\ client = "open" /\ alive
          /\ current' = Head(waiting)
          /\ waiting' = Tail(waiting)
          /\ UNCHANGED <<list, failed, phase>>
       \/ /\ ~(client = "open" /\ alive)
          /\ Failed(Head(waiting), Tail(waiting))
          /\ UNCHANGED current
    /\ UNCHANGED <<daemon, events, client, alive, tray, registered, heard, inbox, bounds, history>>

(* The connection is gone before the answer came: nothing else ends a call *)
(* that is not answered, for it has no timeout.                            *)
CallFails ==
    /\ current # NoCall /\ current.stage # "answered" /\ ~alive
    /\ current' = NoCall
    /\ Failed(current, waiting)
    /\ UNCHANGED <<daemon, events, client, alive, tray, registered, heard, inbox, bounds, history>>

(* The response a request gets from Daemon::handle, and the one its        *)
(* command unwraps.                                                        *)
Reply(req) == [page |-> "clips", status |-> "status", pin |-> "ok", delete |-> "ok",
               pause |-> "ok", settings |-> "ok"][req]
Expected(req) == IF req = "settings" THEN "settings" ELSE Reply(req)

Return ==
    /\ current.stage = "answered"
    /\ current' = NoCall
    /\ \/ /\ current.req = "page"
          /\ IF current.mine
             THEN /\ list' = [i \in Id |-> IF current.page[i] = "deleted" THEN "none"
                                           ELSE current.page[i]]
                  /\ failed' = FALSE
                  /\ listDoubt' = (listDoubt \/ current.overtaken)
             ELSE UNCHANGED <<list, failed, listDoubt>>
          /\ UNCHANGED <<waiting, phase, tray, statusDoubt>>
       \/ /\ current.req = "status"
          /\ IF current.who = "toggle"
             THEN /\ waiting' = Append(waiting, [Call("toggle", "pause") EXCEPT
                                        !.to = IF current.paused THEN "live" ELSE "pinned"])
                  /\ UNCHANGED <<tray, statusDoubt, phase>>
             ELSE /\ tray' = [connected |-> TRUE, paused |-> current.paused]
                  /\ statusDoubt' = (statusDoubt /\ queue # <<>>)
                  /\ phase' = AfterStatus
                  /\ UNCHANGED waiting
          /\ UNCHANGED <<list, failed, listDoubt>>
       \/ /\ current.req \in {"pin", "delete", "pause", "settings"}
          /\ UNCHANGED <<list, failed, waiting, phase, tray, listDoubt, statusDoubt>>
    /\ registered' = IF current.req = "settings" /\ Reply("settings") = Expected("settings")
                     THEN hotkey ELSE registered
    /\ UNCHANGED <<daemon, events, client, alive, heard, inbox, bounds, crossed>>

----------------------------------------------------------------------------
(* The webview.                                                            *)

Patched(event) ==
    CASE event.kind = "added" ->
            [list EXCEPT ![event.id] = IF @ = "none" THEN event.row ELSE @]
      [] event.kind = "updated" ->
            [list EXCEPT ![event.id] = IF @ = "none" THEN @ ELSE event.row]
      [] event.kind = "removed" -> [list EXCEPT ![event.id] = "none"]

(* After the effect that makes the first fetch, the effects of the hook     *)
(* register their listeners by calls to Tauri that nothing waits for: the   *)
(* one for the connection, the ones for the clips.                          *)
Listen ==
    /\ retries > 0
    /\ \E kinds \in {{"connected"}, {"added", "updated", "removed"}} :
          /\ ~(kinds \subseteq heard)
          /\ heard' = heard \cup kinds
    /\ UNCHANGED <<daemon, events, phase, client, alive, calls, tray, registered, list, inbox,
                   failed, bounds, history>>

(* onConnectionChanged: stop retrying and fetch.                           *)
OnConnectedStay == UNCHANGED calls
OnConnected ==
    /\ waiting' = Fetching(waiting)
    /\ current' = Superseded(current)

Receive ==
    /\ inbox # <<>>
    /\ inbox' = Tail(inbox)
    /\ IF Head(inbox).kind = "connected"
       THEN /\ OnConnected
            /\ retries' = MaxRetries
            /\ UNCHANGED list
       ELSE /\ list' = Patched(Head(inbox))
            /\ current' = [current EXCEPT
                     !.overtaken = @ \/ (current.stage = "answered" /\ current.req = "page")]
            /\ UNCHANGED <<waiting, retries>>
    /\ UNCHANGED <<daemon, events, phase, client, alive, tray, registered, heard, failed, ops,
                   stops, history>>

(* The fetch of a window that opens, and its startup retries.              *)
Retry ==
    /\ retries < MaxRetries
    /\ retries' = retries + 1
    /\ waiting' = Fetching(waiting)
    /\ current' = Superseded(current)
    /\ UNCHANGED <<daemon, events, phase, client, alive, tray, registered, view, ops, stops,
                   history>>

Visible(row) == row \in {"live", "pinned"}

(* handleTogglePin and handleDelete change the list before they ask.       *)
UserActs ==
    /\ ops < MaxOps
    /\ ops' = ops + 1
    /\ \/ \E i \in Id :
             /\ Visible(list[i])
             /\ \/ LET to == Unpinned(list[i]) IN
                   /\ list' = [list EXCEPT ![i] = to]
                   /\ waiting' = Append(waiting, [Call("user", "pin") EXCEPT !.id = i, !.to = to])
                \/ /\ list' = [list EXCEPT ![i] = "none"]
                   /\ waiting' = Append(waiting, [Call("user", "delete") EXCEPT !.id = i])
       \/ /\ tray.connected
          /\ waiting' = Append(waiting, Call("toggle", "status"))
          /\ UNCHANGED list
       \/ /\ waiting' = Append(waiting, Call("user", "settings"))
          /\ UNCHANGED list
    /\ UNCHANGED <<daemon, events, phase, client, alive, current, tray, registered, heard, inbox,
                   failed, retries, stops, history>>

----------------------------------------------------------------------------
DaemonSteps ==
    \/ Handle \/ Answer \/ Query
    \/ \E t \in Task : Reread(t) \/ Tell(t) \/ Look(t) \/ Report(t)
AppSteps ==
    \/ ConnectCommands \/ ConnectEvents \/ Subscribe \/ FetchStatus \/ Forward \/ StreamEnds
CallSteps == Lock \/ Return \/ CallFails

Next ==
    \/ Capture \/ Merge \/ Stop \/ Start \/ Listen \/ Retry \/ UserActs
    \/ DaemonSteps \/ AppSteps \/ CallSteps \/ Receive

Spec == Init /\ [][Next]_vars

(* The runtimes poll their tasks, the mutex is fair, the webview runs its  *)
(* handlers, and someone starts a daemon that is not there.                *)
FairSpec ==
    /\ Spec
    /\ WF_vars(Start) /\ WF_vars(DaemonSteps) /\ WF_vars(AppSteps) /\ WF_vars(CallSteps)
    /\ WF_vars(Receive)

----------------------------------------------------------------------------
Event == [kind : {"added", "updated", "removed", "status", "connected"}, id : Id \cup {0},
          row : Row, paused : BOOLEAN]

TypeOK ==
    /\ up \in BOOLEAN /\ rows \in [Id -> Row] /\ paused \in BOOLEAN /\ hotkey \in Hotkey
    /\ \A t \in Task :
          /\ job[t].steps \in Seq({"reread", "tell", "look", "report", "answer"})
          /\ job[t].id \in Id \cup {0} /\ job[t].row \in Row
    /\ queue \in Seq(Event) /\ Len(queue) <= Buffer /\ listening \in BOOLEAN
    /\ phase \in {"off", "commands", "events", "connected", "asking", "streaming"}
    /\ client \in {"none", "open"} /\ alive \in BOOLEAN
    /\ current.stage \in {"none", "asked", "handled", "answered", "unanswered"}
    /\ \A k \in DOMAIN waiting : waiting[k].stage = "asked"
    /\ tray \in [connected : BOOLEAN, paused : BOOLEAN] /\ registered \in Hotkey
    /\ heard \subseteq {"connected", "added", "updated", "removed"}
    /\ list \in [Id -> Row] /\ inbox \in Seq(Event) /\ failed \in BOOLEAN
    /\ ops \in 0..MaxOps /\ retries \in 0..MaxRetries /\ stops \in 0..MaxStops
    /\ crossed \subseteq Id /\ listDoubt \in BOOLEAN /\ statusDoubt \in BOOLEAN

Quiet ==
    /\ up /\ listening /\ phase = "streaming" /\ queue = <<>> /\ inbox = <<>>
    /\ current = NoCall /\ waiting = <<>>
    /\ \A t \in Task : job[t].steps = <<>>

(* A list that is wrong when everything is still has one of four reasons:  *)
(* the subscriber fell behind the event buffer, an event came before the   *)
(* webview listened to its kind, a page was applied after an event that it *)
(* does not know, or two tasks told of one clip in the other order and no  *)
(* update of it followed (the webview ignores an addition of a clip that   *)
(* it has).  A stop of the daemon at any point, a command that fails after *)
(* its optimistic change or a fetch that is superseded is never one, and a *)
(* page fetched when no event is on its way makes up for the first three.  *)
ListTellsTheHistory ==
    Quiet /\ ~failed /\ ~listDoubt =>
        \A i \in Id \ crossed :
            Visible(list[i]) \/ Visible(rows[i]) => list[i] = rows[i]

(* The tray's paused flag is the daemon's when everything is still, unless *)
(* a status was dropped and none followed it, or two tasks sent theirs in  *)
(* the other order.                                                        *)
TrayTellsTheStatus ==
    Quiet /\ ~statusDoubt /\ tray.connected => tray.paused = paused

(* Whenever the daemon stops, the app finds the next one and is told what  *)
(* happens there, and every command comes to an answer or an error, unless *)
(* the daemon could not write an answer and goes on running: that call     *)
(* keeps the mutex which every command and the reconnect need, until the   *)
(* daemon stops.  A status that cannot be fetched is no such reason.       *)
AppRecovers ==
    \/ <>[](current.stage = "unanswered" /\ up)
    \/ /\ []<>(phase = "streaming" /\ listening)
       /\ []<>(current = NoCall /\ waiting = <<>>)

(* hotkey.rs: the hotkey is registered again whenever settings change.     *)
HotkeyFollowsSettings == Quiet => registered = hotkey

=============================================================================
