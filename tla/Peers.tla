------------------------------- MODULE Peers -------------------------------
(***************************************************************************)
(* The peer manager of one daemon: the table of peers it keeps beside its  *)
(* trust set, the loop that dials them and the loop that accepts them.     *)
(* The other devices are the environment: which of them answers at an      *)
(* address, whether it still trusts this device, and when it dials.  A     *)
(* session is one step that succeeds or fails (SyncSession has its steps). *)
(***************************************************************************)
EXTENDS Candidates

CONSTANTS Peer,
          Stranger,    \* a device that is none of the peers
          None,
          OnTailnet,        \* the addresses on the tailnet
          LinkLocal,   \* addresses that cannot be dialled
          Homes,       \* who may answer at an address at first
          Records,     \* the lists of addresses a pairing may record
          Writer,      \* tasks that change the trust set
          Slot,        \* inbound connections at a time
          MaxFound,    \* addresses in one advertisement
          MaxAttempt,  \* failed dials counted
          MaxTime,     \* readings of the wall clock
          MaxUpsets    \* changes of the environment in a behaviour

ASSUME PeersAssumption ==
    /\ Stranger \notin Peer /\ None \notin Peer \cup {Stranger} \cup Addr \cup Slot
    /\ OnTailnet \subseteq Addr /\ LinkLocal \subseteq Addr \ OnTailnet
    /\ Homes \subseteq [Addr -> Peer \cup {Stranger, None}]
    /\ Records \subseteq Seq(Addr \ LinkLocal)
    /\ MaxLan \in Nat \ {0} /\ MaxFound \in Nat /\ MaxAttempt \in Nat
    /\ MaxTime \in Nat \ {0} /\ MaxUpsets \in Nat

VARIABLES
    now,     \* the wall clock
    answers, \* the device that answers at an address
    trustsUs,\* the peers that have this device in their trust set
    trust,   \* the trust set: addresses recorded for a peer, or NotPaired
    epoch,   \* its epoch
    saved,   \* the trust set and its epoch in identity.json
    table,   \* the peer table: a PeerState or NoPeer
    writer,  \* tasks in commit_pairing or forget_device
    dial,    \* the dial loop
    nudge,   \* the permit of Notify
    inbound, \* inbound connections
    accepting, \* the connection accept_one is busy with
    upsets,
    worked,  \* where and when a peer was last reached (history)
    met      \* peers reached since the last copy or change (history)

env == <<answers, trustsUs>>
vars == <<now, answers, trustsUs, trust, epoch, saved, table, writer, dial, nudge,
          inbound, accepting, upsets, worked, met>>

NotPaired == [paired |-> FALSE, addrs |-> <<>>]
Paired(addrs) == [paired |-> TRUE, addrs |-> addrs]
Trusted == {p \in Peer : trust[p].paired}

NoPeer == [listed |-> FALSE, candidates |-> <<>>, backoff |-> 0, refused |-> FALSE]
NewPeer(list) == [NoPeer EXCEPT !.listed = TRUE, !.candidates = list]
Listed == {p \in Peer : table[p].listed}

(* candidates_of *)
CandidatesOf(addrs) ==
    UpsertAll(<<>>, [i \in DOMAIN addrs |->
        IF addrs[i] \in OnTailnet THEN Tailnet(addrs[i], Never) ELSE Lan(addrs[i], Never)])

(* What a copy of the trust set makes of an entry of the table.             *)
Reloaded(entry, record) ==
    IF ~record.paired THEN NoPeer
    ELSE IF entry.listed
    THEN [entry EXCEPT !.refused = FALSE,
                       !.candidates = UpsertAll(@, CandidatesOf(record.addrs))]
    ELSE NewPeer(CandidatesOf(record.addrs))

NoContact == [addr |-> None, at |-> Never]

(* Sequences of distinct addresses, as a device records or advertises them. *)
Lists(S, n) == {s \in UNION {[1..k -> S] : k \in 0..n} :
                  \A i, j \in DOMAIN s : s[i] = s[j] => i = j}

(* The dial loop: what it does next, the peers left in this pass, and of    *)
(* the dial under way its peer, its copy of the candidates, the ones it has *)
(* not tried, the one that answered and the epoch of the handshake.         *)
Resting == [at |-> "rest", due |-> {}, peer |-> None, list |-> <<>>,
            left |-> {}, addr |-> None, epoch |-> 0]
NoConnection == [at |-> "none", from |-> None, addr |-> None, epoch |-> 0]
IdleWriter == [at |-> "idle", pairs |-> FALSE, known |-> [p \in Peer |-> NotPaired]]

Init ==
    /\ now = 1
    /\ answers \in Homes
    /\ trustsUs = Peer
    /\ trust \in [Peer -> {NotPaired} \cup {Paired(a) : a \in Records}]
    /\ epoch = 0
    /\ saved = [peers |-> trust, epoch |-> 0]
    /\ table = [p \in Peer |-> Reloaded(NoPeer, trust[p])]
    /\ writer = [w \in Writer |-> IdleWriter]
    /\ dial = [Resting EXCEPT !.at = "refresh"]
    /\ nudge = FALSE
    /\ inbound = [i \in Slot |-> NoConnection]
    /\ accepting = None
    /\ upsets = 0
    /\ worked = [p \in Peer |-> NoContact]
    /\ met = {}

(* Something changes around the loops.                                      *)
Upset == upsets < MaxUpsets /\ upsets' = upsets + 1 /\ met' = {}

----------------------------------------------------------------------------
(* The environment.                                                         *)

(* Time is only compared with the times of sightings.                       *)
Tick ==
    /\ now < MaxTime
    /\ \E p \in Peer : \E i \in DOMAIN table[p].candidates : table[p].candidates[i].seen = now
    /\ now' = now + 1
    /\ UNCHANGED <<env, trust, epoch, saved, table, writer, dial, nudge, inbound, accepting, upsets, worked, met>>

(* An address comes to belong to another device, or to nobody.              *)
Move(x, d) ==
    /\ answers[x] # d
    /\ Upset
    /\ answers' = [answers EXCEPT ![x] = d]
    /\ UNCHANGED <<now, trustsUs, trust, epoch, saved, table, writer, dial, nudge, inbound, accepting, worked>>

(* A peer forgets this device.                                              *)
Disowns(p) ==
    /\ p \in trustsUs
    /\ Upset
    /\ trustsUs' = trustsUs \ {p}
    /\ UNCHANGED <<now, answers, trust, epoch, saved, table, writer, dial, nudge, inbound, accepting, worked>>

(* A clip was captured: sync_soon.                                          *)
Nudge ==
    /\ ~nudge
    /\ nudge' = TRUE
    /\ met' = {}
    /\ UNCHANGED <<now, env, trust, epoch, saved, table, writer, dial, inbound, accepting, upsets, worked>>

----------------------------------------------------------------------------
(* commit_pairing and forget_device: the trust set and its file change      *)
(* under the lock of the set; then reload_from_trust takes a copy of the    *)
(* set, and then the lock of the table.  A ceremony that gets through to    *)
(* its end nudges the dial loop.                                            *)

(* Trust::add_peer leaves the epoch alone, Trust::remove_peer raises it.    *)
EpochAfterRemovalKept == epoch
EpochAfterRemoval == epoch + 1

ChangeTrust(w, peers, pairs) ==
    /\ writer[w].at = "idle"
    /\ Upset
    /\ trust' = peers
    /\ \/ /\ saved' = [peers |-> peers, epoch |-> epoch']
          /\ writer' = [writer EXCEPT ![w].at = "read", ![w].pairs = pairs]
       \/ UNCHANGED <<saved, writer>>
    /\ UNCHANGED <<now, answers, table, dial, nudge, inbound, accepting, worked>>

CommitPairing(w, p, addrs) ==
    /\ epoch' = epoch
    /\ ChangeTrust(w, [trust EXCEPT ![p] = Paired(addrs)], TRUE)
    /\ trustsUs' = trustsUs \cup {p}

ForgetDevice(w, p) ==
    /\ p \in Trusted
    /\ epoch' = EpochAfterRemoval
    /\ ChangeTrust(w, [trust EXCEPT ![p] = NotPaired], FALSE)
    /\ UNCHANGED trustsUs

ReadTrust(w) ==
    /\ writer[w].at = "read"
    /\ writer' = [writer EXCEPT ![w].at = "apply", ![w].known = trust]
    /\ UNCHANGED <<now, env, trust, epoch, saved, table, dial, nudge, inbound, accepting, upsets, worked, met>>

Reload(w) ==
    /\ writer[w].at = "apply"
    /\ table' = [p \in Peer |-> Reloaded(table[p], writer[w].known[p])]
    /\ worked' = [p \in Peer |-> IF table'[p].listed THEN worked[p] ELSE NoContact]
    /\ writer' = [writer EXCEPT ![w] = IdleWriter]
    /\ nudge' \in {nudge, nudge \/ writer[w].pairs}
    /\ UNCHANGED <<now, env, trust, epoch, saved, dial, inbound, accepting, upsets, met>>

(* The daemon stops and starts: PeerManager::new.                           *)
Restart ==
    /\ Upset
    /\ trust' = saved.peers
    /\ epoch' = saved.epoch
    /\ table' = [p \in Peer |-> Reloaded(NoPeer, saved.peers[p])]
    /\ writer' = [w \in Writer |-> IdleWriter]
    /\ dial' = [Resting EXCEPT !.at = "refresh"]
    /\ nudge' = FALSE
    /\ inbound' = [i \in Slot |-> NoConnection]
    /\ accepting' = None
    /\ worked' = [p \in Peer |-> NoContact]
    /\ UNCHANGED <<now, env, saved>>

----------------------------------------------------------------------------
(* dial_loop and sync_all.                                                  *)

(* on_resolved and dialable: what is left of an advertisement.              *)
Dialable(x) == x \notin LinkLocal

(* A sweep reports each device at the addresses it has advertised, or not   *)
(* at all.                                                                  *)
Found(entry, advertised) ==
    LET usable == SelectSeq(advertised, Dialable) IN
    IF usable # <<>> /\ entry.listed
    THEN [entry EXCEPT !.candidates = RefreshLan(@, usable, now), !.backoff = 0]
    ELSE entry
Sweep(found) == table' = [p \in Peer |-> Found(table[p], found[p])]

RefreshFromDiscovery ==
    /\ dial.at = "refresh"
    /\ \E found \in [Peer -> Lists(Addr \ OnTailnet, MaxFound)] : Sweep(found)
    /\ dial' = [dial EXCEPT !.at = "pass"]
    /\ UNCHANGED <<now, env, trust, epoch, saved, writer, nudge, inbound, accepting, upsets, worked, met>>

DueUnfailed == {p \in Listed : ~table[p].refused /\ table[p].backoff = 0}
Due == {p \in Listed : ~table[p].refused}

BeginPass ==
    /\ dial.at = "pass"
    /\ dial' = [dial EXCEPT !.at = "next", !.due = Due]
    /\ UNCHANGED <<now, env, trust, epoch, saved, table, writer, nudge, inbound, accepting, upsets, worked, met>>

EndPass ==
    /\ dial.at = "next"
    /\ dial.due = {}
    /\ dial' = Resting
    /\ UNCHANGED <<now, env, trust, epoch, saved, table, writer, nudge, inbound, accepting, upsets, worked, met>>

WakeOnNudge ==
    /\ dial.at = "rest"
    /\ nudge
    /\ nudge' = FALSE
    /\ dial' = [dial EXCEPT !.at = "pass"]
    /\ UNCHANGED <<now, env, trust, epoch, saved, table, writer, inbound, accepting, upsets, worked, met>>

WakeOnTick ==
    /\ dial.at = "rest"
    /\ dial' = [dial EXCEPT !.at = "refresh"]
    /\ UNCHANGED <<now, env, trust, epoch, saved, table, writer, nudge, inbound, accepting, upsets, worked, met>>

----------------------------------------------------------------------------
(* sync_one and QuicTransport::dial.                                        *)

(* The dial of a peer is over.                                              *)
NextPeer == dial' = [Resting EXCEPT !.at = "next", !.due = dial.due \ {dial.peer}]

(* Unreachable is retried, anything else is not (is_retryable).             *)
Failures(n) == IF n < MaxAttempt THEN n + 1 ELSE n
Unreachable(p) ==
    table' = IF p \in Listed
             THEN [table EXCEPT ![p].backoff = Failures(@)]
             ELSE table
Refused(p) ==
    table' = IF p \in Listed THEN [table EXCEPT ![p].refused = TRUE] ELSE table

SyncOne(p) ==
    /\ dial.at = "next"
    /\ p \in dial.due
    /\ \/ /\ p \in Listed /\ ~table[p].refused
          /\ p \in Trusted /\ table[p].candidates # <<>>
          /\ dial' = [dial EXCEPT !.at = "walk", !.peer = p, !.list = table[p].candidates,
                                  !.left = DOMAIN table[p].candidates]
          /\ UNCHANGED table
       \/ /\ p \notin Trusted \/ table[p].candidates = <<>> \/ table[p].refused
          /\ Refused(p)
          /\ dial' = [dial EXCEPT !.due = @ \ {p}]
    /\ UNCHANGED <<now, env, trust, epoch, saved, writer, nudge, inbound, accepting, upsets, worked, met>>

(* The next address: nobody there, or a connection and no other address is  *)
(* tried.                                                                   *)
Connect ==
    LET i == FirstToDial(dial.list, dial.left)
        x == dial.list[i].addr
    IN
    /\ dial.at = "walk"
    /\ dial.left # {}
    /\ dial' = IF answers[x] = None THEN [dial EXCEPT !.left = @ \ {i}]
               ELSE [dial EXCEPT !.at = "hand", !.addr = x]
    /\ UNCHANGED <<now, env, trust, epoch, saved, table, writer, nudge, inbound, accepting, upsets, worked, met>>

NobodyAnswers ==
    /\ dial.at = "walk"
    /\ dial.left = {}
    /\ Unreachable(dial.peer)
    /\ NextPeer
    /\ UNCHANGED <<now, env, trust, epoch, saved, writer, nudge, inbound, accepting, upsets, worked, met>>

(* HandshakeInitiator::start *)
StartHandshake ==
    /\ dial.at = "hand"
    /\ IF dial.peer \in Trusted
       THEN dial' = [dial EXCEPT !.at = "reply", !.epoch = epoch] /\ UNCHANGED table
       ELSE Refused(dial.peer) /\ NextPeer
    /\ UNCHANGED <<now, env, trust, epoch, saved, writer, nudge, inbound, accepting, upsets, worked, met>>

(* HandshakeInitiator::finish: only the peer itself can read the first      *)
(* message, and it answers if it trusts this device.  Another device of the *)
(* same program hangs up, which counts as unreachable; a stranger may also  *)
(* answer something that finish rejects, and then the peer is refused.      *)
Readable(d, p) == d = p /\ p \in trustsUs

FinishHandshake ==
    LET d == answers[dial.addr] IN
    /\ dial.at = "reply"
    /\ \/ /\ Readable(d, dial.peer)
          /\ dial' = [dial EXCEPT !.at = "session"]
          /\ UNCHANGED table
       \/ ~Readable(d, dial.peer) /\ Unreachable(dial.peer) /\ NextPeer
       \/ d = Stranger /\ Refused(dial.peer) /\ NextPeer
    /\ UNCHANGED <<now, env, trust, epoch, saved, writer, nudge, inbound, accepting, upsets, worked, met>>

(* note_success *)
NoteSuccess(p, x) ==
    IF p \in Listed
    THEN /\ table' = [table EXCEPT ![p].backoff = 0, ![p].refused = FALSE,
                                   ![p].candidates = Upsert(@, Lan(x, now))]
         /\ worked' = [worked EXCEPT ![p] = [addr |-> x, at |-> now]]
    ELSE UNCHANGED <<table, worked>>

SessionEnds ==
    /\ dial.at = "session"
    /\ \/ /\ answers[dial.addr] = dial.peer
          /\ NoteSuccess(dial.peer, dial.addr)
          /\ met' = met \cup {dial.peer}
       \/ /\ answers[dial.addr] # dial.peer
          /\ UNCHANGED <<table, worked, met>>
    /\ NextPeer
    /\ UNCHANGED <<now, env, trust, epoch, saved, writer, nudge, inbound, accepting, upsets>>

----------------------------------------------------------------------------
(* accept_loop.  accept_one runs inside the loop: until the first frame of  *)
(* one connection is read nobody else is accepted.  A connection that waits *)
(* for its turn is not part of the state.                                   *)

Accept(i, d, x) ==
    /\ accepting = None
    /\ inbound[i] = NoConnection
    /\ answers[x] = d
    /\ inbound' = [inbound EXCEPT ![i] = [NoConnection EXCEPT !.at = "hand", !.from = d, !.addr = x]]
    /\ accepting' = i
    /\ UNCHANGED <<now, env, trust, epoch, saved, table, writer, dial, nudge, upsets, worked, met>>

(* HandshakeResponder::accept, authorize_static_key *)
Authorizes(d) == d \in Trusted

FirstFrame(i) ==
    /\ accepting = i
    /\ inbound' = [inbound EXCEPT ![i] =
          IF Authorizes(@.from) THEN [@ EXCEPT !.at = "session", !.epoch = epoch]
          ELSE NoConnection]
    /\ accepting' = None
    /\ UNCHANGED <<now, env, trust, epoch, saved, table, writer, dial, nudge, upsets, worked, met>>

(* The connection ends before its handshake or its session does.            *)
Hangup(i) ==
    /\ inbound[i].at # "none"
    /\ inbound' = [inbound EXCEPT ![i] = NoConnection]
    /\ accepting' = IF accepting = i THEN None ELSE accepting
    /\ UNCHANGED <<now, env, trust, epoch, saved, table, writer, dial, nudge, upsets, worked, met>>

Served(i) ==
    /\ inbound[i].at = "session"
    /\ NoteSuccess(inbound[i].from, inbound[i].addr)
    /\ inbound' = [inbound EXCEPT ![i] = NoConnection]
    /\ UNCHANGED <<now, env, trust, epoch, saved, writer, dial, nudge, accepting, upsets, met>>

----------------------------------------------------------------------------
DialLoop ==
    \/ WakeOnNudge \/ WakeOnTick \/ RefreshFromDiscovery \/ BeginPass \/ EndPass \/ (\E p \in Peer : SyncOne(p))
    \/ Connect \/ NobodyAnswers \/ StartHandshake \/ FinishHandshake \/ SessionEnds

Next ==
    \/ Tick \/ Nudge \/ Restart
    \/ \E x \in Addr, d \in Peer \cup {Stranger, None} : Move(x, d)
    \/ \E p \in Peer : Disowns(p)
    \/ \E w \in Writer, p \in Peer :
          ForgetDevice(w, p) \/ \E a \in Records : CommitPairing(w, p, a)
    \/ \E w \in Writer : ReadTrust(w) \/ Reload(w)
    \/ DialLoop
    \/ \E i \in Slot : FirstFrame(i) \/ Hangup(i) \/ Served(i)
    \/ \E i \in Slot, d \in Peer \cup {Stranger}, x \in Addr : Accept(i, d, x)

Spec == Init /\ [][Next]_vars

(* The runtime polls the dial loop and the tasks that changed the trust     *)
(* set; the tick always comes.                                              *)
FairSpec ==
    /\ Spec
    /\ WF_dial(DialLoop)
    /\ \A w \in Writer : WF_writer(ReadTrust(w) \/ Reload(w))

----------------------------------------------------------------------------
TypeOK ==
    /\ now \in 1..MaxTime
    /\ answers \in [Addr -> Peer \cup {Stranger, None}]
    /\ trustsUs \subseteq Peer
    /\ \A p \in Peer : \A t \in {trust[p], saved.peers[p]} :
          t.paired \in BOOLEAN /\ t.addrs \in Seq(Addr)
    /\ epoch \in 0..MaxUpsets /\ saved.epoch \in 0..MaxUpsets
    /\ \A p \in Peer :
          /\ table[p].listed \in BOOLEAN /\ table[p].refused \in BOOLEAN
          /\ table[p].backoff \in 0..MaxAttempt
          /\ table[p].candidates \in Seq(Candidate)
    /\ \A w \in Writer : writer[w].at \in {"idle", "read", "apply"}
    /\ dial.at \in {"rest", "refresh", "pass", "next", "walk", "hand", "reply", "session"}
    /\ dial.due \subseteq Peer /\ dial.left \subseteq DOMAIN dial.list
    /\ dial.peer \in Peer \cup {None} /\ dial.addr \in Addr \cup {None}
    /\ nudge \in BOOLEAN
    /\ \A i \in Slot : /\ inbound[i].at \in {"none", "hand", "session"}
                       /\ accepting = i <=> inbound[i].at = "hand"
    /\ upsets \in 0..MaxUpsets /\ met \subseteq Peer

(* The address at which a peer was last reached is still a candidate, or    *)
(* MaxLan addresses seen no earlier have pushed it out: no advertisement,   *)
(* pairing or failed dial loses it (refresh_lan: "Being deleted costs the   *)
(* whole peer").                                                            *)
WorkingAddressKept ==
    \A p \in Listed :
        LET list == table[p].candidates IN
        \/ worked[p] = NoContact
        \/ \E i \in DOMAIN list : list[i].addr = worked[p].addr /\ list[i].seen >= worked[p].at
        \/ Cardinality({i \in LanOnes(list) : list[i].seen >= worked[p].at}) >= MaxLan

(* reload_from_trust: "Rebuild the peer table from the paired set — on      *)
(* startup, and whenever pairing adds or removes a device."  So once the    *)
(* tasks that changed the trust set are done, the devices in it and in its  *)
(* file should be the ones the loops know.                                  *)
TableFollowsTrust ==
    (\A w \in Writer : writer[w].at = "idle") =>
        /\ \A p \in Peer : trust[p].paired /\ saved.peers[p].paired => p \in Listed
        /\ \A p \in Listed : trust[p].paired \/ saved.peers[p].paired

(* A session stamped with the epoch the trust set has now is with a device  *)
(* in the trust set, on either side of the dial and however the handshake   *)
(* interleaves with changes of the set: this is what authorize_session      *)
(* would rely on ("the epoch makes all of them stale at once").             *)
StampMeansTrusted ==
    /\ dial.at \in {"reply", "session"} /\ dial.epoch = epoch => dial.peer \in Trusted
    /\ \A i \in Slot :
          inbound[i].at = "session" /\ inbound[i].epoch = epoch => inbound[i].from \in Trusted

(* The candidate at which the walk of the list would stop is the peer's.    *)
Reachable(p) ==
    LET list == table[p].candidates
        up == {i \in DOMAIN list : answers[list[i].addr] # None}
    IN up # {} /\ answers[list[FirstToDial(list, up)].addr] = p

(* A peer that answers where the walk of its addresses stops, and that      *)
(* trusts and is trusted, is reached again after every copy, one made in    *)
(* the middle of a pass too, whatever failed before; unless it is refused,  *)
(* or its place changes again and again (dial_loop).                        *)
PeersReached ==
    \A p \in Peer : []<>(\/ p \in met
                         \/ ~(p \in Listed /\ p \in Trusted /\ p \in trustsUs)
                         \/ table[p].refused
                         \/ ~Reachable(p))

=============================================================================
