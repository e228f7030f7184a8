------------------------------ MODULE Pairing ------------------------------
(***************************************************************************)
(* The pairing ceremony.  One device shows six digits (an offer), the user *)
(* types them on another, and the typing device asks every device it can   *)
(* reach whether it is showing them: lookup, accept / confirm, finish /    *)
(* done.  Each device has one PairingState behind a mutex that is held for *)
(* one message at a time, and its trust set in memory and on disk.         *)
(*                                                                         *)
(* An attempt (Call) is one PairWithCode request; the n-th connection it   *)
(* opens is served at the other end by a task of its own, which may live   *)
(* on after the attempt has left.  The MACs are modelled by what they      *)
(* cover: an offer stands for its nonce, device and digits, an attempt for *)
(* the nonce and the identity it sent.                                     *)
(***************************************************************************)
EXTENDS Naturals, FiniteSets

CONSTANTS Device, Call, OfferId, Code, None,
          MaxTargets,        \* connections an attempt opens at most
          MaxLookupAttempts, \* wrong lookups that retire an offer
          MaxUpsets          \* interruptions in a behaviour

ASSUME ConstantsAssumption ==
    /\ None \notin Device \cup Call \cup OfferId \cup Code
    /\ MaxTargets \in Nat
    /\ MaxLookupAttempts \in Nat \ {0}
    /\ MaxUpsets \in Nat

VARIABLES
    offers,  \* the offers made so far: who shows them and which digits
    late,    \* the offers that have expired by a device's own clock
    state,   \* a device's PairingState
    call,    \* the attempts
    verified,\* the attempts that have verified the other device's proof
    conn,    \* the serving end of an attempt's connections
    trust,   \* the trust set in memory
    saved,   \* the trust set in identity.json
    shown,   \* the peers the user was told are paired and did not forget
    upsets,  \* interruptions so far
    crossed  \* an accept has met a state other than the offer it answers

vars == <<offers, late, state, call, verified, conn, trust, saved, shown, upsets, crossed>>

Target == 1..MaxTargets
Offer == [by : Device, code : Code]
NoOffer == [by |-> None, code |-> None]
Made(o) == offers[o] # NoOffer

PairingState ==
    [k : {"Idle", "Offering", "Proving", "Answering"},
     offer : OfferId \cup {None}, wrong : 0..(MaxLookupAttempts - 1), call : Call \cup {None}]
Idle == [k |-> "Idle", offer |-> None, wrong |-> 0, call |-> None]
Offering(o) == [k |-> "Offering", offer |-> o, wrong |-> 0, call |-> None]
ProvingStillOffered(o, q) == Offering(o)
Proving(o, q) == [k |-> "Proving", offer |-> o, wrong |-> 0, call |-> q]
Answering == [k |-> "Answering", offer |-> None, wrong |-> 0, call |-> None]

(* What an attempt does next, and its variables: its latest connection, the *)
(* offer it was given and the offer whose nonce the confirm revealed.       *)
Attempt ==
    [at : {"free", "walk", "ask", "offered", "accept", "confirm", "finish",
           "commit", "fail", "over"},
     by : Device \cup {None}, code : Code \cup {None}, n : 0..MaxTargets,
     offer : OfferId \cup {None}, proof : OfferId \cup {None}]
NoAttempt == [at |-> "free", by |-> None, code |-> None, n |-> 0,
              offer |-> None, proof |-> None]

(* The task serving a connection: the message that has reached it (lookup,  *)
(* accept, finish), or the reply after which it reads the next one.         *)
Exchange == [at : {"none", "lookup", "offered", "accept", "confirmed", "finish", "over"},
             with : Device \cup {None}]
NoExchange == [at |-> "none", with |-> None]

Init ==
    /\ offers = [o \in OfferId |-> NoOffer]
    /\ late = [d \in Device |-> {}]
    /\ state = [d \in Device |-> Idle]
    /\ call = [q \in Call |-> NoAttempt]
    /\ verified = {}
    /\ conn = [q \in Call |-> [n \in Target |-> NoExchange]]
    /\ trust = [d \in Device |-> {}]
    /\ saved = [d \in Device |-> {}]
    /\ shown = [d \in Device |-> {}]
    /\ upsets = 0
    /\ crossed = FALSE

(* A user, the network or the disk interrupts a ceremony.                   *)
Upset == upsets < MaxUpsets /\ upsets' = upsets + 1

(* expire_if_stale *)
Expired(d, s) == IF s.k = "Offering" /\ s.offer \in late[d] THEN Idle ELSE s

(* Trust::add_peer, Trust::remove_peer; save_parts replaces the whole file, *)
(* or fails and leaves the old one.                                         *)
AddPeer(d, e) == trust[d] \cup {e}
RemovePeer(d, e) == trust[d] \ {e}
SaveParts(d, peers) == saved' = [saved EXCEPT ![d] = peers]
SaveFails == UNCHANGED saved

----------------------------------------------------------------------------
(* The user of a device.                                                    *)

BeginPairing(d, o, c) ==
    /\ ~Made(o)
    /\ Expired(d, state[d]) = Idle
    /\ offers' = [offers EXCEPT ![o] = [by |-> d, code |-> c]]
    /\ state' = [state EXCEPT ![d] = Offering(o)]
    /\ UNCHANGED <<late, call, verified, conn, trust, saved, shown, upsets, crossed>>

PairWithCode(q, d, c) ==
    /\ call[q] = NoAttempt
    /\ state[d] = Idle
    /\ state' = [state EXCEPT ![d] = Answering]
    /\ call' = [call EXCEPT ![q] = [NoAttempt EXCEPT !.at = "walk", !.by = d, !.code = c]]
    /\ UNCHANGED <<offers, late, verified, conn, trust, saved, shown, upsets, crossed>>

CancelPairing(d) ==
    /\ state[d] # Idle
    /\ Upset
    /\ state' = [state EXCEPT ![d] = Idle]
    /\ UNCHANGED <<offers, late, call, verified, conn, trust, saved, shown, crossed>>

(* Here too the file may fail to be written.                                *)
ForgetDevice(d, e) ==
    /\ e \in trust[d]
    /\ Upset
    /\ trust' = [trust EXCEPT ![d] = RemovePeer(d, e)]
    /\ SaveParts(d, RemovePeer(d, e)) \/ SaveFails
    /\ shown' = [shown EXCEPT ![d] = @ \ {e}]
    /\ UNCHANGED <<offers, late, state, call, verified, conn, crossed>>

(* The clock of a device that has a use for an offer passes its expiry; the *)
(* two devices' clocks need not agree.                                      *)
Expire(d, o) ==
    /\ offers[o].by = d \/ \E q \in Call : call[q].by = d /\ call[q].offer = o
    /\ o \notin late[d]
    /\ late' = [late EXCEPT ![d] = @ \cup {o}]
    /\ UNCHANGED <<offers, state, call, verified, conn, trust, saved, shown, upsets, crossed>>

----------------------------------------------------------------------------
(* The typing device, up to its accept.                                     *)

Ask(q, d) ==
    /\ call[q].at = "walk"
    /\ call[q].n < MaxTargets
    /\ d # call[q].by
    /\ call' = [call EXCEPT ![q].at = "ask", ![q].n = @ + 1]
    /\ conn' = [conn EXCEPT ![q][call[q].n + 1] =
                    [at |-> "lookup", with |-> d]]
    /\ UNCHANGED <<offers, late, state, verified, trust, saved, shown, upsets, crossed>>

NotFound(q) ==
    /\ call[q].at = "walk"
    /\ call' = [call EXCEPT ![q].at = "fail"]
    /\ UNCHANGED <<offers, late, state, verified, conn, trust, saved, shown, upsets, crossed>>

(* The attempt's next frame reaches a server that still waits for it.       *)
Deliver(q, reply, message) ==
    conn' = [conn EXCEPT ![q][call[q].n].at = IF @ = reply THEN message ELSE @]

(* PairingResponder::from_offer *)
FromOffer(q) ==
    /\ call[q].at = "offered"
    /\ IF call[q].offer \in late[call[q].by]
       THEN /\ call' = [call EXCEPT ![q].at = "fail"]
            /\ UNCHANGED conn
       ELSE /\ call' = [call EXCEPT ![q].at = "accept"]
            /\ Deliver(q, "offered", "accept")
    /\ UNCHANGED <<offers, late, state, verified, trust, saved, shown, upsets, crossed>>

----------------------------------------------------------------------------
(* The serving device: pairing_ceremony, one message at a time.             *)

Waiting(q, n, at) == call[q].n = n /\ call[q].at = at

WrongOnceMore(s) ==
    IF s.wrong + 1 > MaxLookupAttempts THEN Idle ELSE [s EXCEPT !.wrong = @ + 1]

Wrong(s) ==
    IF s.wrong + 1 >= MaxLookupAttempts THEN Idle ELSE [s EXCEPT !.wrong = @ + 1]

ServeLookup(q, n) ==
    LET d == conn[q][n].with
        s == Expired(d, state[d])
        answers == s.k = "Offering" /\ offers[s.offer].code = call[q].code
    IN
    /\ conn[q][n].at = "lookup"
    /\ \/ /\ answers
          /\ state' = [state EXCEPT ![d] = s]
          /\ conn' = [conn EXCEPT ![q][n].at = "offered"]
          /\ call' = IF Waiting(q, n, "ask")
                     THEN [call EXCEPT ![q].at = "offered", ![q].offer = s.offer]
                     ELSE call
       \/ /\ ~answers
          /\ state' = [state EXCEPT ![d] = IF s.k = "Offering" THEN Wrong(s) ELSE s]
          /\ conn' = [conn EXCEPT ![q][n].at = "over"]
          /\ call' = IF Waiting(q, n, "ask") THEN [call EXCEPT ![q].at = "walk"] ELSE call
    /\ UNCHANGED <<offers, late, verified, trust, saved, shown, upsets, crossed>>

(* answer_accept takes whatever the state was and answers with the offer    *)
(* found there, if there is one.                                            *)
Open(d) == state[d].k = "Offering" /\ state[d].offer \notin late[d]

ServeAccept(q, n) ==
    LET d == conn[q][n].with
        o == state[d].offer
    IN
    /\ conn[q][n].at = "accept"
    /\ \/ /\ Open(d)
          /\ state' = [state EXCEPT ![d] = Proving(o, q)]
          /\ conn' = [conn EXCEPT ![q][n].at = "confirmed"]
          /\ call' = IF Waiting(q, n, "accept")
                     THEN [call EXCEPT ![q].at = "confirm", ![q].proof = o]
                     ELSE call
       \/ /\ ~Open(d)
          /\ state' = [state EXCEPT ![d] = Idle]
          /\ conn' = [conn EXCEPT ![q][n].at = "over"]
          /\ UNCHANGED call
    /\ crossed' = (crossed \/ state[d].k # "Offering" \/ o # call[q].offer)
    /\ UNCHANGED <<offers, late, verified, trust, saved, shown, upsets>>

(* finish takes whatever the state was; the proof is of one attempt.        *)
MatchesAny(s, q) == s.k = "Proving"
Matches(s, q) == s.k = "Proving" /\ s.call = q

(* The peer is added in memory, then the file is written; the user is told  *)
(* if that went well.                                                       *)
CommitPairingSavesFirst(d, e) ==
    /\ trust' = [trust EXCEPT ![d] = AddPeer(d, e)]
    /\ SaveParts(d, trust[d])
    /\ shown' = [shown EXCEPT ![d] = @ \cup {e}]
    /\ UNCHANGED upsets

CommitPairing(d, e) ==
    /\ trust' = [trust EXCEPT ![d] = AddPeer(d, e)]
    /\ \/ /\ SaveParts(d, AddPeer(d, e))
          /\ shown' = [shown EXCEPT ![d] = @ \cup {e}]
          /\ UNCHANGED upsets
       \/ /\ SaveFails
          /\ Upset
          /\ UNCHANGED shown

ServeFinish(q, n) ==
    LET d == conn[q][n].with IN
    /\ conn[q][n].at = "finish"
    /\ state' = [state EXCEPT ![d] = Idle]
    /\ conn' = [conn EXCEPT ![q][n].at = "over"]
    /\ IF Matches(state[d], q)
       THEN CommitPairing(d, call[state[d].call].by)
       ELSE UNCHANGED <<trust, saved, shown, upsets>>
    /\ UNCHANGED <<offers, late, call, verified, crossed>>

(* The ceremony's timeout cancels whatever the device is doing.             *)
CeremonyStalls(q, n) ==
    LET d == conn[q][n].with IN
    /\ conn[q][n].at \in {"offered", "accept", "confirmed", "finish"}
    /\ Upset
    /\ state' = [state EXCEPT ![d] = Idle]
    /\ conn' = [conn EXCEPT ![q][n].at = "over"]
    /\ UNCHANGED <<offers, late, call, verified, trust, saved, shown, crossed>>

(* The connection is gone: the task ends and leaves the state as it is.     *)
ConnectionEnds(q, n) ==
    /\ conn[q][n].at \in {"offered", "accept", "confirmed", "finish"}
    /\ \/ /\ call[q].n # n \/ call[q].at \in {"commit", "fail", "over"}
          /\ UNCHANGED upsets
       \/ /\ call[q].n = n
          /\ call[q].at \in {"ask", "offered", "accept", "confirm", "finish"}
          /\ Upset
    /\ conn' = [conn EXCEPT ![q][n].at = "over"]
    /\ UNCHANGED <<offers, late, state, call, verified, trust, saved, shown, crossed>>

----------------------------------------------------------------------------
(* The typing device, from the confirm on.                                  *)

(* PairingResponder::verify: the nonce opens the offer's commitment and the *)
(* MAC is of this attempt.                                                  *)
Verify(q) ==
    /\ call[q].at = "confirm"
    /\ IF call[q].offer \notin late[call[q].by] /\ call[q].proof = call[q].offer
       THEN /\ call' = [call EXCEPT ![q].at = "finish"]
            /\ verified' = verified \cup {q}
            /\ Deliver(q, "confirmed", "finish")
       ELSE /\ call' = [call EXCEPT ![q].at = "fail"]
            /\ UNCHANGED <<verified, conn>>
    /\ UNCHANGED <<offers, late, state, trust, saved, shown, upsets, crossed>>

(* Where a call that gets no reply leaves the attempt.                      *)
AfterFailureGivesUp(at) == IF at = "ask" THEN "walk" ELSE "fail"

AfterFailure(at) ==
    CASE at = "ask" -> "walk"
      [] at \in {"offered", "accept", "confirm"} -> "fail"
      [] at = "finish" -> "commit"

(* The reply of a call arrives (the server is done) or does not.            *)
CallEnds(q) ==
    /\ call[q].at \in {"ask", "offered", "accept", "confirm", "finish"}
    /\ \/ conn[q][call[q].n].at = "over" /\ UNCHANGED upsets
       \/ conn[q][call[q].n].at # "over" /\ Upset
    /\ call' = [call EXCEPT ![q].at = AfterFailure(@)]
    /\ UNCHANGED <<offers, late, state, verified, conn, trust, saved, shown, crossed>>

(* The end of pair_with_code: cancel, then commit_pairing or PairingEnded.  *)
Commit(q) ==
    LET d == call[q].by IN
    /\ call[q].at = "commit"
    /\ state' = [state EXCEPT ![d] = Idle]
    /\ call' = [call EXCEPT ![q].at = "over"]
    /\ CommitPairing(d, offers[call[q].offer].by)
    /\ UNCHANGED <<offers, late, verified, conn, crossed>>

Fail(q) ==
    /\ call[q].at = "fail"
    /\ state' = [state EXCEPT ![call[q].by] = Idle]
    /\ call' = [call EXCEPT ![q].at = "over"]
    /\ UNCHANGED <<offers, late, verified, conn, trust, saved, shown, upsets, crossed>>

(* A daemon stops and starts again: what is left is identity.json.          *)
Restart(d) ==
    /\ Upset
    /\ state' = [state EXCEPT ![d] = Idle]
    /\ call' = [q \in Call |-> IF call[q].by = d THEN [call[q] EXCEPT !.at = "over"] ELSE call[q]]
    /\ conn' = [q \in Call |-> [n \in Target |->
                  IF conn[q][n].with = d THEN [conn[q][n] EXCEPT !.at = "over"] ELSE conn[q][n]]]
    /\ trust' = [trust EXCEPT ![d] = saved[d]]
    /\ UNCHANGED <<offers, late, verified, saved, shown, crossed>>

Next ==
    \/ \E d \in Device, o \in OfferId, c \in Code : BeginPairing(d, o, c)
    \/ \E q \in Call, d \in Device, c \in Code : PairWithCode(q, d, c)
    \/ \E d \in Device : CancelPairing(d) \/ Restart(d)
    \/ \E d, e \in Device : ForgetDevice(d, e)
    \/ \E d \in Device, o \in OfferId : Expire(d, o)
    \/ \E q \in Call, d \in Device : Ask(q, d)
    \/ \E q \in Call :
          NotFound(q) \/ FromOffer(q) \/ Verify(q) \/ CallEnds(q) \/ Commit(q) \/ Fail(q)
    \/ \E q \in Call, n \in Target :
          \/ ServeLookup(q, n) \/ ServeAccept(q, n) \/ ServeFinish(q, n)
          \/ CeremonyStalls(q, n) \/ ConnectionEnds(q, n)

Spec == Init /\ [][Next]_vars

----------------------------------------------------------------------------
(* Type correctness.  An offer tolerates fewer wrong lookups than retire it *)
(* (MAX_LOOKUP_ATTEMPTS).                                                   *)
TypeOK ==
    /\ offers \in [OfferId -> Offer \cup {NoOffer}]
    /\ late \in [Device -> SUBSET OfferId]
    /\ state \in [Device -> PairingState]
    /\ call \in [Call -> Attempt]
    /\ verified \subseteq Call
    /\ conn \in [Call -> [Target -> Exchange]]
    /\ trust \in [Device -> SUBSET Device]
    /\ saved \in [Device -> SUBSET Device]
    /\ shown \in [Device -> SUBSET Device]
    /\ upsets \in 0..MaxUpsets
    /\ crossed \in BOOLEAN

(* An attempt of one device has verified an offer of the other, shown with  *)
(* the digits that were typed.                                              *)
Ceremony(q, d, e) ==
    /\ q \in verified
    /\ {d, e} = {call[q].by, offers[call[q].offer].by}
    /\ offers[call[q].offer].code = call[q].code

(* A device trusts another, in memory or on disk, only if digits shown on   *)
(* one of them were typed on the other and the typing device verified the   *)
(* proof of that very offer, whatever was cancelled, crossed, timed out or  *)
(* restarted meanwhile (clipsed/pairing.rs finish: "the only place a device *)
(* the user did not type a code for can enter the trust set -- and it       *)
(* cannot").                                                                *)
Consent ==
    \A d \in Device : \A e \in trust[d] \cup saved[d] :
        \E q \in Call : Ceremony(q, d, e)

(* "Each code is good for exactly one ceremony" (clipse-crypto/pairing.rs): *)
(* two attempts never verify the same offer, though any number of them may  *)
(* have looked it up (answer_accept consumes the offer).                    *)
OneCeremony ==
    \A p, q \in verified : p # q => call[p].offer # call[q].offer

(* A peer the user was told is paired (Paired, PairingSucceeded) and has    *)
(* not asked to forget survives a restart, although saving may fail and     *)
(* later saves write whatever memory holds then (commit_pairing).           *)
Durable == \A d \in Device : shown[d] \subseteq saved[d]

AtRest ==
    /\ \A q \in Call : call[q].at \in {"free", "over"}
    /\ \A q \in Call, n \in Target : conn[q][n].at \in {"none", "over"}

(* When no attempt is under way, trust is mutual, unless a ceremony was     *)
(* interrupted (cancelled, cut, timed out, a failed save, a restart, a      *)
(* forgotten peer) or an accept met a state other than its own offer:       *)
(* commits on both sides of a ceremony go together (serve_pairing,          *)
(* pair_with_code).                                                         *)
Mutual ==
    AtRest /\ upsets = 0 /\ ~crossed =>
        \A d, e \in Device : e \in trust[d] <=> d \in trust[e]

============================================================================
