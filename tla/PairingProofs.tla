--------------------------- MODULE PairingProofs ---------------------------
(* Type correctness, consent, single use, durability and mutual trust of    *)
(* pairing, for any number of devices, attempts, offers, connections and    *)
(* interruptions.                                                           *)
EXTENDS Pairing, TLAPS

(* An offer that is up or being proved is the device's own.                 *)
OwnOffers ==
    \A d \in Device : state[d].k \in {"Offering", "Proving"} =>
        /\ state[d].offer \in OfferId
        /\ offers[state[d].offer].by = d

(* A device in Proving answered an attempt that has sent its accept, and    *)
(* that attempt learnt no other offer's nonce.                              *)
ProvingAttempts ==
    \A d \in Device : state[d].k = "Proving" =>
        /\ state[d].call \in Call
        /\ call[state[d].call].at \notin {"free", "walk", "ask", "offered"}
        /\ call[state[d].call].proof \in {None, state[d].offer}

(* What an attempt knows, by where it is.                                   *)
Knows(q) ==
    /\ call[q].at = "free" => call[q].by = None
    /\ call[q].at # "free" => call[q].by \in Device /\ call[q].code \in Code
    /\ call[q].at \in {"free", "walk", "ask", "offered", "accept"} =>
           call[q].proof = None /\ q \notin verified
    /\ call[q].at \in {"offered", "accept", "confirm", "finish", "commit"} =>
           call[q].offer # None
    /\ call[q].at \in {"finish", "commit"} => q \in verified
    /\ q \in verified => call[q].offer # None /\ call[q].proof = call[q].offer
    /\ call[q].offer # None =>
           /\ offers[call[q].offer].by \in Device
           /\ offers[call[q].offer].code = call[q].code

(* How the serving end of a connection relates to the attempt.              *)
Served(q, n) ==
    /\ conn[q][n].at = "none" => conn[q][n].with = None
    /\ conn[q][n].at # "none" => conn[q][n].with \in Device /\ call[q].at # "free"
    /\ conn[q][n].at = "accept" =>
           /\ call[q].n = n
           /\ call[q].at \in {"accept", "fail", "over"}
           /\ call[q].proof = None
           /\ \A d \in Device : state[d].k = "Proving" => state[d].call # q
    /\ conn[q][n].at = "finish" => q \in verified

Linked == /\ \A q \in Call : Knows(q)
          /\ \A q \in Call, n \in Target : Served(q, n)

(* A nonce is revealed once, and its offer is no longer up.                 *)
Revealed ==
    /\ \A q \in Call : call[q].proof # None =>
           /\ offers[call[q].proof].by \in Device
           /\ \A d \in Device : state[d].k = "Offering" => state[d].offer # call[q].proof
    /\ \A p, q \in Call : p # q /\ call[p].proof # None => call[p].proof # call[q].proof

Inv == TypeOK /\ OwnOffers /\ ProvingAttempts /\ Linked /\ Revealed

----------------------------------------------------------------------------
(* An attempt moves on and keeps its variables.                             *)
Moves(q, a) ==
    \A p \in Call :
        /\ call'[p].at = IF p = q THEN a ELSE call[p].at
        /\ call'[p].by = call[p].by
        /\ call'[p].code = call[p].code
        /\ call'[p].n = call[p].n
        /\ call'[p].offer = call[p].offer
        /\ call'[p].proof = call[p].proof

LEMMA AttemptMoves ==
    ASSUME TypeOK, NEW q \in Call,
           NEW a \in {"walk", "ask", "offered", "accept", "confirm", "finish",
                      "commit", "fail", "over"},
           call' = [call EXCEPT ![q].at = a]
    PROVE  call' \in [Call -> Attempt] /\ Moves(q, a)
<1>1. call \in [Call -> Attempt]
  BY DEF TypeOK
<1>2. call' \in [Call -> Attempt]
  BY <1>1 DEF Attempt
<1> QED
  BY <1>1, <1>2 DEF Moves, Attempt

(* The serving end of a connection moves on.                                *)
Serves(q, n, a) ==
    \A p \in Call, m \in Target :
        /\ conn'[p][m].at = IF p = q /\ m = n THEN a ELSE conn[p][m].at
        /\ conn'[p][m].with = conn[p][m].with

LEMMA ExchangeMoves ==
    ASSUME TypeOK, NEW q \in Call, NEW n \in Target,
           NEW a \in {"offered", "accept", "confirmed", "finish", "over"},
           conn' = [conn EXCEPT ![q][n].at = a]
    PROVE  conn' \in [Call -> [Target -> Exchange]] /\ Serves(q, n, a)
<1>1. conn \in [Call -> [Target -> Exchange]] /\ conn[q] \in [Target -> Exchange]
      /\ conn[q][n] \in Exchange
  BY DEF TypeOK
<1>2. [conn[q][n] EXCEPT !.at = a] \in Exchange
  BY <1>1 DEF Exchange
<1>3. conn' = [conn EXCEPT ![q] = [conn[q] EXCEPT ![n] = [conn[q][n] EXCEPT !.at = a]]]
  BY <1>1
<1>4. conn' \in [Call -> [Target -> Exchange]]
  BY <1>1, <1>2, <1>3
<1>5. [conn[q][n] EXCEPT !.at = a].at = a /\ [conn[q][n] EXCEPT !.at = a].with = conn[q][n].with
  BY <1>1 DEF Exchange
<1> QED
  BY <1>1, <1>3, <1>4, <1>5 DEF Serves

(* A frame reaches the server or not.                                       *)
LEMMA FrameDelivered ==
    ASSUME TypeOK, NEW q \in Call, NEW r \in {"offered", "confirmed"},
           NEW a \in {"accept", "finish"}, Deliver(q, r, a)
    PROVE  /\ conn' \in [Call -> [Target -> Exchange]]
           /\ \A p \in Call, m \in Target :
                 /\ conn'[p][m].at = IF p = q /\ m = call[q].n /\ conn[p][m].at = r
                                     THEN a ELSE conn[p][m].at
                 /\ conn'[p][m].with = conn[p][m].with
<1> DEFINE n == call[q].n
           b == IF conn[q][n].at = r THEN a ELSE conn[q][n].at
<1>1. conn \in [Call -> [Target -> Exchange]] /\ conn[q] \in [Target -> Exchange]
  BY DEF TypeOK
<1>2. conn' = [conn EXCEPT ![q] = [conn[q] EXCEPT ![n] = [conn[q][n] EXCEPT !.at = b]]]
  BY <1>1 DEF Deliver
<1>3. CASE n \notin Target
  BY <1>1, <1>2, <1>3
<1>4. CASE n \in Target
  <2>1. conn[q][n] \in Exchange
    BY <1>1, <1>4
  <2>2. [conn[q][n] EXCEPT !.at = b] \in Exchange
    BY <2>1 DEF Exchange
  <2>3. [conn[q][n] EXCEPT !.at = b].at = b
        /\ [conn[q][n] EXCEPT !.at = b].with = conn[q][n].with
    BY <2>1 DEF Exchange
  <2>4. conn' \in [Call -> [Target -> Exchange]]
    BY <1>1, <1>2, <1>4, <2>2
  <2> QED
    BY <1>1, <1>2, <1>4, <2>1, <2>3, <2>4
<1> QED
  BY <1>3, <1>4

LEMMA InitInv == Init => Inv
<1> SUFFICES ASSUME Init PROVE Inv
  OBVIOUS
<1> USE ConstantsAssumption DEF Init, NoOffer, Idle, NoAttempt, NoExchange
<1>1. TypeOK
  <2>1. 0 \in 0..(MaxLookupAttempts - 1) /\ 0 \in 0..MaxTargets /\ 0 \in 0..MaxUpsets
    OBVIOUS
  <2>2. state \in [Device -> PairingState]
    BY <2>1 DEF PairingState
  <2>3. call \in [Call -> Attempt]
    BY <2>1 DEF Attempt
  <2>4. conn \in [Call -> [Target -> Exchange]]
    BY DEF Exchange
  <2> QED
    BY <2>1, <2>2, <2>3, <2>4 DEF TypeOK
<1>2. OwnOffers /\ ProvingAttempts
  BY DEF OwnOffers, ProvingAttempts
<1>3. Linked
  BY DEF Linked, Knows, Served, Target
<1>4. Revealed
  BY DEF Revealed
<1> QED
  BY <1>1, <1>2, <1>3, <1>4 DEF Inv

LEMMA BeginPairingInv ==
    ASSUME Inv, NEW d \in Device, NEW o \in OfferId, NEW c \in Code, BeginPairing(d, o, c)
    PROVE  Inv'
<1> USE ConstantsAssumption DEF Inv, BeginPairing, Offering, Made, NoOffer
<1>1. TypeOK'
  BY DEF TypeOK, PairingState, Offer
<1>2. OwnOffers' /\ ProvingAttempts'
  BY DEF OwnOffers, ProvingAttempts, TypeOK
<1>3. Linked'
  BY DEF Linked, Knows, Served, Target, TypeOK, Attempt, Exchange
<1>4. Revealed'
  BY DEF Revealed, TypeOK, Attempt
<1> QED
  BY <1>1, <1>2, <1>3, <1>4 DEF Inv

(* A step that starts nothing and hands nothing over: states are given up,  *)
(* attempts fail or go on without a reply, servers end.                     *)
Retreat ==
    /\ UNCHANGED <<offers, verified>>
    /\ \A d \in Device :
         \/ state'[d].k \in {"Idle", "Answering"}
         \/ /\ state'[d].k = state[d].k
            /\ state'[d].offer = state[d].offer
            /\ state'[d].call = state[d].call
    /\ \A q \in Call :
         /\ \/ call'[q].at = call[q].at
            \/ call[q].at # "free" /\ call'[q].at \in {"fail", "over"}
            \/ call[q].at = "finish" /\ call'[q].at = "commit"
            \/ call[q].at = "ask" /\ call'[q].at = "walk"
         /\ call'[q].by = call[q].by
         /\ call'[q].code = call[q].code
         /\ call'[q].n = call[q].n
         /\ call'[q].offer = call[q].offer
         /\ call'[q].proof = call[q].proof
    /\ \A q \in Call, n \in Target :
         /\ conn'[q][n].with = conn[q][n].with
         /\ \/ conn'[q][n].at = conn[q][n].at
            \/ conn[q][n].at # "none" /\ conn'[q][n].at = "over"

LEMMA RetreatInv ==
    ASSUME Inv, TypeOK', Retreat
    PROVE  Inv'
<1>1. OwnOffers'
  BY DEF Inv, OwnOffers, Retreat
<1>2. ProvingAttempts'
  BY DEF Inv, ProvingAttempts, Retreat
<1>3. (\A p \in Call : Knows(p))'
  BY DEF Inv, Linked, Knows, Retreat
<1>4. (\A p \in Call, n \in Target : Served(p, n))'
  BY DEF Inv, Linked, Served, Retreat
<1>5. Revealed'
  BY DEF Inv, Revealed, Retreat
<1> QED
  BY <1>1, <1>2, <1>3, <1>4, <1>5 DEF Inv, Linked

LEMMA IdleTyped == Idle \in PairingState /\ Answering \in PairingState
<1>1. 0 \in 0..(MaxLookupAttempts - 1)
  BY ConstantsAssumption
<1> QED
  BY <1>1 DEF Idle, Answering, PairingState

LEMMA CancelPairingInv ==
    ASSUME Inv, NEW d \in Device, CancelPairing(d)
    PROVE  Inv'
<1>1. TypeOK'
  BY IdleTyped, ConstantsAssumption DEF Inv, TypeOK, CancelPairing, Upset
<1>2. Retreat
  BY DEF Inv, TypeOK, Retreat, CancelPairing, Idle
<1> QED
  BY <1>1, <1>2, RetreatInv

LEMMA ForgetDeviceInv ==
    ASSUME Inv, NEW d \in Device, NEW e \in Device, ForgetDevice(d, e)
    PROVE  Inv'
<1>1. TypeOK'
  BY ConstantsAssumption
     DEF Inv, TypeOK, ForgetDevice, Upset, RemovePeer, SaveParts, SaveFails
<1>2. Retreat
  BY DEF Retreat, ForgetDevice
<1> QED
  BY <1>1, <1>2, RetreatInv

LEMMA ExpireInv ==
    ASSUME Inv, NEW d \in Device, NEW o \in OfferId, Expire(d, o)
    PROVE  Inv'
<1>1. TypeOK'
  BY DEF Inv, TypeOK, Expire
<1>2. Retreat
  BY DEF Retreat, Expire
<1> QED
  BY <1>1, <1>2, RetreatInv

LEMMA NotFoundInv ==
    ASSUME Inv, NEW q \in Call, NotFound(q)
    PROVE  Inv'
<1>1. call' \in [Call -> Attempt] /\ Moves(q, "fail")
  BY AttemptMoves DEF Inv, NotFound
<1>2. TypeOK'
  BY <1>1 DEF Inv, TypeOK, NotFound
<1>3. Retreat
  BY <1>1 DEF Retreat, Moves, NotFound
<1> QED
  BY <1>2, <1>3, RetreatInv

LEMMA FailInv ==
    ASSUME Inv, NEW q \in Call, Fail(q)
    PROVE  Inv'
<1>1. call' \in [Call -> Attempt] /\ Moves(q, "over")
  BY AttemptMoves DEF Inv, Fail
<1>2. TypeOK'
  BY <1>1, IdleTyped DEF Inv, TypeOK, Fail
<1>3. Retreat
  BY <1>1 DEF Inv, TypeOK, Retreat, Moves, Fail, Idle
<1> QED
  BY <1>2, <1>3, RetreatInv

LEMMA CallEndsInv ==
    ASSUME Inv, NEW q \in Call, CallEnds(q)
    PROVE  Inv'
<1> DEFINE a == AfterFailure(call[q].at)
<1>1. call[q].at \in {"ask", "offered", "accept", "confirm", "finish"}
  BY DEF CallEnds
<1>2. /\ a \in {"walk", "fail", "commit"}
      /\ a = "walk" => call[q].at = "ask"
      /\ a = "commit" => call[q].at = "finish"
  BY <1>1 DEF AfterFailure
<1>3. call' = [call EXCEPT ![q].at = a]
  BY DEF CallEnds, Inv, TypeOK
<1> HIDE DEF a
<1>4. call' \in [Call -> Attempt] /\ Moves(q, a)
  BY <1>2, <1>3, AttemptMoves DEF Inv
<1>5. TypeOK'
  BY <1>4, ConstantsAssumption DEF Inv, TypeOK, CallEnds, Upset
<1>6. Retreat
  BY <1>1, <1>2, <1>4 DEF Retreat, Moves, CallEnds
<1> QED
  BY <1>5, <1>6, RetreatInv

LEMMA CeremonyStallsInv ==
    ASSUME Inv, NEW q \in Call, NEW n \in Target, CeremonyStalls(q, n)
    PROVE  Inv'
<1>1. conn' \in [Call -> [Target -> Exchange]] /\ Serves(q, n, "over")
  BY ExchangeMoves DEF Inv, CeremonyStalls
<1>2. upsets' \in 0..MaxUpsets
  BY ConstantsAssumption DEF Inv, TypeOK, CeremonyStalls, Upset
<1>3. TypeOK'
  BY <1>1, <1>2, IdleTyped DEF Inv, TypeOK, CeremonyStalls
<1>4. Retreat
  BY <1>1 DEF Inv, TypeOK, Retreat, Serves, CeremonyStalls, Idle
<1> QED
  BY <1>3, <1>4, RetreatInv

LEMMA ConnectionEndsInv ==
    ASSUME Inv, NEW q \in Call, NEW n \in Target, ConnectionEnds(q, n)
    PROVE  Inv'
<1>1. conn' \in [Call -> [Target -> Exchange]] /\ Serves(q, n, "over")
  BY ExchangeMoves DEF Inv, ConnectionEnds
<1>2. upsets' \in 0..MaxUpsets
  BY ConstantsAssumption DEF Inv, TypeOK, ConnectionEnds, Upset
<1>3. TypeOK'
  BY <1>1, <1>2 DEF Inv, TypeOK, ConnectionEnds
<1>4. Retreat
  BY <1>1 DEF Retreat, Serves, ConnectionEnds
<1> QED
  BY <1>3, <1>4, RetreatInv

LEMMA FromOfferInv ==
    ASSUME Inv, NEW q \in Call, FromOffer(q)
    PROVE  Inv'
<1> USE ConstantsAssumption
<1>1. PICK a \in {"accept", "fail"} :
        /\ call' \in [Call -> Attempt]
        /\ Moves(q, a)
        /\ call[q].at = "offered"
  BY AttemptMoves DEF Inv, FromOffer
<1>2. /\ conn' \in [Call -> [Target -> Exchange]]
      /\ \A p \in Call, m \in Target :
           /\ \/ conn'[p][m].at = conn[p][m].at
              \/ /\ p = q
                 /\ m = call[q].n
                 /\ call'[q].at = "accept"
                 /\ conn[p][m].at = "offered"
                 /\ conn'[p][m].at = "accept"
           /\ conn'[p][m].with = conn[p][m].with
  <2>1. CASE call[q].offer \in late[call[q].by]
    BY <2>1 DEF FromOffer, Inv, TypeOK
  <2>2. CASE call[q].offer \notin late[call[q].by]
    <3>1. Deliver(q, "offered", "accept") /\ call'[q].at = "accept"
      BY <2>2 DEF FromOffer, Inv, TypeOK, Attempt
    <3> QED
      BY <3>1, FrameDelivered DEF Inv
  <2> QED
    BY <2>1, <2>2
<1> UNCHANGED <<offers, late, state, verified, trust, saved, shown, upsets, crossed>>
  BY DEF FromOffer
<1>3. TypeOK'
  BY <1>1, <1>2 DEF Inv, TypeOK
<1>4. OwnOffers' /\ ProvingAttempts'
  BY <1>1 DEF Inv, OwnOffers, ProvingAttempts, Moves
<1>5. (\A p \in Call : Knows(p))'
  BY <1>1 DEF Inv, Linked, Knows, Moves
<1>6. (\A p \in Call, n \in Target : Served(p, n))'
  BY <1>1, <1>2 DEF Inv, Linked, Knows, Served, ProvingAttempts, Moves
<1>7. Revealed'
  BY <1>1 DEF Inv, Revealed, Moves
<1> QED
  BY <1>3, <1>4, <1>5, <1>6, <1>7 DEF Inv, Linked

(* commit_pairing keeps the types.                                          *)
LEMMA CommitTyped ==
    ASSUME TypeOK, NEW d \in Device, NEW e \in Device, CommitPairing(d, e)
    PROVE  /\ trust' \in [Device -> SUBSET Device]
           /\ saved' \in [Device -> SUBSET Device]
           /\ shown' \in [Device -> SUBSET Device]
           /\ upsets' \in 0..MaxUpsets
BY ConstantsAssumption
   DEF TypeOK, CommitPairing, Upset, AddPeer, SaveParts, SaveFails

LEMMA CommitInv ==
    ASSUME Inv, NEW q \in Call, Commit(q)
    PROVE  Inv'
<1>1. call' \in [Call -> Attempt] /\ Moves(q, "over")
  BY AttemptMoves DEF Inv, Commit
<1>2. call[q].by \in Device /\ offers[call[q].offer].by \in Device
  BY DEF Inv, Linked, Knows, Commit
<1>3. TypeOK'
  BY <1>1, <1>2, CommitTyped, IdleTyped DEF Inv, TypeOK, Commit
<1>4. Retreat
  BY <1>1 DEF Inv, TypeOK, Retreat, Moves, Commit, Idle
<1> QED
  BY <1>3, <1>4, RetreatInv

LEMMA ServeFinishInv ==
    ASSUME Inv, NEW q \in Call, NEW n \in Target, ServeFinish(q, n)
    PROVE  Inv'
<1> DEFINE d == conn[q][n].with
<1>1. conn' \in [Call -> [Target -> Exchange]] /\ Serves(q, n, "over")
  BY ExchangeMoves DEF Inv, ServeFinish
<1>2. d \in Device /\ call[q].by \in Device
  BY DEF Inv, Linked, Served, Knows, ServeFinish
<1>3. /\ trust' \in [Device -> SUBSET Device]
      /\ saved' \in [Device -> SUBSET Device]
      /\ shown' \in [Device -> SUBSET Device]
      /\ upsets' \in 0..MaxUpsets
  <2>1. CASE Matches(state[d], q)
    BY <1>2, <2>1, CommitTyped DEF Inv, ServeFinish, Matches
  <2>2. CASE ~Matches(state[d], q)
    BY <2>2 DEF Inv, TypeOK, ServeFinish
  <2> QED
    BY <2>1, <2>2
<1>4. TypeOK'
  BY <1>1, <1>3, IdleTyped DEF Inv, TypeOK, ServeFinish
<1>5. Retreat
  BY <1>1 DEF Inv, TypeOK, Retreat, Serves, ServeFinish, Idle
<1> QED
  BY <1>4, <1>5, RetreatInv

LEMMA EndedTyped ==
    /\ \A r \in Attempt : [r EXCEPT !.at = "over"] \in Attempt
    /\ \A x \in Exchange : [x EXCEPT !.at = "over"] \in Exchange
<1>1. ASSUME NEW r \in Attempt PROVE [r EXCEPT !.at = "over"] \in Attempt
  BY DEF Attempt
<1>2. ASSUME NEW x \in Exchange PROVE [x EXCEPT !.at = "over"] \in Exchange
  BY DEF Exchange
<1> QED
  BY <1>1, <1>2

LEMMA RestartInv ==
    ASSUME Inv, NEW d \in Device, Restart(d)
    PROVE  Inv'
<1>1. call' \in [Call -> Attempt]
  <2>1. \A q \in Call : call[q] \in Attempt /\ [call[q] EXCEPT !.at = "over"] \in Attempt
    BY EndedTyped DEF Inv, TypeOK
  <2> QED
    BY <2>1 DEF Restart
<1>2. conn' \in [Call -> [Target -> Exchange]]
  <2>1. \A q \in Call, n \in Target :
          conn[q][n] \in Exchange /\ [conn[q][n] EXCEPT !.at = "over"] \in Exchange
    BY EndedTyped DEF Inv, TypeOK
  <2> QED
    BY <2>1 DEF Restart
<1>3. TypeOK'
  BY <1>1, <1>2, IdleTyped, ConstantsAssumption DEF Inv, TypeOK, Restart, Upset
<1>4. \A q \in Call :
        /\ \/ call'[q].at = call[q].at
           \/ call[q].at # "free" /\ call'[q].at = "over"
        /\ call'[q].by = call[q].by
        /\ call'[q].code = call[q].code
        /\ call'[q].n = call[q].n
        /\ call'[q].offer = call[q].offer
        /\ call'[q].proof = call[q].proof
  <2>1. \A q \in Call : call[q] \in Attempt /\ (call[q].by = d => call[q].at # "free")
    BY ConstantsAssumption DEF Inv, TypeOK, Linked, Knows
  <2> QED
    BY <2>1 DEF Restart, Attempt
<1>5. \A q \in Call, n \in Target :
        /\ conn'[q][n].with = conn[q][n].with
        /\ \/ conn'[q][n].at = conn[q][n].at
           \/ conn[q][n].at # "none" /\ conn'[q][n].at = "over"
  <2>1. \A q \in Call, n \in Target :
          conn[q][n] \in Exchange /\ (conn[q][n].with = d => conn[q][n].at # "none")
    BY ConstantsAssumption DEF Inv, TypeOK, Linked, Served
  <2> QED
    BY <2>1 DEF Restart, Exchange
<1>6. Retreat
  BY <1>4, <1>5 DEF Inv, TypeOK, Retreat, Restart, Idle
<1> QED
  BY <1>3, <1>6, RetreatInv

LEMMA PairWithCodeInv ==
    ASSUME Inv, NEW q \in Call, NEW d \in Device, NEW c \in Code, PairWithCode(q, d, c)
    PROVE  Inv'
<1> DEFINE r == [NoAttempt EXCEPT !.at = "walk", !.by = d, !.code = c]
<1>1. /\ r \in Attempt
      /\ r.at = "walk" /\ r.by = d /\ r.code = c /\ r.offer = None /\ r.proof = None
  <2>1. 0 \in 0..MaxTargets
    BY ConstantsAssumption
  <2> QED
    BY <2>1 DEF NoAttempt, Attempt
<1>2. call' = [call EXCEPT ![q] = r] /\ call[q].at = "free" /\ call[q].proof = None
  BY DEF PairWithCode, NoAttempt
<1> HIDE DEF r
<1>3. call' \in [Call -> Attempt] /\ call'[q] = r /\ \A p \in Call \ {q} : call'[p] = call[p]
  BY <1>1, <1>2 DEF Inv, TypeOK
<1>4. UNCHANGED <<offers, late, verified, conn, trust, saved, shown, upsets, crossed>>
  BY DEF PairWithCode
<1>5. \A e \in Device : state'[e] = state[e] \/ state'[e].k = "Answering"
  BY DEF PairWithCode, Inv, TypeOK, Answering
<1>6. TypeOK'
  BY <1>3, <1>4, IdleTyped DEF Inv, TypeOK, PairWithCode
<1>7. OwnOffers'
  BY <1>4, <1>5 DEF Inv, OwnOffers
<1>8. ProvingAttempts'
  BY <1>2, <1>3, <1>5 DEF Inv, ProvingAttempts
<1>9. (\A p \in Call : Knows(p))'
  BY <1>1, <1>2, <1>3, <1>4 DEF Inv, Linked, Knows
<1>10. (\A p \in Call, n \in Target : Served(p, n))'
  BY <1>1, <1>2, <1>3, <1>4, <1>5 DEF Inv, Linked, Served
<1>11. Revealed'
  BY <1>1, <1>2, <1>3, <1>4, <1>5 DEF Inv, Revealed
<1> QED
  BY <1>6, <1>7, <1>8, <1>9, <1>10, <1>11 DEF Inv, Linked

LEMMA AskInv ==
    ASSUME Inv, NEW q \in Call, NEW d \in Device, Ask(q, d)
    PROVE  Inv'
<1> DEFINE k == call[q].n + 1
           x == [at |-> "lookup", with |-> d]
<1>1. k \in Target /\ k \in 0..MaxTargets
  BY ConstantsAssumption DEF Inv, TypeOK, Attempt, Ask, Target
<1>2. /\ call' \in [Call -> Attempt]
      /\ call'[q].at = "ask" /\ call'[q].by = call[q].by /\ call'[q].code = call[q].code
      /\ call'[q].offer = call[q].offer /\ call'[q].proof = call[q].proof
      /\ \A p \in Call \ {q} : call'[p] = call[p]
  <2> DEFINE r == [call[q] EXCEPT !.at = "ask", !.n = k]
  <2>1. call \in [Call -> Attempt] /\ call[q] \in Attempt
    BY DEF Inv, TypeOK
  <2>2. call' = [call EXCEPT ![q] = r]
    BY <2>1 DEF Ask
  <2> HIDE DEF k
  <2>3. /\ r \in Attempt /\ r.at = "ask" /\ r.by = call[q].by /\ r.code = call[q].code
        /\ r.offer = call[q].offer /\ r.proof = call[q].proof
    BY <1>1, <2>1 DEF Attempt
  <2> HIDE DEF r
  <2> QED
    BY <2>1, <2>2, <2>3
<1>3. x \in Exchange /\ x.at = "lookup" /\ x.with = d
  BY DEF Exchange
<1> HIDE DEF x
<1>4. conn' = [conn EXCEPT ![q] = [conn[q] EXCEPT ![k] = x]]
  BY DEF Ask, Inv, TypeOK, x
<1>5. conn' \in [Call -> [Target -> Exchange]]
      /\ \A p \in Call, m \in Target :
            conn'[p][m] = IF p = q /\ m = k THEN x ELSE conn[p][m]
  BY <1>1, <1>3, <1>4 DEF Inv, TypeOK
<1>6. UNCHANGED <<offers, late, state, verified, trust, saved, shown, upsets, crossed>>
      /\ call[q].at = "walk"
  BY DEF Ask
<1>7. TypeOK'
  BY <1>2, <1>5, <1>6 DEF Inv, TypeOK
<1>8. OwnOffers'
  BY <1>6 DEF Inv, OwnOffers
<1>9. ProvingAttempts'
  BY <1>2, <1>6 DEF Inv, ProvingAttempts
<1>10. (\A p \in Call : Knows(p))'
  BY <1>2, <1>6 DEF Inv, Linked, Knows
<1>11. (\A p \in Call, n \in Target : Served(p, n))'
  BY <1>2, <1>3, <1>5, <1>6 DEF Inv, Linked, Served
<1>12. Revealed'
  BY <1>2, <1>6 DEF Inv, Revealed
<1> QED
  BY <1>7, <1>8, <1>9, <1>10, <1>11, <1>12 DEF Inv, Linked

LEMMA VerifyInv ==
    ASSUME Inv, NEW q \in Call, Verify(q)
    PROVE  Inv'
<1>1. call[q].at = "confirm"
      /\ UNCHANGED <<offers, late, state, trust, saved, shown, upsets, crossed>>
  BY DEF Verify
<1>2. CASE call[q].offer \notin late[call[q].by] /\ call[q].proof = call[q].offer
  <2>1. call' \in [Call -> Attempt] /\ Moves(q, "finish")
    BY <1>2, AttemptMoves DEF Inv, Verify
  <2>2. verified' = verified \cup {q} /\ Deliver(q, "confirmed", "finish")
    BY <1>2 DEF Verify
  <2>3. /\ conn' \in [Call -> [Target -> Exchange]]
        /\ \A p \in Call, m \in Target :
             /\ conn'[p][m].at = IF p = q /\ m = call[q].n /\ conn[p][m].at = "confirmed"
                                 THEN "finish" ELSE conn[p][m].at
             /\ conn'[p][m].with = conn[p][m].with
    BY <2>2, FrameDelivered DEF Inv
  <2>4. TypeOK'
    BY <1>1, <2>1, <2>2, <2>3 DEF Inv, TypeOK
  <2>5. OwnOffers' /\ ProvingAttempts'
    BY <1>1, <2>1 DEF Inv, OwnOffers, ProvingAttempts, Moves
  <2>6. (\A p \in Call : Knows(p))'
    BY <1>1, <1>2, <2>1, <2>2 DEF Inv, Linked, Knows, Moves
  <2>7. (\A p \in Call, n \in Target : Served(p, n))'
    BY <1>1, <2>1, <2>2, <2>3 DEF Inv, Linked, Served, Moves
  <2>8. Revealed'
    BY <1>1, <2>1 DEF Inv, Revealed, Moves
  <2> QED
    BY <2>4, <2>5, <2>6, <2>7, <2>8 DEF Inv, Linked
<1>3. CASE ~(call[q].offer \notin late[call[q].by] /\ call[q].proof = call[q].offer)
  <2>1. call' \in [Call -> Attempt] /\ Moves(q, "fail")
    BY <1>3, AttemptMoves DEF Inv, Verify
  <2>2. UNCHANGED <<verified, conn>>
    BY <1>3 DEF Verify
  <2>3. TypeOK'
    BY <1>1, <2>1, <2>2 DEF Inv, TypeOK
  <2>4. Retreat
    BY <1>1, <2>1, <2>2 DEF Retreat, Moves
  <2> QED
    BY <2>3, <2>4, RetreatInv
<1> QED
  BY <1>2, <1>3

(* What a lookup may make of a state: it expires, it counts a wrong guess   *)
(* or it stays; an offer is never replaced.                                 *)
LEMMA LookupStates ==
    ASSUME TypeOK, NEW d \in Device
    PROVE  LET s == Expired(d, state[d]) IN
           /\ s \in PairingState
           /\ s = state[d] \/ s.k = "Idle"
           /\ s.k = "Offering" =>
                /\ Wrong(s) \in PairingState
                /\ \/ Wrong(s).k = "Idle"
                   \/ /\ Wrong(s).k = "Offering"
                      /\ Wrong(s).offer = s.offer
                      /\ Wrong(s).call = s.call
<1> DEFINE s == Expired(d, state[d])
<1>1. state[d] \in PairingState /\ Idle.k = "Idle"
  BY DEF TypeOK, Idle
<1>2. s \in PairingState /\ (s = state[d] \/ s.k = "Idle")
  BY <1>1, IdleTyped DEF Expired
<1>3. s.k = "Offering" => /\ Wrong(s) \in PairingState
                          /\ \/ Wrong(s).k = "Idle"
                             \/ /\ Wrong(s).k = "Offering"
                                /\ Wrong(s).offer = s.offer
                                /\ Wrong(s).call = s.call
  <2> HIDE DEF s
  <2>1. CASE s.wrong + 1 >= MaxLookupAttempts
    BY <1>1, <2>1, IdleTyped DEF Wrong
  <2>2. CASE ~(s.wrong + 1 >= MaxLookupAttempts)
    <3>1. Wrong(s) = [s EXCEPT !.wrong = @ + 1]
      BY <2>2 DEF Wrong
    <3>2. s.wrong + 1 \in 0..(MaxLookupAttempts - 1)
      BY <1>2, <2>2, ConstantsAssumption DEF PairingState
    <3> QED
      BY <1>2, <3>1, <3>2 DEF PairingState
  <2> QED
    BY <2>1, <2>2
<1> QED
  BY <1>2, <1>3

LEMMA ServeLookupInv ==
    ASSUME Inv, NEW q \in Call, NEW n \in Target, ServeLookup(q, n)
    PROVE  Inv'
<1> DEFINE d == conn[q][n].with
           s == Expired(d, state[d])
           answers == s.k = "Offering" /\ offers[s.offer].code = call[q].code
<1>1. d \in Device /\ conn[q][n].at = "lookup"
      /\ UNCHANGED <<offers, late, verified, trust, saved, shown, upsets, crossed>>
  BY DEF Inv, Linked, Served, ServeLookup
<1>2. /\ s \in PairingState
      /\ s = state[d] \/ s.k = "Idle"
      /\ s.k = "Offering" =>
           /\ Wrong(s) \in PairingState
           /\ \/ Wrong(s).k = "Idle"
              \/ /\ Wrong(s).k = "Offering"
                 /\ Wrong(s).offer = s.offer
                 /\ Wrong(s).call = s.call
  BY <1>1, LookupStates DEF Inv
<1>3. CASE ~answers
  <2>1. conn' = [conn EXCEPT ![q][n].at = "over"]
    BY <1>3 DEF ServeLookup
  <2>2. conn' \in [Call -> [Target -> Exchange]] /\ Serves(q, n, "over")
    BY <2>1, ExchangeMoves DEF Inv
  <2>3. PICK t \in PairingState :
          /\ state' = [state EXCEPT ![d] = t]
          /\ \/ t.k = "Idle"
             \/ t.k = state[d].k /\ t.offer = state[d].offer /\ t.call = state[d].call
    BY <1>2, <1>3 DEF ServeLookup
  <2>4. /\ call' \in [Call -> Attempt]
        /\ \/ call' = call
           \/ call[q].at = "ask" /\ Moves(q, "walk")
    BY <1>3, AttemptMoves DEF Inv, TypeOK, ServeLookup, Waiting
  <2>5. TypeOK'
    BY <1>1, <2>2, <2>3, <2>4 DEF Inv, TypeOK
  <2>6. Retreat
    BY <1>1, <2>2, <2>3, <2>4 DEF Inv, TypeOK, Retreat, Serves, Moves
  <2> QED
    BY <2>5, <2>6, RetreatInv
<1>4. CASE answers
  <2>1. s = state[d] /\ state' = state
    BY <1>2, <1>4 DEF ServeLookup, Inv, TypeOK
  <2>2. conn' = [conn EXCEPT ![q][n].at = "offered"]
    BY <1>4 DEF ServeLookup
  <2>3. conn' \in [Call -> [Target -> Exchange]] /\ Serves(q, n, "offered")
    BY <2>2, ExchangeMoves DEF Inv
  <2>4. /\ s.offer \in OfferId
        /\ offers[s.offer].by = d
        /\ offers[s.offer].code = call[q].code
    BY <1>1, <1>4, <2>1 DEF Inv, OwnOffers
  <2> HIDE DEF s
  <2>5. /\ call' \in [Call -> Attempt]
        /\ \A p \in Call :
             \/ call'[p] = call[p]
             \/ /\ p = q
                /\ call[q].at = "ask"
                /\ call'[q].at = "offered"
                /\ call'[q].offer = s.offer
                /\ call'[q].by = call[q].by
                /\ call'[q].code = call[q].code
                /\ call'[q].proof = call[q].proof
                /\ call'[q].n = call[q].n
    <3>1. CASE ~Waiting(q, n, "ask")
      BY <1>4, <3>1 DEF Inv, TypeOK, ServeLookup, s
    <3>2. CASE Waiting(q, n, "ask")
      <4>1. call' = [call EXCEPT ![q].at = "offered", ![q].offer = s.offer]
        BY <1>4, <3>2 DEF ServeLookup, s
      <4> DEFINE r == [call[q] EXCEPT !.at = "offered", !.offer = s.offer]
      <4>2. call \in [Call -> Attempt] /\ call[q] \in Attempt
        BY DEF Inv, TypeOK
      <4>3. call' = [call EXCEPT ![q] = r]
        BY <4>1, <4>2
      <4>4. /\ r \in Attempt /\ r.at = "offered" /\ r.offer = s.offer /\ r.by = call[q].by
            /\ r.code = call[q].code /\ r.proof = call[q].proof /\ r.n = call[q].n
        BY <2>4, <4>2 DEF Attempt
      <4> HIDE DEF r
      <4> QED
        BY <3>2, <4>2, <4>3, <4>4 DEF Waiting
    <3> QED
      BY <3>1, <3>2
  <2>6. TypeOK'
    BY <1>1, <2>1, <2>3, <2>5 DEF Inv, TypeOK
  <2>7. OwnOffers'
    BY <1>1, <2>1 DEF Inv, OwnOffers
  <2>8. ProvingAttempts'
    BY <2>1, <2>5 DEF Inv, ProvingAttempts
  <2>9. (\A p \in Call : Knows(p))'
    BY <1>1, <2>4, <2>5, ConstantsAssumption DEF Inv, Linked, Knows
  <2>10. (\A p \in Call, m \in Target : Served(p, m))'
    BY <1>1, <2>1, <2>3, <2>5 DEF Inv, Linked, Served, Serves
  <2>11. Revealed'
    BY <1>1, <2>1, <2>5 DEF Inv, Revealed
  <2> QED
    BY <2>6, <2>7, <2>8, <2>9, <2>10, <2>11 DEF Inv, Linked
<1> QED
  BY <1>3, <1>4

LEMMA ServeAcceptInv ==
    ASSUME Inv, NEW q \in Call, NEW n \in Target, ServeAccept(q, n)
    PROVE  Inv'
<1> DEFINE d == conn[q][n].with
           o == state[d].offer
<1>1. d \in Device /\ conn[q][n].at = "accept"
      /\ UNCHANGED <<offers, late, verified, trust, saved, shown, upsets>>
  BY DEF Inv, Linked, Served, ServeAccept
<1>2. crossed' \in BOOLEAN
  BY DEF ServeAccept
<1>3. CASE ~Open(d)
  <2>1. conn' = [conn EXCEPT ![q][n].at = "over"] /\ call' = call
        /\ state' = [state EXCEPT ![d] = Idle]
    BY <1>3 DEF ServeAccept
  <2>2. conn' \in [Call -> [Target -> Exchange]] /\ Serves(q, n, "over")
    BY <2>1, ExchangeMoves DEF Inv
  <2>3. TypeOK'
    BY <1>1, <1>2, <2>1, <2>2, IdleTyped DEF Inv, TypeOK
  <2>4. Retreat
    BY <1>1, <2>1, <2>2 DEF Inv, TypeOK, Retreat, Serves, Idle
  <2> QED
    BY <2>3, <2>4, RetreatInv
<1>4. CASE Open(d)
  <2>1. conn' = [conn EXCEPT ![q][n].at = "confirmed"]
        /\ state' = [state EXCEPT ![d] = Proving(o, q)]
    BY <1>4 DEF ServeAccept
  <2>2. conn' \in [Call -> [Target -> Exchange]] /\ Serves(q, n, "confirmed")
    BY <2>1, ExchangeMoves DEF Inv
  <2>3. o \in OfferId /\ offers[o].by = d
    BY <1>1, <1>4 DEF Inv, OwnOffers, Open
  <2>4. /\ call[q].n = n
        /\ call[q].at \in {"accept", "fail", "over"}
        /\ call[q].proof = None
        /\ \A e \in Device : state[e].k = "Proving" => state[e].call # q
    BY <1>1 DEF Inv, Linked, Served
  <2>5. /\ call' \in [Call -> Attempt]
        /\ \A p \in Call \ {q} : call'[p] = call[p]
        /\ \/ call'[q] = call[q]
           \/ /\ call[q].at = "accept"
              /\ call'[q].at = "confirm"
              /\ call'[q].proof = o
              /\ call'[q].by = call[q].by
              /\ call'[q].code = call[q].code
              /\ call'[q].offer = call[q].offer
              /\ call'[q].n = call[q].n
    <3>1. CASE ~Waiting(q, n, "accept")
      BY <1>4, <3>1 DEF Inv, TypeOK, ServeAccept
    <3>2. CASE Waiting(q, n, "accept")
      <4>1. call' = [call EXCEPT ![q].at = "confirm", ![q].proof = o]
        BY <1>4, <3>2 DEF ServeAccept
      <4> HIDE DEF o
      <4> QED
        BY <2>3, <3>2, <4>1 DEF Inv, TypeOK, Attempt, Waiting
    <3> QED
      BY <3>1, <3>2
  <2>6. /\ state' \in [Device -> PairingState]
        /\ state'[d].k = "Proving" /\ state'[d].offer = o /\ state'[d].call = q
        /\ \A e \in Device \ {d} : state'[e] = state[e]
    <3>1. Proving(o, q) \in PairingState
      <4>1. 0 \in 0..(MaxLookupAttempts - 1)
        BY ConstantsAssumption
      <4> QED
        BY <2>3, <4>1 DEF Proving, PairingState
    <3>2. Proving(o, q).k = "Proving" /\ Proving(o, q).offer = o /\ Proving(o, q).call = q
      BY DEF Proving
    <3> QED
      BY <1>1, <2>1, <3>1, <3>2 DEF Inv, TypeOK
  <2>7. \A e \in Device \ {d} : state[e].k = "Offering" => state[e].offer # o
    BY <2>3 DEF Inv, OwnOffers
  <2>8. \A p \in Call : call[p].proof # o
    BY <1>1, <1>4, <2>3, ConstantsAssumption DEF Inv, Revealed, Open
  <2> HIDE DEF o, d
  <2>9. TypeOK'
    BY <1>1, <1>2, <2>2, <2>5, <2>6 DEF Inv, TypeOK
  <2>10. OwnOffers'
    BY <1>1, <2>3, <2>6 DEF Inv, OwnOffers
  <2>11. ProvingAttempts'
    BY <1>1, <2>4, <2>5, <2>6 DEF Inv, ProvingAttempts
  <2>12. (\A p \in Call : Knows(p))'
    BY <1>1, <2>4, <2>5 DEF Inv, Linked, Knows
  <2>13. (\A p \in Call, m \in Target : Served(p, m))'
    <3> SUFFICES ASSUME NEW p \in Call, NEW m \in Target PROVE Served(p, m)'
      OBVIOUS
    <3>1. Served(p, m) /\ Served(q, n)
      BY DEF Inv, Linked
    <3>2. CASE p # q
      <4>1. \A e \in Device : state'[e].k = "Proving" /\ state'[e].call = p =>
                state[e].k = "Proving" /\ state[e].call = p
        BY <2>6, <3>2
      <4> QED
        BY <1>1, <2>2, <2>5, <3>1, <3>2, <4>1 DEF Served, Serves
    <3>3. CASE p = q
      <4>1. conn'[q][m].at # "accept"
        BY <2>2, <2>4, <3>1, <3>3 DEF Served, Serves
      <4> QED
        BY <1>1, <2>2, <2>5, <3>1, <3>3, <4>1 DEF Served, Serves
    <3> QED
      BY <3>2, <3>3
  <2>14. Revealed'
    BY <1>1, <2>3, <2>4, <2>5, <2>6, <2>7, <2>8 DEF Inv, Revealed
  <2> QED
    BY <2>9, <2>10, <2>11, <2>12, <2>13, <2>14 DEF Inv, Linked
<1> QED
  BY <1>3, <1>4

LEMMA NextInv == Inv /\ [Next]_vars => Inv'
<1> SUFFICES ASSUME Inv, [Next]_vars PROVE Inv'
  OBVIOUS
<1>1. CASE UNCHANGED vars
  BY <1>1 DEF vars, Inv, TypeOK, OwnOffers, ProvingAttempts, Linked, Knows, Served, Revealed
<1>2. CASE Next
  BY <1>2, BeginPairingInv, PairWithCodeInv, CancelPairingInv, RestartInv, ForgetDeviceInv,
     ExpireInv, AskInv, NotFoundInv, FromOfferInv, VerifyInv, CallEndsInv, CommitInv, FailInv,
     ServeLookupInv, ServeAcceptInv, ServeFinishInv, CeremonyStallsInv, ConnectionEndsInv
     DEF Next
<1> QED
  BY <1>1, <1>2

(* The invariant holds in every reachable state. *)
THEOREM Invariance == Spec => []Inv
BY InitInv, NextInv, PTL DEF Spec

(* Pairing is type-correct; in particular an offer is retired before it has *)
(* tolerated MAX_LOOKUP_ATTEMPTS wrong lookups.                             *)
THEOREM TypeCorrect == Spec => []TypeOK
<1>1. Inv => TypeOK
  BY DEF Inv
<1> QED
  BY <1>1, Invariance, PTL

(* A code is good for at most one ceremony, however many devices look it up *)
(* and however accepts and confirms interleave.                             *)
THEOREM SingleUse == Spec => []OneCeremony
<1>1. Inv => OneCeremony
  BY DEF Inv, TypeOK, Linked, Knows, Revealed, OneCeremony
<1> QED
  BY <1>1, Invariance, PTL

----------------------------------------------------------------------------
(* A verified attempt keeps what makes it a ceremony.                       *)
Stays(q) ==
    /\ q \in verified'
    /\ call'[q].by = call[q].by
    /\ call'[q].code = call[q].code
    /\ call'[q].offer = call[q].offer
    /\ offers'[call[q].offer] = offers[call[q].offer]

LEMMA CeremonyStays ==
    ASSUME Inv, [Next]_vars, NEW q \in Call, q \in verified
    PROVE  Stays(q)
<1>1. /\ call[q] \in Attempt
      /\ call \in [Call -> Attempt]
      /\ offers \in [OfferId -> Offer \cup {NoOffer}]
  BY DEF Inv, TypeOK
<1>2. /\ call[q].at \notin {"free", "walk", "ask", "offered", "accept"}
      /\ call[q].offer \in OfferId
      /\ offers[call[q].offer].by \in Device
  BY <1>1 DEF Inv, Linked, Knows, Attempt
<1>3. CASE UNCHANGED vars
  BY <1>3 DEF vars, Stays
<1>4. ASSUME NEW d \in Device, NEW o \in OfferId, NEW c \in Code, BeginPairing(d, o, c)
      PROVE  Stays(q)
  BY <1>1, <1>2, <1>4, ConstantsAssumption DEF BeginPairing, Made, NoOffer, Stays
<1>5. ASSUME NEW p \in Call, NEW d \in Device, NEW c \in Code, PairWithCode(p, d, c)
      PROVE  Stays(q)
  <2>1. p # q
    BY <1>2, <1>5 DEF PairWithCode, NoAttempt
  <2> QED
    BY <1>1, <1>5, <2>1 DEF PairWithCode, Stays
<1>6. ASSUME NEW d \in Device, CancelPairing(d) PROVE Stays(q)
  BY <1>6 DEF CancelPairing, Stays
<1>7. ASSUME NEW d \in Device, NEW e \in Device, ForgetDevice(d, e) PROVE Stays(q)
  BY <1>7 DEF ForgetDevice, Stays
<1>8. ASSUME NEW d \in Device, NEW o \in OfferId, Expire(d, o) PROVE Stays(q)
  BY <1>8 DEF Expire, Stays
<1>9. ASSUME NEW p \in Call, NEW n \in Target, ServeFinish(p, n) PROVE Stays(q)
  BY <1>9 DEF ServeFinish, Stays
<1>10. ASSUME NEW p \in Call, NEW n \in Target, CeremonyStalls(p, n) PROVE Stays(q)
  BY <1>10 DEF CeremonyStalls, Stays
<1>11. ASSUME NEW p \in Call, NEW n \in Target, ConnectionEnds(p, n) PROVE Stays(q)
  BY <1>11 DEF ConnectionEnds, Stays
<1>12. ASSUME NEW p \in Call, NotFound(p) PROVE Stays(q)
  <2>1. Moves(p, "fail")
    BY <1>12, AttemptMoves DEF Inv, NotFound
  <2> QED
    BY <1>12, <2>1 DEF Moves, NotFound, Stays
<1>13. ASSUME NEW p \in Call, Commit(p) PROVE Stays(q)
  <2>1. Moves(p, "over")
    BY <1>13, AttemptMoves DEF Inv, Commit
  <2> QED
    BY <1>13, <2>1 DEF Moves, Commit, Stays
<1>14. ASSUME NEW p \in Call, Fail(p) PROVE Stays(q)
  <2>1. Moves(p, "over")
    BY <1>14, AttemptMoves DEF Inv, Fail
  <2> QED
    BY <1>14, <2>1 DEF Moves, Fail, Stays
<1>15. ASSUME NEW p \in Call, FromOffer(p) PROVE Stays(q)
  <2>1. Moves(p, "accept") \/ Moves(p, "fail")
    BY <1>15, AttemptMoves DEF Inv, FromOffer
  <2>2. q \in verified' /\ offers' = offers
    BY <1>15 DEF FromOffer
  <2> QED
    BY <2>1, <2>2 DEF Moves, Stays
<1>16. ASSUME NEW p \in Call, Verify(p) PROVE Stays(q)
  <2>1. Moves(p, "finish") \/ Moves(p, "fail")
    BY <1>16, AttemptMoves DEF Inv, Verify
  <2>2. q \in verified' /\ offers' = offers
    BY <1>16 DEF Verify
  <2> QED
    BY <2>1, <2>2 DEF Moves, Stays
<1>17. ASSUME NEW p \in Call, CallEnds(p) PROVE Stays(q)
  <2>1. AfterFailure(call[p].at) \in {"walk", "fail", "commit"}
    BY <1>17 DEF CallEnds, AfterFailure
  <2>2. Moves(p, AfterFailure(call[p].at))
    <3>1. call' = [call EXCEPT ![p].at = AfterFailure(call[p].at)]
      BY <1>17, <1>1 DEF CallEnds
    <3> QED
      BY <2>1, <3>1, AttemptMoves DEF Inv
  <2> QED
    BY <1>17, <2>2 DEF Moves, CallEnds, Stays
<1>18. ASSUME NEW p \in Call, NEW d \in Device, Ask(p, d) PROVE Stays(q)
  <2>1. p # q
    BY <1>2, <1>18 DEF Ask
  <2> QED
    BY <1>1, <1>18, <2>1 DEF Ask, Stays
<1>19. ASSUME NEW p \in Call, NEW n \in Target, ServeLookup(p, n) PROVE Stays(q)
  <2>1. call'[q] = call[q]
    BY <1>1, <1>2, <1>19 DEF ServeLookup, Waiting
  <2> QED
    BY <1>19, <2>1 DEF ServeLookup, Stays
<1>20. ASSUME NEW p \in Call, NEW n \in Target, ServeAccept(p, n) PROVE Stays(q)
  <2>1. call'[q] = call[q]
    BY <1>1, <1>2, <1>20 DEF ServeAccept, Waiting
  <2> QED
    BY <1>20, <2>1 DEF ServeAccept, Stays
<1>21. ASSUME NEW d \in Device, Restart(d) PROVE Stays(q)
  BY <1>1, <1>21 DEF Restart, Stays, Attempt
<1> QED
  BY <1>3, <1>4, <1>5, <1>6, <1>7, <1>8, <1>9, <1>10, <1>11, <1>12, <1>13, <1>14, <1>15, <1>16, <1>17, <1>18, <1>19, <1>20, <1>21 DEF Next

(* The steps that touch a trust set.                                        *)
LEMMA TrustSteps ==
    ASSUME [Next]_vars
    PROVE  \/ UNCHANGED <<trust, saved, shown>>
           \/ \E q \in Call, n \in Target : ServeFinish(q, n)
           \/ \E q \in Call : Commit(q)
           \/ \E d, e \in Device : ForgetDevice(d, e)
           \/ \E d \in Device : Restart(d)
<1>1. CASE UNCHANGED vars
  BY <1>1 DEF vars
<1>2. ASSUME NEW d \in Device, NEW o \in OfferId, NEW c \in Code,
             BeginPairing(d, o, c)
      PROVE  UNCHANGED <<trust, saved, shown>>
  BY <1>2 DEF BeginPairing
<1>3. ASSUME NEW q \in Call, NEW d \in Device, NEW c \in Code,
             PairWithCode(q, d, c)
      PROVE  UNCHANGED <<trust, saved, shown>>
  BY <1>3 DEF PairWithCode
<1>4. ASSUME NEW q \in Call,
             NotFound(q) \/ FromOffer(q) \/ Verify(q) \/ CallEnds(q) \/ Fail(q)
      PROVE  UNCHANGED <<trust, saved, shown>>
  BY <1>4 DEF NotFound, FromOffer, Verify, CallEnds, Fail
<1>5. ASSUME NEW q \in Call, NEW n \in Target,
             \/ ServeLookup(q, n) \/ ServeAccept(q, n)
             \/ CeremonyStalls(q, n) \/ ConnectionEnds(q, n)
      PROVE  UNCHANGED <<trust, saved, shown>>
  BY <1>5 DEF ServeLookup, ServeAccept, CeremonyStalls, ConnectionEnds
<1>6. ASSUME NEW d \in Device, NEW o \in OfferId, Expire(d, o)
      PROVE  UNCHANGED <<trust, saved, shown>>
  BY <1>6 DEF Expire
<1>7. ASSUME NEW d \in Device, CancelPairing(d)
      PROVE  UNCHANGED <<trust, saved, shown>>
  BY <1>7 DEF CancelPairing
<1>8. ASSUME NEW q \in Call, NEW d \in Device, Ask(q, d)
      PROVE  UNCHANGED <<trust, saved, shown>>
  BY <1>8 DEF Ask
<1> QED
  BY <1>1, <1>2, <1>3, <1>4, <1>5, <1>6, <1>7, <1>8 DEF Next

(* Whoever a step adds to a trust set has been through a ceremony.          *)
LEMMA TrustGrows ==
    ASSUME Inv, [Next]_vars, NEW d \in Device, NEW e \in trust'[d] \cup saved'[d]
    PROVE  e \in trust[d] \cup saved[d] \/ \E q \in Call : Ceremony(q, d, e)
<1>1. CASE UNCHANGED <<trust, saved>>
  BY <1>1
<1>2. trust \in [Device -> SUBSET Device] /\ saved \in [Device -> SUBSET Device]
  BY DEF Inv, TypeOK
<1>3. ASSUME NEW c \in Device, NEW f \in Device, CommitPairing(c, f)
      PROVE  e \in trust[d] \cup saved[d] \/ (c = d /\ f = e)
  BY <1>2, <1>3 DEF CommitPairing, AddPeer, SaveParts, SaveFails
<1>4. ASSUME NEW q \in Call, NEW n \in Target, ServeFinish(q, n)
      PROVE  e \in trust[d] \cup saved[d] \/ Ceremony(q, d, e)
  <2> DEFINE c == conn[q][n].with
  <2>1. CASE ~Matches(state[c], q)
    BY <1>4, <2>1 DEF ServeFinish
  <2>2. CASE Matches(state[c], q)
    <3>1. c \in Device /\ call[q].by \in Device /\ q \in verified
      BY <1>4 DEF Inv, Linked, Served, Knows, ServeFinish
    <3>2. CommitPairing(c, call[q].by)
      BY <1>4, <2>2 DEF ServeFinish, Matches
    <3>3. call[q].offer # None /\ call[q].proof = call[q].offer
          /\ offers[call[q].offer].code = call[q].code
      BY <3>1 DEF Inv, Linked, Knows
    <3>4. state[c].offer = call[q].offer /\ offers[call[q].offer].by = c
      BY <2>2, <3>1, <3>3 DEF Inv, ProvingAttempts, OwnOffers, Matches
    <3> QED
      BY <1>3, <3>1, <3>2, <3>3, <3>4 DEF Ceremony
  <2> QED
    BY <2>1, <2>2
<1>5. ASSUME NEW q \in Call, Commit(q)
      PROVE  e \in trust[d] \cup saved[d] \/ Ceremony(q, d, e)
  <2>1. /\ q \in verified
        /\ call[q].by \in Device
        /\ offers[call[q].offer].by \in Device
        /\ offers[call[q].offer].code = call[q].code
    BY <1>5 DEF Inv, Linked, Knows, Commit
  <2>2. CommitPairing(call[q].by, offers[call[q].offer].by)
    BY <1>5 DEF Commit
  <2> QED
    BY <1>3, <2>1, <2>2 DEF Ceremony
<1>6. ASSUME NEW c \in Device, NEW f \in Device, ForgetDevice(c, f)
      PROVE  e \in trust[d] \cup saved[d]
  BY <1>2, <1>6 DEF ForgetDevice, RemovePeer, SaveParts, SaveFails
<1>7. ASSUME NEW c \in Device, Restart(c)
      PROVE  e \in trust[d] \cup saved[d]
  BY <1>2, <1>7 DEF Restart
<1> QED
  BY <1>1, <1>4, <1>5, <1>6, <1>7, TrustSteps

(* A device is trusted, in memory or on disk, only after the digits shown   *)
(* on one of the two were typed on the other and their proof verified: for  *)
(* any number of attempts, crossing, interrupted or replayed as they may be.*)
THEOREM TrustNeedsConsent == Spec => []Consent
<1>1. Init => Consent
  BY DEF Init, Consent
<1>2. Inv /\ Consent /\ [Next]_vars => Consent'
  <2> SUFFICES ASSUME Inv, Consent, [Next]_vars, NEW d \in Device,
                      NEW e \in trust'[d] \cup saved'[d]
               PROVE  \E q \in Call : Ceremony(q, d, e)'
    BY DEF Consent
  <2>1. PICK q \in Call : Ceremony(q, d, e)
    BY TrustGrows DEF Consent
  <2>2. Stays(q)
    BY <2>1, CeremonyStays DEF Ceremony
  <2>3. Ceremony(q, d, e)'
    BY <2>1, <2>2 DEF Ceremony, Stays
  <2> QED
    BY <2>3
<1> QED
  BY <1>1, <1>2, Invariance, PTL DEF Spec

(* What the user was told is paired is in memory too, so that no later save *)
(* can drop it.                                                             *)
Remembered == \A d \in Device : shown[d] \subseteq trust[d] /\ shown[d] \subseteq saved[d]

LEMMA RememberedStep == Inv /\ Remembered /\ [Next]_vars => Remembered'
<1> SUFFICES ASSUME Inv, Remembered, [Next]_vars PROVE Remembered'
  OBVIOUS
<1>1. /\ trust \in [Device -> SUBSET Device]
      /\ saved \in [Device -> SUBSET Device]
      /\ shown \in [Device -> SUBSET Device]
  BY DEF Inv, TypeOK
<1>2. CASE UNCHANGED <<trust, saved, shown>>
  BY <1>2 DEF Remembered
<1>3. ASSUME NEW d, NEW e, CommitPairing(d, e) PROVE Remembered'
  BY <1>1, <1>3 DEF Remembered, CommitPairing, AddPeer, SaveParts, SaveFails
<1>4. ASSUME NEW q \in Call, NEW n \in Target, ServeFinish(q, n) PROVE Remembered'
  BY <1>2, <1>3, <1>4 DEF ServeFinish
<1>5. ASSUME NEW q \in Call, Commit(q) PROVE Remembered'
  BY <1>3, <1>5 DEF Commit
<1>6. ASSUME NEW d \in Device, NEW e \in Device, ForgetDevice(d, e) PROVE Remembered'
  BY <1>1, <1>6 DEF Remembered, ForgetDevice, RemovePeer, SaveParts, SaveFails
<1>7. ASSUME NEW d \in Device, Restart(d) PROVE Remembered'
  BY <1>1, <1>7 DEF Remembered, Restart
<1> QED
  BY <1>2, <1>4, <1>5, <1>6, <1>7, TrustSteps

(* A pairing the user was told of is on disk until they ask to forget it,   *)
(* whichever saves fail and whatever restarts in between.                   *)
THEOREM PairingIsDurable == Spec => []Durable
<1>1. Init => Remembered
  BY DEF Init, Remembered
<1>2. Remembered => Durable
  BY DEF Remembered, Durable
<1> QED
  BY <1>1, <1>2, RememberedStep, Invariance, PTL DEF Spec

----------------------------------------------------------------------------
(* The two ends of an attempt go together as long as no ceremony is upset   *)
(* and no accept meets another offer than its own.                          *)
Latest(q) == conn[q][call[q].n]
Shower(q) == offers[call[q].offer].by
Active(q) == call[q].at \notin {"free", "over"}
ProvesTo(d, q) == state[d].k = "Proving" /\ state[d].call = q

Flow(q) ==
    /\ call[q].at \in {"ask", "offered", "accept", "confirm", "finish"} => call[q].n \in Target
    /\ call[q].at = "ask" => Latest(q).at = "lookup"
    /\ call[q].at \in {"offered", "accept", "confirm", "finish"} => Shower(q) = Latest(q).with
    /\ call[q].at = "offered" => Latest(q).at = "offered"
    /\ call[q].at = "accept" => Latest(q).at \in {"accept", "over"}
    /\ call[q].at = "confirm" => Latest(q).at = "confirmed" /\ ProvesTo(Shower(q), q)
    /\ call[q].at = "finish" =>
          \/ Latest(q).at = "finish" /\ ProvesTo(Shower(q), q)
          \/ Latest(q).at = "over" /\ call[q].by \in trust[Shower(q)]
    /\ call[q].at = "commit" => call[q].by \in trust[Shower(q)]

(* A device that has an attempt under way answers for that one only.        *)
Busy ==
    /\ \A q \in Call : Active(q) => state[call[q].by].k = "Answering"
    /\ \A p, q \in Call : Active(p) /\ Active(q) /\ call[p].by = call[q].by => p = q

(* A server that has the finish serves an attempt that waits for its done.  *)
Finishing ==
    \A q \in Call, m \in Target :
        conn[q][m].at = "finish" => call[q].n = m /\ call[q].at = "finish"

(* The attempt that will make the trust of one device in another mutual.    *)
Owes(q, d, e) == call[q].at \in {"finish", "commit"} /\ d = Shower(q) /\ e = call[q].by
OneSided ==
    \A d, e \in Device : e \in trust[d] /\ d \notin trust[e] => \E q \in Call : Owes(q, d, e)

Joint == (\A q \in Call : Flow(q)) /\ Busy /\ Finishing /\ OneSided
Clean == upsets = 0 /\ ~crossed
Together == Clean => Joint

(* What an attempt stands on is kept by a step that touches neither the     *)
(* attempt nor the server of its latest connection, and takes back nothing. *)
SameAttempt(q) ==
    /\ call'[q].at = call[q].at
    /\ call'[q].by = call[q].by
    /\ call'[q].n = call[q].n
    /\ call'[q].offer = call[q].offer
SameServer(q) ==
    call[q].n \in Target =>
        /\ conn'[q][call[q].n].at = conn[q][call[q].n].at
        /\ conn'[q][call[q].n].with = conn[q][call[q].n].with
TakesNothing(q) ==
    /\ call[q].offer # None => offers'[call[q].offer] = offers[call[q].offer]
    /\ \A d \in Device : trust[d] \subseteq trust'[d]
    /\ \A d \in Device : ProvesTo(d, q) => ProvesTo(d, q)'

LEMMA FlowKept ==
    ASSUME NEW q \in Call, Flow(q), Knows(q), SameAttempt(q), SameServer(q), TakesNothing(q)
    PROVE  Flow(q)'
<1>1. call[q].at \in {"offered", "accept", "confirm", "finish", "commit"} =>
         Shower(q) \in Device /\ Shower(q)' = Shower(q)
  BY DEF Knows, Shower, SameAttempt, TakesNothing
<1>2. call[q].at \in {"ask", "offered", "accept", "confirm", "finish"} =>
         Latest(q).at' = Latest(q).at /\ Latest(q).with' = Latest(q).with
  BY DEF Flow, Latest, SameAttempt, SameServer
<1> QED
  BY <1>1, <1>2 DEF Flow, SameAttempt, TakesNothing

(* An attempt at its end, or that is not heard of yet, stands on nothing.   *)
LEMMA FlowFree ==
    ASSUME NEW q \in Call, call'[q].at \in {"free", "walk", "fail", "over"}
    PROVE  Flow(q)'
BY DEF Flow

LEMMA OneSidedKept ==
    ASSUME OneSided, UNCHANGED trust,
           \A q \in Call, d, e \in Device : Owes(q, d, e) => Owes(q, d, e)'
    PROVE  OneSided'
BY DEF OneSided

(* A step that starts no attempt keeps devices busy with those under way.   *)
LEMMA BusyKept ==
    ASSUME Busy,
           \A q \in Call : Active(q)' => Active(q) /\ call'[q].by = call[q].by,
           \A q \in Call : Active(q)' /\ state[call[q].by].k = "Answering" =>
               state'[call[q].by].k = "Answering"
    PROVE  Busy'
BY DEF Busy

LEMMA JointStutters ==
    ASSUME Joint, UNCHANGED <<offers, state, call, conn, trust>>
    PROVE  Joint'
<1>1. ASSUME NEW q \in Call PROVE Flow(q)'
  BY DEF Joint, Flow, Latest, Shower, ProvesTo
<1>2. Busy' /\ Finishing'
  BY DEF Joint, Busy, Active, Finishing
<1>3. OneSided'
  BY DEF Joint, OneSided, Owes, Shower
<1> QED
  BY <1>1, <1>2, <1>3 DEF Joint

LEMMA InitJoint == Init => Joint
BY DEF Init, Joint, Flow, Busy, Active, Finishing, OneSided, NoAttempt, NoExchange

LEMMA BeginPairingJoint ==
    ASSUME Inv, Joint, NEW d \in Device, NEW o \in OfferId, NEW c \in Code, BeginPairing(d, o, c)
    PROVE  Joint'
<1>1. UNCHANGED <<call, conn, trust>>
  BY DEF BeginPairing
<1>2. \A q \in Call : call[q].offer # None => offers'[call[q].offer] = offers[call[q].offer]
  BY ConstantsAssumption DEF BeginPairing, Made, NoOffer, Inv, TypeOK, Linked, Knows, Attempt
<1>3. \A e \in Device : state[e].k \in {"Proving", "Answering"} => state'[e] = state[e]
  <2>1. state[d].k \in {"Idle", "Offering"}
    BY DEF BeginPairing, Expired, Idle
  <2> QED
    BY <2>1 DEF BeginPairing, Inv, TypeOK
<1>4. ASSUME NEW q \in Call PROVE Flow(q)'
  <2>1. SameAttempt(q) /\ SameServer(q) /\ TakesNothing(q)
    BY <1>1, <1>2, <1>3 DEF SameAttempt, SameServer, TakesNothing, ProvesTo
  <2> QED
    BY <2>1, FlowKept DEF Inv, Linked, Joint
<1>5. Busy'
  <2>1. \A q \in Call : call[q].at # "free" => call[q].by \in Device
    BY DEF Inv, Linked, Knows
  <2> QED
    BY <1>1, <1>3, <2>1, BusyKept DEF Joint, Active
<1>6. Finishing'
  BY <1>1 DEF Joint, Finishing
<1>7. OneSided'
  <2>1. \A q \in Call : call[q].at \in {"finish", "commit"} => call[q].offer # None
    BY DEF Inv, Linked, Knows
  <2> QED
    BY <1>1, <1>2, <2>1, OneSidedKept DEF Joint, Owes, Shower
<1> QED
  BY <1>4, <1>5, <1>6, <1>7 DEF Joint

LEMMA PairWithCodeJoint ==
    ASSUME Inv, Joint, NEW q \in Call, NEW d \in Device, NEW c \in Code, PairWithCode(q, d, c)
    PROVE  Joint'
<1> DEFINE r == [NoAttempt EXCEPT !.at = "walk", !.by = d, !.code = c]
<1>1. r.at = "walk" /\ r.by = d
  BY DEF NoAttempt
<1>2. call' = [call EXCEPT ![q] = r] /\ call[q].at = "free"
  BY DEF PairWithCode, NoAttempt
<1> HIDE DEF r
<1>3. call'[q] = r /\ \A p \in Call \ {q} : call'[p] = call[p]
  BY <1>2 DEF Inv, TypeOK
<1>4. UNCHANGED <<offers, conn, trust>>
  BY DEF PairWithCode
<1>5. state[d].k = "Idle" /\ state'[d].k = "Answering" /\ \A e \in Device \ {d} : state'[e] = state[e]
  BY DEF PairWithCode, Inv, TypeOK, Answering, Idle
<1>6. ASSUME NEW p \in Call PROVE Flow(p)'
  <2>1. CASE p = q
    BY <1>1, <1>3, <2>1, FlowFree
  <2>2. CASE p # q
    <3>1. SameAttempt(p) /\ SameServer(p) /\ TakesNothing(p)
      BY <1>3, <1>4, <1>5, <2>2 DEF SameAttempt, SameServer, TakesNothing, ProvesTo
    <3> QED
      BY <3>1, FlowKept DEF Inv, Linked, Joint
  <2> QED
    BY <2>1, <2>2
<1>7. Busy'
  <2>1. \A p \in Call : Active(p) => call[p].by \in Device \ {d}
    BY <1>5 DEF Joint, Busy, Active, Inv, Linked, Knows
  <2>2. \A p \in Call \ {q} : Active(p)' <=> Active(p)
    BY <1>3 DEF Active
  <2> QED
    BY <1>1, <1>3, <1>5, <2>1, <2>2 DEF Joint, Busy
<1>8. Finishing'
  BY <1>2, <1>3, <1>4 DEF Joint, Finishing
<1>9. OneSided'
  <2>1. \A p \in Call, e, f \in Device : Owes(p, e, f) => Owes(p, e, f)'
    BY <1>2, <1>3, <1>4 DEF Owes, Shower
  <2> QED
    BY <1>4, <2>1, OneSidedKept DEF Joint
<1> QED
  BY <1>6, <1>7, <1>8, <1>9 DEF Joint

LEMMA AskJoint ==
    ASSUME Inv, Joint, NEW q \in Call, NEW d \in Device, Ask(q, d)
    PROVE  Joint'
<1> DEFINE k == call[q].n + 1
           x == [at |-> "lookup", with |-> d]
<1>1. k \in Target
  BY ConstantsAssumption DEF Inv, TypeOK, Attempt, Ask, Target
<1>2. /\ call'[q].at = "ask" /\ call'[q].by = call[q].by /\ call'[q].n = k
      /\ \A p \in Call \ {q} : call'[p] = call[p]
  BY DEF Inv, TypeOK, Attempt, Ask
<1>3. conn' = [conn EXCEPT ![q] = [conn[q] EXCEPT ![k] = x]]
  BY DEF Ask, Inv, TypeOK
<1> HIDE DEF k
<1>4. \A p \in Call, m \in Target : conn'[p][m] = IF p = q /\ m = k THEN x ELSE conn[p][m]
  BY <1>1, <1>3 DEF Inv, TypeOK
<1>5. UNCHANGED <<offers, state, trust>> /\ call[q].at = "walk"
  BY DEF Ask
<1>6. ASSUME NEW p \in Call PROVE Flow(p)'
  <2>1. CASE p = q
    <3>1. conn'[q][k].at = "lookup"
      BY <1>1, <1>4
    <3> QED
      BY <1>1, <1>2, <2>1, <3>1 DEF Flow, Latest
  <2>2. CASE p # q
    <3>1. SameAttempt(p) /\ SameServer(p) /\ TakesNothing(p)
      BY <1>2, <1>4, <1>5, <2>2 DEF SameAttempt, SameServer, TakesNothing, ProvesTo
    <3> QED
      BY <3>1, FlowKept DEF Inv, Linked, Joint
  <2> QED
    BY <2>1, <2>2
<1>7. Busy'
  BY <1>2, <1>5, BusyKept DEF Joint, Active
<1>8. Finishing'
  BY <1>2, <1>4, <1>5 DEF Joint, Finishing
<1>9. OneSided'
  <2>1. \A p \in Call, e, f \in Device : Owes(p, e, f) => Owes(p, e, f)'
    BY <1>2, <1>5 DEF Owes, Shower
  <2> QED
    BY <1>5, <2>1, OneSidedKept DEF Joint
<1> QED
  BY <1>6, <1>7, <1>8, <1>9 DEF Joint

(* An attempt that owes nothing fails, or goes on to the next device.       *)
LEMMA GivesUpJoint ==
    ASSUME Inv, Joint, NEW q \in Call, NEW a \in {"walk", "fail"}, Moves(q, a),
           call[q].at \notin {"free", "over", "finish", "commit"},
           UNCHANGED <<offers, state, conn, trust>>
    PROVE  Joint'
<1>1. ASSUME NEW p \in Call PROVE Flow(p)'
  <2>1. CASE p = q
    BY <2>1, FlowFree DEF Moves
  <2>2. CASE p # q
    <3>1. SameAttempt(p) /\ SameServer(p) /\ TakesNothing(p)
      BY <2>2 DEF Moves, SameAttempt, SameServer, TakesNothing, ProvesTo
    <3> QED
      BY <3>1, FlowKept DEF Inv, Linked, Joint
  <2> QED
    BY <2>1, <2>2
<1>2. Busy'
  BY BusyKept DEF Moves, Joint, Active
<1>3. Finishing'
  BY DEF Moves, Joint, Finishing
<1>4. OneSided'
  <2>1. \A p \in Call, e, f \in Device : Owes(p, e, f) => Owes(p, e, f)'
    BY DEF Moves, Owes, Shower
  <2> QED
    BY <2>1, OneSidedKept DEF Joint
<1> QED
  BY <1>1, <1>2, <1>3, <1>4 DEF Joint

LEMMA NotFoundJoint ==
    ASSUME Inv, Joint, NEW q \in Call, NotFound(q)
    PROVE  Joint'
<1>1. Moves(q, "fail")
  BY AttemptMoves DEF Inv, NotFound
<1> QED
  BY <1>1, GivesUpJoint DEF NotFound

LEMMA FromOfferJoint ==
    ASSUME Inv, Joint, NEW q \in Call, FromOffer(q)
    PROVE  Joint'
<1>1. call[q].at = "offered" /\ UNCHANGED <<offers, state, trust>>
  BY DEF FromOffer
<1>2. CASE call[q].offer \in late[call[q].by]
  <2>1. Moves(q, "fail") /\ UNCHANGED conn
    BY <1>2, AttemptMoves DEF Inv, FromOffer
  <2> QED
    BY <1>1, <2>1, GivesUpJoint
<1>3. CASE call[q].offer \notin late[call[q].by]
  <2>1. Moves(q, "accept") /\ Deliver(q, "offered", "accept")
    BY <1>3, AttemptMoves DEF Inv, FromOffer
  <2>2. \A p \in Call, m \in Target :
          /\ conn'[p][m].at = IF p = q /\ m = call[q].n /\ conn[p][m].at = "offered"
                              THEN "accept" ELSE conn[p][m].at
          /\ conn'[p][m].with = conn[p][m].with
    BY <2>1, FrameDelivered DEF Inv
  <2>3. ASSUME NEW p \in Call PROVE Flow(p)'
    <3>1. CASE p = q
      <4>1. call[q].n \in Target /\ Latest(q).at = "offered" /\ Shower(q) = Latest(q).with
        BY <1>1 DEF Joint, Flow
      <4>2. Latest(q).at' = "accept" /\ Latest(q).with' = Latest(q).with /\ Shower(q)' = Shower(q)
        BY <1>1, <2>1, <2>2, <4>1 DEF Moves, Latest, Shower
      <4> QED
        BY <2>1, <3>1, <4>1, <4>2 DEF Moves, Flow
    <3>2. CASE p # q
      <4>1. SameAttempt(p) /\ SameServer(p) /\ TakesNothing(p)
        BY <1>1, <2>1, <2>2, <3>2 DEF Moves, SameAttempt, SameServer, TakesNothing, ProvesTo
      <4> QED
        BY <4>1, FlowKept DEF Inv, Linked, Joint
    <3> QED
      BY <3>1, <3>2
  <2>4. Busy'
    BY <1>1, <2>1, BusyKept DEF Moves, Joint, Active
  <2>5. Finishing'
    BY <1>1, <2>1, <2>2 DEF Moves, Joint, Finishing
  <2>6. OneSided'
    <3>1. \A p \in Call, e, f \in Device : Owes(p, e, f) => Owes(p, e, f)'
      BY <1>1, <2>1 DEF Moves, Owes, Shower
    <3> QED
      BY <1>1, <3>1, OneSidedKept DEF Joint
  <2> QED
    BY <2>3, <2>4, <2>5, <2>6 DEF Joint
<1> QED
  BY <1>2, <1>3

LEMMA VerifyJoint ==
    ASSUME Inv, Joint, NEW q \in Call, Verify(q)
    PROVE  Joint'
<1>1. call[q].at = "confirm" /\ UNCHANGED <<offers, state, trust>>
  BY DEF Verify
<1>2. CASE ~(call[q].offer \notin late[call[q].by] /\ call[q].proof = call[q].offer)
  <2>1. Moves(q, "fail") /\ UNCHANGED conn
    BY <1>2, AttemptMoves DEF Inv, Verify
  <2> QED
    BY <1>1, <2>1, GivesUpJoint
<1>3. CASE call[q].offer \notin late[call[q].by] /\ call[q].proof = call[q].offer
  <2>1. Moves(q, "finish") /\ Deliver(q, "confirmed", "finish")
    BY <1>3, AttemptMoves DEF Inv, Verify
  <2>2. \A p \in Call, m \in Target :
          /\ conn'[p][m].at = IF p = q /\ m = call[q].n /\ conn[p][m].at = "confirmed"
                              THEN "finish" ELSE conn[p][m].at
          /\ conn'[p][m].with = conn[p][m].with
    BY <2>1, FrameDelivered DEF Inv
  <2>3. ASSUME NEW p \in Call PROVE Flow(p)'
    <3>1. CASE p = q
      <4>1. /\ call[q].n \in Target /\ Latest(q).at = "confirmed"
            /\ Shower(q) = Latest(q).with /\ ProvesTo(Shower(q), q)
        BY <1>1 DEF Joint, Flow
      <4>2. Latest(q).at' = "finish" /\ Latest(q).with' = Latest(q).with /\ Shower(q)' = Shower(q)
        BY <1>1, <2>1, <2>2, <4>1 DEF Moves, Latest, Shower
      <4>3. ProvesTo(Shower(q), q)'
        BY <1>1, <4>1, <4>2 DEF ProvesTo
      <4> QED
        BY <2>1, <3>1, <4>1, <4>2, <4>3 DEF Moves, Flow
    <3>2. CASE p # q
      <4>1. SameAttempt(p) /\ SameServer(p) /\ TakesNothing(p)
        BY <1>1, <2>1, <2>2, <3>2 DEF Moves, SameAttempt, SameServer, TakesNothing, ProvesTo
      <4> QED
        BY <4>1, FlowKept DEF Inv, Linked, Joint
    <3> QED
      BY <3>1, <3>2
  <2>4. Busy'
    BY <1>1, <2>1, BusyKept DEF Moves, Joint, Active
  <2>5. Finishing'
    BY <1>1, <2>1, <2>2 DEF Moves, Joint, Finishing
  <2>6. OneSided'
    <3>1. \A p \in Call, e, f \in Device : Owes(p, e, f) => Owes(p, e, f)'
      BY <1>1, <2>1 DEF Moves, Owes, Shower
    <3> QED
      BY <1>1, <3>1, OneSidedKept DEF Joint
  <2> QED
    BY <2>3, <2>4, <2>5, <2>6 DEF Joint
<1> QED
  BY <1>2, <1>3

(* The reply to the finish is lost only with the server done: it trusts us. *)
LEMMA CallEndsJoint ==
    ASSUME Inv, Joint, NEW q \in Call, CallEnds(q), upsets' = 0
    PROVE  Joint'
<1>1. /\ call[q].at \in {"ask", "offered", "accept", "confirm", "finish"}
      /\ UNCHANGED <<offers, state, conn, trust>>
  BY DEF CallEnds
<1>2. Latest(q).at = "over"
  BY ConstantsAssumption DEF CallEnds, Upset, Latest, Inv, TypeOK
<1>3. call' = [call EXCEPT ![q].at = AfterFailure(call[q].at)]
  BY DEF CallEnds, Inv, TypeOK
<1>4. CASE call[q].at # "finish"
  <2>1. AfterFailure(call[q].at) \in {"walk", "fail"}
    BY <1>1, <1>4 DEF AfterFailure
  <2>2. Moves(q, AfterFailure(call[q].at))
    BY <1>3, <2>1, AttemptMoves DEF Inv
  <2> QED
    BY <1>1, <1>4, <2>1, <2>2, GivesUpJoint
<1>5. CASE call[q].at = "finish"
  <2>1. AfterFailure(call[q].at) = "commit"
    BY <1>5 DEF AfterFailure
  <2>2. Moves(q, "commit")
    BY <1>3, <2>1, AttemptMoves DEF Inv
  <2>3. call[q].by \in trust[Shower(q)]
    BY <1>2, <1>5 DEF Joint, Flow
  <2>4. ASSUME NEW p \in Call PROVE Flow(p)'
    <3>1. CASE p = q
      BY <1>1, <2>2, <2>3, <3>1 DEF Flow, Moves, Shower
    <3>2. CASE p # q
      <4>1. SameAttempt(p) /\ SameServer(p) /\ TakesNothing(p)
        BY <1>1, <2>2, <3>2 DEF Moves, SameAttempt, SameServer, TakesNothing, ProvesTo
      <4> QED
        BY <4>1, FlowKept DEF Inv, Linked, Joint
    <3> QED
      BY <3>1, <3>2
  <2>5. Busy'
    BY <1>1, <1>5, <2>2, BusyKept DEF Moves, Joint, Active
  <2>6. Finishing'
    <3>1. \A m \in Target : conn[q][m].at # "finish"
      BY <1>2 DEF Joint, Finishing, Latest
    <3> QED
      BY <1>1, <2>2, <3>1 DEF Moves, Joint, Finishing
  <2>7. OneSided'
    <3>1. \A p \in Call, e, f \in Device : Owes(p, e, f) => Owes(p, e, f)'
      BY <1>1, <2>2 DEF Moves, Owes, Shower
    <3> QED
      BY <1>1, <3>1, OneSidedKept DEF Joint
  <2> QED
    BY <2>4, <2>5, <2>6, <2>7 DEF Joint
<1> QED
  BY <1>4, <1>5

LEMMA ConnectionEndsJoint ==
    ASSUME Inv, Joint, NEW q \in Call, NEW n \in Target, ConnectionEnds(q, n), upsets' = 0
    PROVE  Joint'
<1>1. Serves(q, n, "over")
  BY ExchangeMoves DEF Inv, ConnectionEnds
<1>2. UNCHANGED <<offers, state, call, trust>>
  BY DEF ConnectionEnds
<1>3. call[q].n # n \/ call[q].at \in {"commit", "fail", "over"}
  BY ConstantsAssumption DEF ConnectionEnds, Upset, Inv, TypeOK
<1>4. ASSUME NEW p \in Call PROVE Flow(p)'
  <2>1. CASE p = q /\ call[q].n = n
    BY <1>2, <1>3, <2>1 DEF Joint, Flow, Shower
  <2>2. CASE ~(p = q /\ call[q].n = n)
    <3>1. SameAttempt(p) /\ SameServer(p) /\ TakesNothing(p)
      BY <1>1, <1>2, <2>2 DEF Serves, SameAttempt, SameServer, TakesNothing, ProvesTo
    <3> QED
      BY <3>1, FlowKept DEF Inv, Linked, Joint
  <2> QED
    BY <2>1, <2>2
<1>5. Busy' /\ OneSided'
  BY <1>2 DEF Joint, Busy, Active, OneSided, Owes, Shower
<1>6. Finishing'
  BY <1>1, <1>2 DEF Serves, Joint, Finishing
<1> QED
  BY <1>4, <1>5, <1>6 DEF Joint

(* An attempt ends: no other depends on the state its device gives up.      *)
LEMMA EndsKeepsFlow ==
    ASSUME Inv, Joint, NEW q \in Call, Active(q), Moves(q, "over"),
           state' = [state EXCEPT ![call[q].by] = Idle],
           UNCHANGED <<offers, conn>>, \A d \in Device : trust[d] \subseteq trust'[d]
    PROVE  (\A p \in Call : Flow(p))' /\ Busy'
<1> DEFINE d == call[q].by
<1>1. d \in Device /\ state[d].k = "Answering"
  BY DEF Joint, Busy, Inv, Linked, Knows, Active
<1>2. \A e \in Device \ {d} : state'[e] = state[e]
  BY <1>1 DEF Inv, TypeOK
<1>3. ASSUME NEW p \in Call PROVE Flow(p)'
  <2>1. CASE p = q
    BY <2>1, FlowFree DEF Moves
  <2>2. CASE p # q
    <3>1. \A e \in Device : ProvesTo(e, p) => ProvesTo(e, p)'
      BY <1>1, <1>2 DEF ProvesTo
    <3>2. SameAttempt(p) /\ SameServer(p) /\ TakesNothing(p)
      BY <2>2, <3>1 DEF Moves, SameAttempt, SameServer, TakesNothing
    <3> QED
      BY <3>2, FlowKept DEF Inv, Linked, Joint
  <2> QED
    BY <2>1, <2>2
<1>4. Busy'
  <2>1. \A p \in Call : Active(p)' => Active(p) /\ p # q /\ call'[p].by = call[p].by
    BY DEF Moves, Active
  <2>2. \A p \in Call : Active(p) /\ p # q => call[p].by \in Device \ {d}
    BY DEF Joint, Busy, Inv, Linked, Knows, Active
  <2>3. \A p \in Call : Active(p)' => state'[call[p].by] = state[call[p].by]
    BY <1>2, <2>1, <2>2
  <2> QED
    BY <2>1, <2>3, BusyKept DEF Joint
<1> QED
  BY <1>3, <1>4

LEMMA FailJoint ==
    ASSUME Inv, Joint, NEW q \in Call, Fail(q)
    PROVE  Joint'
<1>1. Moves(q, "over") /\ call[q].at = "fail" /\ UNCHANGED <<offers, conn, trust>>
  BY AttemptMoves DEF Inv, Fail
<1>2. (\A p \in Call : Flow(p))' /\ Busy'
  BY <1>1, EndsKeepsFlow DEF Fail, Active
<1>3. Finishing'
  BY <1>1 DEF Moves, Joint, Finishing
<1>4. OneSided'
  <2>1. \A p \in Call, e, f \in Device : Owes(p, e, f) => Owes(p, e, f)'
    BY <1>1 DEF Moves, Owes, Shower
  <2> QED
    BY <1>1, <2>1, OneSidedKept DEF Joint
<1> QED
  BY <1>2, <1>3, <1>4 DEF Joint

(* The typing device commits last, and makes the trust mutual.              *)
LEMMA CommitJoint ==
    ASSUME Inv, Joint, NEW q \in Call, Commit(q)
    PROVE  Joint'
<1> DEFINE d == call[q].by
           e == Shower(q)
<1>1. Moves(q, "over") /\ call[q].at = "commit" /\ UNCHANGED <<offers, conn>>
  BY AttemptMoves DEF Inv, Commit
<1>2. d \in Device /\ e \in Device /\ d \in trust[e]
  BY <1>1 DEF Inv, Linked, Knows, Joint, Flow, Shower
<1>3. /\ trust \in [Device -> SUBSET Device]
      /\ trust' = [trust EXCEPT ![d] = trust[d] \cup {e}]
  BY DEF Inv, TypeOK, Commit, CommitPairing, AddPeer, Shower
<1>4. (\A p \in Call : Flow(p))' /\ Busy'
  <2>1. \A f \in Device : trust[f] \subseteq trust'[f]
    BY <1>2, <1>3
  <2> QED
    BY <1>1, <2>1, EndsKeepsFlow DEF Commit, Active
<1>5. Finishing'
  BY <1>1 DEF Moves, Joint, Finishing
<1>6. ASSUME NEW f \in Device, NEW g \in Device, g \in trust'[f], f \notin trust'[g]
      PROVE  \E p \in Call : Owes(p, f, g)'
  <2>1. ~(f = d /\ g = e) /\ ~(f = e /\ g = d)
    BY <1>2, <1>3, <1>6
  <2>2. g \in trust[f] /\ f \notin trust[g]
    BY <1>2, <1>3, <1>6, <2>1
  <2>3. PICK p \in Call : Owes(p, f, g)
    BY <2>2 DEF Joint, OneSided
  <2>4. p # q
    BY <2>1, <2>3 DEF Owes
  <2>5. Owes(p, f, g)'
    BY <1>1, <2>3, <2>4 DEF Moves, Owes, Shower
  <2> QED
    BY <2>5
<1> QED
  BY <1>4, <1>5, <1>6 DEF Joint, OneSided

LEMMA ServeLookupJoint ==
    ASSUME Inv, Joint, NEW q \in Call, NEW n \in Target, ServeLookup(q, n)
    PROVE  Joint'
<1> DEFINE d == conn[q][n].with
           s == Expired(d, state[d])
           answers == s.k = "Offering" /\ offers[s.offer].code = call[q].code
<1>1. d \in Device /\ conn[q][n].at = "lookup" /\ UNCHANGED <<offers, trust>>
  BY DEF Inv, Linked, Served, ServeLookup
<1>2. call[q].n = n => call[q].at \notin {"offered", "accept", "confirm", "finish"}
  BY <1>1 DEF Joint, Flow, Latest
<1>3. \A e \in Device : state[e].k \in {"Proving", "Answering"} => state'[e] = state[e]
  <2>1. state[d].k # "Offering" => s = state[d] /\ s.k # "Offering"
    BY DEF Expired
  <2> HIDE DEF s
  <2>2. state[d].k # "Offering" => state' = [state EXCEPT ![d] = state[d]]
    BY <2>1 DEF ServeLookup, s
  <2>3. \A e \in Device \ {d} : state'[e] = state[e]
    BY DEF ServeLookup, Inv, TypeOK
  <2> QED
    BY <1>1, <2>2, <2>3 DEF Inv, TypeOK
<1>4. /\ \A p \in Call : p # q \/ call[q].n # n \/ call[q].at # "ask" => call'[p] = call[p]
      /\ call[q].n = n /\ call[q].at = "ask" =>
           /\ call'[q].by = call[q].by /\ call'[q].n = call[q].n
           /\ \/ call'[q].at = "walk"
              \/ /\ call'[q].at = "offered" /\ conn' = [conn EXCEPT ![q][n].at = "offered"]
                 /\ offers[call'[q].offer].by = d
  <2>1. \A p \in Call : p # q \/ call[q].n # n \/ call[q].at # "ask" => call'[p] = call[p]
    <3>1. CASE Waiting(q, n, "ask")
      <4>1. call \in [Call -> Attempt]
        BY DEF Inv, TypeOK
      <4>2. \/ call' = [call EXCEPT ![q].at = "offered", ![q].offer = s.offer]
            \/ call' = [call EXCEPT ![q].at = "walk"]
        BY <3>1 DEF ServeLookup
      <4> HIDE DEF s
      <4>3. \A p \in Call \ {q} : call'[p] = call[p]
        BY <4>1, <4>2
      <4> QED
        BY <3>1, <4>3 DEF Waiting
    <3>2. CASE ~Waiting(q, n, "ask")
      BY <3>2 DEF ServeLookup
    <3> QED
      BY <3>1, <3>2
  <2>2. ASSUME call[q].n = n, call[q].at = "ask", ~answers
        PROVE  call'[q].by = call[q].by /\ call'[q].n = call[q].n /\ call'[q].at = "walk"
    BY <2>2, AttemptMoves DEF Inv, TypeOK, ServeLookup, Waiting, Moves
  <2>3. ASSUME call[q].n = n, call[q].at = "ask", answers
        PROVE  /\ call'[q].by = call[q].by /\ call'[q].n = call[q].n
               /\ call'[q].at = "offered" /\ conn' = [conn EXCEPT ![q][n].at = "offered"]
               /\ offers[call'[q].offer].by = d
    <3>1. s = state[d] /\ s.offer \in OfferId /\ offers[s.offer].by = d
      BY <1>1, <2>3 DEF Expired, Idle, Inv, OwnOffers
    <3>2. conn' = [conn EXCEPT ![q][n].at = "offered"]
          /\ call' = [call EXCEPT ![q].at = "offered", ![q].offer = s.offer]
      BY <2>3 DEF ServeLookup, Waiting
    <3> HIDE DEF s
    <3>3. call[q] \in Attempt /\ call \in [Call -> Attempt]
      BY DEF Inv, TypeOK
    <3>4. /\ call'[q].by = call[q].by /\ call'[q].n = call[q].n
          /\ call'[q].at = "offered" /\ call'[q].offer = s.offer
      BY <3>2, <3>3 DEF Attempt
    <3> QED
      BY <3>1, <3>2, <3>4
  <2> QED
    BY <2>1, <2>2, <2>3
<1>5. PICK b \in {"offered", "over"} : Serves(q, n, b)
  BY ExchangeMoves DEF Inv, ServeLookup
<1> HIDE DEF s, answers
<1>6. ASSUME NEW p \in Call PROVE Flow(p)'
  <2>1. CASE p = q /\ call[q].n = n /\ call[q].at = "ask"
    <3>1. CASE call'[q].at = "walk"
      BY <2>1, <3>1, FlowFree
    <3>2. CASE call'[q].at # "walk"
      <4>1. Serves(q, n, "offered")
        BY <1>4, <2>1, <3>2, ExchangeMoves DEF Inv
      <4>2. Latest(q).at' = "offered" /\ Latest(q).with' = d
        BY <1>4, <2>1, <4>1 DEF Serves, Latest
      <4>3. Shower(q)' = d /\ call'[q].at = "offered" /\ call'[q].n = n
        BY <1>1, <1>4, <2>1, <3>2 DEF Shower
      <4> QED
        BY <2>1, <4>2, <4>3 DEF Flow
    <3> QED
      BY <3>1, <3>2
  <2>2. CASE ~(p = q /\ call[q].n = n /\ call[q].at = "ask")
    <3>1. SameAttempt(p) /\ TakesNothing(p)
      BY <1>1, <1>3, <1>4, <2>2 DEF SameAttempt, TakesNothing, ProvesTo
    <3>2. CASE p = q /\ call[q].n = n
      <4>1. call[q].at \notin {"ask", "offered", "accept", "confirm", "finish"}
        BY <1>2, <2>2, <3>2
      <4>2. call[q].at = "commit" => call[q].by \in trust[Shower(q)]
        BY DEF Joint, Flow
      <4> QED
        BY <1>1, <3>1, <3>2, <4>1, <4>2 DEF Flow, SameAttempt, Shower
    <3>3. CASE ~(p = q /\ call[q].n = n)
      <4>1. SameServer(p)
        BY <1>5, <3>3 DEF Serves, SameServer
      <4> QED
        BY <3>1, <4>1, FlowKept DEF Inv, Linked, Joint
    <3> QED
      BY <3>2, <3>3
  <2> QED
    BY <2>1, <2>2
<1>7. Busy'
  <2>1. \A p \in Call : Active(p)' => Active(p) /\ call'[p].by = call[p].by
    BY <1>4 DEF Active
  <2>2. \A p \in Call : Active(p) => call[p].by \in Device
    BY DEF Active, Inv, Linked, Knows
  <2> QED
    BY <1>3, <2>1, <2>2, BusyKept DEF Joint
<1>8. Finishing'
  BY <1>4, <1>5 DEF Serves, Joint, Finishing
<1>9. OneSided'
  <2>1. \A p \in Call, e, f \in Device : Owes(p, e, f) => Owes(p, e, f)'
    BY <1>1, <1>4 DEF Owes, Shower
  <2> QED
    BY <1>1, <2>1, OneSidedKept DEF Joint
<1> QED
  BY <1>6, <1>7, <1>8, <1>9 DEF Joint

(* An accept that finds its own offer proves nothing to anyone else yet.    *)
LEMMA ServeAcceptJoint ==
    ASSUME Inv, Joint, NEW q \in Call, NEW n \in Target, ServeAccept(q, n), ~crossed'
    PROVE  Joint'
<1> DEFINE d == conn[q][n].with
           o == state[d].offer
<1>1. d \in Device /\ conn[q][n].at = "accept" /\ UNCHANGED <<offers, trust>>
  BY DEF Inv, Linked, Served, ServeAccept
<1>2. call[q].n = n /\ call[q].at \in {"accept", "fail", "over"}
  BY <1>1 DEF Inv, Linked, Served
<1>3. state[d].k = "Offering" /\ o = call[q].offer
  BY DEF ServeAccept
<1>4. \A e \in Device \ {d} : state'[e] = state[e]
  BY DEF ServeAccept, Inv, TypeOK
<1>5. \A p \in Call : ~(p = q /\ call[q].at = "accept") => call'[p] = call[p]
  BY DEF ServeAccept, Inv, TypeOK, Waiting
<1>6. PICK b \in {"confirmed", "over"} : Serves(q, n, b)
  BY ExchangeMoves DEF Inv, ServeAccept
<1>7. ASSUME call[q].at = "accept"
      PROVE  /\ call'[q].n = n /\ call'[q].by = call[q].by /\ call'[q].offer = call[q].offer
             /\ \/ call'[q].at = "accept" /\ conn'[q][n].at = "over"
                \/ call'[q].at = "confirm" /\ conn'[q][n].at = "confirmed" /\ ProvesTo(d, q)'
  <2>1. CASE ~Open(d)
    <3>1. conn' = [conn EXCEPT ![q][n].at = "over"] /\ call' = call
      BY <2>1 DEF ServeAccept
    <3>2. Serves(q, n, "over")
      BY <3>1, ExchangeMoves DEF Inv
    <3> QED
      BY <1>2, <1>7, <3>1, <3>2 DEF Serves
  <2>2. CASE Open(d)
    <3>1. /\ conn' = [conn EXCEPT ![q][n].at = "confirmed"]
          /\ call' = [call EXCEPT ![q].at = "confirm", ![q].proof = o]
          /\ state' = [state EXCEPT ![d] = Proving(o, q)]
      BY <1>2, <1>7, <2>2 DEF ServeAccept, Waiting
    <3>2. Serves(q, n, "confirmed")
      BY <3>1, ExchangeMoves DEF Inv
    <3>3. ProvesTo(d, q)'
      BY <1>1, <3>1 DEF Proving, ProvesTo, Inv, TypeOK
    <3>4. call[q] \in Attempt /\ call \in [Call -> Attempt]
      BY DEF Inv, TypeOK
    <3> HIDE DEF o
    <3>5. /\ call'[q].n = call[q].n /\ call'[q].by = call[q].by
          /\ call'[q].offer = call[q].offer /\ call'[q].at = "confirm"
      BY <3>1, <3>4 DEF Attempt
    <3> QED
      BY <1>2, <3>2, <3>3, <3>5 DEF Serves
  <2> QED
    BY <2>1, <2>2
<1>8. ASSUME NEW p \in Call PROVE Flow(p)'
  <2>1. CASE p = q /\ call[q].at = "accept"
    <3>1. Shower(q) = d /\ Latest(q).with' = d /\ Shower(q)' = Shower(q)
      BY <1>1, <1>2, <1>6, <1>7, <2>1 DEF Joint, Flow, Shower, Latest, Serves
    <3> QED
      BY <1>7, <2>1, <3>1 DEF Flow, Latest
  <2>2. CASE p = q /\ call[q].at # "accept"
    BY <1>2, <1>5, <2>2, FlowFree
  <2>3. CASE p # q
    <3>1. \A e \in Device : ProvesTo(e, p) => ProvesTo(e, p)'
      BY <1>3, <1>4 DEF ProvesTo
    <3>2. SameAttempt(p) /\ SameServer(p) /\ TakesNothing(p)
      BY <1>1, <1>5, <1>6, <2>3, <3>1 DEF Serves, SameAttempt, SameServer, TakesNothing
    <3> QED
      BY <3>2, FlowKept DEF Inv, Linked, Joint
  <2> QED
    BY <2>1, <2>2, <2>3
<1>9. Busy'
  <2>1. \A p \in Call : Active(p)' => Active(p) /\ call'[p].by = call[p].by
    BY <1>5, <1>7 DEF Active
  <2>2. \A p \in Call : Active(p) => call[p].by \in Device
    BY DEF Active, Inv, Linked, Knows
  <2>3. \A p \in Call : Active(p)' /\ state[call[p].by].k = "Answering" =>
            state'[call[p].by].k = "Answering"
    BY <1>3, <1>4, <2>1, <2>2
  <2> QED
    BY <2>1, <2>3, BusyKept DEF Joint
<1>10. Finishing'
  BY <1>2, <1>5, <1>6 DEF Serves, Joint, Finishing
<1>11. OneSided'
  <2>1. \A p \in Call, e, f \in Device : Owes(p, e, f) => Owes(p, e, f)'
    BY <1>1, <1>2, <1>5 DEF Owes, Shower
  <2> QED
    BY <1>1, <2>1, OneSidedKept DEF Joint
<1> QED
  BY <1>8, <1>9, <1>10, <1>11 DEF Joint

(* The showing device commits first: its peer waits for the done.           *)
LEMMA ServeFinishJoint ==
    ASSUME Inv, Joint, NEW q \in Call, NEW n \in Target, ServeFinish(q, n)
    PROVE  Joint'
<1> DEFINE d == conn[q][n].with
<1>1. /\ d \in Device /\ conn[q][n].at = "finish" /\ UNCHANGED <<offers, call>>
      /\ state' = [state EXCEPT ![d] = Idle]
  BY DEF Inv, Linked, Served, ServeFinish
<1>2. call[q].n = n /\ call[q].at = "finish" /\ Shower(q) = d /\ ProvesTo(d, q)
  BY <1>1 DEF Joint, Finishing, Flow, Latest
<1>3. Serves(q, n, "over")
  BY ExchangeMoves DEF Inv, ServeFinish
<1>4. /\ trust \in [Device -> SUBSET Device]
      /\ trust' = [trust EXCEPT ![d] = trust[d] \cup {call[q].by}]
  BY <1>2 DEF Inv, TypeOK, ServeFinish, Matches, ProvesTo, CommitPairing, AddPeer
<1>5. \A e \in Device \ {d} : state'[e] = state[e]
  BY <1>1 DEF Inv, TypeOK
<1>6. ASSUME NEW p \in Call PROVE Flow(p)'
  <2>1. CASE p = q
    <3>1. Latest(q).at' = "over" /\ Latest(q).with' = d /\ Shower(q)' = d
      BY <1>1, <1>2, <1>3 DEF Serves, Latest, Shower
    <3>2. call[q].by \in trust'[d]
      BY <1>1, <1>4
    <3> QED
      BY <1>1, <1>2, <2>1, <3>1, <3>2 DEF Flow
  <2>2. CASE p # q
    <3>1. \A e \in Device : ProvesTo(e, p) => ProvesTo(e, p)'
      BY <1>2, <1>5, <2>2 DEF ProvesTo
    <3>2. \A e \in Device : trust[e] \subseteq trust'[e]
      BY <1>1, <1>4
    <3>3. SameAttempt(p) /\ SameServer(p) /\ TakesNothing(p)
      BY <1>1, <1>3, <2>2, <3>1, <3>2 DEF Serves, SameAttempt, SameServer, TakesNothing
    <3> QED
      BY <3>3, FlowKept DEF Inv, Linked, Joint
  <2> QED
    BY <2>1, <2>2
<1>7. Busy'
  <2>1. \A p \in Call : Active(p) => call[p].by \in Device
    BY DEF Active, Inv, Linked, Knows
  <2>2. \A p \in Call : Active(p)' => Active(p) /\ call'[p].by = call[p].by
    BY <1>1 DEF Active
  <2>3. \A p \in Call : Active(p)' /\ state[call[p].by].k = "Answering" =>
            state'[call[p].by].k = "Answering"
    BY <1>2, <1>5, <2>1, <2>2 DEF ProvesTo
  <2> QED
    BY <2>2, <2>3, BusyKept DEF Joint
<1>8. Finishing'
  BY <1>1, <1>3 DEF Serves, Joint, Finishing
<1>9. ASSUME NEW f \in Device, NEW g \in Device, g \in trust'[f], f \notin trust'[g]
      PROVE  \E p \in Call : Owes(p, f, g)'
  <2>1. \A p \in Call : Owes(p, f, g) => Owes(p, f, g)'
    BY <1>1 DEF Owes, Shower
  <2>2. f \notin trust[g]
    BY <1>1, <1>4, <1>9
  <2>3. CASE g \in trust[f]
    BY <2>1, <2>2, <2>3 DEF Joint, OneSided
  <2>4. CASE g \notin trust[f]
    <3>1. f = d /\ g = call[q].by
      BY <1>1, <1>4, <1>9, <2>4
    <3>2. Owes(q, f, g)
      BY <1>2, <3>1 DEF Owes
    <3> QED
      BY <2>1, <3>2
  <2> QED
    BY <2>3, <2>4
<1> QED
  BY <1>6, <1>7, <1>8, <1>9 DEF Joint, OneSided

(* Nothing undoes an upset or a crossing.                                   *)
Lasting == (upsets' = upsets \/ upsets' = upsets + 1) /\ (crossed => crossed')

LEMMA UpsetsLast ==
    ASSUME [Next]_vars
    PROVE  Lasting
<1> USE DEF Lasting
<1>1. CASE UNCHANGED vars
  BY <1>1 DEF vars
<1>2. ASSUME NEW d \in Device, NEW o \in OfferId, NEW c \in Code, BeginPairing(d, o, c)
      PROVE  Lasting
  BY <1>2 DEF BeginPairing
<1>3. ASSUME NEW q \in Call, NEW d \in Device, NEW c \in Code, PairWithCode(q, d, c)
      PROVE  Lasting
  BY <1>3 DEF PairWithCode
<1>4. ASSUME NEW d \in Device, CancelPairing(d) \/ Restart(d) PROVE Lasting
  BY <1>4 DEF CancelPairing, Restart, Upset
<1>5. ASSUME NEW d \in Device, NEW e \in Device, ForgetDevice(d, e) PROVE Lasting
  BY <1>5 DEF ForgetDevice, Upset
<1>6. ASSUME NEW d \in Device, NEW o \in OfferId, Expire(d, o) PROVE Lasting
  BY <1>6 DEF Expire
<1>7. ASSUME NEW q \in Call, NEW d \in Device, Ask(q, d) PROVE Lasting
  BY <1>7 DEF Ask
<1>8. ASSUME NEW q \in Call,
             NotFound(q) \/ FromOffer(q) \/ Verify(q) \/ CallEnds(q) \/ Fail(q)
      PROVE  Lasting
  BY <1>8 DEF NotFound, FromOffer, Verify, CallEnds, Fail, Upset
<1>9. ASSUME NEW q \in Call, Commit(q) PROVE Lasting
  BY <1>9 DEF Commit, CommitPairing, Upset
<1>10. ASSUME NEW q \in Call, NEW n \in Target,
              ServeLookup(q, n) \/ CeremonyStalls(q, n) \/ ConnectionEnds(q, n)
       PROVE  Lasting
  <2>1. CASE ServeLookup(q, n)
    BY <2>1 DEF ServeLookup
  <2>2. CASE CeremonyStalls(q, n)
    BY <2>2 DEF CeremonyStalls, Upset
  <2>3. CASE ConnectionEnds(q, n)
    BY <2>3 DEF ConnectionEnds, Upset
  <2> QED
    BY <1>10, <2>1, <2>2, <2>3
<1>11. ASSUME NEW q \in Call, NEW n \in Target, ServeAccept(q, n) PROVE Lasting
  BY <1>11 DEF ServeAccept
<1>12. ASSUME NEW q \in Call, NEW n \in Target, ServeFinish(q, n) PROVE Lasting
  BY <1>12 DEF ServeFinish, CommitPairing, Upset
<1> HIDE DEF Lasting
<1> QED
  BY <1>1, <1>2, <1>3, <1>4, <1>5, <1>6, <1>7, <1>8, <1>9, <1>10, <1>11, <1>12 DEF Next

LEMMA CleanBefore ==
    ASSUME Inv, [Next]_vars, Clean'
    PROVE  Clean /\ ~Upset
<1>1. upsets \in Nat
  BY ConstantsAssumption DEF Inv, TypeOK
<1> QED
  BY <1>1, UpsetsLast DEF Lasting, Clean, Upset

LEMMA TogetherStep == Inv /\ Together /\ [Next]_vars => Together'
<1> SUFFICES ASSUME Inv, Together, [Next]_vars, Clean' PROVE Joint'
  BY DEF Together
<1>1. Joint /\ upsets' = 0 /\ ~crossed' /\ ~Upset
  BY CleanBefore DEF Together, Clean
<1>2. CASE UNCHANGED vars
  BY <1>1, <1>2, JointStutters DEF vars
<1>3. ASSUME NEW d \in Device, NEW o \in OfferId, Expire(d, o) PROVE Joint'
  BY <1>1, <1>3, JointStutters DEF Expire
<1>4. ASSUME NEW d \in Device, CancelPairing(d) \/ Restart(d) PROVE Joint'
  BY <1>1, <1>4 DEF CancelPairing, Restart
<1>5. ASSUME NEW d \in Device, NEW e \in Device, ForgetDevice(d, e) PROVE Joint'
  BY <1>1, <1>5 DEF ForgetDevice
<1>6. ASSUME NEW q \in Call, NEW n \in Target,
             \/ ServeLookup(q, n) \/ ServeAccept(q, n) \/ ServeFinish(q, n)
             \/ CeremonyStalls(q, n) \/ ConnectionEnds(q, n)
      PROVE  Joint'
  <2>1. ~CeremonyStalls(q, n)
    BY <1>1 DEF CeremonyStalls
  <2> QED
    BY <1>1, <1>6, <2>1, ServeLookupJoint, ServeAcceptJoint, ServeFinishJoint, ConnectionEndsJoint
<1>7. ASSUME NEW q \in Call,
             NotFound(q) \/ FromOffer(q) \/ Verify(q) \/ CallEnds(q) \/ Commit(q) \/ Fail(q)
      PROVE  Joint'
  BY <1>1, <1>7, NotFoundJoint, FromOfferJoint, VerifyJoint, CallEndsJoint, CommitJoint, FailJoint
<1>8. ASSUME NEW d \in Device, NEW o \in OfferId, NEW c \in Code, BeginPairing(d, o, c)
      PROVE  Joint'
  BY <1>1, <1>8, BeginPairingJoint
<1>9. ASSUME NEW q \in Call, NEW d \in Device, NEW c \in Code, PairWithCode(q, d, c)
      PROVE  Joint'
  BY <1>1, <1>9, PairWithCodeJoint
<1>10. ASSUME NEW q \in Call, NEW d \in Device, Ask(q, d) PROVE Joint'
  BY <1>1, <1>10, AskJoint
<1> QED
  BY <1>2, <1>3, <1>4, <1>5, <1>6, <1>7, <1>8, <1>9, <1>10 DEF Next

(* When every attempt has ended, two devices trust each other or neither    *)
(* does, however many ceremonies ran side by side, unless one of them was   *)
(* interrupted or an accept found another offer than its own.               *)
THEOREM TrustIsMutual == Spec => []Mutual
<1>1. Init => Together
  BY InitJoint DEF Together
<1>2. Together => Mutual
  <2> SUFFICES ASSUME Joint, AtRest, NEW d \in Device, NEW e \in Device, e \in trust[d]
               PROVE  d \in trust[e]
    BY DEF Together, Clean, Mutual
  <2> QED
    BY DEF Joint, OneSided, Owes, AtRest
<1> QED
  BY <1>1, <1>2, TogetherStep, Invariance, PTL DEF Spec

============================================================================
