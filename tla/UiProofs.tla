------------------------------- MODULE UiProofs ------------------------------
(***************************************************************************)
(* TrayTellsTheStatus and ListTellsTheHistory of Ui, for every set of      *)
(* clips and every bound: when all is quiet the tray and the list of a     *)
(* window show what the daemon has, unless the history says why not.       *)
(***************************************************************************)
EXTENDS Ui, TLAPS, SequenceTheorems

USE DEF AfterStatus

----------------------------------------------------------------------------
(* Events on their way. *)

News == {"added", "updated", "removed"}
Changes == {"updated", "removed"}
About(e, K, i) == e.kind \in K /\ e.id = i
Link(e) == e.kind = "connected"
NoLink(q) == \A k \in DOMAIN q : ~Link(q[k])

\* What was told since the last connection.
Fresh(q, K, i, k) == About(q[k], K, i) /\ \A j \in DOMAIN q : j > k => ~Link(q[j])
Mention(q, K, i) == \E k \in DOMAIN q : Fresh(q, K, i, k)

\* Every event about a clip that no change of it follows has this row.
Tells(q, i, v) ==
    \A k \in DOMAIN q :
        (Fresh(q, News, i, k) /\ \A j \in DOMAIN q : j > k => ~About(q[j], Changes, i)) =>
            q[k].row = v

\* The last status says whether the daemon is paused.
NoStatus(q) == \A k \in DOMAIN q : ~OfStatus(q[k])
LastStatus(q, p) ==
    \A k \in DOMAIN q :
        (OfStatus(q[k]) /\ \A j \in DOMAIN q : j > k => ~OfStatus(q[j])) => q[k].paused = p

LEMMA NewsKinds ==
    ASSUME NEW e, NEW i, About(e, News, i)
    PROVE  ~Link(e) /\ ~OfStatus(e)
BY DEF About, News, Link, OfStatus

LEMMA NewsSplit ==
    ASSUME NEW e, NEW i
    PROVE  About(e, News, i) <=> (About(e, Changes, i) \/ About(e, {"added"}, i))
BY DEF About, News, Changes

LEMMA AppendPlaces ==
    ASSUME NEW S, NEW q \in Seq(S), NEW e \in S
    PROVE  /\ Append(q, e) \in Seq(S)
           /\ Len(Append(q, e)) = Len(q) + 1
           /\ DOMAIN Append(q, e) = 1..(Len(q) + 1) /\ DOMAIN q = 1..Len(q)
           /\ Len(q) \in Nat
           /\ Append(q, e)[Len(q) + 1] = e
           /\ \A k \in 1..Len(q) : Append(q, e)[k] = q[k]
OBVIOUS

LEMMA TailPlaces ==
    ASSUME NEW S, NEW q \in Seq(S), q # <<>>
    PROVE  /\ Tail(q) \in Seq(S)
           /\ Head(q) = q[1] /\ Head(q) \in S
           /\ Len(q) \in Nat \ {0} /\ Len(Tail(q)) = Len(q) - 1
           /\ DOMAIN q = 1..Len(q) /\ DOMAIN Tail(q) = 1..(Len(q) - 1)
           /\ \A k \in 1..(Len(q) - 1) : Tail(q)[k] = q[k + 1]
OBVIOUS

LEMMA EmptyTells ==
    ASSUME NEW K, NEW i, NEW v
    PROVE  ~Mention(<<>>, K, i) /\ Tells(<<>>, i, v) /\ NoLink(<<>>) /\ NoStatus(<<>>)
BY DEF Mention, Tells, NoLink, NoStatus

LEMMA NothingTells ==
    ASSUME NEW q, NEW i, NEW v, \A k \in DOMAIN q : ~About(q[k], News, i)
    PROVE  Tells(q, i, v)
BY DEF Tells, Fresh

LEMMA AppendMention ==
    ASSUME NEW S, NEW q \in Seq(S), NEW e \in S, NEW K, NEW i, ~Link(e)
    PROVE  Mention(Append(q, e), K, i) <=> (Mention(q, K, i) \/ About(e, K, i))
<1>1. Mention(q, K, i) => Mention(Append(q, e), K, i)
  BY AppendPlaces DEF Mention, Fresh
<1>2. About(e, K, i) => Mention(Append(q, e), K, i)
  BY AppendPlaces DEF Mention, Fresh
<1>3. Mention(Append(q, e), K, i) => (Mention(q, K, i) \/ About(e, K, i))
  BY AppendPlaces DEF Mention, Fresh
<1> QED
  BY <1>1, <1>2, <1>3

LEMMA AppendTells ==
    ASSUME NEW S, NEW q \in Seq(S), NEW e \in S, NEW i, NEW v, ~Link(e),
           \/ Tells(q, i, v) /\ (About(e, News, i) => e.row = v)
           \/ About(e, Changes, i) /\ e.row = v
    PROVE  Tells(Append(q, e), i, v)
<1> DEFINE qe == Append(q, e)
<1> SUFFICES ASSUME NEW k \in DOMAIN qe, Fresh(qe, News, i, k),
                    \A j \in DOMAIN qe : j > k => ~About(qe[j], Changes, i)
             PROVE  qe[k].row = v
  BY DEF Tells
<1>1. CASE k = Len(q) + 1
  <2>1. qe[k] = e /\ About(e, News, i)
    BY <1>1, AppendPlaces DEF Fresh
  <2> QED
    BY <2>1
<1>2. CASE k \in 1..Len(q)
  <2>1. ~About(e, Changes, i)
    BY <1>2, AppendPlaces
  <2>2. Tells(q, i, v)
    BY <2>1
  <2>3. k \in DOMAIN q /\ qe[k] = q[k]
    BY <1>2, AppendPlaces
  <2>4. Fresh(q, News, i, k) /\ \A j \in DOMAIN q : j > k => ~About(q[j], Changes, i)
    BY <1>2, AppendPlaces DEF Fresh
  <2> QED
    BY <2>2, <2>3, <2>4 DEF Tells
<1> QED
  BY <1>1, <1>2, AppendPlaces

LEMMA AppendLink ==
    ASSUME NEW S, NEW q \in Seq(S), NEW e \in S, Link(e), NEW i, NEW v, NEW K, K \subseteq News
    PROVE  ~Mention(Append(q, e), K, i) /\ Tells(Append(q, e), i, v)
<1>1. ~About(e, News, i)
  BY NewsKinds
<1>2. ASSUME NEW k \in DOMAIN Append(q, e)
      PROVE  ~Fresh(Append(q, e), News, i, k)
  BY <1>1, AppendPlaces DEF Fresh
<1>3. ASSUME NEW k \in DOMAIN Append(q, e), Fresh(Append(q, e), K, i, k)
      PROVE  Fresh(Append(q, e), News, i, k)
  BY <1>3 DEF Fresh, About
<1> QED
  BY <1>2, <1>3 DEF Mention, Tells

LEMMA TailMention ==
    ASSUME NEW S, NEW q \in Seq(S), q # <<>>, NEW K, NEW i
    PROVE  /\ Mention(Tail(q), K, i) => Mention(q, K, i)
           /\ Mention(q, K, i) => (Mention(Tail(q), K, i) \/ About(Head(q), K, i))
<1>1. ASSUME NEW k \in DOMAIN Tail(q), Fresh(Tail(q), K, i, k)
      PROVE  k + 1 \in DOMAIN q /\ Fresh(q, K, i, k + 1)
  <2>1. k + 1 \in DOMAIN q /\ q[k + 1] = Tail(q)[k]
    BY TailPlaces
  <2>2. ASSUME NEW j \in DOMAIN q, j > k + 1
        PROVE  ~Link(q[j])
    <3>1. j - 1 \in DOMAIN Tail(q) /\ j - 1 > k /\ Tail(q)[j - 1] = q[j]
      BY <2>2, TailPlaces
    <3> QED
      BY <1>1, <3>1 DEF Fresh
  <2> QED
    BY <1>1, <2>1, <2>2 DEF Fresh
<1>2. ASSUME NEW k \in DOMAIN q, Fresh(q, K, i, k), k # 1
      PROVE  k - 1 \in DOMAIN Tail(q) /\ Fresh(Tail(q), K, i, k - 1)
  <2>1. k - 1 \in DOMAIN Tail(q) /\ q[k] = Tail(q)[k - 1]
    BY <1>2, TailPlaces
  <2>2. ASSUME NEW j \in DOMAIN Tail(q), j > k - 1
        PROVE  ~Link(Tail(q)[j])
    <3>1. j + 1 \in DOMAIN q /\ j + 1 > k /\ Tail(q)[j] = q[j + 1]
      BY <2>2, TailPlaces
    <3> QED
      BY <1>2, <3>1 DEF Fresh
  <2> QED
    BY <1>2, <2>1, <2>2 DEF Fresh
<1>3. Mention(Tail(q), K, i) => Mention(q, K, i)
  BY <1>1 DEF Mention
<1>4. ASSUME NEW k \in DOMAIN q, Fresh(q, K, i, k)
      PROVE  Mention(Tail(q), K, i) \/ About(Head(q), K, i)
  <2>1. CASE k = 1
    BY <1>4, <2>1, TailPlaces DEF Fresh
  <2>2. CASE k # 1
    BY <1>2, <1>4, <2>2 DEF Mention
  <2> QED
    BY <2>1, <2>2
<1> QED
  BY <1>3, <1>4 DEF Mention

LEMMA TailTells ==
    ASSUME NEW S, NEW q \in Seq(S), q # <<>>, NEW i, NEW v, Tells(q, i, v)
    PROVE  Tells(Tail(q), i, v)
<1> SUFFICES ASSUME NEW k \in DOMAIN Tail(q), Fresh(Tail(q), News, i, k),
                    \A j \in DOMAIN Tail(q) : j > k => ~About(Tail(q)[j], Changes, i)
             PROVE  Tail(q)[k].row = v
  BY DEF Tells
<1>1. k + 1 \in DOMAIN q /\ q[k + 1] = Tail(q)[k]
  BY TailPlaces
<1>2. ASSUME NEW j \in DOMAIN q, j > k + 1
      PROVE  ~Link(q[j]) /\ ~About(q[j], Changes, i)
  <2>1. j - 1 \in DOMAIN Tail(q) /\ j - 1 > k /\ Tail(q)[j - 1] = q[j]
    BY <1>2, TailPlaces
  <2> QED
    BY <2>1 DEF Fresh
<1> QED
  BY <1>1, <1>2 DEF Tells, Fresh

LEMMA HeadTells ==
    ASSUME NEW S, NEW q \in Seq(S), q # <<>>, NEW i, NEW v, Tells(q, i, v),
           About(Head(q), News, i), NoLink(q), ~Mention(Tail(q), Changes, i)
    PROVE  Head(q).row = v
<1>1. 1 \in DOMAIN q /\ q[1] = Head(q) /\ Fresh(q, News, i, 1)
  BY TailPlaces DEF Fresh, NoLink
<1>2. ASSUME NEW j \in DOMAIN q, j > 1
      PROVE  ~About(q[j], Changes, i)
  <2>1. j - 1 \in DOMAIN Tail(q) /\ Tail(q)[j - 1] = q[j]
    BY <1>2, TailPlaces
  <2>2. ASSUME NEW h \in DOMAIN Tail(q)
        PROVE  ~Link(Tail(q)[h])
    BY TailPlaces DEF NoLink
  <2> QED
    BY <2>1, <2>2 DEF Mention, Fresh
<1> QED
  BY <1>1, <1>2 DEF Tells

LEMMA LinkPlaces ==
    ASSUME NEW S, NEW q \in Seq(S), NEW e \in S
    PROVE  /\ NoLink(Append(q, e)) <=> (NoLink(q) /\ ~Link(e))
           /\ q # <<>> => (NoLink(q) <=> (~Link(Head(q)) /\ NoLink(Tail(q))))
<1>1. NoLink(Append(q, e)) => NoLink(q) /\ ~Link(e)
  BY AppendPlaces DEF NoLink
<1>2. NoLink(q) /\ ~Link(e) => NoLink(Append(q, e))
  BY AppendPlaces DEF NoLink
<1>3. ASSUME q # <<>>, NoLink(q)
      PROVE  ~Link(Head(q)) /\ NoLink(Tail(q))
  BY <1>3, TailPlaces DEF NoLink
<1>4. ASSUME q # <<>>, ~Link(Head(q)), NoLink(Tail(q)), NEW k \in DOMAIN q
      PROVE  ~Link(q[k])
  <2>1. CASE k = 1
    BY <1>4, <2>1, TailPlaces
  <2>2. CASE k # 1
    <3>1. k - 1 \in DOMAIN Tail(q) /\ Tail(q)[k - 1] = q[k]
      BY <1>4, <2>2, TailPlaces
    <3> QED
      BY <1>4, <3>1 DEF NoLink
  <2> QED
    BY <2>1, <2>2
<1> QED
  BY <1>1, <1>2, <1>3, <1>4 DEF NoLink

LEMMA AppendStatus ==
    ASSUME NEW S, NEW q \in Seq(S), NEW e \in S, NEW p
    PROVE  /\ NoStatus(Append(q, e)) <=> (NoStatus(q) /\ ~OfStatus(e))
           /\ (OfStatus(e) /\ e.paused = p) => LastStatus(Append(q, e), p)
           /\ (~OfStatus(e) /\ LastStatus(q, p)) => LastStatus(Append(q, e), p)
<1>1. NoStatus(Append(q, e)) => NoStatus(q) /\ ~OfStatus(e)
  BY AppendPlaces DEF NoStatus
<1>2. NoStatus(q) /\ ~OfStatus(e) => NoStatus(Append(q, e))
  BY AppendPlaces DEF NoStatus
<1>3. OfStatus(e) /\ e.paused = p => LastStatus(Append(q, e), p)
  BY AppendPlaces DEF LastStatus
<1>4. ASSUME ~OfStatus(e), LastStatus(q, p)
      PROVE  LastStatus(Append(q, e), p)
  BY <1>4, AppendPlaces DEF LastStatus
<1> QED
  BY <1>1, <1>2, <1>3, <1>4

LEMMA TailStatus ==
    ASSUME NEW S, NEW q \in Seq(S), q # <<>>, NEW p, LastStatus(q, p)
    PROVE  /\ LastStatus(Tail(q), p)
           /\ NoStatus(Tail(q)) => (NoStatus(q) \/ (OfStatus(Head(q)) /\ Head(q).paused = p))
<1>1. ASSUME NEW k \in DOMAIN Tail(q), OfStatus(Tail(q)[k]),
             \A j \in DOMAIN Tail(q) : j > k => ~OfStatus(Tail(q)[j])
      PROVE  Tail(q)[k].paused = p
  <2>1. k + 1 \in DOMAIN q /\ q[k + 1] = Tail(q)[k]
    BY TailPlaces
  <2>2. ASSUME NEW j \in DOMAIN q, j > k + 1
        PROVE  ~OfStatus(q[j])
    <3>1. j - 1 \in DOMAIN Tail(q) /\ j - 1 > k /\ Tail(q)[j - 1] = q[j]
      BY <2>2, TailPlaces
    <3> QED
      BY <1>1, <3>1
  <2> QED
    BY <1>1, <2>1, <2>2 DEF LastStatus
<1>2. ASSUME NoStatus(Tail(q)), NEW j \in DOMAIN q, j > 1
      PROVE  ~OfStatus(q[j])
  <2>1. j - 1 \in DOMAIN Tail(q) /\ Tail(q)[j - 1] = q[j]
    BY <1>2, TailPlaces
  <2> QED
    BY <1>2, <2>1 DEF NoStatus
<1>3. 1 \in DOMAIN q /\ q[1] = Head(q)
  BY TailPlaces
<1>4. ASSUME NoStatus(Tail(q)), OfStatus(Head(q))
      PROVE  Head(q).paused = p
  BY <1>2, <1>3, <1>4 DEF LastStatus
<1>5. ASSUME NoStatus(Tail(q)), ~OfStatus(Head(q))
      PROVE  NoStatus(q)
  <2>1. ASSUME NEW j \in DOMAIN q
        PROVE  ~OfStatus(q[j])
    <3>1. j = 1 \/ j > 1
      BY TailPlaces
    <3> QED
      BY <1>2, <1>3, <1>5, <3>1
  <2> QED
    BY <2>1 DEF NoStatus
<1> QED
  BY <1>1, <1>4, <1>5 DEF LastStatus

\* A receiver that lags loses the oldest event; what it is sent is never lost at once.
LEMMA KeptIs ==
    ASSUME NEW q \in Seq(Event), Len(q) <= Buffer, NEW e \in Event
    PROVE  \/ Kept(Append(q, e)) = Append(q, e) /\ Len(q) < Buffer
           \/ /\ q # <<>> /\ Kept(Append(q, e)) = Append(Tail(q), e)
              /\ Lost(Append(q, e)) = {Head(q)}
<1> DEFINE qe == Append(q, e)
<1>1. qe \in Seq(Event) /\ Len(qe) = Len(q) + 1 /\ Len(q) \in Nat /\ Buffer \in Nat \ {0}
  BY UiAssumption
<1>2. CASE Len(q) < Buffer
  <2>1. ~(Len(qe) > Buffer)
    BY <1>1, <1>2
  <2>2. Kept(qe) = qe
    BY <2>1 DEF Kept
  <2> QED
    BY <1>2, <2>2
<1>3. CASE Len(q) = Buffer
  <2>1. q # <<>>
    BY <1>1, <1>3
  <2>2. Kept(qe) = SubSeq(qe, 2, Len(q) + 1)
    BY <1>1, <1>3 DEF Kept
  <2>3. Lost(qe) = {qe[1]}
    BY <1>1, <1>3 DEF Lost
  <2>4. qe[1] = Head(q)
    BY <2>1
  <2>5. SubSeq(qe, 2, Len(q) + 1) = Append(Tail(q), e)
    <3>1. Len(SubSeq(qe, 2, Len(q) + 1)) = Len(q)
      BY <1>1, <2>1
    <3>2. Append(Tail(q), e) \in Seq(Event) /\ Len(Append(Tail(q), e)) = Len(q)
      BY <2>1
    <3>3. SubSeq(qe, 2, Len(q) + 1) \in Seq(Event)
      BY <1>1, <2>1, SubSeqProperties
    <3>4. ASSUME NEW k \in 1..Len(q)
          PROVE  SubSeq(qe, 2, Len(q) + 1)[k] = Append(Tail(q), e)[k]
      <4>1. SubSeq(qe, 2, Len(q) + 1)[k] = qe[k + 1]
        BY <1>1, <2>1
      <4>2. Append(Tail(q), e)[k] = IF k = Len(q) THEN e ELSE q[k + 1]
        BY <2>1, TailPlaces
      <4>3. qe[k + 1] = IF k = Len(q) THEN e ELSE q[k + 1]
        BY AppendPlaces
      <4> QED
        BY <4>1, <4>2, <4>3
    <3> QED
      BY <3>1, <3>2, <3>3, <3>4, SeqEqual
  <2> QED
    BY <2>1, <2>2, <2>3, <2>4, <2>5
<1> QED
  BY <1>1, <1>2, <1>3

----------------------------------------------------------------------------
(* What a task still has to do, and which calls wait. *)

Step == {"reread", "tell", "look", "report", "answer"}
Rank == [reread |-> 1, tell |-> 2, look |-> 3, report |-> 4, answer |-> 5]
Ordered(s) == \A j, k \in DOMAIN s : j < k => Rank[s[j]] < Rank[s[k]]
Has(s, x) == \E k \in DOMAIN s : s[k] = x
JobSet == [steps : Seq(Step), kind : News, id : Id \cup {0}, row : Row, paused : BOOLEAN]

Who == {"nobody", "list", "task", "toggle", "user"}
Request == {"none", "page", "status", "pin", "delete", "pause", "settings"}
CallSet == [who : Who, req : Request, id : Id \cup {0}, to : Row,
            stage : {"none", "asked", "handled", "answered", "unanswered"},
            mine : BOOLEAN, overtaken : BOOLEAN, page : [Id -> Row] \cup {<<>>},
            paused : BOOLEAN]

LEMMA RankTypes == \A x \in Step : Rank[x] \in 1..5
BY DEF Step, Rank

LEMMA TailSteps ==
    ASSUME NEW s \in Seq(Step), Ordered(s), s # <<>>
    PROVE  /\ Tail(s) \in Seq(Step) /\ Ordered(Tail(s)) /\ Head(s) \in Step
           /\ \A x : Has(Tail(s), x) <=> (Has(s, x) /\ x # Head(s))
           /\ \A x : Has(s, x) => Rank[Head(s)] <= Rank[x]
           /\ Has(s, Head(s))
<1>1. Tail(s) \in Seq(Step) /\ Head(s) \in Step /\ Head(s) = s[1] /\ 1 \in DOMAIN s
  BY TailPlaces
<1>2. \A k \in DOMAIN Tail(s) : k + 1 \in DOMAIN s /\ Tail(s)[k] = s[k + 1]
  BY TailPlaces
<1>3. \A k \in DOMAIN s : k = 1 \/ (k - 1 \in DOMAIN Tail(s) /\ Tail(s)[k - 1] = s[k] /\ 1 < k)
  BY TailPlaces
<1>4. \A k \in DOMAIN s : s[k] \in Step /\ Rank[s[k]] \in 1..5
  BY RankTypes
<1>5. Ordered(Tail(s))
  <2> SUFFICES ASSUME NEW j \in DOMAIN Tail(s), NEW k \in DOMAIN Tail(s), j < k
               PROVE  Rank[Tail(s)[j]] < Rank[Tail(s)[k]]
    BY DEF Ordered
  <2>1. j + 1 < k + 1
    BY TailPlaces
  <2> QED
    BY <1>2, <2>1 DEF Ordered
<1>6. \A k \in DOMAIN s : k = 1 \/ Rank[s[1]] < Rank[s[k]]
  BY <1>1, <1>3 DEF Ordered
<1>7. ASSUME NEW x, Has(Tail(s), x)
      PROVE  Has(s, x) /\ x # Head(s)
  <2>1. PICK k \in DOMAIN Tail(s) : Tail(s)[k] = x
    BY <1>7 DEF Has
  <2>2. k + 1 \in DOMAIN s /\ s[k + 1] = x /\ k + 1 # 1
    BY <1>2, <2>1, TailPlaces
  <2> QED
    BY <1>1, <1>4, <1>6, <2>2 DEF Has
<1>8. ASSUME NEW x, Has(s, x), x # Head(s)
      PROVE  Has(Tail(s), x)
  BY <1>1, <1>3, <1>8 DEF Has
<1>9. ASSUME NEW x, Has(s, x)
      PROVE  Rank[Head(s)] <= Rank[x]
  BY <1>1, <1>4, <1>6, <1>9 DEF Has
<1> QED
  BY <1>1, <1>5, <1>7, <1>8, <1>9 DEF Has

LEMMA NoSteps ==
    Ordered(<<>>) /\ (\A x : ~Has(<<>>, x)) /\ NoJob \in JobSet /\ NoJob.steps = <<>>
<1>1. <<>> \in Seq(Step)
  OBVIOUS
<1> QED
  BY <1>1 DEF Ordered, Has, NoJob, JobSet, News, Row

\* The plans that tasks begin with.
Plans == {<<"tell", "look", "report">>, <<"reread", "tell", "look", "report">>, <<"tell">>,
          <<"reread", "tell">>, <<"reread", "tell", "answer">>,
          <<"tell", "look", "report", "answer">>, <<"look", "report", "answer">>}

LEMMA PlanSteps ==
    ASSUME NEW s \in Plans
    PROVE  s \in Seq(Step) /\ Ordered(s) /\ s # <<>>
<1>1. CASE s = <<"tell", "look", "report">>
  BY <1>1 DEF Step, Ordered, Rank
<1>2. CASE s = <<"reread", "tell", "look", "report">>
  BY <1>2 DEF Step, Ordered, Rank
<1>3. CASE s = <<"tell">>
  BY <1>3 DEF Step, Ordered, Rank
<1>4. CASE s = <<"reread", "tell">>
  BY <1>4 DEF Step, Ordered, Rank
<1>5. CASE s = <<"reread", "tell", "answer">>
  BY <1>5 DEF Step, Ordered, Rank
<1>6. CASE s = <<"tell", "look", "report", "answer">>
  BY <1>6 DEF Step, Ordered, Rank
<1>7. CASE s = <<"look", "report", "answer">>
  BY <1>7 DEF Step, Ordered, Rank
<1> QED
  BY <1>1, <1>2, <1>3, <1>4, <1>5, <1>6, <1>7 DEF Plans

LEMMA PlanHas ==
    /\ \A x : Has(<<"tell", "look", "report">>, x) <=> x \in {"tell", "look", "report"}
    /\ \A x : Has(<<"reread", "tell", "look", "report">>, x) <=>
                    x \in {"reread", "tell", "look", "report"}
    /\ \A x : Has(<<"tell">>, x) <=> x = "tell"
    /\ \A x : Has(<<"reread", "tell">>, x) <=> x \in {"reread", "tell"}
    /\ \A x : Has(<<"reread", "tell", "answer">>, x) <=> x \in {"reread", "tell", "answer"}
    /\ \A x : Has(<<"tell", "look", "report", "answer">>, x) <=>
                    x \in {"tell", "look", "report", "answer"}
    /\ \A x : Has(<<"look", "report", "answer">>, x) <=> x \in {"look", "report", "answer"}
<1>1. \A x : Has(<<"tell", "look", "report">>, x) <=> x \in {"tell", "look", "report"}
  <2>1. DOMAIN <<"tell", "look", "report">> = {1, 2, 3}
    OBVIOUS
  <2> QED
    BY <2>1 DEF Has
<1>2. \A x : Has(<<"reread", "tell", "look", "report">>, x) <=>
                    x \in {"reread", "tell", "look", "report"}
  <2>1. DOMAIN <<"reread", "tell", "look", "report">> = {1, 2, 3, 4}
    OBVIOUS
  <2> QED
    BY <2>1 DEF Has
<1>3. \A x : Has(<<"tell">>, x) <=> x = "tell"
  <2>1. DOMAIN <<"tell">> = {1}
    OBVIOUS
  <2> QED
    BY <2>1 DEF Has
<1>4. \A x : Has(<<"reread", "tell">>, x) <=> x \in {"reread", "tell"}
  <2>1. DOMAIN <<"reread", "tell">> = {1, 2}
    OBVIOUS
  <2> QED
    BY <2>1 DEF Has
<1>5. \A x : Has(<<"reread", "tell", "answer">>, x) <=> x \in {"reread", "tell", "answer"}
  <2>1. DOMAIN <<"reread", "tell", "answer">> = {1, 2, 3}
    OBVIOUS
  <2> QED
    BY <2>1 DEF Has
<1>6. \A x : Has(<<"tell", "look", "report", "answer">>, x) <=>
                    x \in {"tell", "look", "report", "answer"}
  <2>1. DOMAIN <<"tell", "look", "report", "answer">> = {1, 2, 3, 4}
    OBVIOUS
  <2> QED
    BY <2>1 DEF Has
<1>7. \A x : Has(<<"look", "report", "answer">>, x) <=> x \in {"look", "report", "answer"}
  <2>1. DOMAIN <<"look", "report", "answer">> = {1, 2, 3}
    OBVIOUS
  <2> QED
    BY <2>1 DEF Has
<1> QED
  BY <1>1, <1>2, <1>3, <1>4, <1>5, <1>6, <1>7

\* A plan that begins, and a step that is done, leave the other tasks alone.
LEMMA BeginIs ==
    ASSUME job \in [Task -> JobSet], NEW t \in Task, NEW kind \in News, NEW i \in Id \cup {0},
           NEW row \in Row, NEW s \in Plans, Begin(t, kind, i, row, s)
    PROVE  /\ job' \in [Task -> JobSet]
           /\ \A u \in Task \ {t} : job'[u] = job[u]
           /\ job'[t].steps = s /\ job'[t].kind = kind /\ job'[t].id = i /\ job'[t].row = row
<1> DEFINE j == [steps |-> s, kind |-> kind, id |-> i, row |-> row, paused |-> FALSE]
<1>1. j \in JobSet
  BY PlanSteps DEF JobSet
<1>2. job' = [job EXCEPT ![t] = j]
  BY DEF Begin
<1>3. job' \in [Task -> JobSet] /\ job'[t] = j /\ \A u \in Task \ {t} : job'[u] = job[u]
  BY <1>1, <1>2, Zenon
<1> QED
  BY <1>3

LEMMA DoneIs ==
    ASSUME job \in [Task -> JobSet], NEW t \in Task, job[t].steps # <<>>, Ordered(job[t].steps),
           NEW j \in JobSet, j.steps = job[t].steps, Done(t, j)
    PROVE  /\ job' \in [Task -> JobSet]
           /\ \A u \in Task \ {t} : job'[u] = job[u]
           /\ job'[t].steps = Tail(job[t].steps)
           /\ Tail(job[t].steps) # <<>> =>
                 /\ job'[t].kind = j.kind /\ job'[t].id = j.id
                 /\ job'[t].row = j.row /\ job'[t].paused = j.paused
<1>1. j.steps \in Seq(Step) /\ Tail(j.steps) \in Seq(Step)
  BY TailSteps DEF JobSet
<1> DEFINE n == IF Len(j.steps) = 1 THEN NoJob ELSE [j EXCEPT !.steps = Tail(@)]
<1>2. job' = [job EXCEPT ![t] = n]
  BY DEF Done
<1>3. [j EXCEPT !.steps = Tail(@)] \in JobSet /\ [j EXCEPT !.steps = Tail(@)].steps = Tail(j.steps)
  BY <1>1 DEF JobSet
<1>4. n \in JobSet
  BY <1>3, NoSteps
<1>5. job' \in [Task -> JobSet] /\ job'[t] = n /\ \A u \in Task \ {t} : job'[u] = job[u]
  BY <1>2, <1>4, Zenon
<1>6. CASE Len(j.steps) = 1
  <2>1. Len(Tail(j.steps)) = 0
    BY <1>1, <1>6
  <2>2. Tail(j.steps) = <<>>
    BY <1>1, <2>1, EmptySeq
  <2> QED
    BY <1>5, <1>6, <2>2, NoSteps
<1>7. CASE Len(j.steps) # 1
  <2>1. n = [j EXCEPT !.steps = Tail(@)]
    BY <1>7
  <2>2. n.steps = Tail(j.steps) /\ n.kind = j.kind /\ n.id = j.id /\ n.row = j.row
        /\ n.paused = j.paused
    BY <2>1 DEF JobSet
  <2> QED
    BY <1>5, <2>2
<1> QED
  BY <1>6, <1>7

GoodCall(c, r) ==
    /\ (c.req = "page") <=> (c.who = "list")
    /\ c.who = "task" => c.req = "status"
    /\ c.req = "status" => c.who \in {"task", "toggle"}
    /\ c.req \in {"pin", "delete"} => (c.id \in Id /\ r[c.id] # "none")
    /\ c.req = "pin" => Visible(c.to)
Waiting(q, r) == \A k \in DOMAIN q : q[k].stage = "asked" /\ GoodCall(q[k], r)
TaskWaits(q) == \E k \in DOMAIN q : q[k].who = "task"
OneTask(q) == \A j, k \in DOMAIN q : (q[j].who = "task" /\ q[k].who = "task") => j = k

\* A fetch whose answer still counts, and a request about a clip.
Fetches(c) == c.who = "list" /\ c.mine
FetchWaits(q) == \E k \in DOMAIN q : Fetches(q[k])
Asks(c, R, i) == c.req \in R /\ c.id = i
AskWaits(q, R, i) == \E k \in DOMAIN q : Asks(q[k], R, i)

LEMMA CallTypes ==
    ASSUME NEW who \in Who, NEW req \in Request
    PROVE  /\ Call(who, req) \in CallSet /\ Call(who, req).who = who /\ Call(who, req).req = req
           /\ Call(who, req).stage = "asked" /\ Call(who, req).mine
           /\ ~Call(who, req).overtaken
BY DEF Call, CallSet, Row, Who, Request

LEMMA NoCallType ==
    ASSUME NEW r
    PROVE  /\ NoCall \in CallSet /\ NoCall.stage = "none" /\ GoodCall(NoCall, r)
           /\ NoCall.who = "nobody" /\ NoCall.req = "none"
BY DEF NoCall, Call, CallSet, Row, Who, Request, GoodCall

LEMMA SupersededIs ==
    ASSUME NEW c \in CallSet
    PROVE  /\ Superseded(c) \in CallSet /\ ~Fetches(Superseded(c))
           /\ Superseded(c).who = c.who /\ Superseded(c).req = c.req /\ Superseded(c).id = c.id
           /\ Superseded(c).to = c.to /\ Superseded(c).stage = c.stage
           /\ Superseded(c).overtaken = c.overtaken /\ Superseded(c).page = c.page
           /\ Superseded(c).paused = c.paused
<1>1. (c.mine /\ c.who # "list") \in BOOLEAN
  OBVIOUS
<1>2. Superseded(c) = [c EXCEPT !.mine = (c.mine /\ c.who # "list")]
  BY DEF Superseded
<1> QED
  BY <1>1, <1>2 DEF CallSet, Fetches

LEMMA SupersededGood ==
    ASSUME NEW c \in CallSet, NEW r, NEW R, NEW i
    PROVE  /\ GoodCall(Superseded(c), r) <=> GoodCall(c, r)
           /\ Asks(Superseded(c), R, i) <=> Asks(c, R, i)
BY SupersededIs DEF GoodCall, Asks

LEMMA FetchingIs ==
    ASSUME NEW q \in Seq(CallSet)
    PROVE  /\ Fetching(q) \in Seq(CallSet)
           /\ Len(q) \in Nat /\ DOMAIN q = 1..Len(q) /\ DOMAIN Fetching(q) = 1..(Len(q) + 1)
           /\ Fetching(q)[Len(q) + 1] = Call("list", "page")
           /\ \A k \in 1..Len(q) : Fetching(q)[k] = Superseded(q[k]) /\ q[k] \in CallSet
<1> DEFINE s == [k \in DOMAIN q |-> Superseded(q[k])]
<1>1. Call("list", "page") \in CallSet
  BY CallTypes DEF Who, Request
<1>2. Len(q) \in Nat /\ DOMAIN q = 1..Len(q) /\ \A k \in 1..Len(q) : q[k] \in CallSet
  OBVIOUS
<1>3. s \in [1..Len(q) -> CallSet]
  BY <1>2, SupersededIs
<1>4. s \in Seq(CallSet) /\ Len(s) = Len(q)
  BY <1>2, <1>3
<1>5. \A k \in 1..Len(q) : s[k] = Superseded(q[k])
  BY <1>2
<1>6. Fetching(q) = Append(s, Call("list", "page"))
  BY DEF Fetching
<1> HIDE DEF s
<1> QED
  BY <1>1, <1>2, <1>4, <1>5, <1>6, AppendPlaces

LEMMA AppendCalls ==
    ASSUME NEW q \in Seq(CallSet), NEW c \in CallSet, NEW r, NEW R, NEW i
    PROVE  /\ (Waiting(q, r) /\ c.stage = "asked" /\ GoodCall(c, r)) => Waiting(Append(q, c), r)
           /\ TaskWaits(Append(q, c)) <=> (TaskWaits(q) \/ c.who = "task")
           /\ (OneTask(q) /\ ~(TaskWaits(q) /\ c.who = "task")) => OneTask(Append(q, c))
           /\ FetchWaits(Append(q, c)) <=> (FetchWaits(q) \/ Fetches(c))
           /\ AskWaits(Append(q, c), R, i) <=> (AskWaits(q, R, i) \/ Asks(c, R, i))
<1>1. /\ DOMAIN Append(q, c) = 1..(Len(q) + 1) /\ DOMAIN q = 1..Len(q) /\ Len(q) \in Nat
      /\ Append(q, c)[Len(q) + 1] = c /\ \A k \in 1..Len(q) : Append(q, c)[k] = q[k]
  BY AppendPlaces
<1>2. \A k \in 1..(Len(q) + 1) : k \in 1..Len(q) \/ k = Len(q) + 1
  BY <1>1
<1>3. Len(q) + 1 \in 1..(Len(q) + 1) /\ \A k \in 1..Len(q) : k \in 1..(Len(q) + 1)
  BY <1>1
<1>4. (Waiting(q, r) /\ c.stage = "asked" /\ GoodCall(c, r)) => Waiting(Append(q, c), r)
  BY <1>1, <1>2 DEF Waiting
<1>5. TaskWaits(Append(q, c)) <=> (TaskWaits(q) \/ c.who = "task")
  BY <1>1, <1>2, <1>3 DEF TaskWaits
<1>6. (OneTask(q) /\ ~(TaskWaits(q) /\ c.who = "task")) => OneTask(Append(q, c))
  BY <1>1, <1>2, <1>3 DEF TaskWaits, OneTask
<1>7. FetchWaits(Append(q, c)) <=> (FetchWaits(q) \/ Fetches(c))
  BY <1>1, <1>2, <1>3 DEF FetchWaits
<1>8. AskWaits(Append(q, c), R, i) <=> (AskWaits(q, R, i) \/ Asks(c, R, i))
  BY <1>1, <1>2, <1>3 DEF AskWaits
<1> QED
  BY <1>4, <1>5, <1>6, <1>7, <1>8

LEMMA TailCalls ==
    ASSUME NEW q \in Seq(CallSet), q # <<>>, NEW r, NEW R, NEW i
    PROVE  /\ Waiting(q, r) => (/\ Waiting(Tail(q), r) /\ Head(q).stage = "asked"
                                /\ GoodCall(Head(q), r))
           /\ TaskWaits(q) <=> (TaskWaits(Tail(q)) \/ Head(q).who = "task")
           /\ OneTask(q) => (OneTask(Tail(q)) /\ ~(TaskWaits(Tail(q)) /\ Head(q).who = "task"))
           /\ FetchWaits(q) <=> (FetchWaits(Tail(q)) \/ Fetches(Head(q)))
           /\ AskWaits(q, R, i) <=> (AskWaits(Tail(q), R, i) \/ Asks(Head(q), R, i))
<1>1. /\ DOMAIN Tail(q) = 1..(Len(q) - 1) /\ DOMAIN q = 1..Len(q) /\ Len(q) \in Nat \ {0}
      /\ Head(q) = q[1] /\ \A k \in 1..(Len(q) - 1) : Tail(q)[k] = q[k + 1]
  BY TailPlaces
<1>2. \A k \in DOMAIN q : k = 1 \/ (k - 1 \in DOMAIN Tail(q) /\ Tail(q)[k - 1] = q[k])
  BY <1>1
<1>3. \A k \in DOMAIN Tail(q) : k + 1 \in DOMAIN q /\ Tail(q)[k] = q[k + 1] /\ k + 1 # 1
  BY <1>1
<1>4. 1 \in DOMAIN q /\ Head(q) = q[1]
  BY <1>1
<1>5. Waiting(q, r) => (Waiting(Tail(q), r) /\ Head(q).stage = "asked" /\ GoodCall(Head(q), r))
  BY <1>3, <1>4 DEF Waiting
<1>6. TaskWaits(q) <=> (TaskWaits(Tail(q)) \/ Head(q).who = "task")
  BY <1>2, <1>3, <1>4, ZenonT(60) DEF TaskWaits
<1>7. OneTask(q) => (OneTask(Tail(q)) /\ ~(TaskWaits(Tail(q)) /\ Head(q).who = "task"))
  <2> SUFFICES ASSUME OneTask(q)
               PROVE  OneTask(Tail(q)) /\ ~(TaskWaits(Tail(q)) /\ Head(q).who = "task")
    OBVIOUS
  <2>1. OneTask(Tail(q))
    <3> SUFFICES ASSUME NEW j \in DOMAIN Tail(q), NEW k \in DOMAIN Tail(q),
                        Tail(q)[j].who = "task", Tail(q)[k].who = "task"
                 PROVE  j = k
      BY DEF OneTask
    <3>1. j + 1 = k + 1
      BY <1>3 DEF OneTask
    <3> QED
      BY <1>1, <3>1
  <2>2. ~(TaskWaits(Tail(q)) /\ Head(q).who = "task")
    BY <1>3, <1>4 DEF TaskWaits, OneTask
  <2> QED
    BY <2>1, <2>2
<1>8. FetchWaits(q) <=> (FetchWaits(Tail(q)) \/ Fetches(Head(q)))
  BY <1>2, <1>3, <1>4 DEF FetchWaits
<1>9. AskWaits(q, R, i) <=> (AskWaits(Tail(q), R, i) \/ Asks(Head(q), R, i))
  BY <1>2, <1>3, <1>4 DEF AskWaits
<1> QED
  BY <1>5, <1>6, <1>7, <1>8, <1>9

LEMMA FetchingCalls ==
    ASSUME NEW q \in Seq(CallSet), NEW r, NEW R, NEW i, "page" \notin R
    PROVE  /\ Waiting(q, r) => Waiting(Fetching(q), r)
           /\ TaskWaits(Fetching(q)) <=> TaskWaits(q)
           /\ OneTask(q) => OneTask(Fetching(q))
           /\ FetchWaits(Fetching(q))
           /\ AskWaits(Fetching(q), R, i) <=> AskWaits(q, R, i)
<1> DEFINE f == Fetching(q)  c == Call("list", "page")
<1>1. /\ DOMAIN q = 1..Len(q) /\ DOMAIN f = 1..(Len(q) + 1) /\ Len(q) \in Nat
      /\ f[Len(q) + 1] = c
      /\ \A k \in 1..Len(q) : f[k] = Superseded(q[k]) /\ q[k] \in CallSet
  BY FetchingIs
<1>2. \A k \in 1..(Len(q) + 1) : k \in 1..Len(q) \/ k = Len(q) + 1
  BY <1>1
<1>3. Len(q) + 1 \in 1..(Len(q) + 1) /\ \A k \in 1..Len(q) : k \in 1..(Len(q) + 1)
  BY <1>1
<1>4. /\ c.who = "list" /\ c.req = "page" /\ c.stage = "asked" /\ c.mine /\ GoodCall(c, r)
      /\ Fetches(c) /\ ~Asks(c, R, i)
  BY DEF Call, GoodCall, Fetches, Asks
<1>5. \A k \in 1..Len(q) : /\ f[k].who = q[k].who /\ f[k].stage = q[k].stage
                           /\ GoodCall(f[k], r) <=> GoodCall(q[k], r)
                           /\ Asks(f[k], R, i) <=> Asks(q[k], R, i)
  BY <1>1, SupersededIs, SupersededGood
<1> HIDE DEF f, c
<1>6. Waiting(q, r) => Waiting(f, r)
  BY <1>1, <1>2, <1>4, <1>5 DEF Waiting
<1>7. TaskWaits(f) <=> TaskWaits(q)
  BY <1>1, <1>2, <1>3, <1>4, <1>5 DEF TaskWaits
<1>8. OneTask(q) => OneTask(f)
  BY <1>1, <1>2, <1>3, <1>4, <1>5 DEF OneTask
<1>9. FetchWaits(f)
  BY <1>1, <1>3, <1>4 DEF FetchWaits
<1>10. AskWaits(f, R, i) <=> AskWaits(q, R, i)
  BY <1>1, <1>2, <1>3, <1>4, <1>5 DEF AskWaits
<1> QED
  BY <1>6, <1>7, <1>8, <1>9, <1>10 DEF f

----------------------------------------------------------------------------
(* Types, wiring, and what is never said of a clip. *)

Phase == {"off", "commands", "events", "connected", "asking", "streaming"}
InTouch == {"connected", "asking", "streaming"}

DaemonTypes ==
    /\ up \in BOOLEAN /\ rows \in [Id -> Row] /\ paused \in BOOLEAN /\ hotkey \in Hotkey
    /\ job \in [Task -> JobSet]
EventTypes ==
    /\ queue \in Seq(Event) /\ Len(queue) <= Buffer /\ listening \in BOOLEAN
    /\ inbox \in Seq(Event)
    /\ crossed \subseteq Id /\ listDoubt \in BOOLEAN /\ statusDoubt \in BOOLEAN
AppTypes ==
    /\ phase \in Phase /\ client \in {"none", "open"} /\ alive \in BOOLEAN
    /\ tray \in [connected : BOOLEAN, paused : BOOLEAN] /\ registered \in Hotkey
CallTypesHold == current \in CallSet /\ waiting \in Seq(CallSet)
ViewTypes == list \in [Id -> Row] /\ failed \in BOOLEAN
BoundTypes ==
    /\ ops \in 0..MaxOps /\ retries \in 0..MaxRetries /\ stops \in 0..MaxStops
    /\ heard \subseteq {"connected", "added", "updated", "removed"}
Types ==
    DaemonTypes /\ EventTypes /\ AppTypes /\ CallTypesHold /\ ViewTypes /\ BoundTypes

\* Nothing is said of a clip that is not in the table, and only deleted ones are
\* said to be deleted.
TrueRow(v, r, i) == (v # "none" => r[i] # "none") /\ (v = "deleted" => r[i] = "deleted")
TrueEvent(e, r) ==
    e.kind \in News =>
        /\ e.id \in Id /\ e.row # "none" /\ TrueRow(e.row, r, e.id)
        /\ e.kind = "added" => e.row = "live"
        /\ e.kind = "removed" => e.row = "deleted"
TrueJob(j, r) ==
    /\ Has(j.steps, "tell") =>
          /\ j.id \in Id /\ r[j.id] # "none" /\ TrueRow(j.row, r, j.id)
          /\ j.kind = "added" => j.row = "live"
          /\ j.kind = "removed" => j.row = "deleted"
          /\ j.row = "none" => Has(j.steps, "reread")
    /\ Has(j.steps, "reread") => (Has(j.steps, "tell") /\ j.kind = "updated")
TruePage(p, r) == p \in [Id -> Row] /\ \A i \in Id : TrueRow(p[i], r, i)

Jobs == \A t \in Task : Ordered(job[t].steps) /\ TrueJob(job[t], rows)
Sendable(r) == {e \in Event : TrueEvent(e, r) /\ ~Link(e)}
Passable(r) == {e \in Event : TrueEvent(e, r) /\ ~OfStatus(e)}
Events == queue \in Seq(Sendable(rows)) /\ inbox \in Seq(Passable(rows))
Shown ==
    /\ TruePage(list, rows)
    /\ (current.req = "page" /\ current.stage = "answered") => TruePage(current.page, rows)
Calls ==
    /\ Waiting(waiting, rows) /\ GoodCall(current, rows)
    /\ current.stage = "handled" => current.req \notin {"page", "status"}
    /\ Has(job["handler"].steps, "answer") => (alive /\ current.stage = "handled")
Tasks ==
    /\ OneTask(waiting)
    /\ TaskWaits(waiting) => (phase = "asking" /\ current.who # "task")
    /\ current.who = "task" => phase = "asking"
Wiring ==
    /\ listening => (up /\ alive)
    /\ alive => up
    /\ (client = "open") <=> (phase \in InTouch)
    /\ tray.connected => phase = "streaming"
    /\ (alive /\ phase \in InTouch \cup {"events"}) => listening

Base == Types /\ Jobs /\ Events /\ Shown /\ Calls /\ Tasks /\ Wiring

\* The table only goes on: rows stay, deleted ones stay deleted.
Ahead == \A i \in Id : TrueRow(rows[i], rows', i)

LEMMA AheadTrue ==
    ASSUME Ahead, NEW v, NEW i \in Id, TrueRow(v, rows, i)
    PROVE  TrueRow(v, rows', i)
BY DEF Ahead, TrueRow

LEMMA AheadEvent ==
    ASSUME Ahead, NEW e, TrueEvent(e, rows)
    PROVE  TrueEvent(e, rows')
BY AheadTrue DEF TrueEvent

LEMMA AheadJob ==
    ASSUME Ahead, NEW j, TrueJob(j, rows)
    PROVE  TrueJob(j, rows')
BY AheadTrue DEF TrueJob, Ahead, TrueRow

LEMMA AheadPage ==
    ASSUME Ahead, NEW p, TruePage(p, rows)
    PROVE  TruePage(p, rows')
BY AheadTrue DEF TruePage

LEMMA AheadCall ==
    ASSUME Ahead, NEW c, GoodCall(c, rows)
    PROVE  GoodCall(c, rows')
BY DEF Ahead, TrueRow, GoodCall

LEMMA AheadWaiting ==
    ASSUME Ahead, NEW q, Waiting(q, rows)
    PROVE  Waiting(q, rows')
BY AheadCall DEF Waiting

\* A task writes to the row of a clip, and is going to tell of it.
Plan(kind) == {s \in Plans : Head(s) = IF kind = "updated" THEN "reread" ELSE "tell"}
Said(kind) == IF kind = "added" THEN "live" ELSE IF kind = "removed" THEN "deleted" ELSE "none"
WriteOf(old, new, kind) ==
    \/ kind = "added" /\ old = "none" /\ new = "live"
    \/ kind = "updated" /\ old # "none" /\ new # "none" /\ (old = "deleted" => new = "deleted")
    \/ kind = "removed" /\ old # "none" /\ new = "deleted"
Writes(t, i, v, kind, s) ==
    /\ rows' = [rows EXCEPT ![i] = v]
    /\ WriteOf(rows[i], v, kind)
    /\ s \in Plan(kind) /\ Begin(t, kind, i, Said(kind), s)

LEMMA PlanFacts ==
    ASSUME NEW kind, NEW s \in Plan(kind)
    PROVE  /\ s \in Plans /\ Has(s, "tell")
           /\ Has(s, "reread") <=> kind = "updated"
<1>1. s \in Plans /\ Head(s) = IF kind = "updated" THEN "reread" ELSE "tell"
  BY DEF Plan
<1>2. CASE s = <<"tell", "look", "report">>
  BY <1>1, <1>2, PlanHas
<1>3. CASE s = <<"reread", "tell", "look", "report">>
  BY <1>1, <1>3, PlanHas
<1>4. CASE s = <<"tell">>
  BY <1>1, <1>4, PlanHas
<1>5. CASE s = <<"reread", "tell">>
  BY <1>1, <1>5, PlanHas
<1>6. CASE s = <<"reread", "tell", "answer">>
  BY <1>1, <1>6, PlanHas
<1>7. CASE s = <<"tell", "look", "report", "answer">>
  BY <1>1, <1>7, PlanHas
<1>8. CASE s = <<"look", "report", "answer">>
  BY <1>1, <1>8
<1> QED
  BY <1>1, <1>2, <1>3, <1>4, <1>5, <1>6, <1>7, <1>8 DEF Plans

LEMMA WriteFacts ==
    ASSUME DaemonTypes, Jobs, NEW t \in Task, NEW i \in Id, NEW v \in Row,
           NEW kind \in News, NEW s, Writes(t, i, v, kind, s)
    PROVE  /\ rows' \in [Id -> Row] /\ Ahead /\ \A h \in Id \ {i} : rows'[h] = rows[h]
           /\ rows'[i] = v /\ WriteOf(rows[i], rows'[i], kind)
           /\ job' \in [Task -> JobSet] /\ \A u \in Task \ {t} : job'[u] = job[u]
           /\ job'[t].id = i /\ job'[t].kind = kind /\ Has(job'[t].steps, "tell")
           /\ Jobs'
<1>1. rows' \in [Id -> Row] /\ rows'[i] = v /\ \A h \in Id \ {i} : rows'[h] = rows[h]
  BY Zenon DEF Writes, DaemonTypes
<1>2. s \in Plans /\ Has(s, "tell") /\ (Has(s, "reread") <=> kind = "updated")
  BY PlanFacts DEF Writes
<1>3. /\ job' \in [Task -> JobSet] /\ \A u \in Task \ {t} : job'[u] = job[u]
      /\ job'[t].steps = s /\ job'[t].kind = kind /\ job'[t].id = i /\ job'[t].row = Said(kind)
  <2>1. Said(kind) \in Row /\ i \in Id \cup {0}
    BY DEF Said, Row
  <2> QED
    BY <1>2, <2>1, BeginIs DEF Writes, DaemonTypes
<1>4. WriteOf(rows[i], v, kind)
  BY DEF Writes
<1>5. Ahead
  <2>1. TrueRow(rows[i], rows', i)
    BY <1>1, <1>4 DEF WriteOf, TrueRow
  <2>2. \A h \in Id \ {i} : TrueRow(rows[h], rows', h)
    BY <1>1 DEF TrueRow
  <2> QED
    BY <2>1, <2>2 DEF Ahead
<1>6. TrueJob(job'[t], rows')
  BY <1>1, <1>2, <1>3, <1>4 DEF TrueJob, TrueRow, WriteOf, Said, News
<1>7. Ordered(job'[t].steps)
  BY <1>2, <1>3, PlanSteps
<1>8. \A u \in Task \ {t} : Ordered(job'[u].steps) /\ TrueJob(job'[u], rows')
  BY <1>3, <1>5, AheadJob DEF Jobs
<1> QED
  BY <1>1, <1>2, <1>3, <1>4, <1>5, <1>6, <1>7, <1>8 DEF Jobs

LEMMA PlanIs ==
    /\ <<"tell", "look", "report">> \in Plan("added")
    /\ <<"reread", "tell", "look", "report">> \in Plan("updated")
    /\ <<"tell">> \in Plan("added") /\ <<"tell">> \in Plan("removed")
    /\ <<"reread", "tell">> \in Plan("updated")
    /\ <<"reread", "tell", "answer">> \in Plan("updated")
    /\ <<"tell", "look", "report", "answer">> \in Plan("removed")
BY DEF Plan, Plans

LEMMA CaptureIs ==
    ASSUME DaemonTypes, Capture
    PROVE  \E i \in Id, v \in Row, kind \in News : \E s : Writes("capture", i, v, kind, s)
<1>1. PICK i \in Id :
         \/ /\ rows[i] = "none"
            /\ rows' = [rows EXCEPT ![i] = "live"]
            /\ Begin("capture", "added", i, "live", <<"tell", "look", "report">>)
         \/ /\ rows[i] \in {"live", "pinned"}
            /\ Begin("capture", "updated", i, "none", <<"reread", "tell", "look", "report">>)
            /\ UNCHANGED rows
  BY DEF Capture
<1>2. CASE rows[i] = "none"
  <2>1. Writes("capture", i, "live", "added", <<"tell", "look", "report">>)
    BY <1>1, <1>2, PlanIs DEF Writes, WriteOf, Said
  <2> QED
    BY <2>1 DEF News, Row
<1>3. CASE rows[i] # "none"
  <2>1. rows' = [rows EXCEPT ![i] = rows[i]]
    BY <1>1, <1>3 DEF DaemonTypes
  <2>2. WriteOf(rows[i], rows[i], "updated")
    BY <1>1, <1>3 DEF WriteOf
  <2>3. Begin("capture", "updated", i, Said("updated"), <<"reread", "tell", "look", "report">>)
    BY <1>1, <1>3 DEF Said
  <2>4. Writes("capture", i, rows[i], "updated", <<"reread", "tell", "look", "report">>)
    BY <2>1, <2>2, <2>3, PlanIs DEF Writes
  <2>5. rows[i] \in Row /\ "updated" \in News
    BY DEF DaemonTypes, News
  <2> QED
    BY <2>4, <2>5
<1> QED
  BY <1>2, <1>3

LEMMA PinnedIs ==
    ASSUME NEW r \in Row, NEW to \in {"live", "pinned"}, r # "none"
    PROVE  Pinned(r, to) \in Row /\ WriteOf(r, Pinned(r, to), "updated")
BY DEF Pinned, WriteOf, Row

LEMMA MergeIs ==
    ASSUME DaemonTypes, Merge
    PROVE  \E i \in Id, v \in Row, kind \in News : \E s : Writes("session", i, v, kind, s)
<1>1. PICK i \in Id :
         \/ /\ rows[i] = "none"
            /\ rows' = [rows EXCEPT ![i] = "live"]
            /\ Begin("session", "added", i, "live", <<"tell">>)
         \/ /\ rows[i] # "none"
            /\ \E to \in {"live", "pinned"} :
                  /\ rows' = [rows EXCEPT ![i] = Pinned(@, to)]
                  /\ Begin("session", "updated", i, "none", <<"reread", "tell">>)
         \/ /\ rows[i] # "none"
            /\ rows' = [rows EXCEPT ![i] = "deleted"]
            /\ Begin("session", "removed", i, "deleted", <<"tell">>)
  BY DEF Merge
<1>2. CASE rows[i] = "none" /\ rows' = [rows EXCEPT ![i] = "live"]
           /\ Begin("session", "added", i, "live", <<"tell">>)
  <2>1. Writes("session", i, "live", "added", <<"tell">>)
    BY <1>2, PlanIs DEF Writes, WriteOf, Said
  <2> QED
    BY <2>1 DEF News, Row
<1>3. ASSUME rows[i] # "none", NEW to \in {"live", "pinned"},
             rows' = [rows EXCEPT ![i] = Pinned(@, to)],
             Begin("session", "updated", i, "none", <<"reread", "tell">>)
      PROVE  \E v \in Row, kind \in News : \E s : Writes("session", i, v, kind, s)
  <2>1. Pinned(rows[i], to) \in Row /\ WriteOf(rows[i], Pinned(rows[i], to), "updated")
    BY <1>3, PinnedIs DEF DaemonTypes
  <2>2. rows' = [rows EXCEPT ![i] = Pinned(rows[i], to)]
    BY <1>3 DEF DaemonTypes
  <2>3. Writes("session", i, Pinned(rows[i], to), "updated", <<"reread", "tell">>)
    BY <1>3, <2>1, <2>2, PlanIs DEF Writes, Said
  <2> QED
    BY <2>1, <2>3 DEF News
<1>4. CASE rows[i] # "none" /\ rows' = [rows EXCEPT ![i] = "deleted"]
           /\ Begin("session", "removed", i, "deleted", <<"tell">>)
  <2>1. Writes("session", i, "deleted", "removed", <<"tell">>)
    BY <1>4, PlanIs DEF Writes, WriteOf, Said
  <2> QED
    BY <2>1 DEF News, Row
<1> QED
  BY <1>1, <1>2, <1>3, <1>4

HandlesClip ==
    /\ current.req \in {"pin", "delete"} /\ UNCHANGED <<paused, hotkey>>
    /\ \E v \in Row, kind \in Changes : \E s : Writes("handler", current.id, v, kind, s)
HandlesState ==
    /\ current.req \in {"pause", "settings"} /\ UNCHANGED rows
    /\ paused' \in BOOLEAN /\ hotkey' \in Hotkey
    /\ Begin("handler", "updated", 0, "none", <<"look", "report", "answer">>)

LEMMA HandleIs ==
    ASSUME DaemonTypes, GoodCall(current, rows), Handle
    PROVE  HandlesClip \/ HandlesState
<1> DEFINE i == current.id
<1>1. CASE /\ current.req = "pin"
           /\ rows' = [rows EXCEPT ![i] = Pinned(@, current.to)]
           /\ Begin("handler", "updated", i, "none", <<"reread", "tell", "answer">>)
           /\ UNCHANGED <<paused, hotkey>>
  <2>1. i \in Id /\ rows[i] # "none" /\ current.to \in {"live", "pinned"}
    BY <1>1 DEF GoodCall, Visible
  <2>2. Pinned(rows[i], current.to) \in Row /\ WriteOf(rows[i], Pinned(rows[i], current.to), "updated")
    BY <2>1, PinnedIs DEF DaemonTypes
  <2>3. rows' = [rows EXCEPT ![i] = Pinned(rows[i], current.to)]
    BY <1>1, <2>1 DEF DaemonTypes
  <2>4. Writes("handler", i, Pinned(rows[i], current.to), "updated", <<"reread", "tell", "answer">>)
    BY <1>1, <2>2, <2>3, PlanIs DEF Writes, Said
  <2> QED
    BY <1>1, <2>2, <2>4 DEF HandlesClip, Changes
<1>2. CASE /\ current.req = "delete"
           /\ rows' = [rows EXCEPT ![i] = "deleted"]
           /\ Begin("handler", "removed", i, "deleted", <<"tell", "look", "report", "answer">>)
           /\ UNCHANGED <<paused, hotkey>>
  <2>1. i \in Id /\ rows[i] # "none"
    BY <1>2 DEF GoodCall
  <2>2. Writes("handler", i, "deleted", "removed", <<"tell", "look", "report", "answer">>)
    BY <1>2, <2>1, PlanIs DEF Writes, WriteOf, Said
  <2> QED
    BY <1>2, <2>2 DEF HandlesClip, Changes, Row
<1>3. CASE current.req = "pause" /\ paused' = (current.to = "pinned")
           /\ Begin("handler", "updated", 0, "none", AfterPause) /\ UNCHANGED <<rows, hotkey>>
  BY <1>3 DEF HandlesState, AfterPause, DaemonTypes
<1>4. CASE current.req = "settings" /\ hotkey' = "custom" /\ UNCHANGED <<rows, paused>>
           /\ Begin("handler", "updated", 0, "none", <<"look", "report", "answer">>)
  BY <1>4 DEF HandlesState, DaemonTypes, Hotkey
<1> QED
  BY <1>1, <1>2, <1>3, <1>4 DEF Handle

LEMMA StepFacts ==
    ASSUME DaemonTypes, Jobs, NEW t \in Task, NEW step, ToDo(t, step),
           NEW j \in JobSet, j.steps = job[t].steps, Done(t, j)
    PROVE  /\ job' \in [Task -> JobSet] /\ \A u \in Task \ {t} : job'[u] = job[u]
           /\ \A x : Has(job'[t].steps, x) <=> (Has(job[t].steps, x) /\ x # step)
           /\ \A x : Has(job'[t].steps, x) => (/\ job'[t].kind = j.kind /\ job'[t].id = j.id
                                               /\ job'[t].row = j.row
                                               /\ job'[t].paused = j.paused)
           /\ \A x : Has(job[t].steps, x) => Rank[step] <= Rank[x]
           /\ Has(job[t].steps, step) /\ step \in Step
           /\ Ordered(job'[t].steps)
<1>1. job \in [Task -> JobSet] /\ Ordered(job[t].steps) /\ job[t].steps # <<>>
      /\ Head(job[t].steps) = step /\ job[t].steps \in Seq(Step)
  BY DEF DaemonTypes, Jobs, ToDo, JobSet
<1>2. /\ job' \in [Task -> JobSet] /\ \A u \in Task \ {t} : job'[u] = job[u]
      /\ job'[t].steps = Tail(job[t].steps)
      /\ Tail(job[t].steps) # <<>> =>
            /\ job'[t].kind = j.kind /\ job'[t].id = j.id
            /\ job'[t].row = j.row /\ job'[t].paused = j.paused
  BY <1>1, DoneIs
<1>3. ASSUME NEW x, Has(job'[t].steps, x)
      PROVE  Tail(job[t].steps) # <<>>
  BY <1>2, <1>3, NoSteps
<1>4. /\ Ordered(Tail(job[t].steps)) /\ Head(job[t].steps) \in Step
      /\ \A x : Has(Tail(job[t].steps), x) <=> (Has(job[t].steps, x) /\ x # Head(job[t].steps))
      /\ \A x : Has(job[t].steps, x) => Rank[Head(job[t].steps)] <= Rank[x]
      /\ Has(job[t].steps, Head(job[t].steps))
  BY <1>1, TailSteps
<1> QED
  BY <1>1, <1>2, <1>3, <1>4

\* After its reread a task only has to tell of the clip; then it is done with it.
LEMMA LaterFacts ==
    ASSUME DaemonTypes, Jobs, NEW t \in Task, NEW step \in Step \ {"reread"}, ToDo(t, step),
           NEW j \in JobSet, j.steps = job[t].steps, Done(t, j), UNCHANGED rows
    PROVE  /\ Jobs'
           /\ ~Has(job[t].steps, "reread") /\ ~Has(job'[t].steps, "tell")
           /\ Has(job[t].steps, "tell") <=> step = "tell"
<1>1. /\ \A u \in Task \ {t} : job'[u] = job[u]
      /\ \A x : Has(job'[t].steps, x) <=> (Has(job[t].steps, x) /\ x # step)
      /\ \A x : Has(job[t].steps, x) => Rank[step] <= Rank[x]
      /\ Has(job[t].steps, step)
      /\ Ordered(job'[t].steps)
  BY StepFacts
<1>2. Rank[step] > Rank["reread"] /\ (step # "tell" => Rank[step] > Rank["tell"])
  BY DEF Step, Rank
<1>3. Rank[step] \in 1..5 /\ Rank["reread"] \in 1..5 /\ Rank["tell"] \in 1..5
  BY RankTypes DEF Step
<1>4. ~Has(job[t].steps, "reread") /\ (Has(job[t].steps, "tell") <=> step = "tell")
  BY <1>1, <1>2, <1>3
<1>5. ~Has(job'[t].steps, "tell") /\ ~Has(job'[t].steps, "reread")
  BY <1>1, <1>4
<1>6. TrueJob(job'[t], rows')
  BY <1>5 DEF TrueJob
<1> QED
  BY <1>1, <1>4, <1>5, <1>6 DEF Jobs

LEMMA RereadFacts ==
    ASSUME DaemonTypes, Jobs, NEW t \in Task, Reread(t)
    PROVE  /\ job' \in [Task -> JobSet] /\ \A u \in Task \ {t} : job'[u] = job[u]
           /\ Jobs' /\ UNCHANGED rows
           /\ \A x : Has(job'[t].steps, x) <=> (Has(job[t].steps, x) /\ x # "reread")
           /\ Has(job[t].steps, "tell") /\ job'[t].id = job[t].id /\ job'[t].kind = job[t].kind
<1> DEFINE j == [job[t] EXCEPT !.row = rows[job[t].id]]
<1>1. ToDo(t, "reread") /\ Done(t, j) /\ UNCHANGED rows
  BY DEF Reread
<1>2. job[t] \in JobSet /\ TrueJob(job[t], rows) /\ Has(job[t].steps, "reread")
  <2>1. job[t] \in JobSet /\ Ordered(job[t].steps) /\ TrueJob(job[t], rows)
    BY DEF DaemonTypes, Jobs
  <2>2. job[t].steps \in Seq(Step) /\ job[t].steps # <<>> /\ Head(job[t].steps) = "reread"
    BY <1>1, <2>1 DEF ToDo, JobSet
  <2> QED
    BY <2>1, <2>2, TailSteps
<1>3. /\ Has(job[t].steps, "tell") /\ job[t].id \in Id /\ rows[job[t].id] # "none"
      /\ rows[job[t].id] \in Row /\ job[t].kind = "updated"
  BY <1>2 DEF TrueJob, DaemonTypes
<1>4. /\ j \in JobSet /\ j.steps = job[t].steps /\ j.kind = job[t].kind /\ j.id = job[t].id
      /\ j.row = rows[job[t].id]
  BY <1>2, <1>3 DEF JobSet
<1> HIDE DEF j
<1>5. /\ job' \in [Task -> JobSet] /\ \A u \in Task \ {t} : job'[u] = job[u]
      /\ \A x : Has(job'[t].steps, x) <=> (Has(job[t].steps, x) /\ x # "reread")
      /\ \A x : Has(job'[t].steps, x) => (/\ job'[t].kind = j.kind /\ job'[t].id = j.id
                                          /\ job'[t].row = j.row)
      /\ Ordered(job'[t].steps)
  BY <1>1, <1>4, StepFacts, ZenonT(60)
<1>6. job'[t].kind = j.kind /\ job'[t].id = j.id /\ job'[t].row = j.row
  BY <1>3, <1>5
<1>7. TrueJob(job'[t], rows')
  BY <1>1, <1>3, <1>4, <1>5, <1>6 DEF TrueJob, TrueRow
<1> QED
  BY <1>1, <1>3, <1>4, <1>5, <1>6, <1>7 DEF Jobs

LEMMA TellFacts ==
    ASSUME DaemonTypes, Jobs, NEW t \in Task, Tell(t)
    PROVE  /\ job' \in [Task -> JobSet] /\ \A u \in Task \ {t} : job'[u] = job[u]
           /\ Jobs' /\ UNCHANGED rows
           /\ \A x : Has(job'[t].steps, x) <=> (Has(job[t].steps, x) /\ x # "tell")
           /\ Has(job[t].steps, "tell")
           /\ \E e \in Event : /\ Emit(e) /\ TrueEvent(e, rows) /\ e.kind = job[t].kind
                               /\ e.id = job[t].id /\ e.kind \in News
<1>1. ToDo(t, "tell") /\ Done(t, job[t]) /\ UNCHANGED rows
  BY DEF Tell
<1>2. job[t] \in JobSet /\ TrueJob(job[t], rows)
  BY DEF DaemonTypes, Jobs
<1>3. /\ Jobs' /\ ~Has(job[t].steps, "reread") /\ Has(job[t].steps, "tell")
  BY <1>1, <1>2, LaterFacts DEF Step
<1>4. /\ job' \in [Task -> JobSet] /\ \A u \in Task \ {t} : job'[u] = job[u]
      /\ \A x : Has(job'[t].steps, x) <=> (Has(job[t].steps, x) /\ x # "tell")
  BY <1>1, <1>2, StepFacts
<1> DEFINE e == [kind |-> job[t].kind, id |-> job[t].id, row |-> job[t].row, paused |-> FALSE]
<1>5. Emit(e)
  BY DEF Tell
<1>6. /\ e \in Event /\ e.kind = job[t].kind /\ e.id = job[t].id /\ e.row = job[t].row
      /\ e.kind \in News
  BY <1>2 DEF JobSet, Event, News
<1> HIDE DEF e
<1>7. TrueEvent(e, rows)
  BY <1>2, <1>3, <1>6 DEF TrueJob, TrueEvent
<1> QED
  BY <1>1, <1>3, <1>4, <1>5, <1>6, <1>7

\* The other steps are not about a clip.
LEMMA StateFacts ==
    ASSUME DaemonTypes, Jobs, NEW t \in Task, NEW step, NEW j \in JobSet,
           \/ step = "look" /\ Look(t) /\ j = [job[t] EXCEPT !.id = 0, !.row = "none", !.paused = paused]
           \/ step = "report" /\ Report(t) /\ j = job[t]
           \/ step = "answer" /\ t = "handler" /\ Answer /\ j = job[t]
    PROVE  /\ job' \in [Task -> JobSet] /\ \A u \in Task \ {t} : job'[u] = job[u]
           /\ Jobs' /\ UNCHANGED rows
           /\ \A x : Has(job'[t].steps, x) <=> (Has(job[t].steps, x) /\ x # step)
           /\ ~Has(job[t].steps, "tell") /\ Has(job[t].steps, step)
<1>1. ToDo(t, step) /\ Done(t, j) /\ UNCHANGED rows /\ step \in Step \ {"reread"} /\ step # "tell"
  BY DEF Look, Report, Answer, Step
<1>2. job[t] \in JobSet
  BY DEF DaemonTypes
<1>3. j.steps = job[t].steps
  BY <1>2 DEF JobSet
<1>4. /\ Jobs' /\ ~Has(job[t].steps, "tell")
  BY <1>1, <1>3, LaterFacts
<1>5. /\ job' \in [Task -> JobSet] /\ \A u \in Task \ {t} : job'[u] = job[u]
      /\ \A x : Has(job'[t].steps, x) <=> (Has(job[t].steps, x) /\ x # step)
      /\ Has(job[t].steps, step)
  BY <1>1, <1>3, StepFacts
<1> QED
  BY <1>1, <1>4, <1>5

\* What the channel does with an event, and what the history says of it.
Dropped(e) ==
    /\ queue # <<>>
    /\ ~OfStatus(Head(queue)) => listDoubt'
    /\ (OfStatus(Head(queue)) /\ NoStatus(Tail(queue)) /\ ~OfStatus(e)) => statusDoubt'
Sent(q, e) ==
    /\ q \in Seq(Event) /\ queue' = Append(q, e)
    /\ q = queue \/ (q = Tail(queue) /\ Dropped(e))

LEMMA EmitFacts ==
    ASSUME EventTypes, NEW e \in Event, Emit(e)
    PROVE  /\ listening' = listening /\ queue' \in Seq(Event) /\ Len(queue') <= Buffer
           /\ ~listening => queue' = queue
           /\ listening => \E q : Sent(q, e)
           /\ listDoubt => listDoubt'
           /\ listDoubt' \in BOOLEAN /\ statusDoubt' \in BOOLEAN
<1> DEFINE qe == Append(queue, e)
<1>1. /\ queue' = IF listening THEN Kept(qe) ELSE queue
      /\ listDoubt' = (listDoubt \/ (listening /\ \E l \in Lost(qe) : ~OfStatus(l)))
      /\ statusDoubt' =
            IF OfStatus(e) THEN e.paused # paused
            ELSE \/ statusDoubt
                 \/ /\ listening /\ \E l \in Lost(qe) : OfStatus(l)
                    /\ \A i \in 2..Len(qe) : ~OfStatus(qe[i])
      /\ listening' = listening
  BY DEF Emit
<1>2. queue \in Seq(Event) /\ Len(queue) <= Buffer /\ Buffer \in Nat \ {0}
  BY UiAssumption DEF EventTypes
<1>3. \/ Kept(qe) = qe /\ Len(queue) < Buffer
      \/ queue # <<>> /\ Kept(qe) = Append(Tail(queue), e) /\ Lost(qe) = {Head(queue)}
  BY <1>2, KeptIs
<1>4. qe \in Seq(Event) /\ Len(qe) = Len(queue) + 1
  BY <1>2
<1>5. queue # <<>> => (/\ Tail(queue) \in Seq(Event)
                       /\ Append(Tail(queue), e) \in Seq(Event)
                       /\ Len(Append(Tail(queue), e)) = Len(queue))
  BY <1>2
<1>6. CASE ~listening
  BY <1>1, <1>2, <1>6 DEF EventTypes
<1>7. CASE listening /\ Kept(qe) = qe /\ Len(queue) < Buffer
  <2>1. Sent(queue, e)
    BY <1>1, <1>2, <1>7 DEF Sent
  <2>2. queue' \in Seq(Event) /\ Len(queue') <= Buffer
    BY <1>1, <1>2, <1>4, <1>7
  <2> QED
    BY <1>1, <1>7, <2>1, <2>2 DEF EventTypes
<1>8. CASE listening /\ queue # <<>> /\ Kept(qe) = Append(Tail(queue), e)
           /\ Lost(qe) = {Head(queue)}
  <2>1. ~OfStatus(Head(queue)) => listDoubt'
    BY <1>1, <1>8
  <2>2. ASSUME NoStatus(Tail(queue)), ~OfStatus(e), NEW i \in 2..Len(qe)
        PROVE  ~OfStatus(qe[i])
    <3>1. CASE i = Len(queue) + 1
      BY <1>2, <2>2, <3>1, AppendPlaces
    <3>2. CASE i \in 2..Len(queue)
      <4>1. qe[i] = queue[i]
        BY <1>2, <3>2
      <4>2. i - 1 \in DOMAIN Tail(queue) /\ Tail(queue)[i - 1] = queue[i]
        BY <1>2, <1>8, <3>2, TailPlaces
      <4> QED
        BY <2>2, <4>1, <4>2 DEF NoStatus
    <3> QED
      BY <1>2, <1>4, <3>1, <3>2
  <2>3. (OfStatus(Head(queue)) /\ NoStatus(Tail(queue)) /\ ~OfStatus(e)) => statusDoubt'
    BY <1>1, <1>8, <2>2
  <2>4. Sent(Tail(queue), e)
    BY <1>1, <1>5, <1>8, <2>1, <2>3 DEF Sent, Dropped
  <2>5. queue' \in Seq(Event) /\ Len(queue') <= Buffer
    BY <1>1, <1>2, <1>5, <1>8
  <2> QED
    BY <1>1, <1>8, <2>4, <2>5 DEF EventTypes
<1> QED
  BY <1>3, <1>6, <1>7, <1>8 DEF EventTypes

LEMMA EmitHistory ==
    ASSUME NEW e, Emit(e)
    PROVE  /\ OfStatus(e) => (crossed' = crossed /\ statusDoubt' = (e.paused # paused))
           /\ ~OfStatus(e) => (statusDoubt => statusDoubt')
           /\ ~OfStatus(e) =>
                 crossed' = IF e.row # rows[e.id] THEN crossed \cup {e.id}
                            ELSE IF e.kind = "added" THEN crossed ELSE crossed \ {e.id}
BY DEF Emit

LEMMA ReportFacts ==
    ASSUME DaemonTypes, NEW t \in Task, Report(t)
    PROVE  \E e \in Event : Emit(e) /\ OfStatus(e) /\ e.kind = "status"
<1> DEFINE e == [kind |-> "status", id |-> 0, row |-> "none", paused |-> job[t].paused]
<1>1. job[t].paused \in BOOLEAN
  BY DEF DaemonTypes, JobSet
<1>2. e \in Event /\ OfStatus(e) /\ e.kind = "status"
  BY <1>1 DEF Event, OfStatus, Row
<1> QED
  BY <1>2 DEF Report

----------------------------------------------------------------------------
(* The invariant of shapes, one part after the other. *)

LEMMA DaemonStep ==
    ASSUME Base, [Next]_vars
    PROVE  DaemonTypes' /\ Jobs' /\ Ahead
<1>1. DaemonTypes /\ Jobs /\ rows \in [Id -> Row] /\ GoodCall(current, rows)
  BY DEF Base, Types, Calls, DaemonTypes
<1>2. UNCHANGED rows => Ahead
  BY DEF Ahead, TrueRow
<1>3. ASSUME UNCHANGED <<rows, job>>
      PROVE  Jobs' /\ Ahead
  BY <1>1, <1>2, <1>3 DEF Jobs
<1>4. CASE Capture
  <2>1. DaemonTypes' /\ Jobs' /\ Ahead
    <3>1. PICK i \in Id, v \in Row, kind \in News : \E s : Writes("capture", i, v, kind, s)
      BY <1>1, <1>4, CaptureIs
    <3>2. rows' \in [Id -> Row] /\ Ahead /\ job' \in [Task -> JobSet] /\ Jobs'
      BY <1>1, <3>1, WriteFacts DEF Task
    <3> QED
      BY <1>1, <1>4, <3>2 DEF Capture, DaemonTypes
  <2> QED
    BY <2>1
<1>5. CASE Merge
  <2>1. PICK i \in Id, v \in Row, kind \in News : \E s : Writes("session", i, v, kind, s)
    BY <1>1, <1>5, MergeIs
  <2>2. rows' \in [Id -> Row] /\ Ahead /\ job' \in [Task -> JobSet] /\ Jobs'
    BY <1>1, <2>1, WriteFacts DEF Task
  <2> QED
    BY <1>1, <1>5, <2>2 DEF Merge, DaemonTypes
<1>6. CASE Handle
  <2>1. CASE HandlesClip
    <3>1. PICK v \in Row, kind \in Changes : \E s : Writes("handler", current.id, v, kind, s)
      BY <2>1 DEF HandlesClip
    <3>2. current.id \in Id /\ kind \in News
      BY <1>1, <2>1 DEF GoodCall, HandlesClip, Changes, News
    <3>3. rows' \in [Id -> Row] /\ Ahead /\ job' \in [Task -> JobSet] /\ Jobs'
      BY <1>1, <3>1, <3>2, WriteFacts DEF Task
    <3> QED
      BY <1>1, <1>6, <2>1, <3>3 DEF HandlesClip, Handle, DaemonTypes
  <2>2. CASE HandlesState
    <3>1. /\ job' \in [Task -> JobSet] /\ \A u \in Task \ {"handler"} : job'[u] = job[u]
          /\ job'["handler"].steps = <<"look", "report", "answer">>
      BY <1>1, <2>2, BeginIs DEF HandlesState, DaemonTypes, News, Row, Plans, Task
    <3>2. TrueJob(job'["handler"], rows)
      BY <3>1, PlanHas DEF TrueJob
    <3>3. Ordered(job'["handler"].steps)
      BY <3>1, PlanSteps DEF Plans
    <3>4. Jobs'
      BY <1>1, <2>2, <3>1, <3>2, <3>3 DEF Jobs, HandlesState
    <3> QED
      BY <1>1, <1>2, <1>6, <2>2, <3>1, <3>4 DEF HandlesState, Handle, DaemonTypes
  <2> QED
    BY <1>1, <1>6, <2>1, <2>2, HandleIs
<1>7. ASSUME NEW t \in Task, Reread(t)
      PROVE  DaemonTypes' /\ Jobs' /\ Ahead
  BY <1>1, <1>2, <1>7, RereadFacts DEF Reread, DaemonTypes
<1>8. ASSUME NEW t \in Task, Tell(t)
      PROVE  DaemonTypes' /\ Jobs' /\ Ahead
  BY <1>1, <1>2, <1>8, TellFacts DEF Tell, DaemonTypes
<1>9. ASSUME NEW t \in Task, Look(t)
      PROVE  DaemonTypes' /\ Jobs' /\ Ahead
  <2> DEFINE j == [job[t] EXCEPT !.id = 0, !.row = "none", !.paused = paused]
  <2>1. j \in JobSet
    BY <1>1 DEF DaemonTypes, JobSet, Row
  <2>2. job' \in [Task -> JobSet] /\ Jobs' /\ UNCHANGED rows
    BY <1>1, <1>9, <2>1, StateFacts
  <2> QED
    BY <1>1, <1>2, <1>9, <2>2 DEF Look, DaemonTypes
<1>10. ASSUME NEW t \in Task, Report(t)
       PROVE  DaemonTypes' /\ Jobs' /\ Ahead
  <2>1. job' \in [Task -> JobSet] /\ Jobs' /\ UNCHANGED rows
    BY <1>1, <1>10, StateFacts DEF DaemonTypes
  <2> QED
    BY <1>1, <1>2, <1>10, <2>1 DEF Report, DaemonTypes
<1>11. CASE Answer
  <2>1. job' \in [Task -> JobSet] /\ Jobs' /\ UNCHANGED rows
    BY <1>1, <1>11, StateFacts DEF DaemonTypes, Task
  <2> QED
    BY <1>1, <1>2, <1>11, <2>1 DEF Answer, DaemonTypes
<1>12. CASE Stop
  <2>1. job' = [t \in Task |-> NoJob] /\ UNCHANGED <<rows, paused, hotkey>> /\ up' = FALSE
    BY <1>12 DEF Stop
  <2>2. TrueJob(NoJob, rows) /\ Ordered(NoJob.steps)
    BY NoSteps DEF TrueJob
  <2> QED
    BY <1>1, <1>2, <2>1, <2>2, NoSteps DEF DaemonTypes, Jobs
<1>13. CASE Start
  BY <1>1, <1>3, <1>13 DEF Start, DaemonTypes
<1>14. CASE UNCHANGED daemon
  BY <1>1, <1>3, <1>14 DEF daemon, DaemonTypes
<1>15. CASE Listen \/ Retry \/ UserActs \/ Query \/ AppSteps \/ CallSteps \/ Receive \/ UNCHANGED vars
  BY <1>14, <1>15 DEF daemon, vars, Listen, Retry, UserActs, Query, AppSteps, ConnectCommands,
     ConnectEvents, Subscribe, FetchStatus, Forward, StreamEnds, CallSteps, Lock, Return,
     CallFails, Receive
<1> QED
  BY <1>4, <1>5, <1>6, <1>7, <1>8, <1>9, <1>10, <1>11, <1>12, <1>13, <1>15
     DEF Next, DaemonSteps

LEMMA SeqGrows ==
    ASSUME NEW S, NEW T, S \subseteq T, NEW q \in Seq(S)
    PROVE  q \in Seq(T)
<1>1. Len(q) \in Nat /\ \A k \in 1..Len(q) : q[k] \in T
  OBVIOUS
<1>2. q \in [1..Len(q) -> T]
  BY <1>1
<1> QED
  BY <1>1, <1>2

LEMMA AheadEvents ==
    ASSUME Ahead, Events
    PROVE  queue \in Seq(Sendable(rows')) /\ inbox \in Seq(Passable(rows'))
<1>1. Sendable(rows) \subseteq Sendable(rows') /\ Passable(rows) \subseteq Passable(rows')
  BY AheadEvent DEF Sendable, Passable
<1> QED
  BY <1>1, SeqGrows DEF Events

LEMMA SentEvents ==
    ASSUME EventTypes, Events, NEW e \in Event, Emit(e), TrueEvent(e, rows), ~Link(e)
    PROVE  queue' \in Seq(Sendable(rows))
<1>1. queue \in Seq(Sendable(rows)) /\ e \in Sendable(rows)
  BY DEF Events, Sendable
<1>2. CASE ~listening
  BY <1>1, <1>2, EmitFacts
<1>3. CASE listening
  <2>1. PICK q : Sent(q, e)
    BY <1>3, EmitFacts
  <2>2. q \in Seq(Sendable(rows))
    BY <1>1, <2>1 DEF Sent, Dropped
  <2> QED
    BY <1>1, <2>1, <2>2 DEF Sent
<1> QED
  BY <1>2, <1>3

LEMMA EventStep ==
    ASSUME Base, [Next]_vars
    PROVE  EventTypes' /\ Events'
<1>1. DaemonTypes /\ Jobs /\ EventTypes /\ Events /\ Ahead /\ CallTypesHold
  BY DaemonStep DEF Base, Types
<1>2. queue \in Seq(Sendable(rows')) /\ inbox \in Seq(Passable(rows'))
  BY <1>1, AheadEvents
<1>3. CASE UNCHANGED <<queue, listening, inbox, crossed, listDoubt, statusDoubt>>
  BY <1>1, <1>2, <1>3 DEF EventTypes, Events
<1>4. ASSUME NEW t \in Task, Tell(t)
      PROVE  EventTypes' /\ Events'
  <2>1. PICK e \in Event : Emit(e) /\ TrueEvent(e, rows) /\ e.kind \in News
    BY <1>1, <1>4, TellFacts
  <2>2. /\ queue' \in Seq(Event) /\ Len(queue') <= Buffer /\ listening' = listening
        /\ listDoubt' \in BOOLEAN /\ statusDoubt' \in BOOLEAN
    BY <1>1, <2>1, EmitFacts
  <2>3. e.id \in Id /\ ~Link(e) /\ ~OfStatus(e)
    BY <2>1 DEF TrueEvent, Link, News, OfStatus
  <2>4. queue' \in Seq(Sendable(rows))
    BY <1>1, <2>1, <2>3, SentEvents
  <2>5. crossed' \subseteq Id
    BY <1>1, <2>1, <2>3, EmitHistory DEF EventTypes
  <2> QED
    BY <1>1, <1>4, <2>2, <2>4, <2>5 DEF EventTypes, Events, Tell, view
<1>5. ASSUME NEW t \in Task, Report(t)
      PROVE  EventTypes' /\ Events'
  <2>1. PICK e \in Event : Emit(e) /\ OfStatus(e) /\ e.kind = "status"
    BY <1>1, <1>5, ReportFacts
  <2>2. /\ queue' \in Seq(Event) /\ Len(queue') <= Buffer /\ listening' = listening
        /\ listDoubt' \in BOOLEAN /\ statusDoubt' \in BOOLEAN
    BY <1>1, <2>1, EmitFacts
  <2>3. TrueEvent(e, rows) /\ ~Link(e)
    BY <2>1 DEF TrueEvent, Link, News
  <2>4. queue' \in Seq(Sendable(rows))
    BY <1>1, <2>1, <2>3, SentEvents
  <2>5. crossed' \subseteq Id
    BY <1>1, <2>1, EmitHistory DEF EventTypes
  <2> QED
    BY <1>1, <1>5, <2>2, <2>4, <2>5 DEF EventTypes, Events, Report, view
<1>6. CASE Query
  <2>1. UNCHANGED <<queue, listening, inbox, crossed, statusDoubt>> /\ listDoubt' \in BOOLEAN
    BY <1>1, <1>6 DEF Query, events, view, EventTypes
  <2> QED
    BY <1>1, <1>2, <2>1 DEF EventTypes, Events
<1>7. CASE Stop
  <2>1. PICK n \in 0..Len(queue) : queue' = SubSeq(queue, 1, n)
    BY <1>7 DEF Stop
  <2>2. UNCHANGED <<rows, inbox, crossed, listDoubt, statusDoubt>> /\ listening' = FALSE
    BY <1>7 DEF Stop, view, history
  <2>3. queue' \in Seq(Event) /\ Len(queue') <= Buffer
    BY <1>1, <2>1, UiAssumption DEF EventTypes
  <2>4. queue' \in Seq(Sendable(rows))
    BY <1>1, <2>1 DEF Events
  <2> QED
    BY <1>1, <2>2, <2>3, <2>4 DEF EventTypes, Events
<1>8. CASE ConnectEvents
  <2>1. CASE listening' = TRUE /\ queue' = <<>> /\ crossed' = {} /\ statusDoubt' = FALSE
    <3>1. UNCHANGED <<rows, inbox, listDoubt>>
      BY <1>8 DEF ConnectEvents, daemon, view
    <3>2. Len(queue') <= Buffer
      BY <2>1, UiAssumption
    <3>3. queue' \in Seq(Event) /\ queue' \in Seq(Sendable(rows)) /\ crossed' \subseteq Id
      BY <2>1
    <3>4. EventTypes'
      BY <1>1, <2>1, <3>1, <3>2, <3>3 DEF EventTypes
    <3> QED
      BY <1>1, <3>1, <3>3, <3>4 DEF Events
  <2>2. CASE UNCHANGED <<events, crossed, statusDoubt>>
    BY <1>3, <1>8, <2>2 DEF ConnectEvents, events, view
  <2> QED
    BY <1>8, <2>1, <2>2 DEF ConnectEvents
<1>9. CASE Subscribe
  <2> DEFINE e == [kind |-> "connected", id |-> 0, row |-> "none", paused |-> FALSE]
  <2>1. e \in Event /\ e \in Passable(rows)
    BY DEF Event, Row, Passable, TrueEvent, OfStatus, News
  <2>2. (inbox' = inbox \/ inbox' = Append(inbox, e)) /\ listDoubt' \in BOOLEAN
    BY <1>1, <1>9 DEF Subscribe, Show, EventTypes
  <2>3. UNCHANGED <<rows, queue, listening, crossed, statusDoubt>>
    BY <1>9 DEF Subscribe, daemon, events
  <2> HIDE DEF e
  <2> QED
    BY <1>1, <2>1, <2>2, <2>3, SMTT(60) DEF EventTypes, Events
<1>10. CASE Forward
  <2>1. queue # <<>> /\ queue' = Tail(queue)
        /\ UNCHANGED <<rows, listening, crossed, statusDoubt>>
    BY <1>10 DEF Forward, daemon
  <2>7. listDoubt' \in BOOLEAN
    BY <1>1, <1>10 DEF Forward, Show, EventTypes
  <2>2. inbox' = inbox \/ (inbox' = Append(inbox, Head(queue)) /\ ~OfStatus(Head(queue)))
    BY <1>10 DEF Forward, Show
  <2>3. Head(queue) \in Sendable(rows) /\ Tail(queue) \in Seq(Sendable(rows))
    BY <1>1, <2>1 DEF Events
  <2>4. ~OfStatus(Head(queue)) => Head(queue) \in Passable(rows)
    BY <2>3 DEF Sendable, Passable
  <2>5. inbox' \in Seq(Passable(rows)) /\ inbox' \in Seq(Event)
    BY <1>1, <2>2, <2>4, SMTT(60) DEF Events, EventTypes, Passable
  <2>6. queue' \in Seq(Event) /\ Len(queue') <= Buffer
    BY <1>1, <2>1, UiAssumption DEF EventTypes
  <2> QED
    BY <1>1, <2>1, <2>3, <2>5, <2>6, <2>7 DEF EventTypes, Events
<1>11. CASE Return
  <2>1. UNCHANGED <<rows, queue, listening, inbox, crossed>>
    BY <1>11 DEF Return, daemon, events
  <2>2. current \in CallSet
    BY <1>1 DEF CallTypesHold
  <2>3. listDoubt' \in BOOLEAN /\ statusDoubt' \in BOOLEAN
    BY <1>1, <1>11, <2>2 DEF Return, EventTypes, CallSet
  <2> QED
    BY <1>1, <2>1, <2>3 DEF EventTypes, Events
<1>12. CASE Receive
  <2>1. inbox # <<>> /\ inbox' = Tail(inbox)
        /\ UNCHANGED <<rows, queue, listening, crossed, listDoubt, statusDoubt>>
    BY <1>12 DEF Receive, daemon, events, history
  <2> QED
    BY <1>1, <2>1 DEF EventTypes, Events
<1>13. CASE \/ Capture \/ Merge \/ Start \/ Listen \/ Retry \/ UserActs \/ Handle \/ Answer
            \/ (\E t \in Task : Reread(t) \/ Look(t)) \/ ConnectCommands \/ FetchStatus
            \/ StreamEnds \/ Lock \/ CallFails \/ UNCHANGED vars
  BY <1>3, <1>13 DEF vars, events, view, history, Capture, Merge, Start, Listen, Retry, UserActs,
     Handle, Answer, Reread, Look, ConnectCommands, FetchStatus, StreamEnds, Lock, CallFails
<1> QED
  BY <1>4, <1>5, <1>6, <1>7, <1>8, <1>9, <1>10, <1>11, <1>12, <1>13
     DEF Next, DaemonSteps, AppSteps, CallSteps

\* Which tasks are going to do a step.
Due(t, x) == Has(job[t].steps, x)

LEMMA DueSteps ==
    ASSUME Base, [Next]_vars, NEW u \in Task, NEW x, x # "tell", Due(u, x)'
    PROVE  Due(u, x) \/ Handle \/ Capture \/ Merge
<1>1. DaemonTypes /\ Jobs
  BY DEF Base, Types
<1>2. CASE UNCHANGED job
  BY <1>2 DEF Due
<1>3. ASSUME NEW t \in Task, Reread(t)
      PROVE  Due(u, x)
  BY <1>1, <1>3, RereadFacts DEF Due
<1>4. ASSUME NEW t \in Task, Tell(t)
      PROVE  Due(u, x)
  BY <1>1, <1>4, TellFacts DEF Due
<1>5. ASSUME NEW t \in Task, Look(t)
      PROVE  Due(u, x)
  <2> DEFINE j == [job[t] EXCEPT !.id = 0, !.row = "none", !.paused = paused]
  <2>1. j \in JobSet
    BY <1>1 DEF DaemonTypes, JobSet, Row
  <2> QED
    BY <1>1, <1>5, <2>1, StateFacts DEF Due
<1>6. ASSUME NEW t \in Task, Report(t)
      PROVE  Due(u, x)
  BY <1>1, <1>6, StateFacts DEF Due, DaemonTypes
<1>7. CASE Answer
  BY <1>1, <1>7, StateFacts DEF Due, DaemonTypes, Task
<1>8. CASE Stop
  <2>1. job'[u] = NoJob
    BY <1>8 DEF Stop
  <2> QED
    BY <2>1, NoSteps DEF Due
<1>9. CASE \/ Start \/ Listen \/ Retry \/ UserActs \/ Query \/ AppSteps \/ CallSteps \/ Receive
           \/ UNCHANGED vars
  BY <1>2, <1>9 DEF daemon, vars, Start, Listen, Retry, UserActs, Query, AppSteps, ConnectCommands,
     ConnectEvents, Subscribe, FetchStatus, Forward, StreamEnds, CallSteps, Lock, Return,
     CallFails, Receive
<1> QED
  BY <1>3, <1>4, <1>5, <1>6, <1>7, <1>8, <1>9 DEF Next, DaemonSteps

\* A task that writes is idle before, and the others go on as they were.
LEMMA WriterIdle ==
    ASSUME Base, NEW t \in Task, Idle(t), NEW x
    PROVE  ~Due(t, x)
BY NoSteps DEF Idle, Due

LEMMA AnswerDue ==
    ASSUME Base, [Next]_vars, UNCHANGED current, Due("handler", "answer")'
    PROVE  Due("handler", "answer")
<1>1. DaemonTypes /\ Jobs /\ "handler" \in Task
  BY DEF Base, Types, Task
<1>0. ~Handle
  <2>1. Handle => current'.stage = "handled" /\ current.stage = "asked"
    BY DEF Handle, Base, Types, CallTypesHold, CallSet
  <2> QED
    BY <2>1
<1>2. CASE Capture
  <2>1. PICK i \in Id, v \in Row, kind \in News : \E s : Writes("capture", i, v, kind, s)
    BY <1>1, <1>2, CaptureIs
  <2> QED
    BY <1>1, <2>1, WriteFacts DEF Task, Due
<1>3. CASE Merge
  <2>1. PICK i \in Id, v \in Row, kind \in News : \E s : Writes("session", i, v, kind, s)
    BY <1>1, <1>3, MergeIs
  <2> QED
    BY <1>1, <2>1, WriteFacts DEF Task, Due
<1> QED
  BY <1>0, <1>1, <1>2, <1>3, DueSteps

LEMMA FailedFacts ==
    ASSUME NEW c \in CallSet, NEW q \in Seq(CallSet), ViewTypes, Failed(c, q),
           GoodCall(c, rows), TruePage(list, rows), rows \in [Id -> Row]
    PROVE  /\ waiting' = q \/ waiting' = Fetching(q)
           /\ list' \in [Id -> Row] /\ failed' \in BOOLEAN /\ TruePage(list', rows)
           /\ phase' = IF c.who = "task" THEN "streaming" ELSE phase
<1>1. phase' = IF c.who = "task" THEN "streaming" ELSE phase
  BY DEF Failed
<1>2. CASE failed' = TRUE /\ list' = [i \in Id |-> "none"] /\ waiting' = q
  BY <1>1, <1>2 DEF TruePage, TrueRow, Row
<1>3. CASE /\ c.req = "pin" /\ list' = [list EXCEPT ![c.id] = Pinned(@, Unpinned(c.to))]
           /\ waiting' = q /\ UNCHANGED failed
  <2>1. c.id \in Id /\ rows[c.id] # "none"
    BY <1>3 DEF GoodCall
  <2> DEFINE v == Pinned(list[c.id], Unpinned(c.to))
  <2>2. v \in Row /\ TrueRow(v, rows, c.id)
    BY <2>1 DEF ViewTypes, TruePage, TrueRow, Pinned, Unpinned, Row
  <2>3. list' = [list EXCEPT ![c.id] = v]
    BY <1>3, <2>1 DEF ViewTypes
  <2> HIDE DEF v
  <2>4. list' \in [Id -> Row] /\ list'[c.id] = v /\ \A i \in Id \ {c.id} : list'[i] = list[i]
    BY <2>1, <2>2, <2>3, Zenon DEF ViewTypes
  <2>5. TruePage(list', rows)
    BY <2>2, <2>4 DEF TruePage
  <2> QED
    BY <1>1, <1>3, <2>4, <2>5 DEF ViewTypes
<1>4. CASE (waiting' = Fetching(q) \/ waiting' = q) /\ UNCHANGED <<list, failed>>
  BY <1>1, <1>4 DEF ViewTypes
<1> QED
  BY <1>2, <1>3, <1>4 DEF Failed

Caller == CallTypesHold /\ ViewTypes /\ Shown /\ Calls /\ Tasks

LEMMA CallerKept ==
    ASSUME Base, Ahead, UNCHANGED <<current, waiting, list, failed>>,
           Due("handler", "answer")' => (Due("handler", "answer") /\ alive'),
           phase = "asking" => phase' = "asking"
    PROVE  Caller'
<1>1. Caller
  BY DEF Base, Types, Caller
<1>2. CallTypesHold' /\ ViewTypes'
  BY <1>1 DEF Caller, CallTypesHold, ViewTypes
<1>3. Shown'
  BY <1>1, AheadPage DEF Caller, Shown
<1>4. Calls'
  BY <1>1, AheadWaiting, AheadCall DEF Caller, Calls, Due
<1>5. Tasks'
  BY <1>1 DEF Caller, Tasks
<1> QED
  BY <1>2, <1>3, <1>4, <1>5 DEF Caller

LEMMA HandleCaller ==
    ASSUME Base, Ahead, Handle
    PROVE  Caller'
<1>1. Caller /\ DaemonTypes
  BY DEF Base, Types, Caller
<1>2. /\ current' = [current EXCEPT !.stage = "handled"] /\ alive /\ current.stage = "asked"
      /\ UNCHANGED <<waiting, list, failed, phase, alive>>
  BY DEF Handle, view
<1>3. current \in CallSet /\ GoodCall(current, rows)
  BY <1>1 DEF Caller, CallTypesHold, Calls
<1>4. /\ current' \in CallSet /\ current'.stage = "handled" /\ current'.req = current.req
      /\ current'.who = current.who /\ current'.id = current.id /\ current'.to = current.to
  BY <1>2, <1>3 DEF CallSet
<1>5. current.req \notin {"page", "status"}
  BY <1>1, <1>3, HandleIs DEF HandlesClip, HandlesState
<1>6. GoodCall(current', rows')
  <2>1. GoodCall(current, rows')
    BY <1>3, AheadCall
  <2> QED
    BY <1>4, <2>1 DEF GoodCall
<1>7. CallTypesHold' /\ ViewTypes'
  BY <1>1, <1>2, <1>4 DEF Caller, CallTypesHold, ViewTypes
<1>8. Shown'
  BY <1>1, <1>2, <1>4, AheadPage DEF Caller, Shown
<1>9. Calls'
  BY <1>1, <1>2, <1>4, <1>5, <1>6, AheadWaiting DEF Caller, Calls
<1>10. Tasks'
  BY <1>1, <1>2, <1>4 DEF Caller, Tasks
<1> QED
  BY <1>7, <1>8, <1>9, <1>10 DEF Caller

LEMMA AnswerCaller ==
    ASSUME Base, Ahead, Answer
    PROVE  Caller'
<1>1. Caller /\ DaemonTypes /\ Jobs
  BY DEF Base, Types, Caller
<1>2. /\ current' = [current EXCEPT !.stage = "answered"]
      /\ UNCHANGED <<rows, waiting, list, failed, phase, alive>>
  BY DEF Answer, view
<1>3. Has(job["handler"].steps, "answer") /\ ~Has(job'["handler"].steps, "answer")
  BY <1>1, StateFacts DEF DaemonTypes, Task
<1>4. current \in CallSet /\ current.stage = "handled" /\ current.req # "page"
  BY <1>1, <1>3 DEF Caller, CallTypesHold, Calls
<1>5. /\ current' \in CallSet /\ current'.stage = "answered" /\ current'.req = current.req
      /\ current'.who = current.who /\ current'.id = current.id /\ current'.to = current.to
  BY <1>2, <1>4 DEF CallSet
<1>6. GoodCall(current', rows')
  BY <1>1, <1>2, <1>5 DEF Caller, Calls, GoodCall
<1>7. CallTypesHold' /\ ViewTypes'
  BY <1>1, <1>2, <1>5 DEF Caller, CallTypesHold, ViewTypes
<1>8. Shown'
  BY <1>1, <1>2, <1>4, <1>5 DEF Caller, Shown
<1>9. Calls'
  BY <1>1, <1>2, <1>3, <1>5, <1>6 DEF Caller, Calls
<1>10. Tasks'
  BY <1>1, <1>2, <1>5 DEF Caller, Tasks
<1> QED
  BY <1>7, <1>8, <1>9, <1>10 DEF Caller

LEMMA QueryCaller ==
    ASSUME Base, Ahead, Query
    PROVE  Caller' /\ ~Due("handler", "answer")'
<1>1. Caller /\ DaemonTypes
  BY DEF Base, Types, Caller
<1>2. ~Due("handler", "answer") /\ ~Due("handler", "answer")' /\ UNCHANGED rows
  BY WriterIdle DEF Query, daemon, Due, Task
<1>3. UNCHANGED <<waiting, list, failed, phase>>
  BY DEF Query, view
<1>4. \/ current.req = "page" /\ current' = [current EXCEPT !.stage = "unanswered"]
      \/ current.req = "page" /\ current' = [current EXCEPT !.stage = "answered", !.page = rows]
      \/ current.req = "status" /\ current' = [current EXCEPT !.stage = "answered", !.paused = paused]
  BY DEF Query
<1>6. Caller'
  <2>1. current \in CallSet /\ GoodCall(current, rows)
    BY <1>1 DEF Caller, CallTypesHold, Calls
  <2>2. /\ current' \in CallSet /\ current'.stage \in {"answered", "unanswered"}
        /\ current'.req = current.req
        /\ current'.who = current.who /\ current'.id = current.id /\ current'.to = current.to
        /\ (current'.req = "page" /\ current'.stage = "answered") => current'.page = rows
    BY <1>1, <1>4, <2>1 DEF CallSet, DaemonTypes
  <2>3. GoodCall(current', rows')
    BY <1>2, <2>1, <2>2 DEF GoodCall
  <2>4. CallTypesHold' /\ ViewTypes'
    BY <1>1, <1>3, <2>2 DEF Caller, CallTypesHold, ViewTypes
  <2>5. TruePage(rows, rows)
    BY <1>1 DEF TruePage, TrueRow, DaemonTypes
  <2>6. Shown'
    BY <1>1, <1>2, <1>3, <2>2, <2>5 DEF Caller, Shown
  <2>7. Calls'
    BY <1>1, <1>2, <1>3, <2>2, <2>3 DEF Caller, Calls, Due
  <2>8. Tasks'
    BY <1>1, <1>3, <2>2 DEF Caller, Tasks
  <2> QED
    BY <1>2, <2>4, <2>6, <2>7, <2>8 DEF Caller
<1> QED
  BY <1>2, <1>6

LEMMA FetchStatusCaller ==
    ASSUME Base, Ahead, FetchStatus
    PROVE  Caller'
<1>1. Caller
  BY DEF Base, Types, Caller
<1> DEFINE c == Call("task", "status")
<1>2. /\ phase = "connected" /\ phase' = "asking" /\ waiting' = Append(waiting, c)
      /\ UNCHANGED <<rows, job, alive, current, list, failed>>
  BY DEF FetchStatus, view, daemon
<1>3. /\ c \in CallSet /\ c.who = "task" /\ c.req = "status" /\ c.stage = "asked"
  BY CallTypes DEF Who, Request
<1>4. GoodCall(c, rows)
  BY <1>3 DEF GoodCall
<1> HIDE DEF c
<1>5. waiting \in Seq(CallSet) /\ ~TaskWaits(waiting) /\ current.who # "task"
  BY <1>1, <1>2 DEF Caller, CallTypesHold, Tasks
<1>6. CallTypesHold' /\ ViewTypes'
  BY <1>1, <1>2, <1>3, <1>5 DEF Caller, CallTypesHold, ViewTypes
<1>7. Shown'
  BY <1>1, <1>2 DEF Caller, Shown
<1>8. Waiting(waiting', rows')
  BY <1>1, <1>2, <1>3, <1>4, <1>5, AppendCalls DEF Caller, Calls
<1>9. Calls'
  BY <1>1, <1>2, <1>8 DEF Caller, Calls
<1>10. OneTask(waiting')
  BY <1>1, <1>2, <1>3, <1>5, AppendCalls DEF Caller, Tasks
<1>11. Tasks'
  BY <1>2, <1>5, <1>10 DEF Tasks
<1> QED
  BY <1>6, <1>7, <1>9, <1>11 DEF Caller

LEMMA FailCaller ==
    ASSUME Base, NEW c \in CallSet, NEW q \in Seq(CallSet), Failed(c, q), Waiting(q, rows),
           OneTask(q), GoodCall(c, rows), TaskWaits(q) => (phase = "asking" /\ c.who # "task"),
           current' = NoCall, UNCHANGED <<rows, job, alive>>, ~Due("handler", "answer")
    PROVE  Caller'
<1>1. ViewTypes /\ TruePage(list, rows) /\ rows \in [Id -> Row]
  BY DEF Base, Types, Shown, DaemonTypes
<1>2. /\ waiting' = q \/ waiting' = Fetching(q)
      /\ list' \in [Id -> Row] /\ failed' \in BOOLEAN /\ TruePage(list', rows)
      /\ phase' = IF c.who = "task" THEN "streaming" ELSE phase
  BY <1>1, FailedFacts
<1>3. /\ current' \in CallSet /\ current'.stage = "none" /\ GoodCall(current', rows)
      /\ current'.who = "nobody" /\ current'.req = "none"
  BY NoCallType
<1>4. /\ waiting' \in Seq(CallSet) /\ Waiting(waiting', rows) /\ OneTask(waiting')
      /\ TaskWaits(waiting') => TaskWaits(q)
  <2>1. CASE waiting' = q
    BY <2>1
  <2>2. CASE waiting' = Fetching(q)
    <3>1. "page" \notin Changes
      BY DEF Changes
    <3> QED
      BY <2>2, <3>1, FetchingIs, FetchingCalls
  <2> QED
    BY <1>2, <2>1, <2>2
<1>5. CallTypesHold' /\ ViewTypes'
  BY <1>2, <1>3, <1>4 DEF CallTypesHold, ViewTypes
<1>6. Shown'
  BY <1>2, <1>3 DEF Shown
<1>7. Calls'
  BY <1>3, <1>4 DEF Calls, Due
<1>8. Tasks'
  BY <1>2, <1>3, <1>4 DEF Tasks
<1> QED
  BY <1>5, <1>6, <1>7, <1>8 DEF Caller

LEMMA CallFailsCaller ==
    ASSUME Base, CallFails
    PROVE  Caller'
<1>1. Caller
  BY DEF Base, Types, Caller
<1>2. ~alive /\ current' = NoCall /\ Failed(current, waiting) /\ UNCHANGED <<rows, job, alive>>
  BY DEF CallFails, daemon
<1>3. ~Due("handler", "answer")
  BY <1>1, <1>2 DEF Caller, Calls, Due
<1>4. /\ current \in CallSet /\ waiting \in Seq(CallSet) /\ Waiting(waiting, rows)
      /\ OneTask(waiting) /\ GoodCall(current, rows)
      /\ TaskWaits(waiting) => (phase = "asking" /\ current.who # "task")
  BY <1>1 DEF Caller, CallTypesHold, Calls, Tasks
<1> QED
  BY <1>2, <1>3, <1>4, FailCaller

LEMMA LockCaller ==
    ASSUME Base, Lock
    PROVE  Caller'
<1>1. Caller
  BY DEF Base, Types, Caller
<1> DEFINE c == Head(waiting)  q == Tail(waiting)
<1>2. waiting # <<>> /\ current = NoCall /\ UNCHANGED <<rows, job, alive>>
  BY DEF Lock, daemon
<1>3. waiting \in Seq(CallSet) /\ Waiting(waiting, rows) /\ OneTask(waiting)
  BY <1>1 DEF Caller, CallTypesHold, Calls, Tasks
<1>4. /\ c \in CallSet /\ q \in Seq(CallSet) /\ Waiting(q, rows) /\ c.stage = "asked"
      /\ GoodCall(c, rows) /\ OneTask(q) /\ ~(TaskWaits(q) /\ c.who = "task")
      /\ TaskWaits(waiting) <=> (TaskWaits(q) \/ c.who = "task")
  BY <1>2, <1>3, TailCalls
<1>5. ~Due("handler", "answer")
  BY <1>1, <1>2, NoCallType DEF Caller, Calls, Due
<1>6. (TaskWaits(q) \/ c.who = "task") => phase = "asking"
  BY <1>1, <1>4 DEF Caller, Tasks
<1> HIDE DEF c, q
<1>7. CASE current' = c /\ waiting' = q /\ UNCHANGED <<list, failed, phase>>
  <2>1. CallTypesHold' /\ ViewTypes'
    BY <1>1, <1>4, <1>7 DEF Caller, CallTypesHold, ViewTypes
  <2>2. Shown'
    BY <1>1, <1>2, <1>4, <1>7 DEF Caller, Shown
  <2>3. Calls'
    BY <1>2, <1>4, <1>5, <1>7 DEF Calls, Due
  <2>4. Tasks'
    BY <1>4, <1>6, <1>7 DEF Tasks
  <2> QED
    BY <2>1, <2>2, <2>3, <2>4 DEF Caller
<1>8. CASE Failed(c, q) /\ UNCHANGED current
  BY <1>2, <1>4, <1>5, <1>6, <1>8, FailCaller
<1> QED
  BY <1>7, <1>8 DEF Lock, c, q

\* The page that a window shows, without what is deleted.
LEMMA PageShown ==
    ASSUME NEW p, TruePage(p, rows)
    PROVE  /\ [i \in Id |-> IF p[i] = "deleted" THEN "none" ELSE p[i]] \in [Id -> Row]
           /\ TruePage([i \in Id |-> IF p[i] = "deleted" THEN "none" ELSE p[i]], rows)
BY DEF TruePage, TrueRow, Row

LEMMA ReturnCaller ==
    ASSUME Base, Return
    PROVE  Caller'
<1>1. Caller
  BY DEF Base, Types, Caller
<1>2. current.stage = "answered" /\ current' = NoCall /\ UNCHANGED <<rows, job, alive>>
  BY DEF Return, daemon
<1>3. /\ current \in CallSet /\ waiting \in Seq(CallSet) /\ Waiting(waiting, rows)
      /\ OneTask(waiting) /\ GoodCall(current, rows)
      /\ TaskWaits(waiting) => (phase = "asking" /\ current.who # "task")
  BY <1>1 DEF Caller, CallTypesHold, Calls, Tasks
<1>4. ~Due("handler", "answer")
  BY <1>1, <1>2 DEF Caller, Calls, Due
<1>5. /\ current' \in CallSet /\ current'.stage = "none" /\ GoodCall(current', rows)
      /\ current'.who = "nobody" /\ current'.req = "none"
  BY <1>2, NoCallType
<1>6. list' \in [Id -> Row] /\ failed' \in BOOLEAN /\ TruePage(list', rows)
  <2>1. CASE /\ current.req = "page"
             /\ list' = [i \in Id |-> IF current.page[i] = "deleted" THEN "none"
                                      ELSE current.page[i]]
             /\ failed' = FALSE
    <3>1. TruePage(current.page, rows)
      BY <1>1, <1>2, <2>1 DEF Caller, Shown
    <3> QED
      BY <2>1, <3>1, PageShown
  <2>2. CASE UNCHANGED <<list, failed>>
    BY <1>1, <2>2 DEF Caller, Shown, ViewTypes
  <2> QED
    BY <2>1, <2>2 DEF Return
<1>7. /\ waiting' \in Seq(CallSet) /\ Waiting(waiting', rows) /\ OneTask(waiting')
      /\ TaskWaits(waiting') <=> TaskWaits(waiting)
  <2> DEFINE c == [Call("toggle", "pause") EXCEPT
                      !.to = IF current.paused THEN "live" ELSE "pinned"]
  <2>1. waiting' = waiting \/ waiting' = Append(waiting, c)
    BY DEF Return
  <2>2. c \in CallSet /\ c.who = "toggle" /\ c.req = "pause" /\ c.stage = "asked"
    BY DEF Call, CallSet, Who, Request, Row
  <2>3. GoodCall(c, rows)
    BY <2>2 DEF GoodCall
  <2> HIDE DEF c
  <2>4. CASE waiting' = waiting
    BY <1>3, <2>4
  <2>5. CASE waiting' = Append(waiting, c)
    BY <1>3, <2>2, <2>3, <2>5, AppendCalls
  <2> QED
    BY <2>1, <2>4, <2>5
<1>8. phase' = phase \/ (phase' = "streaming" /\ current.who = "task")
  BY <1>3 DEF Return, GoodCall
<1>9. CallTypesHold' /\ ViewTypes'
  BY <1>5, <1>6, <1>7 DEF CallTypesHold, ViewTypes
<1>10. Shown'
  BY <1>2, <1>5, <1>6 DEF Shown
<1>11. Calls'
  BY <1>2, <1>4, <1>5, <1>7 DEF Calls, Due
<1>12. Tasks'
  BY <1>3, <1>5, <1>7, <1>8 DEF Tasks
<1> QED
  BY <1>9, <1>10, <1>11, <1>12 DEF Caller

\* A superseded call, and one that an event overtook, are the same call.
Overtakes(c) ==
    [c EXCEPT !.overtaken = @ \/ (c.stage = "answered" /\ c.req = "page")]

LEMMA OvertakesIs ==
    ASSUME NEW c \in CallSet
    PROVE  /\ Overtakes(c) \in CallSet
           /\ Overtakes(c).who = c.who /\ Overtakes(c).req = c.req /\ Overtakes(c).id = c.id
           /\ Overtakes(c).to = c.to /\ Overtakes(c).stage = c.stage
           /\ Overtakes(c).mine = c.mine /\ Overtakes(c).page = c.page
           /\ Overtakes(c).paused = c.paused
           /\ Overtakes(c).overtaken = (c.overtaken \/ (c.stage = "answered" /\ c.req = "page"))
<1>1. (c.overtaken \/ (c.stage = "answered" /\ c.req = "page")) \in BOOLEAN
  BY DEF CallSet
<1>2. Overtakes(c) = [c EXCEPT !.overtaken = c.overtaken \/ (c.stage = "answered" /\ c.req = "page")]
  BY DEF Overtakes
<1> QED
  BY <1>1, <1>2 DEF CallSet

\* The same call, with other marks.
LEMMA SameCaller ==
    ASSUME Base, NEW d \in CallSet, current' = d, d.who = current.who, d.req = current.req,
           d.id = current.id, d.to = current.to, d.stage = current.stage, d.page = current.page,
           UNCHANGED <<rows, job, alive, phase, failed>>,
           waiting' \in Seq(CallSet), Waiting(waiting', rows), OneTask(waiting'),
           TaskWaits(waiting') <=> TaskWaits(waiting),
           list' \in [Id -> Row], TruePage(list', rows)
    PROVE  Caller'
<1>1. Caller
  BY DEF Base, Types, Caller
<1>2. CallTypesHold' /\ ViewTypes'
  BY <1>1 DEF Caller, CallTypesHold, ViewTypes
<1>3. Shown'
  BY <1>1 DEF Caller, Shown
<1>4. GoodCall(current', rows')
  BY <1>1 DEF Caller, Calls, GoodCall
<1>5. Calls'
  BY <1>1, <1>4 DEF Caller, Calls
<1>6. Tasks'
  BY <1>1 DEF Caller, Tasks
<1> QED
  BY <1>2, <1>3, <1>5, <1>6 DEF Caller

LEMMA FetchCaller ==
    ASSUME Base, waiting' = Fetching(waiting), current' = Superseded(current),
           UNCHANGED <<rows, job, alive, phase, failed, list>>
    PROVE  Caller'
<1>1. Caller
  BY DEF Base, Types, Caller
<1>2. current \in CallSet /\ waiting \in Seq(CallSet) /\ Waiting(waiting, rows) /\ OneTask(waiting)
      /\ list \in [Id -> Row] /\ TruePage(list, rows)
  BY <1>1 DEF Caller, CallTypesHold, Calls, Tasks, ViewTypes, Shown
<1>3. "page" \notin Changes
  BY DEF Changes
<1>4. /\ Fetching(waiting) \in Seq(CallSet) /\ Waiting(Fetching(waiting), rows)
      /\ OneTask(Fetching(waiting)) /\ (TaskWaits(Fetching(waiting)) <=> TaskWaits(waiting))
  BY <1>2, <1>3, FetchingIs, FetchingCalls
<1> DEFINE d == Superseded(current)
<1>5. /\ d \in CallSet /\ d.who = current.who /\ d.req = current.req /\ d.id = current.id
      /\ d.to = current.to /\ d.stage = current.stage /\ d.page = current.page
  BY <1>2, SupersededIs
<1> HIDE DEF d
<1> QED
  BY <1>2, <1>4, <1>5, SameCaller DEF d

\* What the webview makes of an event is true of the table.
LEMMA PatchedTrue ==
    ASSUME NEW e, TrueEvent(e, rows), e.kind \in News, e.row \in Row, list \in [Id -> Row],
           TruePage(list, rows)
    PROVE  Patched(e) \in [Id -> Row] /\ TruePage(Patched(e), rows)
<1> DEFINE v == CASE e.kind = "added" -> IF list[e.id] = "none" THEN e.row ELSE list[e.id]
                  [] e.kind = "updated" -> IF list[e.id] = "none" THEN list[e.id] ELSE e.row
                  [] e.kind = "removed" -> "none"
<1>1. e.id \in Id /\ TrueRow(e.row, rows, e.id) /\ TrueRow(list[e.id], rows, e.id)
      /\ list[e.id] \in Row
  BY DEF TrueEvent, TruePage
<1>2. Patched(e) = [list EXCEPT ![e.id] = v]
  BY DEF Patched, News
<1>3. v \in Row /\ TrueRow(v, rows, e.id)
  BY <1>1 DEF News, Row, TrueRow
<1> HIDE DEF v
<1>4. /\ Patched(e) \in [Id -> Row] /\ Patched(e)[e.id] = v
      /\ \A i \in Id \ {e.id} : Patched(e)[i] = list[i]
  BY <1>1, <1>2, <1>3, Zenon
<1> QED
  BY <1>3, <1>4 DEF TruePage

LEMMA ReceiveEvent ==
    ASSUME Base, Receive
    PROVE  /\ inbox # <<>> /\ inbox' = Tail(inbox)
           /\ UNCHANGED <<rows, job, alive, phase, failed, queue, listening, crossed, listDoubt>>
           /\ TrueEvent(Head(inbox), rows) /\ Head(inbox) \in Event
           /\ \/ /\ Link(Head(inbox))
                 /\ waiting' = Fetching(waiting) /\ current' = Superseded(current)
                 /\ UNCHANGED list
              \/ /\ ~Link(Head(inbox)) /\ Head(inbox).kind \in News
                 /\ list' = Patched(Head(inbox)) /\ current' = Overtakes(current)
                 /\ UNCHANGED waiting
<1>1. inbox # <<>> /\ inbox' = Tail(inbox)
      /\ UNCHANGED <<rows, job, alive, phase, failed, queue, listening, crossed, listDoubt>>
  BY DEF Receive, daemon, events, history
<1>2. Head(inbox) \in Passable(rows)
  BY <1>1 DEF Base, Events
<1>3. /\ TrueEvent(Head(inbox), rows) /\ Head(inbox) \in Event
      /\ ~Link(Head(inbox)) => Head(inbox).kind \in News
  BY <1>2 DEF Passable, Link, OfStatus, News, Event
<1>4. \/ /\ Link(Head(inbox))
         /\ waiting' = Fetching(waiting) /\ current' = Superseded(current)
         /\ UNCHANGED list
      \/ /\ ~Link(Head(inbox))
         /\ list' = Patched(Head(inbox)) /\ current' = Overtakes(current)
         /\ UNCHANGED waiting
  BY DEF Receive, OnConnected, Link, Overtakes
<1> QED
  BY <1>1, <1>3, <1>4

LEMMA ReceiveCaller ==
    ASSUME Base, Receive
    PROVE  Caller'
<1>1. Caller
  BY DEF Base, Types, Caller
<1>2. UNCHANGED <<rows, job, alive, phase, failed>>
  BY ReceiveEvent
<1>3. current \in CallSet /\ waiting \in Seq(CallSet) /\ Waiting(waiting, rows) /\ OneTask(waiting)
      /\ list \in [Id -> Row] /\ TruePage(list, rows)
  BY <1>1 DEF Caller, CallTypesHold, Calls, Tasks, ViewTypes, Shown
<1>4. CASE waiting' = Fetching(waiting) /\ current' = Superseded(current) /\ UNCHANGED list
  BY <1>2, <1>4, FetchCaller
<1>5. CASE /\ Head(inbox).kind \in News /\ list' = Patched(Head(inbox))
           /\ current' = Overtakes(current) /\ UNCHANGED waiting
  <2> DEFINE d == Overtakes(current)
  <2>1. /\ d \in CallSet /\ d.who = current.who /\ d.req = current.req /\ d.id = current.id
        /\ d.to = current.to /\ d.stage = current.stage /\ d.page = current.page
    BY <1>3, OvertakesIs
  <2>3. TrueEvent(Head(inbox), rows) /\ Head(inbox).row \in Row
    BY ReceiveEvent DEF Event
  <2>4. list' \in [Id -> Row] /\ TruePage(list', rows)
    BY <1>3, <1>5, <2>3, PatchedTrue
  <2> HIDE DEF d
  <2> QED
    BY <1>2, <1>3, <1>5, <2>1, <2>4, SameCaller DEF d
<1> QED
  BY <1>4, <1>5, ReceiveEvent

LEMMA UserActsIs ==
    ASSUME Base, UserActs
    PROVE  /\ UNCHANGED <<rows, job, alive, phase, failed, current, queue, listening, inbox,
                          crossed, listDoubt>>
           /\ \E c \in CallSet :
                 /\ waiting' = Append(waiting, c) /\ c.stage = "asked" /\ GoodCall(c, rows)
                 /\ c.who # "task" /\ ~Fetches(c)
                 /\ \/ /\ c.req = "pin" /\ Visible(list[c.id]) /\ Visible(c.to)
                       /\ list' = [list EXCEPT ![c.id] = c.to]
                    \/ /\ c.req = "delete" /\ Visible(list[c.id])
                       /\ list' = [list EXCEPT ![c.id] = "none"]
                    \/ c.req \in {"status", "settings"} /\ UNCHANGED list
<1>1. UNCHANGED <<rows, job, alive, phase, failed, current, queue, listening, inbox, crossed,
                  listDoubt>>
  BY DEF UserActs, daemon, events, history
<1>2. list \in [Id -> Row] /\ TruePage(list, rows)
  BY DEF Base, Types, ViewTypes, Shown
<1>3. ASSUME NEW i \in Id, Visible(list[i]), list' = [list EXCEPT ![i] = Unpinned(list[i])],
             waiting' = Append(waiting, [Call("user", "pin") EXCEPT !.id = i, !.to = Unpinned(list[i])])
      PROVE  \E c \in CallSet :
                 /\ waiting' = Append(waiting, c) /\ c.stage = "asked" /\ GoodCall(c, rows)
                 /\ c.who # "task" /\ ~Fetches(c)
                 /\ c.req = "pin" /\ Visible(list[c.id]) /\ Visible(c.to)
                 /\ list' = [list EXCEPT ![c.id] = c.to]
  <2> DEFINE c == [Call("user", "pin") EXCEPT !.id = i, !.to = Unpinned(list[i])]
  <2>1. /\ c \in CallSet /\ c.stage = "asked" /\ c.who = "user" /\ c.req = "pin" /\ c.id = i
        /\ c.to = Unpinned(list[i])
    BY DEF Call, CallSet, Who, Request, Row, Unpinned
  <2>2. Visible(c.to) /\ rows[i] # "none"
    BY <1>2, <1>3, <2>1 DEF Visible, Unpinned, TruePage, TrueRow
  <2>3. GoodCall(c, rows) /\ ~Fetches(c)
    BY <2>1, <2>2 DEF GoodCall, Fetches
  <2>4. waiting' = Append(waiting, c)
    BY <1>3
  <2> HIDE DEF c
  <2> QED
    BY <1>3, <2>1, <2>2, <2>3, <2>4
<1>4. ASSUME NEW i \in Id, Visible(list[i]), list' = [list EXCEPT ![i] = "none"],
             waiting' = Append(waiting, [Call("user", "delete") EXCEPT !.id = i])
      PROVE  \E c \in CallSet :
                 /\ waiting' = Append(waiting, c) /\ c.stage = "asked" /\ GoodCall(c, rows)
                 /\ c.who # "task" /\ ~Fetches(c)
                 /\ c.req = "delete" /\ Visible(list[c.id])
                 /\ list' = [list EXCEPT ![c.id] = "none"]
  <2> DEFINE c == [Call("user", "delete") EXCEPT !.id = i]
  <2>1. /\ c \in CallSet /\ c.stage = "asked" /\ c.who = "user" /\ c.req = "delete" /\ c.id = i
    BY DEF Call, CallSet, Who, Request, Row
  <2>2. rows[i] # "none"
    BY <1>2, <1>4 DEF Visible, TruePage, TrueRow
  <2>3. GoodCall(c, rows) /\ ~Fetches(c)
    BY <2>1, <2>2 DEF GoodCall, Fetches
  <2>4. waiting' = Append(waiting, c)
    BY <1>4
  <2> HIDE DEF c
  <2> QED
    BY <1>4, <2>1, <2>3, <2>4
<1>5. ASSUME NEW c \in {Call("toggle", "status"), Call("user", "settings")},
             waiting' = Append(waiting, c), UNCHANGED list
      PROVE  /\ c \in CallSet /\ c.stage = "asked" /\ GoodCall(c, rows) /\ c.who # "task"
             /\ ~Fetches(c) /\ c.req \in {"status", "settings"}
  <2>1. CASE c = Call("toggle", "status")
    BY <2>1 DEF Call, CallSet, Who, Request, Row, GoodCall, Fetches
  <2>2. CASE c = Call("user", "settings")
    BY <2>2 DEF Call, CallSet, Who, Request, Row, GoodCall, Fetches
  <2> QED
    BY <1>5, <2>1, <2>2
<1> QED
  BY <1>1, <1>3, <1>4, <1>5 DEF UserActs

LEMMA UserActsCaller ==
    ASSUME Base, UserActs
    PROVE  Caller'
<1>1. Caller
  BY DEF Base, Types, Caller
<1>2. current \in CallSet /\ waiting \in Seq(CallSet) /\ Waiting(waiting, rows) /\ OneTask(waiting)
      /\ list \in [Id -> Row] /\ TruePage(list, rows)
  BY <1>1 DEF Caller, CallTypesHold, Calls, Tasks, ViewTypes, Shown
<1>3. UNCHANGED <<rows, job, alive, phase, failed, current>>
  BY UserActsIs
<1>4. PICK c \in CallSet :
         /\ waiting' = Append(waiting, c) /\ c.stage = "asked" /\ GoodCall(c, rows)
         /\ c.who # "task" /\ ~Fetches(c)
         /\ \/ /\ c.req = "pin" /\ Visible(list[c.id]) /\ Visible(c.to)
               /\ list' = [list EXCEPT ![c.id] = c.to]
            \/ /\ c.req = "delete" /\ Visible(list[c.id])
               /\ list' = [list EXCEPT ![c.id] = "none"]
            \/ c.req \in {"status", "settings"} /\ UNCHANGED list
  BY UserActsIs
<1>5. /\ waiting' \in Seq(CallSet) /\ Waiting(waiting', rows) /\ OneTask(waiting')
      /\ TaskWaits(waiting') <=> TaskWaits(waiting)
  BY <1>2, <1>4, AppendCalls
<1>6. list' \in [Id -> Row] /\ TruePage(list', rows)
  <2>1. CASE UNCHANGED list
    BY <1>2, <2>1
  <2>2. ASSUME NEW v \in Row, list' = [list EXCEPT ![c.id] = v], c.id \in Id,
               TrueRow(v, rows, c.id)
        PROVE  list' \in [Id -> Row] /\ TruePage(list', rows)
    <3>1. /\ list' \in [Id -> Row] /\ list'[c.id] = v
          /\ \A i \in Id \ {c.id} : list'[i] = list[i]
      BY <1>2, <2>2, Zenon
    <3> QED
      BY <1>2, <2>2, <3>1 DEF TruePage
  <2>3. CASE c.req = "pin" /\ Visible(c.to) /\ list' = [list EXCEPT ![c.id] = c.to]
    <3>1. c.to \in Row /\ c.id \in Id /\ TrueRow(c.to, rows, c.id)
      BY <1>4, <2>3 DEF CallSet, GoodCall, Visible, TrueRow
    <3> QED
      BY <2>2, <2>3, <3>1
  <2>4. CASE c.req = "delete" /\ list' = [list EXCEPT ![c.id] = "none"]
    <3>1. "none" \in Row /\ c.id \in Id /\ TrueRow("none", rows, c.id)
      BY <1>4, <2>4 DEF Row, GoodCall, TrueRow
    <3> QED
      BY <2>2, <2>4, <3>1
  <2> QED
    BY <1>4, <2>1, <2>3, <2>4
<1> QED
  BY <1>2, <1>3, <1>5, <1>6, SameCaller

LEMMA CallerStep ==
    ASSUME Base, [Next]_vars
    PROVE  Caller'
<1>1. Ahead
  BY DaemonStep
<1>2. UNCHANGED current => (Due("handler", "answer")' => Due("handler", "answer"))
  BY AnswerDue
<1>3. Due("handler", "answer") => (alive /\ current.stage = "handled")
  BY DEF Base, Calls, Due
<1>4. CASE \/ Capture \/ Merge \/ Start \/ (\E t \in Task : Reread(t) \/ Tell(t) \/ Look(t) \/ Report(t))
           \/ Forward \/ Listen \/ UNCHANGED vars
  <2>1. UNCHANGED <<current, waiting, list, failed, phase, alive>>
    BY <1>4 DEF vars, calls, view, Listen, Capture, Merge, Start, Reread, Tell, Look, Report, Forward
  <2> QED
    BY <1>1, <1>2, <1>3, <2>1, CallerKept
<1>5. CASE ConnectCommands \/ ConnectEvents \/ Subscribe \/ StreamEnds
  <2>1. /\ UNCHANGED <<current, waiting, list, failed>> /\ phase # "asking"
    BY <1>5 DEF calls, view, ConnectCommands, ConnectEvents, Subscribe, StreamEnds
  <2>2. alive => alive'
    <3>1. CASE ConnectCommands
      BY <3>1, Zenon DEF ConnectCommands
    <3>2. CASE ConnectEvents \/ Subscribe \/ StreamEnds
      BY <3>2 DEF ConnectEvents, Subscribe, StreamEnds
    <3> QED
      BY <1>5, <3>1, <3>2
  <2> QED
    BY <1>1, <1>2, <1>3, <2>1, <2>2, CallerKept
<1>6. CASE Stop
  <2>1. UNCHANGED <<current, waiting, list, failed, phase>> /\ job'["handler"] = NoJob
    BY <1>6 DEF Stop, calls, view, Task
  <2>2. ~Due("handler", "answer")'
    BY <2>1, NoSteps DEF Due
  <2> QED
    BY <1>1, <2>1, <2>2, CallerKept
<1>7. CASE Retry
  <2>1. UNCHANGED <<rows, job, alive, phase, failed, list>>
        /\ waiting' = Fetching(waiting) /\ current' = Superseded(current)
    BY <1>7 DEF Retry, daemon, view
  <2> QED
    BY <2>1, FetchCaller
<1> QED
  BY <1>1, <1>4, <1>5, <1>6, <1>7, HandleCaller, AnswerCaller, QueryCaller, FetchStatusCaller,
     LockCaller, CallFailsCaller, ReturnCaller, ReceiveCaller, UserActsCaller
     DEF Next, DaemonSteps, AppSteps, CallSteps

LEMMA AppStep ==
    ASSUME Base, [Next]_vars
    PROVE  AppTypes' /\ Wiring'
<1>1. /\ AppTypes /\ Wiring /\ DaemonTypes /\ Calls /\ Tasks /\ CallTypesHold /\ EventTypes
      /\ ViewTypes /\ TruePage(list, rows)
  BY DEF Base, Types, Shown
<1>2. DaemonTypes' /\ EventTypes'
  BY DaemonStep, EventStep
<1>3. CASE \/ Capture \/ Merge \/ Handle \/ Answer
           \/ (\E t \in Task : Reread(t) \/ Tell(t) \/ Look(t) \/ Report(t))
           \/ FetchStatus \/ Forward \/ Listen \/ Retry \/ UserActs \/ Receive \/ UNCHANGED vars
  <2>1. UNCHANGED <<up, listening, client, alive, registered>>
    BY <1>3 DEF vars, daemon, events, Capture, Merge, Handle, Answer, Reread, Tell, Look, Report,
       Emit, FetchStatus, Forward, Listen, Retry, UserActs, Receive
  <2>2. CASE FetchStatus
    BY <1>1, <2>1, <2>2 DEF FetchStatus, AppTypes, Wiring, Phase, InTouch
  <2>3. CASE Forward
    <3>1. phase = "streaming" /\ UNCHANGED phase
          /\ (UNCHANGED tray \/ tray' = [connected |-> TRUE, paused |-> Head(queue).paused])
      BY <2>3 DEF Forward
    <3>2. queue # <<>> /\ queue \in Seq(Event)
      BY <1>1, <2>3 DEF Forward, EventTypes
    <3>3. Head(queue) \in Event
      BY <3>2
    <3>4. Head(queue).paused \in BOOLEAN
      BY <3>3 DEF Event
    <3>5. tray' \in [connected : BOOLEAN, paused : BOOLEAN]
      <4>1. CASE UNCHANGED tray
        BY <1>1, <4>1 DEF AppTypes
      <4>2. CASE tray' = [connected |-> TRUE, paused |-> Head(queue).paused]
        BY <3>4, <4>2
      <4> QED
        BY <3>1, <4>1, <4>2
    <3>6. AppTypes'
      BY <1>1, <2>1, <3>1, <3>5 DEF AppTypes
    <3>7. Wiring'
      BY <1>1, <2>1, <3>1 DEF Wiring
    <3> QED
      BY <3>6, <3>7
  <2>4. CASE UNCHANGED <<phase, tray>>
    BY <1>1, <2>1, <2>4 DEF AppTypes, Wiring
  <2> QED
    BY <1>3, <2>2, <2>3, <2>4 DEF vars, Capture, Merge, Handle, Answer, Reread, Tell, Look,
       Report, Listen, Retry, UserActs, Receive
<1>4. CASE Start
  BY <1>1, <1>4 DEF Start, events, AppTypes, Wiring
<1>5. CASE Stop
  BY <1>1, <1>5 DEF Stop, AppTypes, Wiring
<1>6. CASE Query
  <2>1. UNCHANGED <<up, listening, phase, client, alive, tray, registered>>
    BY <1>6 DEF Query, daemon, events
  <2> QED
    BY <1>1, <2>1 DEF AppTypes, Wiring
<1>7. CASE ConnectCommands
  <2>1. UNCHANGED <<up, listening, client, registered>> /\ phase = "off"
    BY <1>7 DEF ConnectCommands, daemon, events
  <2>2. \/ up /\ phase' = "commands" /\ alive' = TRUE /\ UNCHANGED tray
        \/ ~up /\ phase' = "off" /\ tray' = [tray EXCEPT !.connected = FALSE] /\ UNCHANGED alive
    BY <1>7 DEF ConnectCommands, Disconnected
  <2>3. AppTypes'
    BY <1>1, <2>1, <2>2 DEF AppTypes, Phase
  <2>4. CASE up /\ phase' = "commands" /\ alive' = TRUE /\ UNCHANGED tray
    <3>1. ~tray.connected
      BY <1>1, <2>1 DEF Wiring
    <3>2. (listening' => (up' /\ alive')) /\ (alive' => up')
      BY <1>1, <2>1, <2>4, Zenon DEF Wiring
    <3>3. phase' = "commands" /\ (client' = "open" <=> phase' \in InTouch)
      BY <1>1, <2>1, <2>4 DEF Wiring, InTouch
    <3>4. (alive' /\ phase' \in InTouch \cup {"events"}) => listening'
      BY <3>2, <3>3 DEF InTouch
    <3>5. tray'.connected => phase' = "streaming"
      BY <2>4, <3>1
    <3> QED
      BY <2>3, <3>2, <3>3, <3>4, <3>5 DEF Wiring
  <2>5. CASE ~up /\ phase' = "off" /\ tray' = [tray EXCEPT !.connected = FALSE] /\ UNCHANGED alive
    BY <1>1, <2>1, <2>5 DEF Wiring, InTouch, AppTypes
  <2> QED
    BY <2>2, <2>3, <2>4, <2>5
<1>8. CASE ConnectEvents
  <2>1. UNCHANGED <<up, client, alive, registered>> /\ phase = "commands"
    BY <1>8 DEF ConnectEvents, daemon
  <2>2. \/ up /\ alive /\ phase' = "events" /\ listening' = TRUE /\ UNCHANGED tray
        \/ /\ ~(up /\ alive) /\ phase' = "off" /\ tray' = [tray EXCEPT !.connected = FALSE]
           /\ UNCHANGED listening
    BY <1>8 DEF ConnectEvents, Disconnected, events
  <2>3. AppTypes'
    BY <1>1, <2>1, <2>2 DEF AppTypes, Phase
  <2>4. CASE up /\ alive /\ phase' = "events" /\ listening' = TRUE /\ UNCHANGED tray
    <3>1. ~tray.connected
      BY <1>1, <2>1 DEF Wiring
    <3>2. (listening' => (up' /\ alive')) /\ (alive' => up') /\ listening'
      BY <1>1, <2>1, <2>4, Zenon DEF Wiring
    <3>3. phase' = "events" /\ (client' = "open" <=> phase' \in InTouch)
      BY <1>1, <2>1, <2>4 DEF Wiring, InTouch
    <3>4. (alive' /\ phase' \in InTouch \cup {"events"}) => listening'
      BY <3>2, <3>3 DEF InTouch
    <3>5. tray'.connected => phase' = "streaming"
      BY <2>4, <3>1
    <3> QED
      BY <2>3, <3>2, <3>3, <3>4, <3>5 DEF Wiring
  <2>5. CASE ~(up /\ alive) /\ phase' = "off" /\ tray' = [tray EXCEPT !.connected = FALSE]
             /\ UNCHANGED listening
    <3>1. ~tray'.connected
      BY <1>1, <2>5 DEF AppTypes
    <3>2. (listening' => (up' /\ alive')) /\ (alive' => up')
      BY <1>1, <2>1, <2>5, Zenon DEF Wiring
    <3>3. phase' = "off" /\ (client' = "open" <=> phase' \in InTouch)
      BY <1>1, <2>1, <2>5 DEF Wiring, InTouch
    <3>4. (alive' /\ phase' \in InTouch \cup {"events"}) => listening'
      BY <3>2, <3>3 DEF InTouch
    <3>5. tray'.connected => phase' = "streaming"
      BY <2>5, <3>1
    <3> QED
      BY <2>3, <3>2, <3>3, <3>4, <3>5 DEF Wiring
  <2> QED
    BY <2>2, <2>3, <2>4, <2>5
<1>9. CASE Subscribe
  BY <1>1, <1>9 DEF Subscribe, daemon, events, AppTypes, Wiring, Disconnected, Phase, InTouch
<1>10. CASE StreamEnds
  BY <1>1, <1>10 DEF StreamEnds, daemon, events, AppTypes, Wiring, Disconnected, Phase, InTouch
<1>11. ASSUME NEW c \in CallSet, c.who = "task" => phase = "asking",
              phase' = IF c.who = "task" THEN "streaming" ELSE phase,
              UNCHANGED <<up, listening, client, alive, tray, registered>>
       PROVE  AppTypes' /\ Wiring'
  BY <1>1, <1>11 DEF AppTypes, Wiring, Phase, InTouch
<1>12. CASE CallFails
  <2>1. UNCHANGED <<up, listening, client, alive, tray, registered>> /\ Failed(current, waiting)
    BY <1>12 DEF CallFails, daemon, events
  <2>2. current \in CallSet /\ (current.who = "task" => phase = "asking")
    BY <1>1 DEF CallTypesHold, Tasks
  <2>3. phase' = IF current.who = "task" THEN "streaming" ELSE phase
    BY <2>1 DEF Failed
  <2> QED
    BY <1>11, <2>1, <2>2, <2>3
<1>13. CASE Lock
  <2>1. UNCHANGED <<up, listening, client, alive, tray, registered>> /\ waiting # <<>>
        /\ (Failed(Head(waiting), Tail(waiting)) \/ UNCHANGED phase)
    BY <1>13 DEF Lock, daemon, events
  <2>2. CASE UNCHANGED phase
    BY <1>1, <2>1, <2>2 DEF AppTypes, Wiring
  <2>3. CASE Failed(Head(waiting), Tail(waiting))
    <3>1. waiting \in Seq(CallSet) /\ (TaskWaits(waiting) => phase = "asking")
      BY <1>1 DEF CallTypesHold, Tasks
    <3>2. Head(waiting) \in CallSet /\ (Head(waiting).who = "task" => phase = "asking")
      BY <2>1, <3>1, TailCalls
    <3>3. phase' = IF Head(waiting).who = "task" THEN "streaming" ELSE phase
      BY <2>3 DEF Failed
    <3> QED
      BY <1>11, <2>1, <3>2, <3>3
  <2> QED
    BY <2>1, <2>2, <2>3
<1>14. CASE Return
  <2>1. UNCHANGED <<up, listening, client, alive>>
    BY <1>14 DEF Return, daemon, events
  <2>2. registered' \in Hotkey
    BY <1>1, <1>14 DEF Return, AppTypes, DaemonTypes
  <2>3. \/ UNCHANGED <<phase, tray>>
        \/ /\ current.req = "status" /\ current.who # "toggle" /\ phase' = "streaming"
           /\ tray' = [connected |-> TRUE, paused |-> current.paused]
    BY <1>14 DEF Return
  <2>4. current \in CallSet /\ GoodCall(current, rows) /\ (current.who = "task" => phase = "asking")
    BY <1>1 DEF CallTypesHold, Calls, Tasks
  <2>5. CASE UNCHANGED <<phase, tray>>
    BY <1>1, <2>1, <2>2, <2>5 DEF AppTypes, Wiring
  <2>6. CASE /\ current.req = "status" /\ current.who # "toggle" /\ phase' = "streaming"
             /\ tray' = [connected |-> TRUE, paused |-> current.paused]
    <3>1. phase = "asking" /\ current.paused \in BOOLEAN
      BY <2>4, <2>6 DEF GoodCall, CallSet
    <3> QED
      BY <1>1, <2>1, <2>2, <2>6, <3>1 DEF AppTypes, Wiring, Phase, InTouch
  <2> QED
    BY <2>3, <2>5, <2>6
<1> QED
  BY <1>3, <1>4, <1>5, <1>6, <1>7, <1>8, <1>9, <1>10, <1>12, <1>13, <1>14
     DEF Next, DaemonSteps, AppSteps, CallSteps

LEMMA BoundStep ==
    ASSUME Base, [Next]_vars
    PROVE  BoundTypes'
<1>1. BoundTypes /\ {MaxOps, MaxRetries, MaxStops} \subseteq Nat
  BY UiAssumption DEF Base, Types
<1>2. /\ ops' = ops \/ (ops < MaxOps /\ ops' = ops + 1)
      /\ retries' = retries \/ (retries < MaxRetries /\ retries' = retries + 1)
         \/ retries' = MaxRetries
      /\ stops' = stops \/ (stops < MaxStops /\ stops' = stops + 1)
      /\ \/ heard' = heard
         \/ \E kinds \in {{"connected"}, {"added", "updated", "removed"}} :
               heard' = heard \cup kinds
  BY DEF Next, DaemonSteps, AppSteps, CallSteps, vars, bounds, view, Capture, Merge, Stop, Start,
     Listen, Retry, UserActs, Handle, Answer, Query, Reread, Tell, Look, Report, ConnectCommands, ConnectEvents,
     Subscribe, FetchStatus, Forward, StreamEnds, Lock, Return, CallFails, Receive
<1>3. heard' \subseteq {"connected", "added", "updated", "removed"}
  <2>1. heard \subseteq {"connected", "added", "updated", "removed"}
    BY <1>1 DEF BoundTypes
  <2> QED
    BY <1>2, <2>1
<1>4. ops' \in 0..MaxOps /\ retries' \in 0..MaxRetries /\ stops' \in 0..MaxStops
  BY <1>1, <1>2 DEF BoundTypes
<1> QED
  BY <1>3, <1>4 DEF BoundTypes

LEMMA BaseInit == Init => Base
<1> SUFFICES ASSUME Init
             PROVE  Base
  OBVIOUS
<1>1. /\ Ordered(<<>>) /\ (\A x : ~Has(<<>>, x)) /\ NoJob \in JobSet /\ NoJob.steps = <<>>
      /\ NoCall \in CallSet /\ NoCall.stage = "none" /\ GoodCall(NoCall, rows)
      /\ NoCall.who = "nobody" /\ NoCall.req = "none"
  BY NoSteps, NoCallType
<1>2. DaemonTypes
  BY <1>1 DEF Init, DaemonTypes, Row, Hotkey
<1>3. EventTypes
  <2>1. queue = <<>> /\ Len(queue) <= Buffer
    BY UiAssumption DEF Init
  <2>2. inbox = <<>> /\ crossed = {} /\ listening = FALSE /\ listDoubt = FALSE
        /\ statusDoubt = FALSE
    BY DEF Init
  <2>3. queue \in Seq(Event) /\ inbox \in Seq(Event) /\ crossed \subseteq Id
    BY <2>1, <2>2
  <2> QED
    BY <2>1, <2>2, <2>3 DEF EventTypes
<1>4. AppTypes
  BY DEF Init, AppTypes, Phase, Hotkey
<1>5. CallTypesHold
  BY <1>1 DEF Init, CallTypesHold
<1>6. ViewTypes
  BY DEF Init, ViewTypes, Row
<1>7. BoundTypes
  BY UiAssumption DEF Init, BoundTypes
<1>8. Jobs
  <2>1. TrueJob(NoJob, rows)
    BY <1>1 DEF TrueJob
  <2> QED
    BY <1>1, <2>1 DEF Init, Jobs
<1>9. Events
  BY DEF Init, Events
<1>10. Shown
  <2>1. TruePage(list, rows)
    BY DEF Init, TruePage, TrueRow, Row
  <2> QED
    BY <1>1, <2>1 DEF Init, Shown
<1>11. Calls
  BY <1>1 DEF Init, Calls, Waiting, Task
<1>12. Tasks
  BY <1>1 DEF Init, Tasks, OneTask, TaskWaits
<1>13. Wiring
  BY DEF Init, Wiring, InTouch
<1> QED
  BY <1>2, <1>3, <1>4, <1>5, <1>6, <1>7, <1>8, <1>9, <1>10, <1>11, <1>12, <1>13 DEF Base, Types

LEMMA BaseStep == Base /\ [Next]_vars => Base'
BY DaemonStep, EventStep, CallerStep, AppStep, BoundStep DEF Base, Types, Caller

LEMMA BaseInvariant == Spec => []Base
BY BaseInit, BaseStep, PTL DEF Spec

\* Types, for every set of clips and every bound: what the tasks of the daemon,
\* its event channel, the app's run_loop and Client and the webview hold stays
\* within the types of the code, and the receiver within EVENT_BUFFER.
THEOREM TypeInvariant == Spec => []TypeOK
<1>1. Base => TypeOK
  <2> SUFFICES ASSUME Base
               PROVE  TypeOK
    OBVIOUS
  <2>1. /\ DaemonTypes /\ EventTypes /\ AppTypes /\ CallTypesHold /\ ViewTypes /\ BoundTypes
        /\ Waiting(waiting, rows)
    BY DEF Base, Types, Calls
  <2>2. \A t \in Task : /\ job[t].steps \in Seq({"reread", "tell", "look", "report", "answer"})
                        /\ job[t].id \in Id \cup {0} /\ job[t].row \in Row
    BY <2>1 DEF DaemonTypes, JobSet, Step
  <2>3. current.stage \in {"none", "asked", "handled", "answered", "unanswered"}
    BY <2>1 DEF CallTypesHold, CallSet
  <2>4. \A k \in DOMAIN waiting : waiting[k].stage = "asked"
    BY <2>1 DEF Waiting
  <2> QED
    BY <2>1, <2>2, <2>3, <2>4 DEF DaemonTypes, EventTypes, AppTypes, ViewTypes, BoundTypes,
       Phase, TypeOK
<1> QED
  BY <1>1, BaseInvariant, PTL

----------------------------------------------------------------------------
(* The tray. *)

\* Unless a status was lost or late, or the handler owes one, the last status on its
\* way, or else the tray, says whether the daemon is paused; so does the answer to the
\* call that run_loop makes.
Told ==
    (listening /\ ~statusDoubt /\ ~Due("handler", "report")) =>
        /\ LastStatus(queue, paused)
        /\ (NoStatus(queue) /\ tray.connected) => tray.paused = paused
Asked ==
    (current.who = "task" /\ current.stage = "answered" /\ listening) => current.paused = paused

LEMMA ReportDue ==
    ASSUME Base, [Next]_vars, ~Stop, Due("handler", "report"), ~Due("handler", "report")'
    PROVE  Report("handler")
<1>1. DaemonTypes /\ Jobs /\ "handler" \in Task /\ ~Idle("handler")
  BY WriterIdle DEF Base, Types, Task
<1>2. ~UNCHANGED job
  BY DEF Due
<1>3. ~Capture
  <2> SUFFICES ASSUME Capture
               PROVE  FALSE
    OBVIOUS
  <2>1. PICK i \in Id, v \in Row, kind \in News : \E s : Writes("capture", i, v, kind, s)
    BY <1>1, CaptureIs
  <2> QED
    BY <1>1, <2>1, WriteFacts DEF Task, Due
<1>4. ~Merge
  <2> SUFFICES ASSUME Merge
               PROVE  FALSE
    OBVIOUS
  <2>1. PICK i \in Id, v \in Row, kind \in News : \E s : Writes("session", i, v, kind, s)
    BY <1>1, MergeIs
  <2> QED
    BY <1>1, <2>1, WriteFacts DEF Task, Due
<1>5. ASSUME NEW t \in Task
      PROVE  ~Reread(t) /\ ~Tell(t)
  BY <1>1, RereadFacts, TellFacts DEF Due
<1>6. ASSUME NEW t \in Task
      PROVE  ~Look(t)
  <2> SUFFICES ASSUME Look(t)
               PROVE  FALSE
    OBVIOUS
  <2> DEFINE j == [job[t] EXCEPT !.id = 0, !.row = "none", !.paused = paused]
  <2>1. j \in JobSet
    BY <1>1 DEF DaemonTypes, JobSet, Row
  <2>2. /\ \A u \in Task \ {t} : job'[u] = job[u]
        /\ \A x : Has(job'[t].steps, x) <=> (Has(job[t].steps, x) /\ x # "look")
    BY <1>1, <2>1, StateFacts
  <2> QED
    BY <1>1, <2>2 DEF Due
<1>7. ASSUME NEW t \in Task, t # "handler"
      PROVE  ~Report(t)
  BY <1>1, <1>7, StateFacts DEF Due, DaemonTypes
<1>8. ~Answer
  BY <1>1, StateFacts DEF Due, DaemonTypes, Task
<1>9. ~Handle
  BY <1>1 DEF Handle
<1>10. ~(Start \/ Listen \/ Retry \/ UserActs \/ Query \/ AppSteps \/ CallSteps \/ Receive \/ UNCHANGED vars)
  BY <1>2 DEF daemon, vars, Start, Listen, Retry, UserActs, Query, AppSteps, ConnectCommands,
     ConnectEvents, Subscribe, FetchStatus, Forward, StreamEnds, CallSteps, Lock, Return,
     CallFails, Receive
<1> QED
  BY <1>3, <1>4, <1>5, <1>6, <1>7, <1>8, <1>9, <1>10 DEF Next, DaemonSteps

LEMMA AskedStep ==
    ASSUME Base, Asked, [Next]_vars
    PROVE  Asked'
<1>1. /\ current \in CallSet /\ waiting \in Seq(CallSet) /\ GoodCall(current, rows)
      /\ Waiting(waiting, rows) /\ (current.who = "task" => phase = "asking")
      /\ (current.stage = "handled" => current.req \notin {"page", "status"})
      /\ (Due("handler", "answer") => current.stage = "handled")
      /\ DaemonTypes /\ Jobs /\ (listening => up)
  BY DEF Base, Types, CallTypesHold, Calls, Tasks, Wiring, Due
<1>2. CASE \/ Capture \/ Merge \/ (\E t \in Task : Reread(t) \/ Tell(t) \/ Look(t) \/ Report(t))
           \/ ConnectCommands \/ Subscribe \/ FetchStatus \/ Forward \/ StreamEnds \/ UserActs
           \/ Listen \/ UNCHANGED vars
  <2>1. UNCHANGED <<current, paused, listening>>
    BY <1>2 DEF vars, calls, daemon, events, Capture, Merge, Reread, Tell, Look, Report, Emit,
       ConnectCommands, Subscribe, FetchStatus, Forward, StreamEnds, UserActs, Listen
  <2> QED
    BY <2>1 DEF Asked
<1>3. CASE Stop
  BY <1>3 DEF Stop, Asked
<1>4. CASE Start
  <2>1. listening' = listening /\ ~up
    BY <1>4 DEF Start, events
  <2> QED
    BY <1>1, <2>1 DEF Asked
<1>5. CASE ConnectEvents
  <2>1. phase # "asking" /\ current' = current
    BY <1>5 DEF ConnectEvents, calls
  <2> QED
    BY <1>1, <2>1 DEF Asked
<1>6. CASE Handle
  <2>1. current'.stage = "handled"
    BY <1>1, <1>6 DEF Handle, CallSet
  <2> QED
    BY <2>1 DEF Asked
<1>7. CASE Answer
  <2>1. Due("handler", "answer")
    BY <1>1, <1>7, StateFacts DEF Due, DaemonTypes, Task
  <2>2. current'.who = current.who
    BY <1>1, <1>7 DEF Answer, CallSet
  <2>3. current.who # "task"
    BY <1>1, <2>1 DEF GoodCall
  <2> QED
    BY <2>2, <2>3 DEF Asked
<1>8. CASE Query
  <2>1. UNCHANGED <<paused, listening>> /\ current.stage = "asked"
    BY <1>8 DEF Query, daemon, events
  <2>2. CASE UNCHANGED current
    BY <2>1, <2>2 DEF Asked
  <2>3. CASE current.req = "page"
    <3>1. current'.who = current.who
      BY <1>1, <1>8 DEF Query, CallSet
    <3> QED
      BY <1>1, <2>3, <3>1 DEF GoodCall, Asked
  <2>4. CASE current' = [current EXCEPT !.stage = "answered", !.paused = paused]
    BY <1>1, <2>1, <2>4 DEF CallSet, Asked
  <2> QED
    BY <1>8, <2>2, <2>3, <2>4 DEF Query
<1>9. CASE Lock \/ CallFails \/ Return
  <2>1. current' = NoCall \/ UNCHANGED current \/ (waiting # <<>> /\ current' = Head(waiting))
    BY <1>9 DEF Lock, CallFails, Return
  <2>2. UNCHANGED <<paused, listening>>
    BY <1>9 DEF Lock, CallFails, Return, daemon, events
  <2>3. CASE UNCHANGED current
    BY <2>2, <2>3 DEF Asked
  <2>4. CASE current' = NoCall
    BY <2>4, NoCallType DEF Asked
  <2>5. CASE waiting # <<>> /\ current' = Head(waiting)
    <3>1. Head(waiting).stage = "asked"
      BY <1>1, <2>5, TailCalls
    <3> QED
      BY <2>5, <3>1 DEF Asked
  <2> QED
    BY <2>1, <2>3, <2>4, <2>5
<1>10. CASE Receive \/ Retry
  <2>1. UNCHANGED <<paused, listening>>
    BY <1>10 DEF Receive, Retry, daemon, events
  <2>2. current' = Superseded(current) \/ current' = Overtakes(current)
    BY <1>10, ReceiveEvent DEF Retry
  <2>3. current'.who = current.who /\ current'.stage = current.stage
        /\ current'.paused = current.paused
    BY <1>1, <2>2, SupersededIs, OvertakesIs
  <2> QED
    BY <2>1, <2>3 DEF Asked
<1> QED
  BY <1>2, <1>3, <1>4, <1>5, <1>6, <1>7, <1>8, <1>9, <1>10
     DEF Next, DaemonSteps, AppSteps, CallSteps

LEMMA ToldStep ==
    ASSUME Base, Told, Asked, [Next]_vars
    PROVE  Told'
<1>1. /\ queue \in Seq(Event) /\ EventTypes /\ DaemonTypes /\ Jobs /\ AppTypes
      /\ (listening => up) /\ (tray.connected => phase = "streaming")
      /\ current \in CallSet /\ GoodCall(current, rows)
  BY DEF Base, Types, EventTypes, Wiring, CallTypesHold, Calls
<1>2. (Due("handler", "report") /\ ~Stop /\ ~Report("handler")) => Due("handler", "report")'
  BY ReportDue
<1>3. ASSUME ~Stop, ~Report("handler"), UNCHANGED <<queue, listening, statusDoubt, paused>>,
             tray' = tray \/ ~tray'.connected
      PROVE  Told'
  BY <1>2, <1>3 DEF Told
<1>4. CASE Stop
  BY <1>4 DEF Stop, Told
<1>5. ASSUME NEW t \in Task, Report(t)
      PROVE  Told'
  <2>1. PICK e \in Event : Emit(e) /\ OfStatus(e)
    BY <1>1, <1>5, ReportFacts
  <2>2. listening' = listening /\ statusDoubt' = (e.paused # paused) /\ UNCHANGED <<paused, tray>>
    BY <1>1, <1>5, <2>1, EmitFacts, EmitHistory DEF Report
  <2>3. SUFFICES ASSUME listening, e.paused = paused
                 PROVE  LastStatus(queue', paused) /\ ~NoStatus(queue')
    BY <2>2 DEF Told
  <2>4. PICK q : Sent(q, e)
    BY <1>1, <2>1, <2>3, EmitFacts
  <2> QED
    BY <2>1, <2>3, <2>4, AppendStatus DEF Sent
<1>6. ASSUME ~Stop, ~Report("handler"), NEW t \in Task, Tell(t)
      PROVE  Told'
  <2>1. PICK e \in Event : Emit(e) /\ e.kind \in News
    BY <1>1, <1>6, TellFacts
  <2>2. ~OfStatus(e)
    BY <2>1 DEF News, OfStatus
  <2>3. listening' = listening /\ (statusDoubt => statusDoubt') /\ UNCHANGED <<paused, tray>>
    BY <1>1, <1>6, <2>1, <2>2, EmitFacts, EmitHistory DEF Tell
  <2>4. SUFFICES ASSUME listening, ~statusDoubt', LastStatus(queue, paused),
                        (NoStatus(queue) /\ tray.connected) => tray.paused = paused
                 PROVE  /\ LastStatus(queue', paused)
                        /\ (NoStatus(queue') /\ tray.connected) => tray.paused = paused
    BY <1>2, <1>6, <2>3 DEF Told
  <2>5. PICK q : Sent(q, e)
    BY <1>1, <2>1, <2>4, EmitFacts
  <2>6. LastStatus(q, paused) /\ (NoStatus(q) => NoStatus(queue))
    <3>1. CASE q = queue
      BY <2>4, <3>1
    <3>2. CASE q = Tail(queue) /\ Dropped(e)
      BY <1>1, <2>2, <2>4, <3>2, TailStatus DEF Dropped, NoStatus
    <3> QED
      BY <2>5, <3>1, <3>2 DEF Sent
  <2> QED
    BY <2>1, <2>2, <2>4, <2>5, <2>6, AppendStatus DEF Sent
<1>7. CASE Handle
  <2>1. UNCHANGED <<queue, listening, statusDoubt, tray>> /\ Idle("handler")
    BY <1>7 DEF Handle, events, history
  <2>2. ~Due("handler", "report")
    BY <2>1, WriterIdle DEF Task
  <2>3. CASE HandlesClip
    BY <2>1, <2>2, <2>3 DEF HandlesClip, Told
  <2>4. CASE HandlesState
    <3>1. job'["handler"].steps = <<"look", "report", "answer">>
      BY <1>1, <2>4, BeginIs DEF HandlesState, DaemonTypes, News, Row, Plans, Task
    <3>2. Due("handler", "report")'
      BY <3>1, PlanHas DEF Due
    <3> QED
      BY <3>2 DEF Told
  <2> QED
    BY <1>1, <1>7, <2>3, <2>4, HandleIs
<1>8. CASE Start
  <2>1. listening' = listening /\ ~up
    BY <1>8 DEF Start, events
  <2> QED
    BY <1>1, <2>1 DEF Told
<1>9. ASSUME ~Stop, ~Report("handler"),
             \/ Capture \/ Merge \/ Answer \/ (\E t \in Task : Reread(t) \/ Look(t))
             \/ Query \/ FetchStatus \/ Lock \/ CallFails \/ Receive \/ Listen \/ Retry \/ UserActs
             \/ UNCHANGED vars
      PROVE  Told'
  <2>1. UNCHANGED <<queue, listening, statusDoubt, paused, tray>>
    BY <1>9 DEF vars, daemon, events, history, Capture, Merge, Answer, Reread, Look, Query,
       FetchStatus, Lock, CallFails, Receive, Listen, Retry, UserActs
  <2> QED
    BY <1>3, <1>9, <2>1
<1>10. ASSUME ~Stop, ~Report("handler"), ConnectCommands \/ Subscribe \/ StreamEnds
       PROVE  Told'
  <2>1. UNCHANGED <<queue, listening, statusDoubt, paused>>
    BY <1>10 DEF daemon, events, history, ConnectCommands, Subscribe, StreamEnds
  <2>2. tray' = tray \/ tray' = [tray EXCEPT !.connected = FALSE]
    BY <1>10 DEF ConnectCommands, Subscribe, StreamEnds, Disconnected
  <2>3. tray' = tray \/ ~tray'.connected
    BY <1>1, <2>2 DEF AppTypes
  <2> QED
    BY <1>3, <1>10, <2>1, <2>3
<1>11. ASSUME ~Stop, ~Report("handler"), ConnectEvents
       PROVE  Told'
  <2>1. phase = "commands" /\ UNCHANGED paused
    BY <1>11 DEF ConnectEvents, daemon
  <2>2. CASE queue' = <<>> /\ UNCHANGED tray
    <3>1. ~tray'.connected /\ LastStatus(queue', paused')
      BY <1>1, <2>1, <2>2 DEF LastStatus
    <3> QED
      BY <3>1 DEF Told
  <2>3. CASE UNCHANGED <<events, statusDoubt>> /\ Disconnected
    <3>1. ~tray'.connected /\ UNCHANGED <<queue, listening, statusDoubt>>
      BY <1>1, <2>3 DEF Disconnected, AppTypes, events
    <3> QED
      BY <1>3, <1>11, <2>1, <3>1
  <2> QED
    BY <1>11, <2>2, <2>3 DEF ConnectEvents
<1>12. ASSUME ~Stop, ~Report("handler"), Forward
       PROVE  Told'
  <2>1. queue # <<>> /\ queue' = Tail(queue) /\ UNCHANGED <<listening, statusDoubt, paused>>
    BY <1>12 DEF Forward, daemon, history
  <2>2. IF OfStatus(Head(queue)) THEN tray'.paused = Head(queue).paused ELSE UNCHANGED tray
    BY <1>12 DEF Forward
  <2>3. SUFFICES ASSUME LastStatus(queue, paused),
                        (NoStatus(queue) /\ tray.connected) => tray.paused = paused
                 PROVE  /\ LastStatus(queue', paused)
                        /\ (NoStatus(queue') /\ tray'.connected) => tray'.paused = paused
    BY <1>2, <1>12, <2>1 DEF Told
  <2>4. /\ LastStatus(Tail(queue), paused)
        /\ NoStatus(Tail(queue)) => (NoStatus(queue)
              \/ (OfStatus(Head(queue)) /\ Head(queue).paused = paused))
    BY <1>1, <2>1, <2>3, TailStatus
  <2>5. NoStatus(queue) => ~OfStatus(Head(queue))
    BY <1>1, <2>1, TailPlaces DEF NoStatus
  <2> QED
    BY <2>1, <2>2, <2>3, <2>4, <2>5
<1>13. ASSUME ~Stop, ~Report("handler"), Return
       PROVE  Told'
  <2>1. UNCHANGED <<queue, listening, paused>> /\ current.stage = "answered"
    BY <1>13 DEF Return, daemon, events
  <2>2. CASE UNCHANGED <<tray, statusDoubt>>
    BY <1>3, <1>13, <2>1, <2>2
  <2>3. CASE /\ current.req = "status" /\ current.who # "toggle"
             /\ tray' = [connected |-> TRUE, paused |-> current.paused]
             /\ statusDoubt' = (statusDoubt /\ queue # <<>>)
    <3>1. listening => tray'.paused = paused
      BY <1>1, <2>1, <2>3 DEF Asked, GoodCall
    <3>2. queue = <<>> => LastStatus(queue, paused)
      BY DEF LastStatus
    <3> QED
      BY <1>2, <1>13, <2>1, <2>3, <3>1, <3>2 DEF Told
  <2> QED
    BY <1>13, <2>2, <2>3 DEF Return
<1> QED
  BY <1>4, <1>5, <1>6, <1>7, <1>8, <1>9, <1>10, <1>11, <1>12, <1>13
     DEF Next, DaemonSteps, AppSteps, CallSteps, Task

\* The tray's paused flag is the daemon's when everything is still, for every buffer
\* and any number of operations and stops, unless a status was dropped and none
\* followed it, or two tasks sent theirs in the other order (emit_status of daemon.rs,
\* fetch_status and forward_event of connection.rs).
THEOREM TrayTells == Spec => []TrayTellsTheStatus
<1>1. Init => Told /\ Asked
  BY NoCallType DEF Init, Told, Asked
<1>2. Base /\ Told /\ Asked /\ [Next]_vars => (Told /\ Asked)'
  BY ToldStep, AskedStep
<1>3. Base /\ Told => TrayTellsTheStatus
  <2> SUFFICES ASSUME Told, listening, queue = <<>>, job["handler"].steps = <<>>,
                      ~statusDoubt, tray.connected
               PROVE  tray.paused = paused
    BY DEF TrayTellsTheStatus, Quiet, Task
  <2>1. NoStatus(queue) /\ ~Due("handler", "report")
    BY NoSteps, EmptyTells DEF Due
  <2> QED
    BY <2>1 DEF Told
<1> QED
  BY <1>1, <1>2, <1>3, BaseInvariant, PTL DEF Spec

----------------------------------------------------------------------------
(* The list: what is on its way to it. *)

Seen == IF phase \in InTouch THEN inbox ELSE <<>>
Pending(K, i) == \E t \in Task : Due(t, "tell") /\ job[t].id = i /\ job[t].kind \in K
Known(i) == i \notin crossed /\ ~Pending(Changes, i)
Still(i) == ~Mention(queue, Changes, i) /\ ~Mention(Seen, Changes, i)
Coming(i) == Mention(queue, {"added"}, i) \/ Mention(Seen, {"added"}, i) \/ Pending({"added"}, i)

\* Unless a task still has to tell of a clip or events about it crossed, the newest
\* events on their way have its row.
Newest(i) ==
    Known(i) =>
        /\ Tells(queue, i, rows[i])
        /\ ~Mention(queue, Changes, i) => Tells(Seen, i, rows[i])
NewestTells ==
    (listening /\ ~listDoubt /\ phase \in InTouch \cup {"events"}) => \A i \in Id : Newest(i)

\* The steps that no event and no row is touched by.
Calm ==
    /\ UNCHANGED <<rows, queue, inbox, crossed>>
    /\ \A K, i : Pending(K, i)' <=> Pending(K, i)

LEMMA SentMention ==
    ASSUME queue \in Seq(Event), NEW e \in Event, NEW q, Sent(q, e), ~listDoubt',
           ~Link(e), NEW K, K \subseteq News, NEW i
    PROVE  Mention(queue', K, i) <=> (Mention(queue, K, i) \/ About(e, K, i))
<1>1. Mention(q, K, i) <=> Mention(queue, K, i)
  <2>1. CASE q = queue
    BY <2>1
  <2>2. CASE q = Tail(queue) /\ Dropped(e)
    <3>1. queue # <<>> /\ OfStatus(Head(queue))
      BY <2>2 DEF Dropped
    <3>2. ~About(Head(queue), K, i)
      BY <3>1 DEF About, OfStatus, News
    <3> QED
      BY <2>2, <3>1, <3>2, TailMention
  <2> QED
    BY <2>1, <2>2 DEF Sent
<1> QED
  BY <1>1, AppendMention DEF Sent

LEMMA SentTells ==
    ASSUME queue \in Seq(Event), NEW e \in Event, NEW q, Sent(q, e), ~Link(e), NEW i, NEW v,
           \/ Tells(queue, i, v) /\ (About(e, News, i) => e.row = v)
           \/ About(e, Changes, i) /\ e.row = v
    PROVE  Tells(queue', i, v)
<1>1. Tells(queue, i, v) => Tells(q, i, v)
  <2>1. CASE q = queue
    BY <2>1
  <2>2. CASE q = Tail(queue) /\ Dropped(e)
    BY <2>2, TailTells DEF Dropped
  <2> QED
    BY <2>1, <2>2 DEF Sent
<1> QED
  BY <1>1, AppendTells DEF Sent

\* The clip that a task is going to tell of.
TellsOf(t, K, i) == Due(t, "tell") /\ job[t].id = i /\ job[t].kind \in K

LEMMA PendingIs ==
    ASSUME NEW K, NEW i
    PROVE  Pending(K, i) <=> \E t \in Task : TellsOf(t, K, i)
BY DEF Pending, TellsOf

LEMMA PendingSame ==
    ASSUME NEW t \in Task, \A u \in Task \ {t} : job'[u] = job[u], NEW K, NEW i,
           TellsOf(t, K, i)' <=> TellsOf(t, K, i)
    PROVE  Pending(K, i)' <=> Pending(K, i)
<1>1. \A u \in Task \ {t} : TellsOf(u, K, i)' <=> TellsOf(u, K, i)
  BY DEF TellsOf, Due
<1>2. Pending(K, i)' <=> \E u \in Task : TellsOf(u, K, i)'
  BY DEF Pending, TellsOf
<1> QED
  BY <1>1, <1>2, PendingIs

LEMMA PendingWrite ==
    ASSUME Base, NEW t \in Task, NEW h \in Id, NEW v \in Row, NEW kind \in News, NEW s,
           Writes(t, h, v, kind, s), Idle(t), NEW K, NEW i
    PROVE  Pending(K, i)' <=> (Pending(K, i) \/ (i = h /\ kind \in K))
<1>1. /\ \A u \in Task \ {t} : job'[u] = job[u]
      /\ job'[t].id = h /\ job'[t].kind = kind /\ Has(job'[t].steps, "tell")
  BY WriteFacts DEF Base, Types
<1>2. ~TellsOf(t, K, i)
  BY WriterIdle DEF TellsOf
<1>3. TellsOf(t, K, i)' <=> (i = h /\ kind \in K)
  BY <1>1 DEF TellsOf, Due
<1>4. \A u \in Task \ {t} : TellsOf(u, K, i)' <=> TellsOf(u, K, i)
  BY <1>1 DEF TellsOf, Due
<1>5. Pending(K, i)' <=> \E u \in Task : TellsOf(u, K, i)'
  BY DEF Pending, TellsOf
<1> QED
  BY <1>2, <1>3, <1>4, <1>5, PendingIs

LEMMA PendingTell ==
    ASSUME Base, NEW t \in Task, Tell(t), NEW K, NEW i
    PROVE  /\ Pending(K, i)' => Pending(K, i)
           /\ Pending(K, i) => (Pending(K, i)' \/ (job[t].id = i /\ job[t].kind \in K))
<1>1. /\ \A u \in Task \ {t} : job'[u] = job[u]
      /\ ~Has(job'[t].steps, "tell")
  BY TellFacts DEF Base, Types
<1>2. ~TellsOf(t, K, i)'
  BY <1>1 DEF TellsOf, Due
<1>3. TellsOf(t, K, i) => (job[t].id = i /\ job[t].kind \in K)
  BY DEF TellsOf
<1>4. \A u \in Task \ {t} : TellsOf(u, K, i)' <=> TellsOf(u, K, i)
  BY <1>1 DEF TellsOf, Due
<1>5. Pending(K, i)' <=> \E u \in Task : TellsOf(u, K, i)'
  BY DEF Pending, TellsOf
<1> QED
  BY <1>2, <1>3, <1>4, <1>5, PendingIs

LEMMA PendingCalm ==
    ASSUME Base, NEW t \in Task, NEW K, NEW i,
           \/ Reread(t) \/ Look(t) \/ Report(t)
           \/ t = "handler" /\ Answer
           \/ t = "handler" /\ Idle(t) /\ HandlesState
    PROVE  Pending(K, i)' <=> Pending(K, i)
<1>1. DaemonTypes /\ Jobs
  BY DEF Base, Types
<1>2. CASE Reread(t)
  BY <1>1, <1>2, RereadFacts, PendingSame DEF TellsOf, Due
<1>3. ASSUME NEW j \in JobSet, NEW step,
             \/ step = "look" /\ Look(t) /\ j = [job[t] EXCEPT !.id = 0, !.row = "none", !.paused = paused]
             \/ step = "report" /\ Report(t) /\ j = job[t]
             \/ step = "answer" /\ t = "handler" /\ Answer /\ j = job[t]
      PROVE  Pending(K, i)' <=> Pending(K, i)
  <2>1. /\ \A u \in Task \ {t} : job'[u] = job[u]
        /\ \A x : Has(job'[t].steps, x) <=> (Has(job[t].steps, x) /\ x # step)
        /\ ~Has(job[t].steps, "tell")
    BY <1>1, <1>3, StateFacts
  <2>2. ~TellsOf(t, K, i) /\ ~TellsOf(t, K, i)'
    BY <2>1 DEF TellsOf, Due
  <2> QED
    BY <2>1, <2>2, PendingSame
<1>4. job[t] \in JobSet /\ [job[t] EXCEPT !.id = 0, !.row = "none", !.paused = paused] \in JobSet
  BY <1>1 DEF DaemonTypes, JobSet, Row
<1>5. CASE t = "handler" /\ Idle(t) /\ HandlesState
  <2>1. /\ \A u \in Task \ {t} : job'[u] = job[u]
        /\ job'[t].steps = <<"look", "report", "answer">>
    BY <1>1, <1>5, BeginIs DEF HandlesState, DaemonTypes, News, Row, Plans
  <2>2. ~Has(job'[t].steps, "tell")
    BY <2>1, PlanHas
  <2>3. ~TellsOf(t, K, i) /\ ~TellsOf(t, K, i)'
    BY <1>5, <2>2, WriterIdle DEF TellsOf, Due
  <2> QED
    BY <2>1, <2>3, PendingSame
<1> QED
  BY <1>2, <1>3, <1>4, <1>5

\* A task writes to a row while nothing else happens.
Writing ==
    /\ UNCHANGED <<queue, listening, inbox, crossed, listDoubt, phase, list, failed, waiting,
                   client, alive>>
    /\ \E t \in Task, h \in Id, v \in Row, kind \in News :
          Idle(t) /\ \E s : Writes(t, h, v, kind, s)

LEMMA WritingIs ==
    ASSUME Base, Capture \/ Merge \/ (Handle /\ HandlesClip)
    PROVE  Writing
<1>1. DaemonTypes /\ GoodCall(current, rows)
  BY DEF Base, Types, Calls
<1>2. UNCHANGED <<queue, listening, inbox, crossed, listDoubt, phase, list, failed, waiting,
                  client, alive>>
  BY DEF Capture, Merge, Handle, events, view, history, calls
<1>3. CASE Capture
  <2>1. Idle("capture")
    BY <1>3 DEF Capture
  <2> QED
    BY <1>1, <1>2, <1>3, <2>1, CaptureIs DEF Writing, Task
<1>4. CASE Merge
  <2>1. Idle("session")
    BY <1>4 DEF Merge
  <2> QED
    BY <1>1, <1>2, <1>4, <2>1, MergeIs DEF Writing, Task
<1>5. CASE Handle /\ HandlesClip
  <2>1. Idle("handler") /\ current.id \in Id /\ Changes \subseteq News
    BY <1>1, <1>5 DEF Handle, HandlesClip, GoodCall, Changes, News
  <2> QED
    BY <1>2, <1>5, <2>1 DEF Writing, Task, HandlesClip
<1> QED
  BY <1>3, <1>4, <1>5

LEMMA CalmSteps ==
    ASSUME Base,
           \/ Handle /\ HandlesState
           \/ Answer \/ Query \/ (\E t \in Task : Reread(t) \/ Look(t))
           \/ Start \/ ConnectCommands \/ FetchStatus \/ StreamEnds \/ Lock \/ CallFails
           \/ Return \/ Listen \/ Retry \/ UserActs \/ UNCHANGED vars
    PROVE  Calm
<1>1. UNCHANGED <<rows, queue, inbox, crossed>>
  BY DEF Handle, HandlesState, Answer, Query, Reread, Look, Start, ConnectCommands, FetchStatus,
     StreamEnds, Lock, CallFails, Return, Listen, Retry, UserActs, vars, daemon, events, view, history
<1>2. ASSUME UNCHANGED job
      PROVE  \A K, i : Pending(K, i)' <=> Pending(K, i)
  BY <1>2 DEF Pending, Due
<1>3. CASE \/ Handle /\ HandlesState
           \/ Answer \/ (\E t \in Task : Reread(t) \/ Look(t))
  <2>1. (Handle /\ HandlesState) => (Idle("handler") /\ HandlesState)
    BY DEF Handle
  <2> QED
    BY <1>1, <1>3, <2>1, PendingCalm DEF Calm, Task
<1>4. CASE \/ Query \/ Start \/ ConnectCommands \/ FetchStatus \/ StreamEnds \/ Lock \/ CallFails
           \/ Return \/ Listen \/ Retry \/ UserActs \/ UNCHANGED vars
  <2>1. UNCHANGED job
    BY <1>4 DEF Query, Start, ConnectCommands, FetchStatus, StreamEnds, Lock, CallFails, Return,
       Listen, Retry, UserActs, vars, daemon
  <2> QED
    BY <1>1, <1>2, <2>1 DEF Calm
<1> QED
  BY <1>3, <1>4

\* Nothing is on its way about a clip that is not in the table.
LEMMA NothingOfNone ==
    ASSUME Events, NEW i, rows[i] = "none", NEW v, NEW K, K \subseteq News
    PROVE  /\ Tells(queue, i, v) /\ Tells(inbox, i, v)
           /\ ~Mention(queue, K, i) /\ ~Mention(inbox, K, i)
<1>1. ASSUME NEW q \in {queue, inbox}, NEW k \in DOMAIN q
      PROVE  ~About(q[k], News, i)
  <2>1. queue \in Seq(Sendable(rows)) /\ inbox \in Seq(Passable(rows))
    BY DEF Events
  <2>2. TrueEvent(q[k], rows)
    <3>1. CASE q = queue
      <4>1. queue[k] \in Sendable(rows)
        BY <1>1, <2>1, <3>1
      <4> QED
        BY <3>1, <4>1 DEF Sendable
    <3>2. CASE q = inbox
      <4>1. inbox[k] \in Passable(rows)
        BY <1>1, <2>1, <3>2
      <4> QED
        BY <3>2, <4>1 DEF Passable
    <3> QED
      BY <1>1, <3>1, <3>2
  <2> QED
    BY <2>2 DEF TrueEvent, TrueRow, About
<1>2. Tells(queue, i, v) /\ Tells(inbox, i, v)
  BY <1>1, NothingTells
<1>3. \A e : About(e, K, i) => About(e, News, i)
  BY DEF About
<1> QED
  BY <1>1, <1>2, <1>3 DEF Mention, Fresh

LEMMA QueueLinks ==
    ASSUME Events
    PROVE  NoLink(queue)
<1>1. queue \in Seq(Sendable(rows))
  BY DEF Events
<1>2. \A k \in DOMAIN queue : queue[k] \in Sendable(rows)
  BY <1>1
<1> QED
  BY <1>2 DEF NoLink, Sendable

\* The steps without an event neither connect the app nor take a connection away.
LEMMA CalmLinks ==
    ASSUME Base, Base',
           \/ Handle /\ HandlesState
           \/ Answer \/ Query \/ (\E t \in Task : Reread(t) \/ Look(t))
           \/ Start \/ FetchStatus \/ Lock \/ CallFails
           \/ Return \/ Listen \/ Retry \/ UserActs \/ UNCHANGED vars
    PROVE  /\ Calm /\ UNCHANGED <<listening, Seen>>
           /\ phase' \in InTouch <=> phase \in InTouch
           /\ phase' = "events" => phase = "events"
           /\ ~listDoubt' => (~listDoubt \/ (queue = <<>> /\ inbox = <<>>))
<1>1. Calm
  BY CalmSteps
<1>2. UNCHANGED <<listening, client>>
  BY DEF Handle, HandlesState, Answer, Query, Reread, Look, Start, FetchStatus, Lock, CallFails,
     Return, Listen, Retry, UserActs, vars, daemon, events, view, history
<1>3. Query \/ UNCHANGED listDoubt \/ listDoubt' = (listDoubt \/ current.overtaken)
  BY DEF Handle, HandlesState, Answer, Reread, Look, Start, FetchStatus, Lock, CallFails,
     Return, Listen, Retry, UserActs, vars, daemon, events, view, history
<1>4. phase' \in {phase, "asking", "streaming"}
  BY DEF Handle, HandlesState, Answer, Query, Reread, Look, Start, FetchStatus, Lock, CallFails,
     Return, Listen, Retry, UserActs, vars, Failed
<1>5. phase' \in InTouch <=> phase \in InTouch
  BY <1>2 DEF Base, Wiring
<1>6. UNCHANGED Seen
  BY <1>1, <1>5 DEF Seen, Calm
<1>7. (Query /\ ~listDoubt') => (~listDoubt \/ (queue = <<>> /\ inbox = <<>>))
  BY DEF Query
<1>8. ~listDoubt' => (~listDoubt \/ (queue = <<>> /\ inbox = <<>>))
  BY <1>3, <1>7, Zenon
<1> QED
  BY <1>1, <1>2, <1>4, <1>5, <1>6, <1>8

----------------------------------------------------------------------------
(* The newest events tell what the row is. *)

LEMMA NewestWrite ==
    ASSUME Base, NewestTells, Writing
    PROVE  NewestTells'
<1>1. UNCHANGED <<queue, inbox, crossed, listening, listDoubt, phase, Seen>>
  BY DEF Writing, Seen
<1>2. PICK t \in Task, h \in Id, v \in Row, kind \in News :
         Idle(t) /\ \E s : Writes(t, h, v, kind, s)
  BY DEF Writing
<1>3. PICK s : Writes(t, h, v, kind, s)
  BY <1>2
<1>4. (\A i \in Id \ {h} : rows'[i] = rows[i]) /\ WriteOf(rows[h], rows'[h], kind)
  BY <1>3, WriteFacts DEF Base, Types
<1> SUFFICES ASSUME (listening /\ ~listDoubt /\ phase \in InTouch \cup {"events"})',
                    NEW i \in Id, Known(i)'
             PROVE  Newest(i)'
  BY DEF NewestTells, Newest
<1>5. Known(i) /\ ~(i = h /\ kind \in Changes)
  BY <1>1, <1>2, <1>3, PendingWrite DEF Known
<1>6. Newest(i)
  BY <1>1 DEF NewestTells
<1>7. CASE i # h
  <2>1. rows'[i] = rows[i]
    BY <1>4, <1>7
  <2> QED
    BY <1>1, <1>5, <1>6, <2>1 DEF Newest
<1>8. CASE i = h
  <2>1. rows[i] = "none"
    BY <1>4, <1>5, <1>8 DEF WriteOf, Changes
  <2>2. Tells(queue, i, rows'[i]) /\ Tells(inbox, i, rows'[i]) /\ Tells(<<>>, i, rows'[i])
    BY <2>1, NothingOfNone, EmptyTells DEF Base
  <2>3. Tells(Seen, i, rows'[i])
    BY <2>2 DEF Seen
  <2> QED
    BY <1>1, <2>2, <2>3 DEF Newest
<1> QED
  BY <1>7, <1>8

LEMMA NewestTell ==
    ASSUME Base, NewestTells, NEW t \in Task, Tell(t)
    PROVE  NewestTells'
<1>1. DaemonTypes /\ Jobs /\ EventTypes /\ queue \in Seq(Event)
  BY DEF Base, Types, EventTypes
<1>2. PICK e \in Event : /\ Emit(e) /\ e.kind = job[t].kind /\ e.id = job[t].id
                         /\ e.kind \in News
  BY <1>1, TellFacts
<1>3. ~Link(e) /\ ~OfStatus(e)
  BY <1>2 DEF News, Link, OfStatus
<1>4. UNCHANGED <<rows, inbox, phase, Seen>>
  BY DEF Tell, view, Seen
<1>5. listening' = listening /\ (listDoubt => listDoubt') /\ (listening => \E q : Sent(q, e))
  BY <1>1, <1>2, EmitFacts
<1> SUFFICES ASSUME (listening /\ ~listDoubt /\ phase \in InTouch \cup {"events"})',
                    NEW i \in Id, Known(i)'
             PROVE  Newest(i)'
  BY DEF NewestTells, Newest
<1>6. PICK q : Sent(q, e)
  BY <1>5
<1>7. Newest(i)
  BY <1>4, <1>5 DEF NewestTells
<1>8. crossed' = IF e.row # rows[e.id] THEN crossed \cup {e.id}
                 ELSE IF e.kind = "added" THEN crossed ELSE crossed \ {e.id}
  BY <1>2, <1>3, EmitHistory
<1>9. Pending(Changes, i) => (Pending(Changes, i)' \/ (e.id = i /\ e.kind \in Changes))
  BY <1>2, PendingTell
<1>10. Mention(queue', Changes, i) <=> (Mention(queue, Changes, i) \/ About(e, Changes, i))
  <2>1. Changes \subseteq News
    BY DEF Changes, News
  <2> QED
    BY <1>1, <1>3, <1>6, <2>1, SentMention
<1>11. CASE ~About(e, Changes, i)
  <2>1. Known(i)
    BY <1>2, <1>8, <1>9, <1>11 DEF Known, About, Changes, News
  <2>2. About(e, News, i) => e.row = rows[i]
    BY <1>8 DEF Known, About
  <2>3. Tells(queue, i, rows[i])
    BY <1>7, <2>1 DEF Newest
  <2>4. Tells(queue', i, rows[i])
    BY <1>1, <1>3, <1>6, <2>2, <2>3, SentTells
  <2> QED
    BY <1>4, <1>7, <1>10, <1>11, <2>1, <2>4 DEF Newest
<1>12. CASE About(e, Changes, i)
  <2>1. e.row = rows[i]
    BY <1>8, <1>12 DEF Known, About
  <2>2. Tells(queue', i, rows[i])
    BY <1>1, <1>3, <1>6, <1>12, <2>1, SentTells
  <2> QED
    BY <1>4, <1>10, <1>12, <2>2 DEF Newest
<1> QED
  BY <1>11, <1>12

LEMMA NewestReport ==
    ASSUME Base, NewestTells, NEW t \in Task, Report(t)
    PROVE  NewestTells'
<1>1. DaemonTypes /\ Jobs /\ EventTypes /\ queue \in Seq(Event)
  BY DEF Base, Types, EventTypes
<1>2. PICK e \in Event : Emit(e) /\ OfStatus(e) /\ e.kind = "status"
  BY <1>1, ReportFacts
<1>3. ~Link(e) /\ \A K, i : K \subseteq News => ~About(e, K, i)
  BY <1>2 DEF News, Link, About
<1>4. UNCHANGED <<rows, inbox, phase, Seen>> /\ crossed' = crossed
  BY <1>2, EmitHistory DEF Report, view, Seen
<1>5. listening' = listening /\ (listDoubt => listDoubt') /\ (listening => \E q : Sent(q, e))
  BY <1>1, <1>2, EmitFacts
<1> SUFFICES ASSUME (listening /\ ~listDoubt /\ phase \in InTouch \cup {"events"})',
                    NEW i \in Id, Known(i)'
             PROVE  Newest(i)'
  BY DEF NewestTells, Newest
<1>6. PICK q : Sent(q, e)
  BY <1>5
<1>7. Known(i) /\ Newest(i)
  BY <1>4, <1>5, PendingCalm DEF NewestTells, Known
<1>8. Changes \subseteq News
  BY DEF Changes, News
<1>9. Mention(queue', Changes, i) <=> (Mention(queue, Changes, i) \/ About(e, Changes, i))
  BY <1>1, <1>3, <1>6, <1>8, SentMention
<1>10. Tells(queue', i, rows[i])
  BY <1>1, <1>3, <1>6, <1>7, SentTells DEF Newest
<1> QED
  BY <1>3, <1>4, <1>7, <1>8, <1>9, <1>10 DEF Newest

LEMMA ForwardIs ==
    ASSUME EventTypes, Forward, ~listDoubt'
    PROVE  /\ phase = "streaming" /\ queue # <<>> /\ queue' = Tail(queue)
           /\ UNCHANGED <<rows, job, phase, listening, crossed, listDoubt>>
           /\ inbox' = IF OfStatus(Head(queue)) THEN inbox ELSE Append(inbox, Head(queue))
BY DEF Forward, Show, daemon, EventTypes

LEMMA NewestForward ==
    ASSUME Base, NewestTells, Forward
    PROVE  NewestTells'
<1>1. EventTypes /\ Events /\ queue \in Seq(Event) /\ inbox \in Seq(Event)
  BY DEF Base, Types, EventTypes
<1> SUFFICES ASSUME (listening /\ ~listDoubt /\ phase \in InTouch \cup {"events"})',
                    NEW i \in Id, Known(i)'
             PROVE  Newest(i)'
  BY DEF NewestTells, Newest
<1>2. /\ phase = "streaming" /\ queue # <<>> /\ queue' = Tail(queue)
      /\ UNCHANGED <<rows, job, phase, listening, crossed, listDoubt>>
      /\ inbox' = IF OfStatus(Head(queue)) THEN inbox ELSE Append(inbox, Head(queue))
  BY <1>1, ForwardIs
<1>3. Seen = inbox /\ Seen' = inbox'
  BY <1>2 DEF Seen, InTouch
<1>4. Pending(Changes, i)' <=> Pending(Changes, i)
  BY <1>2 DEF Pending, Due
<1>5. Known(i) /\ Newest(i)
  BY <1>2, <1>4 DEF Known, NewestTells
<1>6. Tells(queue, i, rows[i]) /\ (~Mention(queue, Changes, i) => Tells(inbox, i, rows[i]))
  BY <1>3, <1>5 DEF Newest
<1>7. Tells(queue', i, rows[i])
  BY <1>1, <1>2, <1>6, TailTells
<1>8. ASSUME ~Mention(queue', Changes, i)
      PROVE  Tells(inbox', i, rows[i])
  <2> DEFINE e == Head(queue)
  <2>1. e \in Event /\ ~Link(e) /\ NoLink(queue)
    BY <1>1, <1>2, QueueLinks, LinkPlaces
  <2>2. Mention(queue, Changes, i) => About(e, Changes, i)
    BY <1>1, <1>2, <1>8, TailMention
  <2>3. About(e, News, i) => e.row = rows[i]
    BY <1>1, <1>2, <1>6, <1>8, <2>1, HeadTells
  <2> HIDE DEF e
  <2>4. About(e, Changes, i) => About(e, News, i)
    BY NewsSplit
  <2>5. OfStatus(e) => ~About(e, News, i)
    BY NewsKinds
  <2>6. CASE About(e, Changes, i)
    <3>1. inbox' = Append(inbox, e)
      BY <1>2, <2>4, <2>5, <2>6 DEF e
    <3>2. Tells(Append(inbox, e), i, rows[i])
      BY <1>1, <2>1, <2>3, <2>4, <2>6, AppendTells
    <3> QED
      BY <3>1, <3>2
  <2>7. CASE ~About(e, Changes, i)
    <3>1. Tells(inbox, i, rows[i])
      BY <1>6, <2>2, <2>7
    <3>2. Tells(Append(inbox, e), i, rows[i])
      BY <1>1, <2>1, <2>3, <3>1, AppendTells
    <3> QED
      BY <1>2, <3>1, <3>2 DEF e
  <2> QED
    BY <2>6, <2>7
<1> QED
  BY <1>2, <1>3, <1>7, <1>8 DEF Newest

LEMMA NewestReceive ==
    ASSUME Base, NewestTells, Receive
    PROVE  NewestTells'
<1>1. inbox \in Seq(Event)
  BY DEF Base, Types, EventTypes
<1>2. /\ inbox # <<>> /\ inbox' = Tail(inbox)
      /\ UNCHANGED <<rows, job, phase, queue, listening, crossed, listDoubt>>
  BY ReceiveEvent
<1> SUFFICES ASSUME (listening /\ ~listDoubt /\ phase \in InTouch \cup {"events"})',
                    NEW i \in Id, Known(i)'
             PROVE  Newest(i)'
  BY DEF NewestTells, Newest
<1>3. Pending(Changes, i)' <=> Pending(Changes, i)
  BY <1>2 DEF Pending, Due
<1>4. Known(i) /\ Newest(i)
  BY <1>2, <1>3 DEF Known, NewestTells
<1>5. Tells(Seen, i, rows[i]) => Tells(Seen', i, rows[i])
  BY <1>1, <1>2, TailTells DEF Seen
<1> QED
  BY <1>2, <1>4, <1>5 DEF Newest

\* A connection begins with nothing on its way, and without one nothing is promised.
LEMMA NewestLink ==
    ASSUME Base, NewestTells,
           Stop \/ ConnectCommands \/ ConnectEvents \/ Subscribe \/ StreamEnds
    PROVE  NewestTells'
<1>1. inbox \in Seq(Event) /\ Changes \subseteq News
  BY DEF Base, Types, EventTypes, Changes, News
<1> SUFFICES ASSUME (listening /\ ~listDoubt /\ phase \in InTouch \cup {"events"})',
                    NEW i \in Id, Known(i)'
             PROVE  Newest(i)'
  BY DEF NewestTells, Newest
<1>2. ~Stop /\ ~ConnectCommands /\ ~StreamEnds
  BY DEF Stop, ConnectCommands, StreamEnds, InTouch
<1>3. CASE ConnectEvents
  <2>1. queue' = <<>> /\ phase' = "events"
    BY <1>3 DEF ConnectEvents, InTouch
  <2>2. Seen' = <<>>
    BY <2>1 DEF Seen, InTouch
  <2> QED
    BY <2>1, <2>2, EmptyTells DEF Newest
<1>4. CASE Subscribe
  <2> DEFINE e == [kind |-> "connected", id |-> 0, row |-> "none", paused |-> FALSE]
  <2>1. /\ phase = "events" /\ phase' = "connected" /\ inbox' = Append(inbox, e)
        /\ UNCHANGED <<rows, job, queue, listening, crossed, listDoubt>>
    BY <1>4 DEF Subscribe, Show, InTouch, daemon, events, Base, Types, EventTypes
  <2>2. e \in Event /\ Link(e)
    BY DEF Event, Row, Link
  <2> HIDE DEF e
  <2>3. Seen' = Append(inbox, e)
    BY <2>1 DEF Seen, InTouch
  <2>4. Tells(Seen', i, rows[i])
    BY <1>1, <2>2, <2>3, AppendLink
  <2>5. Pending(Changes, i)' <=> Pending(Changes, i)
    BY <2>1 DEF Pending, Due
  <2>6. Known(i) /\ Newest(i)
    BY <2>1, <2>5 DEF Known, NewestTells
  <2> QED
    BY <2>1, <2>4, <2>6 DEF Newest
<1> QED
  BY <1>2, <1>3, <1>4

LEMMA NewestStep ==
    ASSUME Base, Base', NewestTells, [Next]_vars
    PROVE  NewestTells'
<1>1. CASE Capture \/ Merge \/ (Handle /\ HandlesClip)
  BY <1>1, WritingIs, NewestWrite
<1>2. CASE \E t \in Task : Tell(t) \/ Report(t)
  BY <1>2, NewestTell, NewestReport
<1>3. CASE \/ Handle /\ HandlesState
           \/ Answer \/ Query \/ (\E t \in Task : Reread(t) \/ Look(t))
           \/ Start \/ FetchStatus \/ Lock \/ CallFails
           \/ Return \/ Listen \/ Retry \/ UserActs \/ UNCHANGED vars
  <2>1. /\ Calm /\ UNCHANGED <<listening, Seen>>
        /\ phase' \in InTouch <=> phase \in InTouch
        /\ phase' = "events" => phase = "events"
        /\ ~listDoubt' => (~listDoubt \/ (queue = <<>> /\ inbox = <<>>))
    BY <1>3, CalmLinks
  <2> SUFFICES ASSUME (listening /\ ~listDoubt /\ phase \in InTouch \cup {"events"})',
                      NEW i \in Id, Known(i)'
               PROVE  Newest(i)'
    BY DEF NewestTells, Newest
  <2>2. UNCHANGED <<rows, queue, inbox, crossed>> /\ (Pending(Changes, i)' <=> Pending(Changes, i))
    BY <2>1 DEF Calm
  <2>3. CASE ~listDoubt
    <3>1. Known(i) /\ Newest(i)
      BY <2>1, <2>2, <2>3 DEF Known, NewestTells
    <3> QED
      BY <2>1, <2>2, <3>1 DEF Newest
  <2>4. CASE queue = <<>> /\ inbox = <<>>
    <3>1. Seen = <<>>
      BY <2>4 DEF Seen
    <3> QED
      BY <2>1, <2>2, <2>4, <3>1, EmptyTells DEF Newest
  <2> QED
    BY <2>1, <2>3, <2>4
<1>4. CASE Forward \/ Receive
  BY <1>4, NewestForward, NewestReceive
<1>5. CASE Stop \/ ConnectCommands \/ ConnectEvents \/ Subscribe \/ StreamEnds
  BY <1>5, NewestLink
<1>6. Handle => HandlesClip \/ HandlesState
  BY HandleIs DEF Base, Types, Calls
<1> QED
  BY <1>1, <1>2, <1>3, <1>4, <1>5, <1>6 DEF Next, DaemonSteps, AppSteps, CallSteps

----------------------------------------------------------------------------
(* What a view of the history says of the rows, as far as it was told. *)

\* While nothing more is on its way about a clip, what is seen of it is its row.
Right(v, i) == (Known(i) /\ Still(i) /\ Visible(v)) => v = rows[i]

\* A clip that is not seen is still going to be told of.
There(v, i) == Visible(rows[i]) => (Visible(v) \/ Coming(i))

\* A connection that the webview knows of.
Linked == alive /\ phase \in InTouch /\ NoLink(inbox)

LEMMA LinkedListens ==
    ASSUME Base, Linked
    PROVE  listening /\ Seen = inbox
BY DEF Base, Wiring, Linked, Seen

LEMMA LinkedBefore ==
    ASSUME Base, Base', [Next]_vars, ~Receive, Linked', ~listDoubt'
    PROVE  Linked
<1>1. inbox \in Seq(Event) /\ queue \in Seq(Event)
  BY DEF Base, Types, EventTypes
<1>2. alive
  <2>1. alive \/ ConnectCommands
    BY DEF Linked, Next, DaemonSteps, AppSteps, CallSteps, vars, Capture, Merge, Stop, Start, Listen, Retry,
       UserActs, Handle, Answer, Query, Reread, Tell, Look, Report, ConnectEvents, Subscribe,
       FetchStatus, Forward, StreamEnds, Lock, Return, CallFails, Receive
  <2>2. ~alive => ~ConnectCommands
    BY DEF Linked, ConnectCommands, InTouch
  <2> QED
    BY <2>1, <2>2
<1>3. ~Subscribe
  <2> SUFFICES ASSUME Subscribe
               PROVE  FALSE
    OBVIOUS
  <2> DEFINE e == [kind |-> "connected", id |-> 0, row |-> "none", paused |-> FALSE]
  <2>1. inbox' = Append(inbox, e)
    BY DEF Subscribe, Show, Linked, InTouch
  <2>2. e \in Event /\ Link(e)
    BY DEF Event, Row, Link
  <2> HIDE DEF e
  <2> QED
    BY <1>1, <2>1, <2>2, LinkPlaces DEF Linked
<1>4. client' = "open"
  BY DEF Base, Wiring, Linked
<1>5. client = "open"
  BY <1>3, <1>4 DEF Next, DaemonSteps, AppSteps, CallSteps, vars, Capture, Merge, Stop, Start,
     Listen, Retry, UserActs, Handle, Answer, Query, Reread, Tell, Look, Report, ConnectCommands,
     ConnectEvents, FetchStatus, Forward, StreamEnds, Lock, Return, CallFails, Receive
<1>6. UNCHANGED inbox \/ Forward
  BY <1>3 DEF Next, DaemonSteps, AppSteps, CallSteps, vars, view, Capture, Merge, Stop, Start,
     Listen, Retry, UserActs, Handle, Answer, Query, Reread, Tell, Look, Report, ConnectCommands,
     ConnectEvents, FetchStatus, StreamEnds, Lock, Return, CallFails, Receive
<1>7. NoLink(inbox)
  <2>1. CASE UNCHANGED inbox
    BY <2>1 DEF Linked
  <2>2. CASE Forward
    <3>1. inbox' = inbox \/ (queue # <<>> /\ inbox' = Append(inbox, Head(queue)))
      BY <2>2 DEF Forward, Show
    <3>2. CASE queue # <<>> /\ inbox' = Append(inbox, Head(queue))
      <4>1. Head(queue) \in Event
        BY <1>1, <3>2
      <4> QED
        BY <1>1, <3>2, <4>1, LinkPlaces DEF Linked
    <3> QED
      BY <3>1, <3>2 DEF Linked
  <2> QED
    BY <1>6, <2>1, <2>2
<1> QED
  BY <1>2, <1>5, <1>7 DEF Linked, Base, Wiring

LEMMA ViewWrite ==
    ASSUME Base, Writing, NEW v, NEW i \in Id, TrueRow(v, rows, i)
    PROVE  /\ Right(v, i) => ((Known(i)' /\ Still(i)' /\ Visible(v)) => v = rows'[i])
           /\ There(v, i) => (Visible(rows'[i]) => (Visible(v) \/ Coming(i)'))
<1>1. UNCHANGED <<queue, inbox, crossed, Seen>>
  BY DEF Writing, Seen
<1>2. PICK t \in Task, h \in Id, w \in Row, kind \in News :
         Idle(t) /\ \E s : Writes(t, h, w, kind, s)
  BY DEF Writing
<1>3. PICK s : Writes(t, h, w, kind, s)
  BY <1>2
<1>4. (\A g \in Id \ {h} : rows'[g] = rows[g]) /\ WriteOf(rows[h], rows'[h], kind)
      /\ rows \in [Id -> Row] /\ rows' \in [Id -> Row]
  BY <1>3, WriteFacts DEF Base, Types, DaemonTypes
<1>5. \A K : Pending(K, i)' <=> (Pending(K, i) \/ (i = h /\ kind \in K))
  BY <1>2, <1>3, PendingWrite
<1>6. ASSUME Right(v, i), Known(i)', Still(i)', Visible(v)
      PROVE  v = rows'[i]
  <2>1. Known(i) /\ Still(i) /\ ~(i = h /\ kind \in Changes)
    BY <1>1, <1>5, <1>6 DEF Known, Still
  <2>2. v = rows[i] /\ v # "none"
    BY <1>6, <2>1 DEF Right, Visible
  <2>3. i # h
    BY <1>2, <1>4, <2>1, <2>2 DEF WriteOf, News, Changes
  <2> QED
    BY <1>4, <2>2, <2>3
<1>7. ASSUME There(v, i), Visible(rows'[i])
      PROVE  Visible(v) \/ Coming(i)'
  <2>1. Coming(i) => Coming(i)'
    BY <1>1, <1>5 DEF Coming
  <2>2. (i = h /\ kind = "added") => Coming(i)'
    BY <1>5 DEF Coming
  <2>3. (i # h \/ kind # "added") => Visible(rows[i])
    BY <1>4, <1>7 DEF WriteOf, Visible, Row
  <2> QED
    BY <1>7, <2>1, <2>2, <2>3 DEF There
<1> QED
  BY <1>6, <1>7

LEMMA ViewTell ==
    ASSUME Base, Linked, ~listDoubt', NEW t \in Task, Tell(t), NEW v, NEW i \in Id
    PROVE  /\ Right(v, i) => ((Known(i)' /\ Still(i)' /\ Visible(v)) => v = rows'[i])
           /\ There(v, i) => (Visible(rows'[i]) => (Visible(v) \/ Coming(i)'))
<1>1. DaemonTypes /\ Jobs /\ EventTypes /\ queue \in Seq(Event) /\ listening
  BY LinkedListens DEF Base, Types, EventTypes
<1>2. PICK e \in Event : /\ Emit(e) /\ e.kind = job[t].kind /\ e.id = job[t].id
                         /\ e.kind \in News
  BY <1>1, TellFacts
<1>3. ~Link(e) /\ ~OfStatus(e)
  BY <1>2 DEF News, Link, OfStatus
<1>4. UNCHANGED <<rows, Seen>>
  BY DEF Tell, view, Seen
<1>5. PICK q : Sent(q, e)
  BY <1>1, <1>2, EmitFacts
<1>6. crossed' = IF e.row # rows[e.id] THEN crossed \cup {e.id}
                 ELSE IF e.kind = "added" THEN crossed ELSE crossed \ {e.id}
  BY <1>2, <1>3, EmitHistory
<1>7. \A K : Pending(K, i) => (Pending(K, i)' \/ About(e, K, i))
  BY <1>2, PendingTell DEF About
<1>8. \A K : K \subseteq News => (Mention(queue', K, i) <=> (Mention(queue, K, i) \/ About(e, K, i)))
  BY <1>1, <1>3, <1>5, SentMention
<1>9. Changes \subseteq News /\ {"added"} \subseteq News
  BY DEF Changes, News
<1>10. ASSUME Known(i)', Still(i)'
       PROVE  Known(i) /\ Still(i)
  <2>1. ~About(e, Changes, i) /\ Still(i)
    BY <1>4, <1>8, <1>9, <1>10 DEF Still
  <2>2. e.kind = "added" \/ e.id # i
    BY <1>2, <2>1 DEF About, News, Changes
  <2>3. i \in crossed => i \in crossed'
    BY <1>6, <2>2
  <2> QED
    BY <1>7, <1>10, <2>1, <2>3 DEF Known
<1>11. Coming(i) => Coming(i)'
  <2>1. Mention(queue, {"added"}, i) => Mention(queue', {"added"}, i)
    BY <1>8, <1>9
  <2>2. About(e, {"added"}, i) => Mention(queue', {"added"}, i)
    BY <1>8, <1>9
  <2> QED
    BY <1>4, <1>7, <2>1, <2>2 DEF Coming
<1> QED
  BY <1>4, <1>10, <1>11 DEF Right, There

LEMMA ViewReport ==
    ASSUME Base, Linked, ~listDoubt', NEW t \in Task, Report(t), NEW v, NEW i \in Id
    PROVE  /\ Right(v, i) => ((Known(i)' /\ Still(i)' /\ Visible(v)) => v = rows'[i])
           /\ There(v, i) => (Visible(rows'[i]) => (Visible(v) \/ Coming(i)'))
<1>1. DaemonTypes /\ EventTypes /\ queue \in Seq(Event) /\ listening
  BY LinkedListens DEF Base, Types, EventTypes
<1>2. PICK e \in Event : Emit(e) /\ OfStatus(e) /\ e.kind = "status"
  BY <1>1, ReportFacts
<1>3. ~Link(e) /\ \A K : K \subseteq News => ~About(e, K, i)
  BY <1>2 DEF News, Link, About
<1>4. UNCHANGED <<rows, Seen, crossed>>
  BY <1>2, EmitHistory DEF Report, view, Seen
<1>5. PICK q : Sent(q, e)
  BY <1>1, <1>2, EmitFacts
<1>6. \A K : K \subseteq News => (Mention(queue', K, i) <=> (Mention(queue, K, i) \/ About(e, K, i)))
  BY <1>1, <1>3, <1>5, SentMention
<1>7. Changes \subseteq News /\ {"added"} \subseteq News
  BY DEF Changes, News
<1>8. \A K : Pending(K, i)' <=> Pending(K, i)
  BY PendingCalm
<1>9. (Known(i)' => Known(i)) /\ (Still(i)' => Still(i)) /\ (Coming(i) => Coming(i)')
  BY <1>3, <1>4, <1>6, <1>7, <1>8 DEF Known, Still, Coming
<1> QED
  BY <1>4, <1>9 DEF Right, There

LEMMA ViewForward ==
    ASSUME Base, Linked, Forward, ~listDoubt', NEW v, NEW i \in Id
    PROVE  /\ Right(v, i) => ((Known(i)' /\ Still(i)' /\ Visible(v)) => v = rows'[i])
           /\ There(v, i) => (Visible(rows'[i]) => (Visible(v) \/ Coming(i)'))
<1>1. EventTypes /\ Events /\ queue \in Seq(Event) /\ inbox \in Seq(Event)
  BY DEF Base, Types, EventTypes
<1>2. /\ phase = "streaming" /\ queue # <<>> /\ queue' = Tail(queue)
      /\ UNCHANGED <<rows, job, phase, crossed>>
      /\ inbox' = IF OfStatus(Head(queue)) THEN inbox ELSE Append(inbox, Head(queue))
  BY <1>1, ForwardIs
<1>3. Seen = inbox /\ Seen' = inbox'
  BY <1>2 DEF Seen, InTouch
<1> DEFINE e == Head(queue)
<1>4. e \in Event /\ ~Link(e)
  BY <1>1, <1>2, QueueLinks, LinkPlaces
<1>5. ASSUME NEW K, K \subseteq News, Mention(queue, K, i) \/ Mention(inbox, K, i)
      PROVE  Mention(queue', K, i) \/ Mention(inbox', K, i)
  <2>1. Mention(queue, K, i) => (Mention(queue', K, i) \/ About(e, K, i))
    BY <1>1, <1>2, TailMention
  <2>2. Mention(Append(inbox, e), K, i) <=> (Mention(inbox, K, i) \/ About(e, K, i))
    BY <1>1, <1>4, AppendMention
  <2>3. OfStatus(e) => ~About(e, K, i)
    BY <1>5 DEF OfStatus, About, News
  <2> QED
    BY <1>2, <1>5, <2>1, <2>2, <2>3
<1>6. \A K : Pending(K, i)' <=> Pending(K, i)
  BY <1>2 DEF Pending, Due
<1>7. Changes \subseteq News /\ {"added"} \subseteq News
  BY DEF Changes, News
<1>8. (Known(i)' => Known(i)) /\ (Still(i)' => Still(i)) /\ (Coming(i) => Coming(i)')
  BY <1>2, <1>3, <1>5, <1>6, <1>7 DEF Known, Still, Coming
<1> QED
  BY <1>2, <1>8 DEF Right, There

LEMMA ViewStep ==
    ASSUME Base, Base', [Next]_vars, ~Receive, Linked, Linked', ~listDoubt',
           NEW v, NEW i \in Id, TrueRow(v, rows, i)
    PROVE  /\ Right(v, i) => ((Known(i)' /\ Still(i)' /\ Visible(v)) => v = rows'[i])
           /\ There(v, i) => (Visible(rows'[i]) => (Visible(v) \/ Coming(i)'))
<1>1. CASE Capture \/ Merge \/ (Handle /\ HandlesClip)
  BY <1>1, WritingIs, ViewWrite
<1>2. CASE \E t \in Task : Tell(t) \/ Report(t)
  BY <1>2, ViewTell, ViewReport
<1>3. CASE Forward
  BY <1>3, ViewForward
<1>4. CASE \/ Handle /\ HandlesState
           \/ Answer \/ Query \/ (\E t \in Task : Reread(t) \/ Look(t))
           \/ Start \/ FetchStatus \/ Lock \/ CallFails
           \/ Return \/ Listen \/ Retry \/ UserActs \/ UNCHANGED vars
  <2>1. UNCHANGED <<rows, queue, crossed, Seen>> /\ \A K : Pending(K, i)' <=> Pending(K, i)
    BY <1>4, CalmLinks DEF Calm
  <2>2. (Known(i)' => Known(i)) /\ (Still(i)' => Still(i)) /\ (Coming(i) => Coming(i)')
    BY <2>1 DEF Known, Still, Coming
  <2> QED
    BY <2>1, <2>2 DEF Right, There
<1>5. ~Stop /\ ~ConnectCommands /\ ~ConnectEvents /\ ~Subscribe /\ ~StreamEnds
  BY DEF Stop, ConnectCommands, ConnectEvents, Subscribe, StreamEnds, Linked, InTouch
<1>6. Handle => HandlesClip \/ HandlesState
  BY HandleIs DEF Base, Types, Calls
<1> QED
  BY <1>1, <1>2, <1>3, <1>4, <1>5, <1>6 DEF Next, DaemonSteps, AppSteps, CallSteps

----------------------------------------------------------------------------
(* The page that was answered, and the list. *)

PageTells ==
    (/\ Linked /\ ~listDoubt
     /\ Fetches(current) /\ current.stage = "answered" /\ ~current.overtaken) =>
        \A i \in Id : Right(current.page[i], i) /\ There(current.page[i], i)

\* The requests that the list was changed for before they were handled.
Rewrites == {"pin", "delete"}
Deletes == {"delete"}
Called(R, i) == (Asks(current, R, i) /\ current.stage = "asked") \/ AskWaits(waiting, R, i)

Sure == Linked /\ ~listDoubt /\ ~failed /\ ~Fetches(current) /\ ~FetchWaits(waiting)
ListTells ==
    Sure => \A i \in Id : /\ ~Called(Rewrites, i) => Right(list[i], i)
                          /\ There(list[i], i) \/ Called(Deletes, i)

LEMMA DoubtStays ==
    ASSUME [Next]_vars, ~Query, ~listDoubt'
    PROVE  ~listDoubt
<1>1. ASSUME NEW e, Emit(e)
      PROVE  ~listDoubt
  BY <1>1 DEF Emit
<1>2. CASE \E t \in Task : Tell(t) \/ Report(t)
  BY <1>1, <1>2 DEF Tell, Report
<1>3. CASE ~\E t \in Task : Tell(t) \/ Report(t)
  <2>1. UNCHANGED listDoubt \/ listDoubt' = (listDoubt \/ current.overtaken) \/ \E e : Show(e)
    BY <1>3 DEF Next, DaemonSteps, AppSteps, CallSteps, vars, history, Capture, Merge, Stop, Start,
       Listen, Retry, UserActs, Handle, Answer, Reread, Look, ConnectCommands, ConnectEvents, Subscribe,
       FetchStatus, Forward, StreamEnds, Lock, Return, CallFails, Receive
  <2> QED
    BY <2>1 DEF Show
<1> QED
  BY <1>2, <1>3

LEMMA PageStep ==
    ASSUME Base, Base', PageTells, [Next]_vars
    PROVE  PageTells'
<1>1. current \in CallSet /\ GoodCall(current, rows) /\ (Fetches(current) => current.req = "page")
  BY DEF Base, Types, CallTypesHold, Calls, GoodCall, Fetches
<1> SUFFICES ASSUME Linked', ~listDoubt', Fetches(current'), current'.stage = "answered",
                    ~current'.overtaken, NEW i \in Id
             PROVE  Right(current.page[i], i)' /\ There(current.page[i], i)'
  BY DEF PageTells
<1>2. ~Receive
  <2> SUFFICES ASSUME Receive
               PROVE  FALSE
    OBVIOUS
  <2>1. current' = Superseded(current) \/ current' = Overtakes(current)
    BY ReceiveEvent
  <2>2. current' # Superseded(current)
    BY <1>1, SupersededIs
  <2>3. CASE current' = Overtakes(current)
    <3>1. /\ current'.stage = current.stage /\ current'.req = current.req
          /\ current'.who = current.who
          /\ current'.overtaken = (current.overtaken \/ (current.stage = "answered" /\ current.req = "page"))
      BY <1>1, <2>3, OvertakesIs
    <3>2. current.req = "page"
      BY <1>1, <3>1 DEF GoodCall, Fetches
    <3> QED
      BY <3>1, <3>2
  <2> QED
    BY <2>1, <2>2, <2>3
<1>3. ~Retry
  BY <1>1, SupersededIs DEF Retry
<1>4. ~Fetches(NoCall)
  BY NoCallType DEF Fetches
<1>5. ~Return /\ ~CallFails
  BY <1>4 DEF Return, CallFails
<1>6. ~Lock
  <2> SUFFICES ASSUME Lock
               PROVE  FALSE
    OBVIOUS
  <2>1. waiting # <<>> /\ waiting \in Seq(CallSet) /\ Waiting(waiting, rows) /\ current = NoCall
    BY DEF Lock, Base, Types, CallTypesHold, Calls
  <2>2. Head(waiting).stage = "asked"
    BY <2>1, TailCalls
  <2> QED
    BY <1>4, <2>1, <2>2 DEF Lock
<1>7. ~Answer
  <2> SUFFICES ASSUME Answer
               PROVE  FALSE
    OBVIOUS
  <2>1. Has(job["handler"].steps, "answer")
    <3>1. DaemonTypes /\ Jobs /\ job["handler"] \in JobSet
      BY DEF Base, Types, DaemonTypes, Task
    <3> QED
      BY <3>1, StateFacts DEF Task
  <2>2. current.req # "page" /\ current' = [current EXCEPT !.stage = "answered"]
    BY <2>1 DEF Base, Calls, Answer
  <2>3. current'.who = current.who /\ current'.mine = current.mine
    BY <1>1, <2>2 DEF CallSet
  <2> QED
    BY <1>1, <2>2, <2>3 DEF Fetches
<1>8. ~Handle
  <2> SUFFICES ASSUME Handle
               PROVE  FALSE
    OBVIOUS
  <2>1. current' = [current EXCEPT !.stage = "handled"]
    BY DEF Handle
  <2>2. current'.stage = "handled"
    BY <1>1, <2>1 DEF CallSet
  <2> QED
    BY <2>2
<1>9. CASE Query
  <2>1. UNCHANGED rows /\ alive' = alive
    BY <1>9 DEF Query, daemon
  <2>2. current' = [current EXCEPT !.stage = "answered", !.page = rows]
    <3>1. current.req = "status" /\ current' = [current EXCEPT !.stage = "answered", !.paused = paused]
             => current'.who = current.who /\ current'.mine = current.mine
      BY <1>1 DEF CallSet
    <3>2. \/ current' = [current EXCEPT !.stage = "answered", !.page = rows]
          \/ current' = [current EXCEPT !.stage = "unanswered"]
          \/ /\ current.req = "status"
             /\ current' = [current EXCEPT !.stage = "answered", !.paused = paused]
      BY <1>9 DEF Query
    <3>3. current' # [current EXCEPT !.stage = "unanswered"]
      BY <1>1 DEF CallSet
    <3> QED
      BY <1>1, <3>1, <3>2, <3>3 DEF Fetches
  <2>3. current'.page = rows
    BY <1>1, <2>2 DEF CallSet
  <2>4. current'.page[i] = rows'[i]
    BY <2>1, <2>3
  <2> QED
    BY <2>4 DEF Right, There
<1>11. CASE ~Query
  <2>1. UNCHANGED current
    BY <1>2, <1>3, <1>5, <1>6, <1>7, <1>8, <1>11 DEF Next, DaemonSteps, AppSteps, CallSteps, vars,
       calls, Capture, Merge, Stop, Start, Listen, UserActs, Reread, Tell, Look, Report,
       ConnectCommands, ConnectEvents, Subscribe, FetchStatus, Forward, StreamEnds
  <2>2. ~listDoubt /\ Linked
    BY <1>2, <1>11, DoubtStays, LinkedBefore
  <2>3. Right(current.page[i], i) /\ There(current.page[i], i)
    BY <2>1, <2>2 DEF PageTells
  <2>4. TrueRow(current.page[i], rows, i)
    BY <1>1, <2>1 DEF Base, Shown, TruePage
  <2>5. /\ (Known(i)' /\ Still(i)' /\ Visible(current.page[i])) => current.page[i] = rows'[i]
        /\ Visible(rows'[i]) => (Visible(current.page[i]) \/ Coming(i)')
    BY <1>2, <2>2, <2>3, <2>4, ViewStep
  <2> QED
    BY <2>1, <2>5 DEF Right, There
<1> QED
  BY <1>9, <1>11

\* The list stays as good as it was while nothing changes it.
LEMMA ListKept ==
    ASSUME Base, Base', [Next]_vars, ~Receive, ListTells, Sure, Sure', NEW i \in Id,
           list'[i] = list[i],
           Called(Rewrites, i) => Called(Rewrites, i)', Called(Deletes, i) => Called(Deletes, i)'
    PROVE  /\ ~Called(Rewrites, i)' => Right(list[i], i)'
           /\ There(list[i], i)' \/ Called(Deletes, i)'
<1>1. (~Called(Rewrites, i) => Right(list[i], i)) /\ (There(list[i], i) \/ Called(Deletes, i))
  BY DEF ListTells
<1>2. TrueRow(list[i], rows, i) /\ Linked /\ Linked' /\ ~listDoubt'
  BY DEF Base, Shown, TruePage, Sure
<1>3. /\ Right(list[i], i) => ((Known(i)' /\ Still(i)' /\ Visible(list[i])) => list[i] = rows'[i])
      /\ There(list[i], i) => (Visible(rows'[i]) => (Visible(list[i]) \/ Coming(i)'))
  BY <1>2, ViewStep
<1>4. Right(list[i], i) => Right(list[i], i)'
  BY <1>3 DEF Right
<1>5. There(list[i], i) => There(list[i], i)'
  BY <1>3 DEF There
<1> QED
  BY <1>1, <1>4, <1>5

\* The list after an event, for the clip that it is about.
LEMMA PatchedAt ==
    ASSUME NEW e, list \in [Id -> Row], e.id \in Id, e.kind \in News
    PROVE  /\ \A i \in Id \ {e.id} : Patched(e)[i] = list[i]
           /\ e.kind = "added" =>
                 Patched(e)[e.id] = IF list[e.id] = "none" THEN e.row ELSE list[e.id]
           /\ e.kind = "updated" =>
                 Patched(e)[e.id] = IF list[e.id] = "none" THEN "none" ELSE e.row
           /\ e.kind = "removed" => Patched(e)[e.id] = "none"
<1>1. CASE e.kind = "added"
  <2>1. Patched(e) = [list EXCEPT ![e.id] = IF list[e.id] = "none" THEN e.row ELSE list[e.id]]
    BY <1>1 DEF Patched
  <2> QED
    BY <1>1, <2>1
<1>2. CASE e.kind = "updated"
  <2>1. Patched(e) = [list EXCEPT ![e.id] = IF list[e.id] = "none" THEN list[e.id] ELSE e.row]
    BY <1>2 DEF Patched
  <2> QED
    BY <1>2, <2>1
<1>3. CASE e.kind = "removed"
  <2>1. Patched(e) = [list EXCEPT ![e.id] = "none"]
    BY <1>3 DEF Patched
  <2> QED
    BY <1>3, <2>1
<1> QED
  BY <1>1, <1>2, <1>3 DEF News

LEMMA ListReceive ==
    ASSUME Base, NewestTells, ListTells, Receive
    PROVE  ListTells'
<1>1. /\ inbox \in Seq(Event) /\ list \in [Id -> Row] /\ TruePage(list, rows)
      /\ current \in CallSet /\ waiting \in Seq(CallSet)
  BY DEF Base, Types, EventTypes, ViewTypes, Shown, CallTypesHold
<1> DEFINE e == Head(inbox)
<1>2. /\ inbox # <<>> /\ inbox' = Tail(inbox)
      /\ UNCHANGED <<rows, job, alive, phase, failed, queue, listening, crossed, listDoubt>>
      /\ TrueEvent(e, rows)
  BY ReceiveEvent
<1> SUFFICES ASSUME Sure', NEW i \in Id
             PROVE  /\ ~Called(Rewrites, i)' => Right(list[i], i)'
                    /\ There(list[i], i)' \/ Called(Deletes, i)'
  BY DEF ListTells
<1>3. /\ ~Link(e) /\ e.kind \in News /\ list' = Patched(e) /\ current' = Overtakes(current)
      /\ UNCHANGED waiting
  <2>1. ~Link(e) \/ waiting' = Fetching(waiting)
    BY ReceiveEvent
  <2>2. waiting' # Fetching(waiting)
    <3>1. "page" \notin Changes
      BY DEF Changes
    <3> QED
      BY <1>1, <3>1, FetchingCalls DEF Sure
  <2> QED
    BY <2>1, <2>2, ReceiveEvent
<1> HIDE DEF e
<1>4. Linked
  <2>1. e \in Event /\ (NoLink(inbox) <=> (~Link(e) /\ NoLink(inbox')))
    BY <1>1, <1>2, LinkPlaces DEF e
  <2> QED
    BY <1>2, <1>3, <2>1 DEF Linked, Sure
<1>5. /\ Fetches(current') <=> Fetches(current)
      /\ \A R : Called(R, i)' <=> Called(R, i)
  BY <1>1, <1>3, OvertakesIs DEF Fetches, Called, Asks
<1>6. Sure
  BY <1>2, <1>3, <1>4, <1>5 DEF Sure
<1>7. (~Called(Rewrites, i) => Right(list[i], i)) /\ (There(list[i], i) \/ Called(Deletes, i))
  BY <1>6 DEF ListTells
<1>8. Seen = inbox /\ Seen' = inbox'
  BY <1>2, <1>4 DEF Linked, Seen
<1>9. \A K : Pending(K, i)' <=> Pending(K, i)
  BY <1>2 DEF Pending, Due
<1>10. \A K : Mention(inbox, K, i) => (Mention(inbox', K, i) \/ About(e, K, i))
  BY <1>1, <1>2, TailMention DEF e
<1>11. Known(i)' => Known(i)
  BY <1>2, <1>9 DEF Known
<1>12. e.id \in Id /\ e.row # "none" /\ e.row \in Row
       /\ (e.row = "deleted" => rows[e.id] = "deleted")
       /\ (e.kind = "added" => e.row = "live") /\ (e.kind = "removed" => e.row = "deleted")
  <2>1. e \in Event
    BY <1>1, <1>2 DEF e
  <2> QED
    BY <1>2, <1>3, <2>1 DEF TrueEvent, TrueRow, Event
<1>13. CASE i # e.id
  <2>1. list'[i] = list[i]
    BY <1>1, <1>3, <1>12, <1>13, PatchedAt
  <2>2. \A K : Mention(inbox, K, i) => Mention(inbox', K, i)
    BY <1>10, <1>13 DEF About
  <2>3. (Still(i)' => Still(i)) /\ (Coming(i) => Coming(i)')
    BY <1>2, <1>8, <1>9, <2>2 DEF Still, Coming
  <2>4. Right(list[i], i) => Right(list[i], i)'
    BY <1>2, <1>11, <2>1, <2>3 DEF Right
  <2>5. There(list[i], i) => There(list[i], i)'
    BY <1>2, <2>1, <2>3 DEF There
  <2> QED
    BY <1>5, <1>7, <2>4, <2>5
<1>14. CASE i = e.id
  <2>1. /\ e.kind = "added" => list'[i] = IF list[i] = "none" THEN e.row ELSE list[i]
        /\ e.kind = "updated" => list'[i] = IF list[i] = "none" THEN "none" ELSE e.row
        /\ e.kind = "removed" => list'[i] = "none"
    BY <1>1, <1>3, <1>12, <1>14, PatchedAt
  <2>2. About(e, News, i)
    BY <1>3, <1>14 DEF About
  <2>3. ASSUME ~Called(Rewrites, i)', Known(i)', Still(i)', Visible(list'[i])
        PROVE  list'[i] = rows'[i]
    <3>1. ~Mention(queue, Changes, i) /\ ~Mention(Tail(inbox), Changes, i)
      BY <1>2, <1>8, <2>3 DEF Still
    <3>2. listening
      BY <1>4, LinkedListens
    <3>3. Newest(i)
      BY <1>4, <1>6, <3>2 DEF NewestTells, Sure, Linked
    <3>4. Tells(inbox, i, rows[i])
      BY <1>8, <1>11, <2>3, <3>1, <3>3 DEF Newest
    <3>5. e.row = rows[i]
      BY <1>1, <1>2, <1>4, <2>2, <3>1, <3>4, HeadTells DEF e, Linked
    <3>6. CASE e.kind = "added" /\ list[i] # "none"
      <4>1. ~About(e, Changes, i)
        BY <3>6 DEF About, Changes
      <4>2. Still(i)
        BY <1>8, <1>10, <3>1, <4>1, <1>2 DEF Still
      <4>3. Right(list[i], i) /\ list'[i] = list[i]
        BY <1>5, <1>7, <2>1, <2>3, <3>6
      <4> QED
        BY <1>2, <1>11, <2>3, <4>2, <4>3 DEF Right
    <3>7. CASE ~(e.kind = "added" /\ list[i] # "none")
      <4>1. list'[i] = e.row
        BY <1>3, <2>1, <2>3, <3>7 DEF News, Visible
      <4> QED
        BY <1>2, <3>5, <4>1
    <3> QED
      BY <3>6, <3>7
  <2>4. ASSUME There(list[i], i), Visible(rows'[i])
        PROVE  Visible(list'[i]) \/ Coming(i)'
    <3>1. rows[i] # "deleted" /\ Visible(rows[i]) /\ e.row # "deleted" /\ list[i] # "deleted"
      BY <1>1, <1>2, <1>12, <1>14, <2>4 DEF Visible, TruePage, TrueRow
    <3>2. e.kind # "removed" /\ Visible(e.row) /\ (list[i] # "none" => Visible(list[i]))
      BY <1>1, <1>12, <3>1 DEF Visible, Row
    <3>3. CASE e.kind = "added" \/ list[i] # "none"
      BY <1>3, <2>1, <3>2, <3>3 DEF News
    <3>4. CASE e.kind # "added" /\ list[i] = "none"
      <4>1. Coming(i)
        BY <2>4, <3>1, <3>4 DEF There, Visible
      <4>2. Mention(inbox, {"added"}, i) => Mention(inbox', {"added"}, i)
        BY <1>10, <3>4 DEF About
      <4> QED
        BY <1>2, <1>8, <1>9, <4>1, <4>2 DEF Coming
    <3> QED
      BY <3>3, <3>4
  <2>5. ~Called(Rewrites, i)' => Right(list[i], i)'
    BY <2>3 DEF Right
  <2>6. There(list[i], i) => There(list[i], i)'
    BY <2>4 DEF There
  <2> QED
    BY <1>5, <1>7, <2>5, <2>6
<1> QED
  BY <1>13, <1>14

LEMMA ListActs ==
    ASSUME Base, Base', ListTells, UserActs, [Next]_vars
    PROVE  ListTells'
<1>1. list \in [Id -> Row] /\ waiting \in Seq(CallSet)
  BY DEF Base, Types, ViewTypes, CallTypesHold
<1>2. UNCHANGED <<rows, job, alive, phase, failed, current, queue, listening, inbox, crossed,
                  listDoubt>>
  BY UserActsIs
<1>3. PICK c \in CallSet :
         /\ waiting' = Append(waiting, c) /\ GoodCall(c, rows) /\ ~Fetches(c)
         /\ \/ /\ c.req = "pin" /\ Visible(list[c.id]) /\ Visible(c.to)
               /\ list' = [list EXCEPT ![c.id] = c.to]
            \/ /\ c.req = "delete" /\ Visible(list[c.id])
               /\ list' = [list EXCEPT ![c.id] = "none"]
            \/ c.req \in {"status", "settings"} /\ UNCHANGED list
  BY UserActsIs
<1> SUFFICES ASSUME Sure', NEW i \in Id
             PROVE  /\ ~Called(Rewrites, i)' => Right(list[i], i)'
                    /\ There(list[i], i)' \/ Called(Deletes, i)'
  BY DEF ListTells
<1>4. \A R : AskWaits(waiting', R, i) <=> (AskWaits(waiting, R, i) \/ Asks(c, R, i))
  BY <1>1, <1>3, AppendCalls
<1>5. \A R : Called(R, i)' <=> (Called(R, i) \/ Asks(c, R, i))
  BY <1>2, <1>4 DEF Called
<1>6. FetchWaits(waiting') <=> (FetchWaits(waiting) \/ Fetches(c))
  BY <1>1, <1>3, AppendCalls
<1>7. Sure
  BY <1>2, <1>3, <1>6 DEF Sure, Linked
<1>8. ~Receive
  BY <1>2 DEF Receive
<1>9. c.req \in Rewrites => c.id \in Id
  BY <1>3 DEF GoodCall, Rewrites
<1>10. CASE list'[i] = list[i]
  BY <1>5, <1>7, <1>8, <1>10, ListKept
<1>11. CASE list'[i] # list[i]
  <2>1. c.req \in Rewrites /\ c.id = i
    BY <1>1, <1>3, <1>9, <1>11 DEF Rewrites
  <2>2. Called(Rewrites, i)'
    BY <1>5, <2>1 DEF Asks
  <2>3. CASE c.req = "pin"
    <3>1. list'[i] = c.to /\ Visible(c.to)
      BY <1>1, <1>3, <2>1, <2>3
    <3>2. There(list[i], i)'
      BY <3>1 DEF There
    <3> QED
      BY <2>2, <3>2
  <2>4. CASE c.req = "delete"
    <3>1. Called(Deletes, i)'
      BY <1>5, <2>1, <2>4 DEF Asks, Deletes
    <3> QED
      BY <2>2, <3>1
  <2> QED
    BY <2>1, <2>3, <2>4 DEF Rewrites
<1> QED
  BY <1>10, <1>11

LEMMA ListReturn ==
    ASSUME Base, Base', ListTells, PageTells, Return, [Next]_vars
    PROVE  ListTells'
<1>1. /\ current \in CallSet /\ waiting \in Seq(CallSet) /\ GoodCall(current, rows)
      /\ (Fetches(current) => current.req = "page")
  BY DEF Base, Types, CallTypesHold, Calls, GoodCall, Fetches
<1>2. /\ current.stage = "answered" /\ current' = NoCall
      /\ UNCHANGED <<rows, queue, inbox, job, crossed, alive>>
  BY DEF Return, daemon, events
<1> SUFFICES ASSUME Sure', NEW i \in Id
             PROVE  /\ ~Called(Rewrites, i)' => Right(list[i], i)'
                    /\ There(list[i], i)' \/ Called(Deletes, i)'
  BY DEF ListTells
<1>3. ~Receive /\ ~Query
  BY <1>2 DEF Receive, Query
<1>4. Linked /\ ~listDoubt
  BY <1>3, LinkedBefore, DoubtStays DEF Sure
<1>5. CASE current.req = "page" /\ current.mine
  <2>1. /\ list' = [j \in Id |-> IF current.page[j] = "deleted" THEN "none" ELSE current.page[j]]
        /\ listDoubt' = (listDoubt \/ current.overtaken)
    BY <1>5 DEF Return
  <2>2. Fetches(current) /\ ~current.overtaken
    BY <1>1, <1>5, <2>1 DEF Fetches, GoodCall, Sure
  <2>3. Right(current.page[i], i) /\ There(current.page[i], i)
    BY <1>2, <1>4, <2>2 DEF PageTells
  <2>4. TrueRow(current.page[i], rows, i) /\ Linked'
    BY <1>2, <1>5 DEF Base, Shown, TruePage, Sure
  <2>5. /\ (Known(i)' /\ Still(i)' /\ Visible(current.page[i])) => current.page[i] = rows'[i]
        /\ Visible(rows'[i]) => (Visible(current.page[i]) \/ Coming(i)')
    BY <1>3, <1>4, <2>3, <2>4, ViewStep DEF Sure
  <2>6. /\ Visible(list'[i]) <=> Visible(current.page[i])
        /\ Visible(list'[i]) => list'[i] = current.page[i]
    BY <2>1 DEF Visible
  <2> QED
    BY <2>5, <2>6 DEF Right, There
<1>6. CASE ~(current.req = "page" /\ current.mine)
  <2>1. UNCHANGED <<list, failed>>
    BY <1>6 DEF Return
  <2> DEFINE c == [Call("toggle", "pause") EXCEPT
                      !.to = IF current.paused THEN "live" ELSE "pinned"]
  <2>2. waiting' = waiting \/ waiting' = Append(waiting, c)
    BY DEF Return
  <2>3. c \in CallSet /\ c.req = "pause"
    BY DEF Call, CallSet, Who, Request, Row
  <2>4. c.who = "toggle"
    BY DEF Call
  <2> HIDE DEF c
  <2>5. \A R : AskWaits(waiting, R, i) => AskWaits(waiting', R, i)
    BY <1>1, <2>2, <2>3, AppendCalls
  <2>6. FetchWaits(waiting) => FetchWaits(waiting')
    BY <1>1, <2>2, <2>3, AppendCalls
  <2>7. \A R : Called(R, i) => Called(R, i)'
    BY <1>2, <2>5 DEF Called
  <2>8. ~Fetches(current)
    BY <1>1, <1>6 DEF Fetches
  <2>9. Sure
    BY <1>4, <2>1, <2>6, <2>8 DEF Sure
  <2> QED
    BY <1>3, <2>1, <2>7, <2>9, ListKept
<1> QED
  BY <1>5, <1>6

LEMMA ListLock ==
    ASSUME Base, Base', ListTells, Lock, [Next]_vars
    PROVE  ListTells'
<1>1. waiting \in Seq(CallSet) /\ waiting # <<>> /\ current = NoCall /\ Waiting(waiting, rows)
      /\ UNCHANGED <<alive, client>>
  BY DEF Lock, Base, Types, CallTypesHold, Calls
<1> SUFFICES ASSUME Sure', NEW i \in Id
             PROVE  /\ ~Called(Rewrites, i)' => Right(list[i], i)'
                    /\ There(list[i], i)' \/ Called(Deletes, i)'
  BY DEF ListTells
<1>2. ~Receive /\ ~Query
  BY <1>1, NoCallType DEF Receive, Query, Superseded, Lock, view
<1>3. Linked /\ ~listDoubt
  BY <1>2, LinkedBefore, DoubtStays DEF Sure
<1>4. client = "open" /\ alive
  BY <1>3 DEF Linked, Base, Wiring
<1>5. current' = Head(waiting) /\ waiting' = Tail(waiting) /\ UNCHANGED <<list, failed>>
  BY <1>4 DEF Lock
<1>6. /\ Head(waiting).stage = "asked"
      /\ FetchWaits(waiting) <=> (FetchWaits(Tail(waiting)) \/ Fetches(Head(waiting)))
      /\ \A R : AskWaits(waiting, R, i) <=> (AskWaits(Tail(waiting), R, i)
                                              \/ Asks(Head(waiting), R, i))
  BY <1>1, TailCalls
<1>7. ~Fetches(current) /\ current.stage # "asked"
  BY <1>1, NoCallType DEF Fetches
<1>8. \A R : Called(R, i) => Called(R, i)'
  BY <1>5, <1>6, <1>7 DEF Called
<1>9. Sure
  BY <1>3, <1>5, <1>6, <1>7 DEF Sure
<1> QED
  BY <1>2, <1>5, <1>8, <1>9, ListKept

LEMMA ListHandle ==
    ASSUME Base, Base', ListTells, Handle, [Next]_vars
    PROVE  ListTells'
<1>1. /\ current \in CallSet /\ GoodCall(current, rows) /\ DaemonTypes /\ Jobs
      /\ rows \in [Id -> Row]
  BY DEF Base, Types, CallTypesHold, Calls, DaemonTypes
<1>2. /\ current' = [current EXCEPT !.stage = "handled"] /\ current.stage = "asked"
      /\ UNCHANGED <<list, failed, waiting, inbox, alive, phase, listDoubt>>
  BY DEF Handle, view, history
<1>3. Fetches(current') <=> Fetches(current)
  BY <1>1, <1>2 DEF CallSet, Fetches
<1>4. current'.stage = "handled"
  BY <1>1, <1>2 DEF CallSet
<1>5. ~Receive
  BY <1>1, <1>2, <1>4, SupersededIs, OvertakesIs, ReceiveEvent
<1> SUFFICES ASSUME Sure', NEW i \in Id
             PROVE  /\ ~Called(Rewrites, i)' => Right(list[i], i)'
                    /\ There(list[i], i)' \/ Called(Deletes, i)'
  BY DEF ListTells
<1>6. Sure
  BY <1>2, <1>3 DEF Sure, Linked
<1>7. CASE ~Asks(current, Rewrites, i)
  <2>1. ~Asks(current, Deletes, i)
    BY <1>7 DEF Asks, Rewrites, Deletes
  <2>2. \A R : (Called(R, i) /\ ~Asks(current, R, i)) => Called(R, i)'
    BY <1>2 DEF Called
  <2> QED
    BY <1>2, <1>5, <1>6, <1>7, <2>1, <2>2, ListKept
<1>8. CASE Asks(current, Rewrites, i)
  <2>1. HandlesClip /\ current.id = i
    BY <1>1, <1>8, HandleIs DEF Asks, Rewrites, HandlesState
  <2>2. PICK v \in Row, kind \in Changes : \E s : Writes("handler", i, v, kind, s)
    BY <2>1 DEF HandlesClip
  <2>3. PICK s : Writes("handler", i, v, kind, s)
    BY <2>2
  <2>4. Pending(Changes, i)'
    <3>1. Changes \subseteq News /\ Idle("handler")
      BY DEF Changes, News, Handle
    <3> QED
      BY <2>2, <2>3, <3>1, PendingWrite DEF Task
  <2>5. Right(list[i], i)'
    BY <2>4 DEF Right, Known
  <2>6. CASE current.req = "delete"
    <3>1. rows' = [rows EXCEPT ![i] = "deleted"]
      BY <2>1, <2>6 DEF Handle
    <3>2. ~Visible(rows'[i])
      BY <1>1, <3>1 DEF Visible
    <3>3. There(list[i], i)'
      BY <3>2 DEF There
    <3> QED
      BY <2>5, <3>3
  <2>7. CASE current.req # "delete"
    <3>1. ~Asks(current, Deletes, i)
      BY <2>7 DEF Asks, Deletes
    <3>2. There(list[i], i) \/ AskWaits(waiting, Deletes, i)
      BY <1>6, <3>1 DEF ListTells, Called
    <3>3. TrueRow(list[i], rows, i) /\ Linked /\ Linked' /\ ~listDoubt'
      BY <1>6 DEF Base, Shown, TruePage, Sure
    <3>4. There(list[i], i) => (Visible(rows'[i]) => (Visible(list[i]) \/ Coming(i)'))
      BY <1>5, <3>3, ViewStep
    <3>5. There(list[i], i) => There(list[i], i)'
      BY <1>2, <3>4 DEF There
    <3> QED
      BY <1>2, <2>5, <3>2, <3>5 DEF Called
  <2> QED
    BY <2>6, <2>7
<1> QED
  BY <1>7, <1>8

\* The calls that a step answers or begins, but for the user's.
LEMMA SameCalls ==
    ASSUME Base, Answer \/ Query \/ FetchStatus \/ UNCHANGED calls, NEW i
    PROVE  /\ FetchWaits(waiting') <=> FetchWaits(waiting)
           /\ Fetches(current') <=> Fetches(current)
           /\ Called(Rewrites, i) => Called(Rewrites, i)'
           /\ Called(Deletes, i) => Called(Deletes, i)'
<1>1. current \in CallSet /\ waiting \in Seq(CallSet)
  BY DEF Base, Types, CallTypesHold
<1>2. CASE UNCHANGED calls
  BY <1>2 DEF Called, calls
<1>3. CASE FetchStatus
  <2> DEFINE c == Call("task", "status")
  <2>1. waiting' = Append(waiting, c) /\ UNCHANGED current
    BY <1>3 DEF FetchStatus
  <2>2. c \in CallSet /\ c.who = "task"
    BY CallTypes DEF Who, Request
  <2> HIDE DEF c
  <2>3. \A R : AskWaits(waiting, R, i) => AskWaits(waiting', R, i)
    BY <1>1, <2>1, <2>2, AppendCalls
  <2>4. FetchWaits(waiting') <=> FetchWaits(waiting)
    BY <1>1, <2>1, <2>2, AppendCalls DEF Fetches
  <2> QED
    BY <2>1, <2>3, <2>4 DEF Called
<1>4. CASE Answer
  <2>1. UNCHANGED waiting /\ current' = [current EXCEPT !.stage = "answered"]
    BY <1>4 DEF Answer
  <2>2. current.stage = "handled"
    <3>1. DaemonTypes /\ Jobs /\ "handler" \in Task /\ job["handler"] \in JobSet
      BY DEF Base, Types, DaemonTypes, Task
    <3>2. Has(job["handler"].steps, "answer")
      BY <1>4, <3>1, StateFacts
    <3> QED
      BY <3>2 DEF Base, Calls
  <2>3. Fetches(current') <=> Fetches(current)
    BY <1>1, <2>1 DEF Fetches, CallSet
  <2> QED
    BY <2>1, <2>2, <2>3 DEF Called
<1>5. CASE Query
  <2>1. UNCHANGED waiting /\ current.req \in {"page", "status"}
    BY <1>5 DEF Query
  <2>2. \/ current' = [current EXCEPT !.stage = "unanswered"]
        \/ current' = [current EXCEPT !.stage = "answered", !.page = rows]
        \/ current' = [current EXCEPT !.stage = "answered", !.paused = paused]
    BY <1>5 DEF Query
  <2>3. Fetches(current') <=> Fetches(current)
    BY <1>1, <2>2 DEF Fetches, CallSet
  <2>4. ~Asks(current, Rewrites, i) /\ ~Asks(current, Deletes, i)
    BY <2>1 DEF Asks, Rewrites, Deletes
  <2> QED
    BY <2>1, <2>3, <2>4 DEF Called
<1> QED
  BY <1>2, <1>3, <1>4, <1>5

LEMMA ListStep ==
    ASSUME Base, Base', NewestTells, PageTells, ListTells, [Next]_vars
    PROVE  ListTells'
<1>1. CASE Receive
  BY <1>1, ListReceive
<1>2. CASE UserActs \/ Return \/ Lock \/ Handle
  BY <1>2, ListActs, ListReturn, ListLock, ListHandle
<1>3. CASE Retry
  <2>1. waiting \in Seq(CallSet) /\ "page" \notin Changes
    BY DEF Base, Types, CallTypesHold, Changes
  <2>2. FetchWaits(waiting')
    BY <1>3, <2>1, FetchingCalls DEF Retry
  <2> QED
    BY <2>2 DEF ListTells, Sure
<1>4. CASE CallFails
  <2>1. ~alive'
    BY <1>4 DEF CallFails
  <2> QED
    BY <2>1 DEF ListTells, Sure, Linked
<1>5. CASE /\ ~Receive /\ ~UserActs /\ ~Return /\ ~Lock /\ ~Handle /\ ~Retry /\ ~CallFails
  <2>1. UNCHANGED <<list, failed>>
    BY <1>5 DEF Next, DaemonSteps, AppSteps, CallSteps, vars, view, Capture, Merge, Stop, Start,
       Listen, Answer, Query, Reread, Tell, Look, Report, ConnectCommands, ConnectEvents, Subscribe,
       FetchStatus, Forward, StreamEnds
  <2>2. Answer \/ Query \/ FetchStatus \/ UNCHANGED calls
    BY <1>5 DEF Next, DaemonSteps, AppSteps, CallSteps, vars, calls, Capture, Merge, Stop, Start,
       Listen, Reread, Tell, Look, Report, ConnectCommands, ConnectEvents, Subscribe, Forward, StreamEnds
  <2> SUFFICES ASSUME Sure', NEW i \in Id
               PROVE  /\ ~Called(Rewrites, i)' => Right(list[i], i)'
                      /\ There(list[i], i)' \/ Called(Deletes, i)'
    BY DEF ListTells
  <2>3. /\ FetchWaits(waiting') <=> FetchWaits(waiting)
        /\ Fetches(current') <=> Fetches(current)
        /\ Called(Rewrites, i) => Called(Rewrites, i)'
        /\ Called(Deletes, i) => Called(Deletes, i)'
    BY <2>2, SameCalls
  <2>4. Linked
    BY <1>5, LinkedBefore DEF Sure
  <2>5. ~listDoubt
    <3>1. CASE Query
      <4>1. ~Fetches(current)
        BY <2>3 DEF Sure
      <4>2. current.req = "page" => ~current.mine
        BY <4>1 DEF Base, Calls, GoodCall, Fetches
      <4>3. listDoubt' = (listDoubt /\ ~(current.mine /\ queue = <<>> /\ inbox = <<>>))
            \/ UNCHANGED listDoubt
        BY <3>1 DEF Query
      <4>4. current.req = "page" \/ UNCHANGED listDoubt
        BY <3>1 DEF Query
      <4> QED
        BY <4>2, <4>3, <4>4 DEF Sure
    <3>2. CASE ~Query
      BY <3>2, DoubtStays DEF Sure
    <3> QED
      BY <3>1, <3>2
  <2>6. Sure
    BY <2>1, <2>3, <2>4, <2>5 DEF Sure
  <2> QED
    BY <1>5, <2>1, <2>3, <2>6, ListKept
<1> QED
  BY <1>1, <1>2, <1>3, <1>4, <1>5

\* The list shows the history when everything is still, for every set of clips, every
\* buffer and any number of operations and stops, unless an event was dropped, overtaken
\* or not yet listened to, or two tasks told of a clip in the other order (Daemon::emit
\* of daemon.rs and emit of sync.rs, forward_event of connection.rs, runFetch and the
\* listeners of use-clip-history.ts).
THEOREM ListTellsHistory == Spec => []ListTellsTheHistory
<1>1. Init => NewestTells /\ PageTells /\ ListTells
  BY DEF Init, NewestTells, PageTells, ListTells, Sure, Linked
<1>2. /\ Base /\ Base' /\ NewestTells /\ PageTells /\ ListTells /\ [Next]_vars
         => (NewestTells /\ PageTells /\ ListTells)'
  BY NewestStep, PageStep, ListStep
<1>3. Base /\ ListTells => ListTellsTheHistory
  <2> SUFFICES ASSUME Base, ListTells, Quiet, ~failed, ~listDoubt, NEW i \in Id \ crossed,
                      Visible(list[i]) \/ Visible(rows[i])
               PROVE  list[i] = rows[i]
    BY DEF ListTellsTheHistory
  <2>1. /\ queue = <<>> /\ inbox = <<>> /\ current = NoCall /\ waiting = <<>>
        /\ phase \in InTouch /\ alive /\ \A t \in Task : job[t].steps = <<>>
    BY DEF Quiet, InTouch, Base, Wiring
  <2>2. NoLink(inbox) /\ Seen = <<>>
    BY <2>1, EmptyTells DEF Seen
  <2>3. ~Fetches(current) /\ ~FetchWaits(waiting)
    BY <2>1, NoCallType DEF Fetches, FetchWaits
  <2>4. Sure
    BY <2>1, <2>2, <2>3 DEF Sure, Linked
  <2>5. \A R : ~Called(R, i)
    BY <2>1, NoCallType DEF Called, AskWaits
  <2>6. \A K : ~Pending(K, i)
    BY <2>1, NoSteps DEF Pending, Due
  <2>7. Known(i) /\ Still(i) /\ ~Coming(i)
    BY <2>1, <2>2, <2>6, EmptyTells DEF Known, Still, Coming
  <2>8. Right(list[i], i) /\ There(list[i], i)
    BY <2>4, <2>5 DEF ListTells
  <2> QED
    BY <2>7, <2>8 DEF Right, There
<1> QED
  BY <1>1, <1>2, <1>3, BaseInvariant, PTL DEF Spec

============================================================================
