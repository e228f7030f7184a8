----------------------------- MODULE Candidates -----------------------------
(***************************************************************************)
(* The addresses known for one peer (CandidateList): a list without two    *)
(* entries for one address.  A position in the list only matters between   *)
(* entries seen at the same time, because the sorts are stable.            *)
(***************************************************************************)
EXTENDS Naturals, FiniteSets, Sequences, SequencesExt

CONSTANTS Addr, MaxLan   \* MAX_LAN_CANDIDATES

Reachability == {"Lan", "Tailnet"}

(* last_seen_ms; an address recorded at pairing time has not been seen.     *)
Never == 0

Candidate == [addr : Addr, reach : Reachability, seen : Nat]
Lan(x, t) == [addr |-> x, reach |-> "Lan", seen |-> t]
Tailnet(x, t) == [addr |-> x, reach |-> "Tailnet", seen |-> t]

Known(list) == {list[i].addr : i \in DOMAIN list}

(* One of the two entries for an address: the fresher sighting, and Lan if  *)
(* either says so.                                                          *)
MergedKeepsTime(old, new) ==
    [old EXCEPT !.reach = IF "Lan" \in {@, new.reach} THEN "Lan" ELSE @]

Merged(old, new) ==
    [old EXCEPT !.seen = IF new.seen > @ THEN new.seen ELSE @,
                !.reach = IF "Lan" \in {@, new.reach} THEN "Lan" ELSE @]

Upsert(list, c) ==
    IF c.addr \in Known(list)
    THEN [i \in DOMAIN list |->
             IF list[i].addr = c.addr THEN Merged(list[i], c) ELSE list[i]]
    ELSE Append(list, c)

UpsertAll(list, cs) == FoldLeft(Upsert, list, cs)

(* Entry i comes before entry j: freshest first, then as they stand.        *)
Fresher(list, i, j) ==
    list[i].seen > list[j].seen \/ (list[i].seen = list[j].seen /\ i < j)

LanOnes(list) == {i \in DOMAIN list : list[i].reach = "Lan"}

(* prune_lan: the MaxLan freshest Lan entries stay, in their places.        *)
Doomed(list) ==
    {list[j].addr : j \in {i \in LanOnes(list) :
        Cardinality({k \in LanOnes(list) : Fresher(list, k, i)}) >= MaxLan}}

PruneLan(list) == SelectSeq(list, LAMBDA c : c.addr \notin Doomed(list))

RefreshLan(list, found, t) ==
    PruneLan(UpsertAll(list, [i \in DOMAIN found |-> Lan(found[i], t)]))

(* dial_order: Lan before Tailnet, the freshest first in each.              *)
DialsBefore(list, i, j) ==
    IF list[i].reach = list[j].reach THEN Fresher(list, i, j) ELSE list[i].reach = "Lan"

FirstToDial(list, left) ==
    CHOOSE i \in left : \A j \in left \ {i} : DialsBefore(list, i, j)

=============================================================================
