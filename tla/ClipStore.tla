------------------------------ MODULE ClipStore ------------------------------
(***************************************************************************)
(* The history table of one device (clipse-store/src/store.rs) as a        *)
(* function from clip ids to rows, and the statements the daemon executes  *)
(* on it, each of which holds the connection mutex and is therefore one    *)
(* atomic step.  Pure operators: a table goes in, a table comes out.       *)
(*                                                                         *)
(* Left out: previews, payload formats, sources and the full text index,   *)
(* none of which a property here tells apart.  A row's content is its hash.*)
(***************************************************************************)
EXTENDS HLC, FiniteSets

CONSTANTS
    Id,     \* clip ids: a row keeps the id of the capture that made it
    Hash,   \* content hashes
    None    \* "no such row"

ASSUME StoreAssumption ==
    /\ Id \subseteq Nat
    /\ IsFiniteSet(Id)
    /\ None \notin Hash \cup Id

Row == [hash : Hash, hlc : Hlc, pinned : BOOLEAN, deleted : BOOLEAN]

ASSUME NoneAssumption == None \notin Row

Table == [Id -> Row \cup {None}]

EmptyTable == [i \in Id |-> None]

\* Rows of a table, and the ones that carry a hash.
Ids(t) == {i \in Id : t[i] # None}
WithHash(t, h) == {i \in Ids(t) : t[i].hash = h}
LiveWithHash(t, h) == {i \in WithHash(t, h) : ~t[i].deleted}
Hashes(t) == {t[i].hash : i \in Ids(t)}

\* Store::by_hash_including_deleted: ORDER BY deleted ASC LIMIT 1, so a live
\* row if there is one.  Several tombstones tie and SQL does not say which is
\* returned: the operator is the set of ids the query may return.
ByHashLive(t, h) == LiveWithHash(t, h)  \* mutant: tombstones are hidden
ByHash(t, h) ==
    IF LiveWithHash(t, h) # {} THEN LiveWithHash(t, h) ELSE WithHash(t, h)

\* Store::insert of a clip under its own id.  Only a live row deduplicates;
\* it takes the clip's timestamp and keeps its own id and flags.
InsertAlways(t, i, clip) == [t EXCEPT ![i] = clip]  \* mutant: no dedup
InsertLive(t, i, clip) ==  \* mutant: the deleted column is not written
    IF LiveWithHash(t, clip.hash) # {} THEN t
    ELSE [t EXCEPT ![i] = [clip EXCEPT !.deleted = FALSE]]
Insert(t, i, clip) ==
    IF LiveWithHash(t, clip.hash) # {}
    THEN LET existing == CHOOSE j \in LiveWithHash(t, clip.hash) : TRUE
         IN  [t EXCEPT ![existing] = [@ EXCEPT !.hlc = clip.hlc]]
    ELSE [t EXCEPT ![i] = clip]

\* The INSERT statement fails on the primary key when the id is already there.
InsertFails(t, i, clip) ==
    LiveWithHash(t, clip.hash) = {} /\ t[i] # None

\* Store::set_pinned: no condition on deleted, no comparison of timestamps.
SetPinned(t, i, pinned, hlc) ==
    [t EXCEPT ![i] = [@ EXCEPT !.pinned = pinned, !.hlc = hlc]]

\* Store::delete: a live row becomes a tombstone; a tombstone is left alone.
Delete(t, i, hlc) ==
    IF t[i].deleted THEN t
    ELSE [t EXCEPT ![i] = [@ EXCEPT !.deleted = TRUE, !.hlc = hlc]]

\* clipse-sync's merge, on the row the lookup returned (or None).  Clips
\* whose payloads do not hash to their claimed hash are not in the model: a
\* Row's hash is its content.
Merge(local, incoming) ==
    CASE local = None                    -> "Insert"
      [] local # None /\ Newer(incoming.hlc, local.hlc) -> "UpdateMetadata"
      [] OTHER                            -> "Ignore"
==============================================================================
