------------------------------ MODULE BlobStore ------------------------------
(***************************************************************************)
(* Large payloads on disk: put_blob, read_blob and enforce_blob_quota of   *)
(* clipse-store/src/blob.rs, called by the capture loop (capture.rs) and   *)
(* by sync sessions (sync.rs).  put_blob works on the file system without  *)
(* the connection mutex and takes it only for its bookkeeping, so tasks    *)
(* interleave between its steps; the quota holds the mutex throughout, but *)
(* outside a transaction.  A crash may come between any two steps.         *)
(*                                                                         *)
(* A digest has two names, its path and the path with extension "tmp"; a   *)
(* name refers to a file (an inode) or to nothing.  A writer keeps writing *)
(* to the file it opened, whatever its name is by then; and two tasks that *)
(* store one digest may have one file open.  Every blob has size one, so   *)
(* that the quota counts blobs, and used_seq is the order in which tasks   *)
(* get the connection mutex.                                               *)
(***************************************************************************)
EXTENDS Integers, Sequences, FiniteSets

CONSTANTS
    Digest,
    Session,     \* session tasks that receive blobs
    Capturer,    \* the capture loop
    Inode,       \* more files than anything can name
    NoFile,
    Quota,
    MaxPuts,     \* bound: blobs written or re-written
    MaxCrashes   \* bound

Putter == Session \cup {Capturer}

ASSUME BlobAssumption ==
    /\ Capturer \notin Session
    /\ Digest # {} /\ IsFiniteSet(Digest) /\ IsFiniteSet(Session)
    /\ NoFile \notin Inode /\ IsFiniteSet(Inode)
    /\ Cardinality(Inode) > 2 * Cardinality(Digest) + Cardinality(Putter)
    /\ Quota \in Nat /\ MaxPuts \in Nat /\ MaxCrashes \in Nat

VARIABLES
    path,     \* path[g]: the file at g's content-addressed path
    tmp,      \* tmp[g]: the file at its temporary path
    whole,    \* files that hold all their bytes
    lru,      \* blob_meta: the digests on record, by used_seq
    ref,      \* ref[g]: the live clip that refers to g: "none", "live" or "pinned"
    pc,       \* pc[p]: the next step of task p
    job,      \* job[p]: the digest p is storing
    fd,       \* fd[p]: the file p writes to
    evict,    \* the candidates enforce_blob_quota has not come to
    shared,   \* history variable: files opened while another task stored the digest
    late,     \* history variable: digests last recorded when their file was gone
    puts, crashes

history == <<shared, late>>
vars == <<path, tmp, whole, lru, ref, pc, job, fd, evict, history, puts, crashes>>

Init ==
    /\ path = [g \in Digest |-> NoFile]
    /\ tmp = [g \in Digest |-> NoFile]
    /\ whole = {}
    /\ lru = <<>>
    /\ ref = [g \in Digest |-> "none"]
    /\ pc = [p \in Putter |-> "idle"]
    /\ job \in [Putter -> {CHOOSE g \in Digest : TRUE}]
    /\ fd = [p \in Putter |-> NoFile]
    /\ evict = {}
    /\ shared = {} /\ late = {}
    /\ puts = 0
    /\ crashes = 0

Goto(p, at) == pc' = [pc EXCEPT ![p] = at]

\* Files that no name and no task refers to are gone.
Free == Inode \ ({path[g] : g \in Digest} \cup {tmp[g] : g \in Digest} \cup {fd[p] : p \in Putter})

\* Whether the quota holds the connection mutex.
Locked == pc[Capturer] \in {"evict", "forget"}

\* The digests on record, and the list without one of them.
Recorded == {lru[i] : i \in DOMAIN lru}
Without(s, g) ==
    LET at == CHOOSE i \in DOMAIN s : s[i] = g IN
    IF \E i \in DOMAIN s : s[i] = g
    THEN [i \in 1..(Len(s) - 1) |-> IF i < at THEN s[i] ELSE s[i + 1]]
    ELSE s

\* A use of a blob: its used_seq is the largest.
Used(s, g) == Append(Without(s, g), g)

------------------------------------------------------------------------------
\* A capture of a large payload, or a stream that arrived for a digest a
\* session asked for.  When it asked, the clip was here and the file was not;
\* by now either may have changed.
Begin(p, g) ==
    /\ pc[p] = "idle" /\ puts < MaxPuts
    /\ puts' = puts + 1
    /\ job' = [job EXCEPT ![p] = g]
    /\ Goto(p, "check")
    /\ UNCHANGED <<path, tmp, whole, lru, ref, fd, evict, history, crashes>>

\* put_blob: is_file()?
Check(p) ==
    /\ pc[p] = "check"
    /\ Goto(p, IF path[job[p]] = NoFile THEN "open" ELSE "record")
    /\ UNCHANGED <<path, tmp, whole, lru, ref, job, fd, evict, history, puts, crashes>>

\* Another task is between opening and renaming a file for the same digest.
Rival(p) == \E q \in Putter \ {p} : job[q] = job[p] /\ fd[q] # NoFile
Opened(p, i) ==
    /\ fd' = [fd EXCEPT ![p] = i]
    /\ whole' = whole \ {i}
    /\ shared' = IF Rival(p) THEN shared \cup {i} ELSE shared \ {i}

\* fs::write opens the temporary path: an existing file is truncated, and
\* shared with whoever else has it open.
OpenAtPath(p) ==  \* mutant: the blob is written in place
    LET g == job[p] IN
    /\ pc[p] = "open"
    /\ \E i \in {IF path[g] = NoFile THEN CHOOSE j \in Free : TRUE ELSE path[g]} :
         /\ path' = [path EXCEPT ![g] = i]
         /\ tmp' = [tmp EXCEPT ![g] = i]
         /\ Opened(p, i)
    /\ Goto(p, "write")
    /\ UNCHANGED <<lru, ref, job, evict, late, puts, crashes>>
Open(p) ==
    LET g == job[p] IN
    /\ pc[p] = "open"
    /\ \E i \in {IF tmp[g] = NoFile THEN CHOOSE j \in Free : TRUE ELSE tmp[g]} :
         /\ tmp' = [tmp EXCEPT ![g] = i]
         /\ Opened(p, i)
    /\ Goto(p, "write")
    /\ UNCHANGED <<path, lru, ref, job, evict, late, puts, crashes>>

\* The bytes are written.  A task that opened the same file meanwhile truncated
\* it, and until that one has written too the first bytes may be missing.
Write(p) ==
    /\ pc[p] = "write"
    /\ \/ whole' = whole \cup {fd[p]}
       \/ /\ \E q \in Putter \ {p} : pc[q] = "write" /\ fd[q] = fd[p]
          /\ UNCHANGED whole
    /\ Goto(p, "rename")
    /\ UNCHANGED <<path, tmp, lru, ref, job, fd, evict, history, puts, crashes>>

\* fs::rename moves whatever file has the temporary name by now, and fails if
\* another task has already renamed it: the error ends the session, or loses
\* the capture.
Rename(p) ==
    LET g == job[p] IN
    /\ pc[p] = "rename"
    /\ fd' = [fd EXCEPT ![p] = NoFile]
    /\ IF tmp[g] = NoFile
       THEN Goto(p, "idle") /\ UNCHANGED <<path, tmp>>
       ELSE /\ path' = [path EXCEPT ![g] = tmp[g]]
            /\ tmp' = [tmp EXCEPT ![g] = NoFile]
            /\ Goto(p, "record")
    /\ UNCHANGED <<whole, lru, ref, job, evict, history, puts, crashes>>

\* The upsert of blob_meta, whether or not the file is still there.  A session
\* is done; a capture goes on.
Record(p) ==
    /\ pc[p] = "record" /\ ~Locked
    /\ lru' = Used(lru, job[p])
    /\ late' = IF path[job[p]] = NoFile THEN late \cup {job[p]} ELSE late \ {job[p]}
    /\ Goto(p, IF p = Capturer THEN "insert" ELSE "idle")
    /\ UNCHANGED <<path, tmp, whole, ref, job, fd, evict, shared, puts, crashes>>

\* store_capture: the row, and then the quota.
InsertRow ==
    /\ pc[Capturer] = "insert"
    /\ ref' = [ref EXCEPT ![job[Capturer]] = IF @ = "none" THEN "live" ELSE @]
    /\ Goto(Capturer, "quota")
    /\ UNCHANGED <<path, tmp, whole, lru, job, fd, evict, history, puts, crashes>>

\* enforce_blob_quota: while the blobs on record exceed the quota, the least
\* recently used of those no live pinned clip refers to: its file, and then its
\* record.
CandidatesAll == Recorded  \* mutant: a pin does not protect
Candidates == {g \in Recorded : ref[g] # "pinned"}

\* The loop goes on with these candidates, or returns.
Continue(candidates, blobs) ==
    IF candidates # {} /\ Len(blobs) > Quota
    THEN evict' = candidates /\ Goto(Capturer, "evict")
    ELSE evict' = {} /\ Goto(Capturer, "idle")

EnforceQuota ==
    /\ pc[Capturer] = "quota"
    /\ Continue(Candidates, lru)
    /\ UNCHANGED <<path, tmp, whole, lru, ref, job, fd, history, puts, crashes>>

\* ORDER BY used_seq ASC
Oldest ==
    lru[CHOOSE i \in DOMAIN lru :
            lru[i] \in evict /\ \A j \in DOMAIN lru : lru[j] \in evict => i <= j]

RemoveNothing ==  \* mutant: the file stays
    /\ pc[Capturer] = "evict"
    /\ Goto(Capturer, "forget")
    /\ UNCHANGED <<path, tmp, whole, lru, ref, job, fd, evict, history, puts, crashes>>
RemoveFile ==
    /\ pc[Capturer] = "evict"
    /\ path' = [path EXCEPT ![Oldest] = NoFile]
    /\ Goto(Capturer, "forget")
    /\ UNCHANGED <<tmp, whole, lru, ref, job, fd, evict, history, puts, crashes>>

ForgetNothing ==  \* mutant: the record stays
    /\ pc[Capturer] = "forget"
    /\ Continue(evict \ {Oldest}, lru)
    /\ UNCHANGED <<path, tmp, whole, lru, ref, job, fd, history, puts, crashes>>
ForgetBlob ==
    /\ pc[Capturer] = "forget"
    /\ lru' = Without(lru, Oldest)
    /\ Continue(evict \ {Oldest}, lru')
    /\ UNCHANGED <<path, tmp, whole, ref, job, fd, history, puts, crashes>>

------------------------------------------------------------------------------
\* read_blob, for a preview, a paste or a peer: a use of a blob on record.
Read(g) ==
    /\ path[g] # NoFile /\ g \in Recorded /\ ~Locked
    /\ lru' = Used(lru, g)
    /\ UNCHANGED <<path, tmp, whole, ref, pc, job, fd, evict, history, puts, crashes>>

\* A clip with this payload arrives from a peer, is pinned or unpinned, or is
\* deleted.
Refer(g, how) ==
    /\ ref[g] # how /\ ~Locked
    /\ ref' = [ref EXCEPT ![g] = how]
    /\ UNCHANGED <<path, tmp, whole, lru, pc, job, fd, evict, history, puts, crashes>>

\* The daemon stops and starts: names, files and blob_meta are on disk.
Crash ==
    /\ crashes < MaxCrashes
    /\ crashes' = crashes + 1
    /\ pc' = [p \in Putter |-> "idle"]
    /\ fd' = [p \in Putter |-> NoFile]
    /\ evict' = {}
    /\ UNCHANGED <<path, tmp, whole, lru, ref, job, history, puts>>

TaskStep(p) ==
    Check(p) \/ Open(p) \/ Write(p) \/ Rename(p) \/ Record(p)

Next ==
    \/ \E p \in Putter : TaskStep(p) \/ (\E g \in Digest : Begin(p, g))
    \/ InsertRow
    \/ EnforceQuota
    \/ RemoveFile
    \/ ForgetBlob
    \/ \E g \in Digest : Read(g)
    \/ \E g \in Digest, how \in {"none", "live", "pinned"} : Refer(g, how)
    \/ Crash

Spec == Init /\ [][Next]_vars

------------------------------------------------------------------------------
\* Type invariant.
TypeOK ==
    /\ path \in [Digest -> Inode \cup {NoFile}]
    /\ tmp \in [Digest -> Inode \cup {NoFile}]
    /\ whole \subseteq Inode
    /\ lru \in Seq(Digest) /\ \A i, j \in DOMAIN lru : lru[i] = lru[j] => i = j
    /\ ref \in [Digest -> {"none", "live", "pinned"}]
    /\ pc \in [Putter -> {"idle", "check", "open", "write", "rename", "record",
                       "insert", "quota", "evict", "forget"}]
    /\ job \in [Putter -> Digest]
    /\ fd \in [Putter -> Inode \cup {NoFile}]
    /\ evict \subseteq Recorded /\ (Locked => evict # {})
    /\ shared \subseteq Inode /\ late \subseteq Digest

\* put_blob's comment: "a crash mid-write can never leave a truncated file at
\* the final path for has_blob/read_blob to trust".  So it is for a file that
\* one task wrote.  A file written while two tasks stored its digest may be at
\* the path incomplete, until the other has written or, if the daemon crashes
\* first, for good; read_blob's callers tell by the digest.
WholeAtPath ==
    \A g \in Digest : path[g] # NoFile /\ path[g] \notin whole =>
        /\ path[g] \in shared
        /\ crashes > 0 \/ (\E p \in Putter : pc[p] = "write" /\ fd[p] = path[g])

\* A blob on record has its file: the quota counts, and evicts, what is there.
\* A record without a file takes a crash between the two steps of an eviction,
\* one for each crash, or a put_blob whose file the quota removed before it got
\* the mutex to record it.
Ghosts ==
    {g \in Recorded : path[g] = NoFile /\ ~(pc[Capturer] = "forget" /\ g = Oldest)}
GhostsAreCrashes == Cardinality(Ghosts \ late) <= crashes

\* The converse, which a crash between the rename and the record breaks: each
\* crash leaves at most one file per task that no quota will ever count.
Unrecorded ==
    {g \in Digest : /\ path[g] # NoFile /\ g \notin Recorded
                    /\ \A p \in Putter : ~(pc[p] = "record" /\ job[p] = g)}
LeaksAreCrashes == Cardinality(Unrecorded) <= crashes * Cardinality(Putter)

\* enforce_blob_quota: "Never evicts a blob referenced by any live (non-deleted),
\* pinned clip's payload", and no other step of any task removes a blob.
PinnedBlobsStay ==
    [][\A g \in Digest : path[g] # NoFile /\ path'[g] = NoFile =>
         ref[g] # "pinned" /\ Len(lru) > Quota /\ Locked]_vars
==============================================================================
