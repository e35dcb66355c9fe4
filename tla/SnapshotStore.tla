--------------------------- MODULE SnapshotStore ---------------------------
(***************************************************************************)
(* The snapshots that make a forget recoverable                            *)
(* (pensyve-core/src/snapshot.rs) for the rows of one entity.  A forget    *)
(* deletes them page by page in one transaction and writes what it deletes *)
(* into a partial file; when no rows are left it gives the file its name,  *)
(* commits, and evicts old files from the directory.  A restore reads a    *)
(* file through once to validate it and writes its rows back page by page, *)
(* each page a transaction.                                                *)
(*                                                                         *)
(* Transactions of a namespace exclude each other on both backends, so     *)
(* rows change when nobody is in one.  The file system has no part in      *)
(* them: files are seen by others, and stay after a crash, at once.        *)
(***************************************************************************)
EXTENDS Integers, FiniteSets

CONSTANTS
    Rows,      \* numbers, in the order of their typed keys
    Large,     \* rows of two units of bytes; the others have one
    PageRows,  \* MEMORY_PAGE_SIZE
    PageBytes, \* SNAPSHOT_MAX_PAGE_BYTES, in such units
    Forgets,   \* calls of forget_entity_bounded, numbered; so are their files
    Restores,  \* calls of restore_file
    MaxAge,    \* max_age_days
    MaxFiles,  \* max_count
    Times      \* what a reading of the clock may give, in days

ASSUME SnapshotAssumption ==
    /\ Rows \subseteq Nat /\ Forgets \subseteq Nat \ {0}
    /\ PageRows \in Nat \ {0} /\ MaxFiles \in Nat \ {0}
    /\ PageBytes \in Nat \ {0, 1} \* a row fits in a page alone
    /\ Times \subseteq Nat

VARIABLES
    stored,  \* rows in the database
    file,    \* of a forget: none, partial or complete, its time, its rows
    lock,    \* who holds the lock of the namespace, 0 when nobody does
    forget,  \* per call: where it is, what it has deleted, and its victims
    restore, \* per call: the rows it has read and those it has to write
    saved,   \* history: rows that were ever saved
    evicted  \* history: rows that retention took the last copy of

svars == <<stored, file, lock, forget, restore, saved, evicted>>

NoFile == [state |-> "none", at |-> 0, rows |-> {}]
Fresh0 == [at |-> "idle", taken |-> {}, victims |-> {}, warned |-> FALSE]
Closed0 == [at |-> "idle", rows |-> {}, left |-> {}, deleted |-> {}]

SInit ==
    /\ stored = {} /\ saved = {} /\ evicted = {}
    /\ file = [f \in Forgets |-> NoFile]
    /\ lock = 0
    /\ forget = [f \in Forgets |-> Fresh0]
    /\ restore = [u \in Restores |-> Closed0]

\* The files retention knows and restore reads.
Named == {f \in Forgets : file[f].state = "complete"}
Captured == UNION {file[f].rows : f \in Named}

InTransaction == \E f \in Forgets : forget[f].at \in {"delete", "named"}

Bytes(rows) == Cardinality(rows) + Cardinality(rows \intersect Large)

\* The first n of rows.
First(n, rows) == {r \in rows : Cardinality({s \in rows : s < r}) < n}

Gone == [Fresh0 EXCEPT !.at = "returned"]

Goto(f, l) == forget' = [forget EXCEPT ![f].at = l]

\* Calls and files are numbered as they come.
IsNext(f) == forget[f].at = "idle" /\ \A g \in Forgets : g < f => forget[g].at # "idle"

Remember(r) ==
    /\ ~InTransaction
    /\ r \notin saved
    /\ stored' = stored \union {r} /\ saved' = saved \union {r}
    /\ UNCHANGED <<file, lock, forget, restore, evicted>>

\* Variant: forgets of a namespace are not serialized.
NoLock(f) == UNCHANGED lock

\* namespace_lock
NamespaceLock(f) == lock = 0 /\ lock' = f

\* forget_entity_bounded up to the transaction: the lock, then the time.  The
\* clock may have been set back since it was read last.
BeginForget(f, now) ==
    /\ IsNext(f)
    /\ NamespaceLock(f)
    /\ file' = [file EXCEPT ![f].at = now]
    /\ Goto(f, "begin")
    /\ UNCHANGED <<stored, restore, saved, evicted>>

BeginDelete(f) ==
    /\ forget[f].at = "begin" /\ ~InTransaction
    /\ Goto(f, "delete")
    /\ UNCHANGED <<stored, file, lock, restore, saved, evicted>>

\* What the page query finds inside the transaction.
Left(f) == stored \ forget[f].taken

\* Its page is closed before the ceiling of bytes.
Fitted(rows) ==
    LET upTo(r) == {s \in rows : s <= r}
    IN {r \in rows : Bytes(upTo(r)) <= PageBytes}

\* capture_and_delete_entity_page_in_conn and write_page
CapturePage(f) ==
    LET page == Fitted(First(PageRows, Left(f)))
    IN /\ forget[f].at = "delete" /\ Left(f) # {}
       /\ forget' = [forget EXCEPT ![f].taken = @ \union page]
       /\ file' = [file EXCEPT ![f].state = "partial", ![f].rows = @ \union page]
       /\ UNCHANGED <<stored, lock, restore, saved, evicted>>

\* Variant: a page that is not full is the last.
NothingIsLeft(f) == Left(f) = {} \/ Cardinality(forget[f].taken) % PageRows # 0

\* The loop ends at an empty page.
PagesEnd(f) == Left(f) = {}

\* SnapshotStreamWriter::finish: the footer, the sync, the rename.
Finish(f) ==
    /\ forget[f].at = "delete" /\ PagesEnd(f)
    /\ file' = IF forget[f].taken = {} THEN file ELSE [file EXCEPT ![f].state = "complete"]
    /\ Goto(f, "named")
    /\ UNCHANGED <<stored, lock, restore, saved, evicted>>

\* The writer is dropped: a file that has no name yet goes.
DropWriter(f) ==
    file' = IF file[f].state # "complete" THEN [file EXCEPT ![f] = NoFile] ELSE file

\* The call is over and the lock of the namespace free.
End(f) ==
    /\ forget' = [forget EXCEPT ![f] = Gone]
    /\ lock' = IF lock = f THEN 0 ELSE lock

\* An error in the transaction, of the file system or of the database, with
\* the sync of the directory after the rename: all rolls back but the name.
Fail(f) ==
    /\ forget[f].at \in {"begin", "delete", "named"}
    /\ DropWriter(f)
    /\ End(f)
    /\ UNCHANGED <<stored, restore, saved, evicted>>

Delete(f) ==
    /\ stored' = stored \ forget[f].taken
    /\ restore' = [u \in Restores |->
                    [restore[u] EXCEPT !.deleted = @ \union forget[f].taken]]

\* Retention is for a forget that has left a file.
Commit(f) ==
    /\ forget[f].at = "named"
    /\ Delete(f)
    /\ IF forget[f].taken = {}
         THEN End(f)
         ELSE Goto(f, "committed") /\ UNCHANGED lock
    /\ UNCHANGED <<file, saved, evicted>>

\* Variant: a snapshot whose forget has failed is taken back.
TakeBack(f) == file' = [file EXCEPT ![f] = NoFile]

\* It stays: what it holds may have been deleted.
KeepSnapshot(f) == UNCHANGED file

\* The database executes the commit and the answer is an error.
CommitUnknown(f) ==
    /\ forget[f].at = "named"
    /\ Delete(f)
    /\ KeepSnapshot(f)
    /\ End(f)
    /\ UNCHANGED <<saved, evicted>>

\* Oldest first, and the protected file last whatever its name says.
Before(own, f, g) ==
    \/ f # own /\ g = own
    \/ /\ (f = own) = (g = own)
       /\ \/ file[f].at < file[g].at
          \/ file[f].at = file[g].at /\ f < g

\* prune_namespace_dir_with: what it will remove.
Victims(own, now) ==
    LET survivors == {f \in Named : f = own \/ file[f].at >= now - MaxAge}
        newer(f) == {g \in survivors : Before(own, f, g)}
        excess == {f \in survivors : Cardinality(newer(f)) >= MaxFiles}
    IN ((Named \ survivors) \union excess) \ {own}

Prune(f, now) ==
    /\ forget[f].at = "committed"
    /\ forget' = [forget EXCEPT ![f].at = "prune", ![f].victims = Victims(f, now)]
    /\ UNCHANGED <<stored, file, lock, restore, saved, evicted>>

\* A file that is there is removed, or cannot be, which is a warning.
RemoveVictim(f, v) ==
    /\ forget[f].at = "prune" /\ v \in forget[f].victims
    /\ \/ /\ file[v].state = "complete"
          /\ file' = [file EXCEPT ![v] = NoFile]
          /\ evicted' = evicted \union
                (file[v].rows \ (stored \union UNION {file[g].rows : g \in Named \ {v}}))
          /\ forget' = [forget EXCEPT ![f].victims = @ \ {v}]
       \/ /\ forget' = [forget EXCEPT ![f].victims = @ \ {v}, ![f].warned = TRUE]
          /\ UNCHANGED <<file, evicted>>
    /\ UNCHANGED <<stored, lock, restore, saved>>

Return(f) ==
    /\ forget[f].at = "prune" /\ forget[f].victims = {}
    /\ End(f)
    /\ UNCHANGED <<stored, file, restore, saved, evicted>>

\* The pages a reader sees: PageRows rows each, whatever they were written in.
FitsReader(rows) ==
    \A r \in rows :
        LET before == Cardinality({s \in rows : s < r})
            start == before - (before % PageRows)
            page == First(before + 1, rows) \ First(start, rows)
        IN Bytes(page) <= PageBytes

\* validate_stream_reader.  The file stays open, whoever removes its name.
OpenRestore(u, f) ==
    /\ restore[u].at = "idle"
    /\ f \in Named /\ FitsReader(file[f].rows)
    /\ restore' = [restore EXCEPT ![u] =
            [at |-> "write", rows |-> file[f].rows, left |-> file[f].rows, deleted |-> {}]]
    /\ UNCHANGED <<stored, file, lock, forget, saved, evicted>>

\* Variant: the page that is not full is not written.
FullPage(rows) == IF Cardinality(rows) < PageRows THEN {} ELSE First(PageRows, rows)

\* The pages of rows, with what is left at the end.
NextPage(rows) == First(PageRows, rows)

\* restore_memory_page
RestorePage(u) ==
    LET page == NextPage(restore[u].left)
    IN /\ restore[u].at = "write" /\ restore[u].left # {} /\ ~InTransaction
       /\ stored' = stored \union page
       /\ evicted' = evicted \ page
       /\ restore' = [restore EXCEPT ![u].left = @ \ First(PageRows, @),
                                     ![u].deleted = @ \ page]
       /\ UNCHANGED <<file, lock, forget, saved>>

\* It ends, or a page fails and the caller may try again.
EndRestore(u) ==
    /\ restore[u].at = "write"
    /\ restore' = [restore EXCEPT ![u] =
            IF @.left = {} THEN [@ EXCEPT !.at = "restored"] ELSE Closed0]
    /\ UNCHANGED <<stored, file, lock, forget, saved, evicted>>

\* The process dies: its transaction and its locks are gone, its files stay.
Crash ==
    /\ lock' = 0
    /\ forget' = [f \in Forgets |->
            IF forget[f].at = "idle" THEN Fresh0 ELSE Gone]
    /\ restore' = [u \in Restores |-> Closed0]
    /\ UNCHANGED <<stored, file, saved, evicted>>

SNext ==
    \/ \E r \in Rows : Remember(r)
    \/ \E f \in Forgets :
        \/ BeginDelete(f) \/ CapturePage(f) \/ Finish(f) \/ Fail(f)
        \/ Commit(f) \/ CommitUnknown(f) \/ Return(f)
        \/ \E now \in Times : BeginForget(f, now) \/ Prune(f, now)
        \/ \E v \in Forgets : RemoveVictim(f, v)
    \/ \E u \in Restores :
        \/ \E f \in Forgets : OpenRestore(u, f)
        \/ RestorePage(u) \/ EndRestore(u)
    \/ Crash

SSpec == SInit /\ [][SNext]_svars

-----------------------------------------------------------------------------

STypeOK ==
    /\ stored \subseteq saved /\ evicted \subseteq saved /\ saved \subseteq Rows
    /\ file \in [Forgets -> [state : {"none", "partial", "complete"}, at : Times \union {0},
                             rows : SUBSET Rows]]
    /\ lock \in Forgets \union {0}
    /\ \A f \in Forgets : forget[f].taken \subseteq Rows /\ forget[f].victims \subseteq Forgets

\* A memory that was ever saved is in the database, or in a snapshot that has
\* its name, or was evicted by the retention policy: through crashes, errors and
\* commits nobody heard of, no row is deleted without a copy ("Fail closed").
NothingIsLost == saved \subseteq stored \union Captured \union evicted

\* What a forget deletes is the whole entity, in however many pages
\* (delete_memories_by_entity_paged).
ForgetTakesAll ==
    [][\A f \in Forgets :
        forget[f].at = "named" /\ forget'[f].at = "committed" => stored' = {}]_svars

\* The snapshot of a forget is in the directory until the forget returns,
\* whatever other forgets do and however the clock was set; and when it has
\* pruned without a warning there are no more files than the policy allows.
RetentionHolds ==
    \A f \in Forgets :
        /\ forget[f].at \in {"committed", "prune"} => f \in Named
        /\ forget[f].at = "prune" /\ forget[f].victims = {} /\ ~forget[f].warned =>
                Cardinality(Named) <= MaxFiles

\* A restore that reports success has written every row of its file: each is in
\* the database unless a forget has deleted it again since (restore_file).
RestoreIsComplete ==
    \A u \in Restores :
        restore[u].at = "restored" => restore[u].rows \subseteq stored \union restore[u].deleted

\* Every snapshot a forget has left can be restored.
EverySnapshotRestores == \A f \in Named : FitsReader(file[f].rows)
=============================================================================
