--------------------------- MODULE AttachmentStore ---------------------------
(***************************************************************************)
(* The attachment part of sql.py: CalendarObject.createAttachmentWithName,*)
(* removeAttachmentWithName, attachmentWithName (Attachment._populate),   *)
(* _attachmentPathRoot / Attachment._path, and AttachmentStorageTransport *)
(* (write, loseConnection), run by concurrent transactions.               *)
(*                                                                         *)
(* ATTACHMENT rows live in the database (READ COMMITTED, PATH unique);    *)
(* the bytes live in the file system, which no transaction isolates: a   *)
(* setContent is seen by everyone at once and is not undone by a          *)
(* rollback.  Post-commit hooks run after their transaction commits, as   *)
(* steps of their own.                                                    *)
(***************************************************************************)
EXTENDS Integers, Sequences, FiniteSets, TLC

CONSTANTS
    Txns,          \* transaction handles
    Objs,          \* calendar objects that may carry attachments
    ObjUid,        \* [Objs -> uids]: the UID component of each object
    Names,         \* attachment names (the PATH column)
    Data,          \* chunks a client may write
    MaxChunks,     \* chunks one sink may buffer
    SinkIds,       \* slots for open AttachmentStorageTransports
    MaxTxnRuns,    \* transactions each handle may run
    Listers,       \* handles whose requests iterate attachments()
    NoValue

\* The file an attachment's bytes go to: attachmentsPath / home[0:2] /
\* home[2:4] / home / uid / name.  All objects here share one owner home,
\* so the path is determined by the object's UID and the name.
FilePath(o, n) == <<ObjUid[o], n>>

FilePaths == {FilePath(o, n) : o \in Objs, n \in Names}

\* hashlib.md5 of the buffered bytes, and the MD5 column's initial "".
Digest(buf) == <<"md5", buf>>

EmptyMD5 == <<"">>

VARIABLES
    attach,      \* committed ATTACHMENT rows [obj, size, md5, path]
    files,       \* the file system: [FilePaths -> bytes or NoValue]
    tstate,      \* per handle: "idle", "open" or "failed"
    runs,        \* per handle: transactions begun so far
    pendRows,    \* per handle: row versions it inserted or updated
    pendGone,    \* per handle: committed rows it deleted or updated (locked)
    hooks,       \* per handle: file paths registered with postCommit
    cleanup,     \* removals due after commit: [txn, run, path]
    sinks,       \* [SinkIds -> transport or NoValue]
    listing      \* per handle: an attachments() generator part way, or NoValue

vars == <<attach, files, tstate, runs, pendRows, pendGone, hooks, cleanup, sinks, listing>>

Active(u) == tstate[u] # "idle"

VisibleRows(t) == (attach \ pendGone[t]) \cup pendRows[t]

\* Another open transaction has written or deleted a row with this PATH
\* (its row lock, or its entry in the unique index).
PathHeldByOther(t, n) ==
    \E u \in Txns \ {t} :
        /\ Active(u)
        /\ \E r \in pendRows[u] \cup pendGone[u] : r.path = n

\* Replace the rows "old" by "new" in t's view.
Rewrite(t, old, new) ==
    /\ pendGone' = [pendGone EXCEPT ![t] = @ \cup (old \cap attach)]
    /\ pendRows' = [pendRows EXCEPT ![t] = (@ \ old) \cup new]

\* t's request thread is inside loseConnection: execSQL is synchronous, so
\* setContent and the UPDATE run back to back and the request can neither
\* commit nor roll back between them.
Closing(t) ==
    \E s \in SinkIds :
        sinks[s] # NoValue /\ sinks[s].closing /\ sinks[s].txn = t /\ sinks[s].run = runs[t]

ClearTxn(t) ==
    /\ tstate' = [tstate EXCEPT ![t] = "idle"]
    /\ pendRows' = [pendRows EXCEPT ![t] = {}]
    /\ pendGone' = [pendGone EXCEPT ![t] = {}]
    /\ hooks' = [hooks EXCEPT ![t] = {}]
    /\ listing' = [listing EXCEPT ![t] = NoValue]

(***************************************************************************)
(* Transactions and their post-commit hooks.                              *)
(***************************************************************************)
Begin(t) ==
    /\ tstate[t] = "idle"
    /\ runs[t] < MaxTxnRuns
    /\ tstate' = [tstate EXCEPT ![t] = "open"]
    /\ runs' = [runs EXCEPT ![t] = @ + 1]
    /\ UNCHANGED <<attach, files, pendRows, pendGone, hooks, cleanup, sinks, listing>>

Commit(t) ==
    /\ tstate[t] = "open"
    /\ ~Closing(t)
    /\ attach' = VisibleRows(t)
    /\ cleanup' = cleanup \cup {[txn |-> t, run |-> runs[t], path |-> p] : p \in hooks[t]}
    /\ ClearTxn(t)
    /\ UNCHANGED <<files, runs, sinks>>

\* Rollback drops the rows it wrote and its post-commit hooks; bytes
\* already written to the file system stay.
Abort(t) ==
    /\ Active(t)
    /\ ~Closing(t)
    /\ ClearTxn(t)
    /\ UNCHANGED <<attach, files, runs, cleanup, sinks>>

\* attachment._path.remove, run after the commit that registered it.
RunPostCommit(h) ==
    /\ cleanup' = cleanup \ {h}
    /\ files' = [files EXCEPT ![h.path] = NoValue]
    /\ UNCHANGED <<attach, tstate, runs, pendRows, pendGone, hooks, sinks, listing>>

(***************************************************************************)
(* createAttachmentWithName(name, contentType): makedirs (errors ignored),*)
(* insert the ATTACHMENT row with SIZE 0 and MD5 "", and hand back a new  *)
(* AttachmentStorageTransport.  A PATH another transaction is writing     *)
(* makes the insert wait; a PATH that exists makes it fail, and the       *)
(* transaction can then only roll back.                                   *)
(***************************************************************************)
\* A variant of createAttachmentWithName with no unique index on PATH.
createAttachmentNoUnique(t, o, n) ==
    /\ tstate[t] = "open"
    /\ \E s \in SinkIds :
          /\ sinks[s] = NoValue
          /\ sinks' = [sinks EXCEPT ![s] =
                [txn |-> t, run |-> runs[t], obj |-> o, name |-> n,
                 buf |-> <<>>, closing |-> FALSE]]
    /\ Rewrite(t, {}, {[obj |-> o, size |-> 0, md5 |-> EmptyMD5, path |-> n]})
    /\ UNCHANGED <<attach, files, tstate, runs, hooks, cleanup, listing>>

createAttachmentWithName(t, o, n) ==
    /\ tstate[t] = "open"
    /\ ~PathHeldByOther(t, n)
    /\ \/ /\ \E r \in VisibleRows(t) : r.path = n
          /\ tstate' = [tstate EXCEPT ![t] = "failed"]
          /\ UNCHANGED <<pendRows, pendGone, sinks>>
       \/ /\ ~\E r \in VisibleRows(t) : r.path = n
          /\ \E s \in SinkIds :
                /\ sinks[s] = NoValue
                /\ sinks' = [sinks EXCEPT ![s] =
                      [txn |-> t, run |-> runs[t], obj |-> o, name |-> n,
                       buf |-> <<>>, closing |-> FALSE]]
          /\ Rewrite(t, {}, {[obj |-> o, size |-> 0, md5 |-> EmptyMD5, path |-> n]})
          /\ UNCHANGED tstate
    /\ UNCHANGED <<attach, files, runs, hooks, cleanup, listing>>

\* AttachmentStorageTransport.write: buffer the data, feed the digest.
write(s, d) ==
    /\ sinks[s] # NoValue
    /\ ~sinks[s].closing
    /\ Len(sinks[s].buf) < MaxChunks
    /\ sinks' = [sinks EXCEPT ![s].buf = Append(@, d)]
    /\ UNCHANGED <<attach, files, tstate, runs, pendRows, pendGone, hooks, cleanup, listing>>

(***************************************************************************)
(* AttachmentStorageTransport.loseConnection: first setContent writes the *)
(* whole buffer to the file, then the UPDATE ... WHERE PATH = name runs   *)
(* in the transaction the transport was made in.  If that transaction    *)
(* has ended (or failed) the statement raises; the bytes stay written.    *)
(***************************************************************************)
loseConnectionSetContent(s) ==
    /\ sinks[s] # NoValue
    /\ ~sinks[s].closing
    /\ files' = [files EXCEPT ![FilePath(sinks[s].obj, sinks[s].name)] = sinks[s].buf]
    /\ sinks' = [sinks EXCEPT ![s].closing = TRUE]
    /\ UNCHANGED <<attach, tstate, runs, pendRows, pendGone, hooks, cleanup, listing>>

SinkTxnOpen(s) ==
    LET t == sinks[s].txn IN tstate[t] = "open" /\ runs[t] = sinks[s].run

loseConnectionUpdate(s) ==
    LET t == sinks[s].txn
        n == sinks[s].name
        target == {r \in VisibleRows(t) : r.path = n}
        buf == sinks[s].buf
    IN
    /\ sinks[s] # NoValue
    /\ sinks[s].closing
    /\ \/ /\ ~SinkTxnOpen(s)
          /\ UNCHANGED <<pendRows, pendGone>>
       \/ /\ SinkTxnOpen(s)
          /\ ~PathHeldByOther(t, n)
          /\ Rewrite(t, target,
                     {[r EXCEPT !.size = Len(buf), !.md5 = Digest(buf)] : r \in target})
    /\ sinks' = [sinks EXCEPT ![s] = NoValue]
    /\ UNCHANGED <<attach, files, tstate, runs, hooks, cleanup, listing>>

(***************************************************************************)
(* removeAttachmentWithName(name): register attachment._path.remove with *)
(* postCommit, then delete the row of this object with that PATH.         *)
(***************************************************************************)
\* A variant of removeAttachmentWithName that removes the bytes at once.
removeAttachmentNow(t, o, n) ==
    LET target == {r \in VisibleRows(t) : r.obj = o /\ r.path = n}
    IN
    /\ tstate[t] = "open"
    /\ ~PathHeldByOther(t, n)
    /\ files' = [files EXCEPT ![FilePath(o, n)] = NoValue]
    /\ Rewrite(t, target, {})
    /\ UNCHANGED <<attach, tstate, runs, hooks, cleanup, sinks, listing>>

removeAttachmentWithName(t, o, n) ==
    LET target == {r \in VisibleRows(t) : r.obj = o /\ r.path = n}
    IN
    /\ tstate[t] = "open"
    /\ ~PathHeldByOther(t, n)
    /\ hooks' = [hooks EXCEPT ![t] = @ \cup {FilePath(o, n)}]
    /\ Rewrite(t, target, {})
    /\ UNCHANGED <<attach, files, tstate, runs, cleanup, sinks, listing>>

\* Attachment._populate: select ... from ATTACHMENT where PATH = name,
\* whatever object the row belongs to.
populate(t, n) == {r \in VisibleRows(t) : r.path = n}

\* attachmentWithName(name): the Attachment if _populate found a row
\* (rows[0]), else None.  o is the object it was called on.
attachmentWithName(t, o, n) ==
    IF populate(t, n) # {} THEN CHOOSE r \in populate(t, n) : TRUE ELSE NoValue

(***************************************************************************)
(* attachments(): a generator.  Its first step runs the SELECT of the    *)
(* PATHs of this object's rows; each later step looks one of them up     *)
(* with attachmentWithName, a statement of its own, and yields the result *)
(* (None if the lookup found nothing).  The caller may stop iterating at *)
(* any point; the generator dies with the transaction.  A SELECT that   *)
(* finds no row ends the generator at once, a step that changes nothing. *)
(***************************************************************************)
attachmentsSelect(t, o) ==
    /\ tstate[t] = "open"
    /\ listing[t] = NoValue
    /\ LET paths == {r.path : r \in {q \in VisibleRows(t) : q.obj = o}}
       IN  /\ paths # {}
           /\ listing' = [listing EXCEPT ![t] = [obj |-> o, paths |-> paths]]
    /\ UNCHANGED <<attach, files, tstate, runs, pendRows, pendGone, hooks, cleanup, sinks>>

attachmentsNext(t, p) ==
    /\ tstate[t] = "open"
    /\ listing[t] # NoValue
    /\ p \in listing[t].paths
    /\ listing' = [listing EXCEPT ![t] =
          IF listing[t].paths = {p} THEN NoValue ELSE [@ EXCEPT !.paths = @ \ {p}]]
    /\ UNCHANGED <<attach, files, tstate, runs, pendRows, pendGone, hooks, cleanup, sinks>>

\* Attachment.retrieve: the bytes at the Attachment's _path, which is
\* under the root of the object the Attachment was made for.
retrieve(o, n) == files[FilePath(o, n)]

\* Attachment.store(contentType) on an attachment attachmentWithName
\* returned: a fresh transport that will overwrite its bytes and metadata.
store(t, o, n) ==
    /\ tstate[t] = "open"
    /\ attachmentWithName(t, o, n) # NoValue
    /\ \E s \in SinkIds :
          /\ sinks[s] = NoValue
          /\ sinks' = [sinks EXCEPT ![s] =
                [txn |-> t, run |-> runs[t], obj |-> o, name |-> n,
                 buf |-> <<>>, closing |-> FALSE]]
    /\ UNCHANGED <<attach, files, tstate, runs, pendRows, pendGone, hooks, cleanup, listing>>

(***************************************************************************)
(* The server process dies.  PostgreSQL rolls back every open            *)
(* transaction; the transports, their buffers and the postCommit hooks   *)
(* not yet run lived in the process's memory and are gone.  Committed    *)
(* rows and the file system stay.  Nothing in sql.py runs on restart.    *)
(* A crash adds no new values, so the number of crashes needs no bound. *)
(***************************************************************************)
Crash ==
    /\ tstate' = [t \in Txns |-> "idle"]
    /\ pendRows' = [t \in Txns |-> {}]
    /\ pendGone' = [t \in Txns |-> {}]
    /\ hooks' = [t \in Txns |-> {}]
    /\ listing' = [t \in Txns |-> NoValue]
    /\ cleanup' = {}
    /\ sinks' = [s \in SinkIds |-> NoValue]
    /\ UNCHANGED <<attach, files, runs>>

Init ==
    /\ attach = {}
    /\ files = [p \in FilePaths |-> NoValue]
    /\ tstate = [t \in Txns |-> "idle"]
    /\ runs = [t \in Txns |-> 0]
    /\ pendRows = [t \in Txns |-> {}]
    /\ pendGone = [t \in Txns |-> {}]
    /\ hooks = [t \in Txns |-> {}]
    /\ cleanup = {}
    /\ sinks = [s \in SinkIds |-> NoValue]
    /\ listing = [t \in Txns |-> NoValue]

Next ==
    \/ \E t \in Txns :
          \/ Begin(t) \/ Commit(t) \/ Abort(t)
          \/ \E o \in Objs, n \in Names :
                \/ createAttachmentWithName(t, o, n)
                \/ removeAttachmentWithName(t, o, n)
                \/ store(t, o, n)
          \/ t \in Listers /\ \E o \in Objs : attachmentsSelect(t, o)
          \/ \E n \in Names : attachmentsNext(t, n)
    \/ \E s \in SinkIds :
          \/ \E d \in Data : write(s, d)
          \/ loseConnectionSetContent(s)
          \/ loseConnectionUpdate(s)
    \/ \E h \in cleanup : RunPostCommit(h)
    \/ Crash

Spec == Init /\ [][Next]_vars

(***************************************************************************)
(* Fairness: the request that opened a transaction commits it, a closing *)
(* transport finishes its UPDATE, and the transaction manager runs every *)
(* post-commit hook of a committed transaction.  Creating, writing,      *)
(* closing and removing are client calls and rollback is the client's   *)
(* choice: none of them is fair.                                          *)
(***************************************************************************)
Fairness ==
    /\ \A t \in Txns : WF_vars(Commit(t))
    /\ \A s \in SinkIds : WF_vars(loseConnectionUpdate(s))
    /\ \A h \in [txn : Txns, run : 1..MaxTxnRuns, path : FilePaths] :
          WF_vars(h \in cleanup /\ RunPostCommit(h))

FairSpec == Spec /\ Fairness

-----------------------------------------------------------------------------
\* Every variable has its type, and the unique index on PATH holds in
\* the committed table whatever createAttachmentWithName was asked to do.
TypeOK ==
    /\ \A r \in attach : r.obj \in Objs /\ r.path \in Names /\ r.size \in 0..MaxChunks
    /\ \A n \in Names : Cardinality({r \in attach : r.path = n}) <= 1
    /\ DOMAIN files = FilePaths
    /\ tstate \in [Txns -> {"idle", "open", "failed"}]
    /\ runs \in [Txns -> 0..MaxTxnRuns]
    /\ \A t \in Txns : pendGone[t] \subseteq attach
    /\ \A h \in cleanup : h.path \in FilePaths

(***************************************************************************)
(* Spec section 8: removing an attachment in a transaction that is then  *)
(* rolled back leaves its bytes in place.  A file's bytes only disappear *)
(* in a post-commit hook that a committed removeAttachmentWithName        *)
(* registered.                                                            *)
(***************************************************************************)
RemovalOnlyAfterCommit ==
    [][\A p \in FilePaths :
          (files[p] # NoValue /\ files'[p] = NoValue) =>
              \E h \in cleanup \ cleanup' : h.path = p]_files

(***************************************************************************)
(* Spec section 8, round trip: once an attachment's transport has closed *)
(* and its transaction committed, Attachment.retrieve of that attachment *)
(* returns bytes whose MD5 is the one its row reports.                   *)
(***************************************************************************)
MetadataMatchesBytes ==
    \A r \in attach :
        r.md5 # EmptyMD5 =>
            /\ retrieve(r.obj, r.path) # NoValue
            /\ Digest(retrieve(r.obj, r.path)) = r.md5

(***************************************************************************)
(* Spec 4.5: metadata becomes visible only at close; a transport that is *)
(* never closed leaves no attachment metadata (no zeroed record).        *)
(***************************************************************************)
NoMetadataBeforeClose == \A r \in attach : r.md5 # EmptyMD5

(***************************************************************************)
(* Spec sections 3 and 6: an attachment belongs to one calendar object, *)
(* and an object's lookups and listing report its own attachments.       *)
(* attachmentWithName on an object with no row of that name answers "not *)
(* found" (4.5), never another object's attachment; and every PATH an    *)
(* attachments() generator has listed and not yet yielded still resolves *)
(* to an attachment of that object, so the generator never yields None   *)
(* or a stranger.                                                         *)
(***************************************************************************)
LookupScopedToObject ==
    /\ \A t \in Txns, o \in Objs, n \in Names :
          attachmentWithName(t, o, n) # NoValue => attachmentWithName(t, o, n).obj = o
    /\ \A t \in Txns :
          listing[t] # NoValue =>
              \A p \in listing[t].paths :
                  LET a == attachmentWithName(t, listing[t].obj, p)
                  IN  a # NoValue /\ a.obj = listing[t].obj

(***************************************************************************)
(* Spec section 7: removing an attachment that does not exist is a no-op,*)
(* not an error.  The hook removeAttachmentWithName registers calls      *)
(* FilePath.remove, which raises when the file is not there; so a hook   *)
(* may only run on a file that exists.                                   *)
(***************************************************************************)
RemoveOfMissingIsNoOp ==
    [][\A h \in cleanup \ cleanup' : files[h.path] # NoValue]_cleanup

(***************************************************************************)
(* Spec section 3: the ATTACHMENT row is the only durable pointer to an *)
(* attachment's bytes.  Bytes that no committed row points to are        *)
(* eventually removed, or a row comes to point to them: deletion is     *)
(* deferred to after commit (4.5), never forgotten.                      *)
(***************************************************************************)
Referenced(p) == \E r \in attach : FilePath(r.obj, r.path) = p

OrphanBytesReclaimed ==
    \A p \in FilePaths :
        (files[p] # NoValue /\ ~Referenced(p)) ~> (files[p] = NoValue \/ Referenced(p))

=============================================================================
