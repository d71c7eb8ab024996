------------------------------ MODULE FileStore ------------------------------
(***************************************************************************)
(* The canonical content-addressed store of src/src/modules/files.  Bytes  *)
(* live as one object per digest in a directory; SQLite holds the metadata *)
(* rows, the consumer references and the collection manifests.  Threads of *)
(* several operating-system processes (files, curl, management) share the  *)
(* directory and the database and take no common lock, so an operation is  *)
(* as atomic as its single SQLite transaction or its single file-system    *)
(* call and no more.                                                       *)
(*                                                                         *)
(* A file is its digest: equal bytes are the same element of File.  Names, *)
(* MIME types and aliases are left out: an alias row is inserted in the    *)
(* transaction that inserts its file row and deleted in the one that       *)
(* deletes it.  A collection id is the hash of the archive's id and its    *)
(* manifest, which the archive's bytes determine, so a collection is named *)
(* by its archive.  created_at has microseconds and is taken just before   *)
(* the transaction that writes it: rows are taken to be as old as their    *)
(* inserts, one after the other.                                           *)
(***************************************************************************)
EXTENDS Naturals, Sequences, FiniteSets

CONSTANTS
    Proc,        \* threads that call the store
    File,        \* content identities "sha256:<digest>"
    Path,        \* paths of archive members, as safe_collection_path cleans them
    Members,     \* the regular members of each file that is an archive, in its
                 \* order, as pairs of a path and a file
    Consumer,    \* (consumer_type, consumer_id, role) triples
    Forcing,     \* the values of delete's argument force that callers use
    Limits,      \* the limits that callers and the configuration give gc
    MaxAborts,   \* bound on crashes and I/O errors
    None         \* the absent file or argument

Archive == DOMAIN Members

ASSUME FileStoreAssumption ==
    /\ Archive \subseteq File
    /\ \A a \in Archive : Members[a] \in Seq(Path \X File)
    /\ Forcing \subseteq BOOLEAN
    /\ Limits \subseteq Nat \ {0}
    /\ MaxAborts \in Nat
    /\ None \notin File
    /\ None \notin Consumer

VARIABLES
    rows,      \* table files
    older,     \* pairs of rows, the first with the earlier created_at
    aged,      \* rows whose created_at lies before the cleanup cutoff
    refs,      \* table file_refs
    colls,     \* table collections, a collection named by its source file
    items,     \* table collection_items
    objects,   \* digests whose object file exists
    call,      \* what each thread is doing
    aborts     \* crashes and I/O errors so far

db == <<rows, older, aged, refs, colls, items>>
vars == <<rows, older, aged, refs, colls, items, objects, call, aborts>>

(***************************************************************************)
(* A thread is at a step of an operation; by says on whose behalf it puts  *)
(* or deletes (the client's own call, the loop of gc or of cleanup, the    *)
(* member loop of extract), and file, arg, force, blocked and todo are the *)
(* local variables of the operations.                                      *)
(***************************************************************************)
Step == {"idle", "store", "register", "acknowledge", "remove", "unlink",
         "sweep", "reference", "release", "extract"}

Call == [at      : Step,
         by      : {"client", "gc", "cleanup", "extract"},
         file    : File \cup {None},
         arg     : Consumer \cup File \cup {None},
         force   : BOOLEAN,
         blocked : BOOLEAN,
         todo    : Seq(File)]

Idle == [at |-> "idle", by |-> "client", file |-> None, arg |-> None,
         force |-> FALSE, blocked |-> FALSE, todo |-> <<>>]

At(p, s) == call[p].at = s

Goto(p, c) == call' = [call EXCEPT ![p] = c]

\* A put returns to the member loop of extract when extract made it.
AfterPut(c) == IF c.by = "extract"
               THEN [c EXCEPT !.at = "extract", !.file = None]
               ELSE Idle

\* A delete returns to the sweep when gc or cleanup made it.
AfterDelete(c) == IF c.by \in {"gc", "cleanup"}
                  THEN [c EXCEPT !.at = "sweep", !.file = None, !.blocked = FALSE]
                  ELSE Idle

\* A FileError out of delete ends gc but cleanup goes on with the next file.
AfterFileError(c) == IF c.by = "cleanup" THEN AfterDelete(c) ELSE Idle

-----------------------------------------------------------------------------
(* What the tables say of a file. *)

Referenced(f) == \E c \in Consumer : <<f, c>> \in refs
Collected(f)  == \E i \in items : i[3] = f

\* INSERT OR IGNORE: a new row is the youngest, and a row already there keeps
\* its created_at.
InsertRow(f) ==
    /\ rows' = rows \cup {f}
    /\ older' = IF f \in rows THEN older ELSE older \cup (rows \X {f})

DeleteRow(f) ==
    /\ rows' = rows \ {f}
    /\ older' = {o \in older : o[1] # f /\ o[2] # f}
    /\ aged' = aged \ {f}

Unreferenced == {f \in rows : ~Referenced(f) /\ ~Collected(f) /\ f \notin colls}

\* Mutant of Restricted: collection_items.file_id declared without RESTRICT.
RestrictedNoItems(f) == Referenced(f) \/ f \in colls

\* ON DELETE RESTRICT on file_refs, collection_items and collections.
Restricted(f) == Referenced(f) \/ Collected(f) \/ f \in colls

\* info() succeeds: the row is there and path_for finds the bytes.
Readable(f) == f \in rows /\ f \in objects

Init ==
    /\ rows = {} /\ older = {} /\ aged = {} /\ refs = {} /\ colls = {} /\ items = {}
    /\ objects = {}
    /\ call = [p \in Proc |-> Idle]
    /\ aborts = 0

-----------------------------------------------------------------------------
(* put_bytes, put_stream and put_file: look for the object, move a complete *)
(* temporary file into its place when it is absent, register, read back.    *)

\* Mutant of LookUp: the row is written before the object is in place.
LookUpRegistering(p, f, c) ==
    /\ InsertRow(f)
    /\ Goto(p, [c EXCEPT !.file = f,
                         !.at = IF f \in objects THEN "register" ELSE "store"])
    /\ UNCHANGED <<aged, refs, colls, items, objects, aborts>>

\* The look at target.exists(), on which the rest of the put relies.
LookUp(p, f, c) ==
    /\ Goto(p, [c EXCEPT !.file = f,
                         !.at = IF f \in objects THEN "register" ELSE "store"])
    /\ UNCHANGED <<db, objects, aborts>>

Put(p, f) == At(p, "idle") /\ LookUp(p, f, Idle)

\* os.replace publishes the whole object, whatever is there by now.
Publish(p) ==
    /\ At(p, "store")
    /\ objects' = objects \cup {call[p].file}
    /\ Goto(p, [call[p] EXCEPT !.at = "register"])
    /\ UNCHANGED <<db, aborts>>

Register(p) ==
    /\ At(p, "register")
    /\ InsertRow(call[p].file)
    /\ Goto(p, [call[p] EXCEPT !.at = "acknowledge"])
    /\ UNCHANGED <<aged, refs, colls, items, objects, aborts>>

\* The closing info(): its error reaches the caller, and ends an extract.
Acknowledge(p) ==
    /\ At(p, "acknowledge")
    /\ Goto(p, IF Readable(call[p].file) THEN AfterPut(call[p]) ELSE Idle)
    /\ UNCHANGED <<db, objects, aborts>>

-----------------------------------------------------------------------------
(* delete: info, one transaction, and the unlink after its commit. *)

\* info() opens the delete and takes the references and memberships that
\* will count as blockers when the transaction begins (its reads are taken
\* as one).
Inspect(p, f, c) ==
    /\ Goto(p, IF Readable(f)
               THEN [c EXCEPT !.at = "remove", !.file = f,
                              !.blocked = Referenced(f) \/ Collected(f)]
               ELSE AfterFileError(c))
    /\ UNCHANGED <<db, objects, aborts>>

Delete(p, f, force) ==
    /\ At(p, "idle")
    /\ Inspect(p, f, [Idle EXCEPT !.force = force])

\* The transaction of an unforced delete.  The blockers are the ones info
\* saw plus the source collections, read just before the first DELETE opens
\* the transaction.  Whatever came later meets the foreign keys, and their
\* IntegrityError, which is no FileError, ends gc and cleanup alike.
Remove(p) ==
    LET f == call[p].file IN
    /\ At(p, "remove")
    /\ ~call[p].force
    /\ \/ /\ call[p].blocked \/ f \in colls
          /\ Goto(p, AfterFileError(call[p]))
          /\ UNCHANGED db
       \/ /\ ~call[p].blocked
          /\ f \in rows /\ Restricted(f)
          /\ Goto(p, Idle)
          /\ UNCHANGED db
       \/ /\ ~call[p].blocked /\ f \notin colls
          /\ ~(f \in rows /\ Restricted(f))
          /\ DeleteRow(f)
          /\ Goto(p, [call[p] EXCEPT !.at = "unlink"])
          /\ UNCHANGED <<refs, colls, items>>
    /\ UNCHANGED <<objects, aborts>>

\* The collections a forced delete of f takes along.
Touched(f) == {a \in colls : a = f \/ \E i \in items : i[1] = a /\ i[3] = f}

\* Mutant of Unrefer: DELETE FROM file_refs without its WHERE.
UnreferAll(f) == {}

\* DELETE FROM file_refs WHERE file_id = f.
Unrefer(f) == {r \in refs : r[1] # f}

\* Mutant of ForceRemove: it returns without unlinking the object.
ForceRemoveOnly(p) ==
    LET f == call[p].file IN
    /\ At(p, "remove")
    /\ call[p].force
    /\ refs' = Unrefer(f)
    /\ colls' = colls \ Touched(f)
    /\ items' = {i \in items : i[1] \notin Touched(f)}
    /\ DeleteRow(f)
    /\ Goto(p, AfterDelete(call[p]))
    /\ UNCHANGED <<objects, aborts>>

\* The transaction of a forced delete: references, whole collections, row.
ForceRemove(p) ==
    LET f == call[p].file IN
    /\ At(p, "remove")
    /\ call[p].force
    /\ refs' = Unrefer(f)
    /\ colls' = colls \ Touched(f)
    /\ items' = {i \in items : i[1] \notin Touched(f)}
    /\ DeleteRow(f)
    /\ Goto(p, [call[p] EXCEPT !.at = "unlink"])
    /\ UNCHANGED <<objects, aborts>>

\* After the commit, outside any transaction.
Unlink(p) ==
    /\ At(p, "unlink")
    /\ objects' = objects \ {call[p].file}
    /\ Goto(p, AfterDelete(call[p]))
    /\ UNCHANGED <<db, aborts>>

-----------------------------------------------------------------------------
(* gc and the age-limited cleanup of management: a list read once, then one *)
(* delete after the other.                                                  *)

\* Mutant of Candidates: ORDER BY created_at DESC LIMIT n.
CandidatesYoungest(n) ==
    {f \in Unreferenced :
        Cardinality({g \in Unreferenced : <<f, g>> \in older}) < n}

\* ORDER BY created_at LIMIT n.
Candidates(n) ==
    {f \in Unreferenced :
        Cardinality({g \in Unreferenced : <<g, f>> \in older}) < n}

\* The cleanup keeps of the candidates those that info() finds and that are
\* old enough (its looks at them are taken as one with the list).
Chosen(by, n) == IF by = "gc" THEN Candidates(n)
                 ELSE Candidates(n) \cap aged \cap objects

\* A set of rows in the order of their created_at.
InOrder(S) == {s \in [1..Cardinality(S) -> S] :
                 \A i, j \in 1..Cardinality(S) : i < j => <<s[i], s[j]>> \in older}

Sweep(p, by, n) ==
    /\ At(p, "idle")
    /\ \E s \in InOrder(Chosen(by, n)) :
          Goto(p, [Idle EXCEPT !.at = "sweep", !.by = by, !.todo = s])
    /\ UNCHANGED <<db, objects, aborts>>

\* Mutant of SweepNext: the file taken stays on the list.
SweepAgain(p) ==
    /\ At(p, "sweep")
    /\ call[p].todo # <<>>
    /\ Inspect(p, Head(call[p].todo), call[p])

SweepNext(p) ==
    /\ At(p, "sweep")
    /\ call[p].todo # <<>>
    /\ Inspect(p, Head(call[p].todo), [call[p] EXCEPT !.todo = Tail(@)])

SweepEnd(p) ==
    /\ At(p, "sweep")
    /\ call[p].todo = <<>>
    /\ Goto(p, Idle)
    /\ UNCHANGED <<db, objects, aborts>>

-----------------------------------------------------------------------------
(* add_reference and release_reference: info first, then one statement. *)

Announce(p, f, c, step) ==
    /\ At(p, "idle")
    /\ Readable(f)
    /\ Goto(p, [Idle EXCEPT !.at = step, !.file = f, !.arg = c])
    /\ UNCHANGED <<db, objects, aborts>>

\* INSERT OR IGNORE does not ignore a missing parent row.
AddReference(p) ==
    /\ At(p, "reference")
    /\ refs' = IF call[p].file \in rows
               THEN refs \cup {<<call[p].file, call[p].arg>>} ELSE refs
    /\ Goto(p, Idle)
    /\ UNCHANGED <<rows, older, aged, colls, items, objects, aborts>>

ReleaseReference(p) ==
    /\ At(p, "release")
    /\ refs' = refs \ {<<call[p].file, call[p].arg>>}
    /\ Goto(p, Idle)
    /\ UNCHANGED <<rows, older, aged, colls, items, objects, aborts>>

-----------------------------------------------------------------------------
(* extract: each member is stored by a put of its own, in the order of the  *)
(* archive, and the manifest in one transaction at the end.  The archive    *)
(* stays open, so its later removal does not disturb the reading.           *)

MemberFiles(a) == [i \in DOMAIN Members[a] |-> Members[a][i][2]]

\* Mutant of Extract: the collection row is inserted before its members.
ExtractEagerly(p, a) ==
    /\ At(p, "idle")
    /\ Readable(a)
    /\ colls' = colls \cup {a}
    /\ Goto(p, [Idle EXCEPT !.at = "extract", !.by = "extract",
                            !.arg = a, !.todo = MemberFiles(a)])
    /\ UNCHANGED <<rows, older, aged, refs, items, objects, aborts>>

Extract(p, a) ==
    /\ At(p, "idle")
    /\ Readable(a)
    /\ Goto(p, [Idle EXCEPT !.at = "extract", !.by = "extract",
                            !.arg = a, !.todo = MemberFiles(a)])
    /\ UNCHANGED <<db, objects, aborts>>

ExtractMember(p) ==
    /\ At(p, "extract")
    /\ call[p].todo # <<>>
    /\ LookUp(p, Head(call[p].todo), [call[p] EXCEPT !.todo = Tail(@)])

\* A limit exceeded, an unsafe path or an unsupported member type.
ExtractFail(p) ==
    /\ At(p, "extract")
    /\ Goto(p, Idle)
    /\ UNCHANGED <<db, objects, aborts>>

\* Mutant of FirstAtPath: the file instead of the path is in the primary key.
FirstOfFile(a) ==
    {<<a, Members[a][i][1], Members[a][i][2]>> :
        i \in {i \in DOMAIN Members[a] :
                 \A j \in 1..(i - 1) : Members[a][j][2] # Members[a][i][2]}}

\* INSERT OR IGNORE in the order of the archive, with the collection and the
\* path as primary key: of several members at one path the first is kept.
FirstAtPath(a) ==
    {<<a, Members[a][i][1], Members[a][i][2]>> :
        i \in {i \in DOMAIN Members[a] :
                 \A j \in 1..(i - 1) : Members[a][j][1] # Members[a][i][1]}}

\* All members stored: insert the collection and its items, or fail on a
\* foreign key of a row that is not ignored, and insert nothing.
ExtractCommit(p) ==
    LET a     == call[p].arg
        fresh == {i \in FirstAtPath(a) :
                    \A k \in items : <<k[1], k[2]>> # <<i[1], i[2]>>}
        whole == a \in rows /\ \A i \in fresh : i[3] \in rows
    IN
    /\ At(p, "extract")
    /\ call[p].todo = <<>>
    /\ colls' = IF whole THEN colls \cup {a} ELSE colls
    /\ items' = IF whole THEN items \cup fresh ELSE items
    /\ Goto(p, Idle)
    /\ UNCHANGED <<rows, older, aged, refs, objects, aborts>>

CollectionDelete(p, a) ==
    /\ At(p, "idle")
    /\ a \in colls
    /\ items' = {i \in items : i[1] # a}
    /\ colls' = colls \ {a}
    /\ UNCHANGED <<rows, older, aged, refs, objects, call, aborts>>

-----------------------------------------------------------------------------
(* The environment. *)

\* The cleanup cutoff passes the created_at of a row.
Age(f) ==
    /\ f \in rows
    /\ \A g \in rows : <<g, f>> \in older => g \in aged
    /\ aged' = aged \cup {f}
    /\ UNCHANGED <<rows, older, refs, colls, items, objects, call, aborts>>

\* The process dies, or a step raises (disk full, database locked): the open
\* transaction rolls back and nothing undoes what was done before it.
Abort(p) ==
    /\ ~At(p, "idle")
    /\ aborts < MaxAborts
    /\ aborts' = aborts + 1
    /\ Goto(p, Idle)
    /\ UNCHANGED <<db, objects>>

Invoke(p) ==
    \/ \E f \in File : Put(p, f)
    \/ \E f \in File, force \in Forcing : Delete(p, f, force)
    \/ \E by \in {"gc", "cleanup"}, n \in Limits : Sweep(p, by, n)
    \/ \E f \in File, c \in Consumer, step \in {"reference", "release"} :
          Announce(p, f, c, step)
    \/ \E a \in Archive : Extract(p, a) \/ CollectionDelete(p, a)

Continue(p) ==
    \/ Publish(p) \/ Register(p) \/ Acknowledge(p)
    \/ Remove(p) \/ ForceRemove(p) \/ Unlink(p)
    \/ SweepNext(p) \/ SweepEnd(p)
    \/ AddReference(p) \/ ReleaseReference(p)
    \/ ExtractMember(p) \/ ExtractFail(p) \/ ExtractCommit(p)

Next ==
    \/ \E p \in Proc : Invoke(p) \/ Continue(p) \/ Abort(p)
    \/ \E f \in File : Age(f)

Spec == Init /\ [][Next]_vars

-----------------------------------------------------------------------------
(* Properties. *)

\* The local variables a step relies on.
LocalsOK(c) ==
    /\ c.at \in {"store", "register", "acknowledge", "remove", "unlink",
                "reference", "release"} => c.file \in File
    /\ c.at \in {"reference", "release"} => c.arg \in Consumer /\ c.by = "client"
    /\ c.at \in {"extract", "store", "register", "acknowledge"} =>
          c.by \in {"client", "extract"}
    /\ c.at \in {"sweep", "remove", "unlink"} => c.by # "extract"
    /\ c.at = "extract" => c.by = "extract"
    /\ c.by = "extract" => c.arg \in Archive

\* Every variable, and every local variable of every thread, has its type.
TypeOK ==
    /\ rows \subseteq File /\ IsFiniteSet(rows)
    /\ older \subseteq rows \X rows
    /\ aged \subseteq rows
    /\ refs \subseteq File \X Consumer
    /\ colls \subseteq Archive
    /\ items \subseteq Archive \X Path \X File
    /\ objects \subseteq File
    /\ call \in [Proc -> Call]
    /\ \A p \in Proc : LocalsOK(call[p])
    /\ aborts \in 0..MaxAborts

\* A reference, a membership and a collection always name a file that has a
\* row, and a membership a collection that exists, though delete decides on
\* blockers it read before its transaction and extract collects members that
\* nothing protects while it stores the next ones.
ReferentialIntegrity ==
    /\ \A r \in refs : r[1] \in rows
    /\ \A i \in items : i[1] \in colls /\ i[3] \in rows
    /\ colls \subseteq rows

\* A collection has a file at every path of its archive, one, and that of the
\* first member at this path, or it does not exist: neither a failed extract,
\* nor a forced delete of one member, nor a deletion of the collection while it
\* is extracted again leaves a part of it behind.  (Further members at the same
\* path are lost, though the response of extract counts them.)
CollectionsWhole ==
    \A a \in Archive :
        IF a \notin colls THEN \A i \in items : i[1] # a
        ELSE \A path \in Path :
                LET here  == {k \in DOMAIN Members[a] : Members[a][k][1] = path}
                    kept  == {i[3] : i \in {i \in items : i[1] = a /\ i[2] = path}}
                IN  IF here = {} THEN kept = {}
                    ELSE \E k \in here : /\ \A l \in here : k <= l
                                         /\ kept = {Members[a][k][2]}

\* While nothing crashes or fails, bytes without a row belong to a put that
\* has not registered them yet or to a delete that has not unlinked them yet.
\* gc lists rows, so other bytes without a row would stay on disk for good.
NoOrphanBytes ==
    aborts = 0 =>
        \A f \in objects \ rows :
            \E p \in Proc : call[p].file = f /\ call[p].at \in {"register", "unlink"}

\* As long as the operations of the threads do not overlap, a row has its bytes,
\* wherever crashes cut operations off: a put writes the object before the row,
\* and a delete the tables before the object.
TakingTurns == \A p, q \in Proc : p # q => At(p, "idle") \/ At(q, "idle")

BytesUnderRows == []TakingTurns => [](rows \subseteq objects)

\* Nothing takes a file from under those who refer to it: the row of a file
\* with references or memberships goes only in the transaction of a delete of
\* that file called with force=true, and a consumer's reference ends there or
\* by its own release.  No gc, cleanup, extraction or deletion of a collection
\* does either.
ReferencesProtect ==
    [][/\ \A f \in rows \ rows' :
             f \in Unreferenced \/ \E p \in Proc : call[p].force /\ call[p].file = f
       /\ \A r \in refs \ refs' :
             \E p \in Proc : /\ call[p].file = r[1]
                             /\ \/ At(p, "release") /\ call[p].arg = r[2]
                                \/ At(p, "remove") /\ call[p].force]_vars

\* docs/file-service.md: "Referenced objects cannot be normally deleted."  While
\* a file has a consumer reference, no unforced delete, gc or cleanup takes its
\* bytes away.
ReferencedBytesStay ==
    [][\A f \in objects \ objects' : ~Referenced(f)]_vars
=============================================================================
