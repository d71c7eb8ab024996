--------------------------- MODULE UploadSessions ---------------------------
(***************************************************************************)
(* The resumable upload sessions of src/src/modules/files/upload_manager.  *)
(* A session is a row of uploads.sqlite3 and a part file beside it.  Every *)
(* change of a row runs under BEGIN IMMEDIATE, so it is one action here,   *)
(* with the append a write makes inside it; creating, hashing, storing and *)
(* unlinking the part file happen outside of any transaction, and are      *)
(* steps of their own.                                                     *)
(*                                                                         *)
(* A digest is the byte sequence it digests.  The file store is the set of *)
(* contents it holds: put_file adds one, and whoever deletes or collects   *)
(* files takes one away (module FileStore has its inner steps).  An error  *)
(* that changes nothing is not an action.                                  *)
(***************************************************************************)
EXTENDS Naturals, Sequences

CONSTANTS
    Proc,        \* threads that call the upload manager
    Upload,      \* upload ids, each a fresh uuid
    Byte,        \* byte values
    Content,     \* what the client of each upload means to send
    Checked,     \* uploads begun with an expected_sha256
    Honest,      \* uploads whose chunks all hold the content's own bytes
    MaxChunk,    \* upload_chunk_bytes
    MaxAborts,   \* bound on crashes and I/O errors
    None         \* no part file, no file id

ASSUME UploadAssumption ==
    /\ Content \in [Upload -> Seq(Byte)]
    /\ Checked \subseteq Upload
    /\ Honest \subseteq Upload
    /\ MaxChunk \in Nat
    /\ MaxAborts \in Nat
    /\ None \notin Seq(Byte)
    /\ None \notin Upload

Size == [u \in Upload |-> Len(Content[u])]

VARIABLES
    row,       \* table upload_sessions
    part,      \* the part files
    stored,    \* contents in the file store
    call,      \* what each thread is doing
    aborts     \* crashes and I/O errors so far

vars == <<row, part, stored, call, aborts>>

\* stale: updated_at lies before the cutoff of cleanup.
Row == [state : {"unused", "open", "completed", "gone"},
        received : Nat, file : Seq(Byte) \cup {None}, stale : BOOLEAN]

Unused == [state |-> "unused", received |-> 0, file |-> None, stale |-> FALSE]

\* data: the bytes finish has hashed; todo: the rows cleanup has selected.
Call == [at : {"idle", "insert", "receipt", "hash", "store", "commit",
               "discard", "clean"},
         upload : Upload \cup {None},
         data : Seq(Byte) \cup {None},
         todo : SUBSET Upload]

Idle == [at |-> "idle", upload |-> None, data |-> None, todo |-> {}]

At(p, s) == call[p].at = s

Goto(p, c) == call' = [call EXCEPT ![p] = c]

SetRow(u, r) == row' = [row EXCEPT ![u] = r]

SetPart(u, s) == part' = [part EXCEPT ![u] = s]

Init ==
    /\ row = [u \in Upload |-> Unused]
    /\ part = [u \in Upload |-> None]
    /\ stored = {}
    /\ call = [p \in Proc |-> Idle]
    /\ aborts = 0

Present(u) == row[u].state \in {"open", "completed"}

-----------------------------------------------------------------------------
(* begin: create the part file, then insert the row. *)

Touch(p, u) ==
    /\ At(p, "idle")
    /\ row[u].state = "unused"
    /\ part[u] = None
    /\ SetPart(u, <<>>)
    /\ Goto(p, [Idle EXCEPT !.at = "insert", !.upload = u])
    /\ UNCHANGED <<row, stored, aborts>>

\* The status() that follows is a call of its own.
Insert(p) ==
    /\ At(p, "insert")
    /\ SetRow(call[p].upload, [Unused EXCEPT !.state = "open"])
    /\ Goto(p, Idle)
    /\ UNCHANGED <<part, stored, aborts>>

\* Mutant of InsertFail: no exception handler.
InsertFailKeeping(p) ==
    /\ At(p, "insert")
    /\ Goto(p, Idle)
    /\ UNCHANGED <<row, part, stored, aborts>>

\* The insertion raises: its exception handler unlinks the part file.
InsertFail(p) ==
    /\ At(p, "insert")
    /\ SetPart(call[p].upload, None)
    /\ Goto(p, Idle)
    /\ UNCHANGED <<row, stored, aborts>>

-----------------------------------------------------------------------------
(* _reconcile_open_row, the first act of every transaction on an open row. *)

\* It raises unless the part file exists and has a size between the recorded
\* and the declared one.
Sound(u) ==
    /\ part[u] # None
    /\ row[u].received <= Len(part[u])
    /\ Len(part[u]) <= Size[u]

\* It adopts what a write appended without having recorded it.
Reconciled(u) ==
    IF Len(part[u]) > row[u].received
    THEN [row[u] EXCEPT !.received = Len(part[u]), !.stale = FALSE]
    ELSE row[u]

Status(p, u) ==
    /\ At(p, "idle")
    /\ row[u].state = "open"
    /\ Sound(u)
    /\ SetRow(u, Reconciled(u))
    /\ UNCHANGED <<part, stored, call, aborts>>

-----------------------------------------------------------------------------
(* write *)

Least(i, j) == IF i < j THEN i ELSE j

\* The chunks a client may send for an offset: of an honest client the bytes
\* of the content that start there, early, late or again; else any bytes.
Chunks(u, offset) ==
    IF u \in Honest
    THEN {SubSeq(Content[u], offset + 1, Least(offset + k, Size[u])) : k \in 1..MaxChunk}
    ELSE UNION {[1..k -> Byte] : k \in 1..MaxChunk}

\* Mutant of Accepts: the declared size is compared with the offset only.
AcceptsLong(u, offset, chunk) ==
    /\ row[u].state = "open"
    /\ Sound(u)
    /\ chunk # <<>>
    /\ offset = Reconciled(u).received
    /\ offset < Size[u]

\* Mutant of Accepts: the offset is compared with the row before it is
\* reconciled with the part file.
AcceptsUnreconciled(u, offset, chunk) ==
    /\ row[u].state = "open"
    /\ Sound(u)
    /\ chunk # <<>>
    /\ offset = row[u].received
    /\ Len(part[u]) + Len(chunk) <= Size[u]

\* The checks of write that come before the append.
Accepts(u, offset, chunk) ==
    /\ row[u].state = "open"
    /\ Sound(u)
    /\ chunk # <<>>
    /\ offset = Reconciled(u).received
    /\ offset + Len(chunk) <= Size[u]

\* Mutant of Write: the part file is opened for writing, not for appending.
WriteOver(p, u) ==
    /\ At(p, "idle")
    /\ \E offset \in 0..Size[u] : \E chunk \in Chunks(u, offset) :
          /\ Accepts(u, offset, chunk)
          /\ SetPart(u, chunk)
          /\ SetRow(u, [row[u] EXCEPT !.received = offset + Len(chunk),
                                      !.stale = FALSE])
    /\ UNCHANGED <<stored, call, aborts>>

\* Append, fsync, record, commit.
Write(p, u) ==
    /\ At(p, "idle")
    /\ \E offset \in 0..Size[u] : \E chunk \in Chunks(u, offset) :
          /\ Accepts(u, offset, chunk)
          /\ SetPart(u, part[u] \o chunk)
          /\ SetRow(u, [row[u] EXCEPT !.received = offset + Len(chunk),
                                      !.stale = FALSE])
    /\ UNCHANGED <<stored, call, aborts>>

\* The process dies, or the disk fills up, after a part of the chunk (or all
\* of it) was appended: the transaction rolls back, the bytes stay.
WriteTorn(p, u) ==
    /\ At(p, "idle")
    /\ aborts < MaxAborts
    /\ aborts' = aborts + 1
    /\ \E offset \in 0..Size[u] : \E chunk \in Chunks(u, offset) :
          /\ Accepts(u, offset, chunk)
          /\ \E n \in 1..Len(chunk) : SetPart(u, part[u] \o SubSeq(chunk, 1, n))
    /\ UNCHANGED <<row, stored, call>>

-----------------------------------------------------------------------------
(* finish *)

\* status() opens it.  A committed session only answers with its receipt; an
\* open one must be complete.
FinishStatus(p, u) ==
    /\ At(p, "idle")
    /\ \/ /\ row[u].state = "completed"
          /\ Goto(p, [Idle EXCEPT !.at = "receipt", !.upload = u])
          /\ UNCHANGED row
       \/ /\ row[u].state = "open"
          /\ Sound(u)
          /\ SetRow(u, Reconciled(u))
          /\ Reconciled(u).received = Size[u]
          /\ Goto(p, [Idle EXCEPT !.at = "hash", !.upload = u])
    /\ UNCHANGED <<part, stored, aborts>>

\* Unlink what an interrupted commit left, then look the file up.
Receipt(p) ==
    /\ At(p, "receipt")
    /\ SetPart(call[p].upload, None)
    /\ Goto(p, Idle)
    /\ UNCHANGED <<row, stored, aborts>>

\* Mutant of DigestOK: the expected digest is never compared.
DigestAny(u) == TRUE

DigestOK(u) == u \in Checked => part[u] = Content[u]

\* Read the row again, hash the part file, compare with the expected digest.
Hash(p) ==
    LET u == call[p].upload IN
    /\ At(p, "hash")
    /\ Goto(p, IF Present(u) /\ part[u] # None /\ DigestOK(u)
               THEN [call[p] EXCEPT !.at = "store", !.data = part[u]]
               ELSE Idle)
    /\ UNCHANGED <<row, part, stored, aborts>>

\* Mutant of Store: put_file(consume=True) moves the part file.
StoreMoving(p) ==
    LET u == call[p].upload IN
    /\ At(p, "store")
    /\ stored' = IF part[u] # None THEN stored \cup {part[u]} ELSE stored
    /\ SetPart(u, None)
    /\ Goto(p, IF part[u] = call[p].data
               THEN [call[p] EXCEPT !.at = "commit"] ELSE Idle)
    /\ UNCHANGED <<row, aborts>>

\* store.put_file copies the part file, if nobody has unlinked it.
Store(p) ==
    LET u == call[p].upload IN
    /\ At(p, "store")
    /\ stored' = IF part[u] # None THEN stored \cup {part[u]} ELSE stored
    /\ Goto(p, IF part[u] = call[p].data
               THEN [call[p] EXCEPT !.at = "commit"] ELSE Idle)
    /\ UNCHANGED <<row, part, aborts>>

\* The commit, or the discovery that another finish committed already.
Commit(p) ==
    LET u == call[p].upload
        c == call[p]
    IN
    /\ At(p, "commit")
    /\ \/ /\ row[u].state = "open" /\ Sound(u) /\ Reconciled(u).received = Size[u]
          /\ SetRow(u, [state |-> "completed", received |-> Size[u],
                        file |-> c.data, stale |-> FALSE])
          /\ Goto(p, [c EXCEPT !.at = "discard"])
       \/ /\ row[u].state = "completed" /\ row[u].file = c.data
          /\ Goto(p, [c EXCEPT !.at = "discard"])
          /\ UNCHANGED row
       \/ /\ ~(row[u].state = "open" /\ Sound(u) /\ Reconciled(u).received = Size[u])
          /\ ~(row[u].state = "completed" /\ row[u].file = c.data)
          /\ Goto(p, Idle)
          /\ UNCHANGED row
    /\ UNCHANGED <<part, stored, aborts>>

\* The unlink after the commit of finish, cancel and each item of cleanup.
Discard(p) ==
    /\ At(p, "discard")
    /\ SetPart(call[p].upload, None)
    /\ Goto(p, IF call[p].todo = {} THEN Idle
               ELSE [call[p] EXCEPT !.at = "clean", !.upload = None])
    /\ UNCHANGED <<row, stored, aborts>>

-----------------------------------------------------------------------------
(* cancel and cleanup *)

Gone == [Unused EXCEPT !.state = "gone"]

Cancel(p, u) ==
    /\ At(p, "idle")
    /\ row[u].state = "open"
    /\ SetRow(u, Gone)
    /\ Goto(p, [Idle EXCEPT !.at = "discard", !.upload = u])
    /\ UNCHANGED <<part, stored, aborts>>

Cleanup(p) ==
    /\ At(p, "idle")
    /\ \E old \in SUBSET {u \in Upload : Present(u) /\ row[u].stale} :
          /\ old # {}
          /\ Goto(p, [Idle EXCEPT !.at = "clean", !.todo = old])
    /\ UNCHANGED <<row, part, stored, aborts>>

\* Each selected row is looked at again in a transaction of its own.
CleanupItem(p) ==
    /\ At(p, "clean")
    /\ \E u \in call[p].todo :
          LET c == [call[p] EXCEPT !.todo = @ \ {u}] IN
          IF Present(u) /\ row[u].stale
          THEN /\ SetRow(u, Gone)
               /\ Goto(p, [c EXCEPT !.at = "discard", !.upload = u])
          ELSE /\ Goto(p, IF c.todo = {} THEN Idle ELSE c)
               /\ UNCHANGED row
    /\ UNCHANGED <<part, stored, aborts>>

-----------------------------------------------------------------------------
(* The environment. *)

Age(u) ==
    /\ Present(u)
    /\ SetRow(u, [row[u] EXCEPT !.stale = TRUE])
    /\ UNCHANGED <<part, stored, call, aborts>>

\* A thread dies or a step raises; an insertion that raises is InsertFail.
Abort(p) ==
    /\ ~At(p, "idle")
    /\ aborts < MaxAborts
    /\ aborts' = aborts + 1
    /\ Goto(p, Idle)
    /\ UNCHANGED <<row, part, stored>>

\* file_delete, file_gc or the cleanup of management: no reference protects a
\* file that an upload has brought in.
Forget ==
    /\ \E f \in stored : stored' = stored \ {f}
    /\ UNCHANGED <<row, part, call, aborts>>

Next ==
    \/ \E p \in Proc, u \in Upload :
          \/ Touch(p, u) \/ Status(p, u) \/ Write(p, u) \/ WriteTorn(p, u)
          \/ FinishStatus(p, u) \/ Cancel(p, u)
    \/ \E p \in Proc :
          \/ Insert(p) \/ InsertFail(p)
          \/ Receipt(p) \/ Hash(p) \/ Store(p) \/ Commit(p) \/ Discard(p)
          \/ Cleanup(p) \/ CleanupItem(p) \/ Abort(p)
    \/ \E u \in Upload : Age(u)
    \/ Forget

Spec == Init /\ [][Next]_vars

-----------------------------------------------------------------------------
(* Properties. *)

\* Every variable has its type, and a thread in an operation has its upload.
TypeOK ==
    /\ row \in [Upload -> Row]
    /\ part \in [Upload -> Seq(Byte) \cup {None}]
    /\ stored \subseteq Seq(Byte)
    /\ call \in [Proc -> Call]
    /\ \A p \in Proc :
          /\ call[p].at \notin {"idle", "clean"} => call[p].upload \in Upload
          /\ call[p].at \in {"store", "commit"} => call[p].data \in Seq(Byte)
    /\ aborts \in 0..MaxAborts

\* An open session can always be resumed: its part file exists and lies
\* between the recorded and the declared size, so that status, write and
\* finish never answer that staged bytes are missing, short or too long,
\* whichever writes were torn and whichever finish, cancel or cleanup runs.
OpenResumable == \A u \in Upload : row[u].state = "open" => Sound(u)

\* With an honest client, no chunk is lost, doubled or reordered: the part
\* file is a prefix of the content, however often a write was torn, repeated
\* or sent by two clients at once.
NoSplice ==
    \A u \in Honest :
        part[u] # None => part[u] = SubSeq(Content[u], 1, Len(part[u]))

\* Only complete contents, that match the expected digest when one was
\* declared, are admitted into the file store.
AdmittedValid ==
    \A f \in stored : \E u \in Upload : /\ Len(f) = Size[u]
                                        /\ u \in Checked => f = Content[u]

\* A commit receipt names a valid content: of the declared size, of the
\* expected digest, and an honest client's own bytes even without a digest.
ReceiptValid ==
    \A u \in Upload : row[u].state = "completed" =>
        /\ row[u].file # None
        /\ Len(row[u].file) = Size[u]
        /\ u \in Checked \cup Honest => row[u].file = Content[u]

\* However a finish overlaps with writes, repetitions, cancels and crashes: what
\* reaches the file store is complete and of the declared digest, and what a
\* receipt names is valid too (docs/file-service.md:41, the server validates
\* offsets, the declared size and the digest).
ContentsValid == AdmittedValid /\ ReceiptValid

\* While nothing crashes or fails, a part file without a row belongs to a begin
\* that has not inserted its row or a finish, cancel or cleanup that has not
\* unlinked it yet.  cleanup goes by rows: it would never find another one.
NoOrphanPart ==
    aborts = 0 =>
        \A u \in Upload : part[u] # None =>
            \/ row[u].state = "open"
            \/ \E p \in Proc : call[p].upload = u /\ call[p].at \in {"insert", "discard"}

\* What a thread may rely on between two steps of begin, finish, cancel and
\* cleanup.  With the invariants above it is inductive: the unlinks never hit
\* an open session, and what finish has hashed is what put_file copies.
ThreadOK(p) ==
    LET c == call[p]
        u == call[p].upload
    IN
    /\ c.at = "insert" =>
          /\ row[u].state = "unused" /\ part[u] = <<>>
          /\ \A q \in Proc : call[q].at = "insert" /\ call[q].upload = u => q = p
    /\ c.at \in {"receipt", "discard"} => row[u].state \in {"completed", "gone"}
    /\ c.at = "hash" =>
          /\ row[u].state # "unused"
          /\ part[u] # None => Len(part[u]) = Size[u]
    /\ c.at \in {"store", "commit"} =>
          /\ row[u].state # "unused"
          /\ part[u] # None => part[u] = c.data
          /\ Len(c.data) = Size[u]
          /\ u \in Checked \cup Honest => c.data = Content[u]

UploadInv ==
    /\ TypeOK /\ OpenResumable /\ NoSplice /\ AdmittedValid /\ ReceiptValid
    /\ \A p \in Proc : ThreadOK(p)

\* While a session stays open, what the server has of it only grows at the
\* end, and so does the offset it reports.
OnlyAppends ==
    [][\A u \in Upload :
          row[u].state = "open" /\ row'[u].state = "open" =>
              /\ row'[u].received >= row[u].received
              /\ part[u] # None /\ part'[u] # None
              /\ Len(part'[u]) >= Len(part[u])
              /\ SubSeq(part'[u], 1, Len(part[u])) = part[u]]_vars

\* The upload manager keeps the promise of ResumableUpload: a session holds
\* its part file while it is open and its committed file afterwards.
Promise == INSTANCE ResumableUpload WITH
    phase <- [u \in Upload |-> row[u].state],
    bytes <- [u \in Upload |-> CASE row[u].state = "open" -> part[u]
                                 [] row[u].state = "completed" -> row[u].file
                                 [] OTHER -> <<>>]

KeepsPromise == Promise!Spec
=============================================================================
