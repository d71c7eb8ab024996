--------------------------- MODULE FileStoreProofs ---------------------------
(* Theorems about FileStore, and about the maintenance loop over it, for    *)
(* every number of threads, files, archives, consumers and aborts.          *)
EXTENDS FileMaintenance, FiniteSetTheorems, SequenceTheorems, WellFoundedInduction, TLAPS

\* A call record built by a step has the type of one.
LEMMA IdleCall == Idle \in Call /\ LocalsOK(Idle) /\ Idle.todo = <<>>
  BY FileStoreAssumption, EmptySeq DEF Idle, Call, Step, LocalsOK

\* The lists that gc, cleanup and extract work off are sequences of files.
LEMMA HeadOfList ==
    ASSUME NEW s \in Seq(File), s # <<>>
    PROVE  /\ Head(s) \in File /\ Tail(s) \in Seq(File)
           /\ Len(s) \in Nat /\ Len(Tail(s)) = Len(s) - 1
  BY HeadTailProperties, LenProperties

LEMMA MembersTyped == \A a \in Archive : MemberFiles(a) \in Seq(File)
  <1> SUFFICES ASSUME NEW a \in Archive PROVE MemberFiles(a) \in Seq(File)
    OBVIOUS
  <1> DEFINE M == Members[a]
  <1>1. M \in Seq(Path \X File)
    BY FileStoreAssumption
  <1> HIDE DEF M
  <1>2. Len(M) \in Nat /\ DOMAIN M = 1..Len(M) /\ \A i \in 1..Len(M) : M[i] \in Path \X File
    BY <1>1, LenProperties, ElementOfSeq
  <1> DEFINE F == [i \in 1..Len(M) |-> M[i][2]]
  <1>3. F \in [1..Len(M) -> File]
    BY <1>2
  <1>4. MemberFiles(a) = F
    BY <1>2 DEF MemberFiles, M
  <1> HIDE DEF F
  <1>5. QED
    BY <1>2, <1>3, <1>4

LEMMA ListTyped ==
    ASSUME TypeOK, NEW by, NEW n, NEW s \in InOrder(Chosen(by, n))
    PROVE  s \in Seq(File)
  <1> DEFINE C == Chosen(by, n)
  <1>1. C \subseteq rows
    BY DEF Chosen, Candidates, Unreferenced
  <1>2. IsFiniteSet(C) /\ C \subseteq File
    BY <1>1, FS_Subset DEF TypeOK
  <1>3. s \in [1..Cardinality(C) -> C]
    BY DEF InOrder
  <1> HIDE DEF C
  <1>4. Cardinality(C) \in Nat
    BY <1>2, FS_CardinalityType
  <1>5. s \in [1..Cardinality(C) -> File]
    BY <1>2, <1>3
  <1>6. QED
    BY <1>4, <1>5

\* Moving one thread to a well-formed record keeps all records well formed.
LEMMA GotoTyped ==
    ASSUME TypeOK, NEW p \in Proc, NEW c \in Call, LocalsOK(c), Goto(p, c)
    PROVE  /\ call' \in [Proc -> Call]
           /\ \A q \in Proc : LocalsOK(call'[q])
           /\ call'[p] = c
           /\ \A q \in Proc : q # p => call'[q] = call[q]
  BY DEF TypeOK, Goto

\* The two ways back from a put and a delete lead to well-formed records.
LEMMA AfterTyped ==
    ASSUME NEW c \in Call, LocalsOK(c)
    PROVE  /\ AfterPut(c) \in Call /\ LocalsOK(AfterPut(c))
           /\ AfterDelete(c) \in Call /\ LocalsOK(AfterDelete(c))
           /\ AfterFileError(c) \in Call /\ LocalsOK(AfterFileError(c))
  <1>1. c.by = "extract" => c.arg \in Archive
    BY DEF LocalsOK
  <1>2. AfterPut(c) \in Call /\ LocalsOK(AfterPut(c))
    <2>1. CASE c.by = "extract"
      <3> DEFINE d == [c EXCEPT !.at = "extract", !.file = None]
      <3>1. /\ d.at = "extract" /\ d.by = c.by /\ d.file = None
            /\ d.arg = c.arg /\ d.todo = c.todo
        BY DEF Call
      <3>2. d \in Call
        BY DEF Call, Step
      <3>3. LocalsOK(d)
        BY <1>1, <2>1, <3>1 DEF LocalsOK
      <3>4. QED
        BY <2>1, <3>2, <3>3 DEF AfterPut
    <2>2. CASE c.by # "extract"
      BY <2>2, IdleCall DEF AfterPut
    <2>3. QED
      BY <2>1, <2>2
  <1>3. AfterDelete(c) \in Call /\ LocalsOK(AfterDelete(c))
    <2>1. CASE c.by \in {"gc", "cleanup"}
      <3> DEFINE d == [c EXCEPT !.at = "sweep", !.file = None, !.blocked = FALSE]
      <3>1. d.at = "sweep" /\ d.by = c.by
        BY DEF Call
      <3>2. d \in Call
        BY DEF Call, Step
      <3>3. LocalsOK(d)
        BY <2>1, <3>1 DEF LocalsOK
      <3>4. QED
        BY <2>1, <3>2, <3>3 DEF AfterDelete
    <2>2. CASE c.by \notin {"gc", "cleanup"}
      BY <2>2, IdleCall DEF AfterDelete
    <2>3. QED
      BY <2>1, <2>2
  <1>4. QED
    BY <1>2, <1>3, IdleCall DEF AfterFileError

\* A step of thread p moves p, and only p, to a well-formed record.
Moves(p) == UNCHANGED call \/ \E c \in Call : LocalsOK(c) /\ Goto(p, c)

\* The two operators that several operations call.
LEMMA LookUpMoves ==
    ASSUME NEW p \in Proc, NEW f \in File, NEW c \in Call, LocalsOK(c),
           c.by \in {"client", "extract"}, LookUp(p, f, c)
    PROVE  Moves(p)
  <1> DEFINE s == IF f \in objects THEN "register" ELSE "store"
             d == [c EXCEPT !.file = f, !.at = s]
  <1>1. Goto(p, d)
    BY DEF LookUp
  <1>2. /\ d.at = s /\ d.by = c.by /\ d.file = f
        /\ d.arg = c.arg /\ d.todo = c.todo
    BY DEF Call
  <1>3. s \in {"register", "store"}
    OBVIOUS
  <1>4. d \in Call
    BY <1>3 DEF Call, Step
  <1>5. LocalsOK(d)
    <2> HIDE DEF d, s
    <2>1. QED
      BY <1>2, <1>3 DEF LocalsOK
  <1>6. QED
    BY <1>1, <1>4, <1>5 DEF Moves

LEMMA InspectMoves ==
    ASSUME NEW p \in Proc, NEW f \in File, NEW c \in Call, LocalsOK(c),
           c.by # "extract", Inspect(p, f, c)
    PROVE  Moves(p)
  <1> DEFINE b == Referenced(f) \/ Collected(f)
             d == [c EXCEPT !.at = "remove", !.file = f, !.blocked = b]
  <1>1. b \in BOOLEAN
    OBVIOUS
  <1>2. /\ d.at = "remove" /\ d.by = c.by /\ d.file = f
        /\ d.arg = c.arg /\ d.todo = c.todo
    BY DEF Call
  <1>3. d \in Call
    BY <1>1 DEF Call, Step
  <1>4. LocalsOK(d)
    <2> HIDE DEF d
    <2>1. QED
      BY <1>2 DEF LocalsOK
  <1>5. Goto(p, d) \/ Goto(p, AfterFileError(c))
    BY DEF Inspect
  <1>6. QED
    BY <1>3, <1>4, <1>5, AfterTyped DEF Moves

\* Each operation a thread can start or continue moves it so.
LEMMA InvokeMoves ==
    ASSUME TypeOK, NEW p \in Proc, Invoke(p)
    PROVE  Moves(p)
  <1>1. ASSUME NEW f \in File, Put(p, f)
        PROVE  Moves(p)
    <2>1. Idle.by = "client"
      BY DEF Idle
    <2>2. QED
      BY <1>1, <2>1, IdleCall, LookUpMoves DEF Put
  <1>2. ASSUME NEW f \in File, NEW force \in Forcing, Delete(p, f, force)
        PROVE  Moves(p)
    <2> DEFINE d == [Idle EXCEPT !.force = force]
    <2>1. force \in BOOLEAN
      BY FileStoreAssumption
    <2>2. d.at = "idle" /\ d.by = "client"
      BY DEF Idle
    <2>3. d \in Call
      BY <2>1, IdleCall DEF Call
    <2>4. LocalsOK(d)
      <3> HIDE DEF d
      <3>1. QED
        BY <2>2 DEF LocalsOK
    <2>5. Inspect(p, f, d)
      BY <1>2 DEF Delete
    <2>6. QED
      <3> HIDE DEF d
      <3>1. QED
        BY <2>2, <2>3, <2>4, <2>5, InspectMoves
  <1>3. ASSUME NEW by \in {"gc", "cleanup"}, NEW n \in Limits, Sweep(p, by, n)
        PROVE  Moves(p)
    <2>0. PICK t \in InOrder(Chosen(by, n)) :
             Goto(p, [Idle EXCEPT !.at = "sweep", !.by = by, !.todo = t])
      BY <1>3 DEF Sweep
    <2> DEFINE d == [Idle EXCEPT !.at = "sweep", !.by = by, !.todo = t]
    <2>1. t \in Seq(File)
      BY ListTyped
    <2>2. d.at = "sweep" /\ d.by = by
      BY DEF Idle
    <2>3. d \in Call
      BY <2>1, IdleCall DEF Call, Step
    <2>4. LocalsOK(d)
      <3> HIDE DEF d
      <3>1. QED
        BY <2>2 DEF LocalsOK
    <2>5. Goto(p, d)
      BY <2>0
    <2>6. QED
      BY <2>3, <2>4, <2>5 DEF Moves
  <1>4. ASSUME NEW f \in File, NEW c \in Consumer,
               NEW step \in {"reference", "release"}, Announce(p, f, c, step)
        PROVE  Moves(p)
    <2> DEFINE d == [Idle EXCEPT !.at = step, !.file = f, !.arg = c]
    <2>1. d.at = step /\ d.by = "client" /\ d.file = f /\ d.arg = c
      BY DEF Idle
    <2>2. d \in Call
      BY IdleCall DEF Call, Step
    <2>3. LocalsOK(d)
      <3> HIDE DEF d
      <3>1. QED
        BY <2>1 DEF LocalsOK
    <2>4. Goto(p, d)
      BY <1>4 DEF Announce
    <2>5. QED
      BY <2>2, <2>3, <2>4 DEF Moves
  <1>5. ASSUME NEW a \in Archive, Extract(p, a)
        PROVE  Moves(p)
    <2> DEFINE d == [Idle EXCEPT !.at = "extract", !.by = "extract",
                                 !.arg = a, !.todo = MemberFiles(a)]
    <2>1. a \in File /\ MemberFiles(a) \in Seq(File)
      BY FileStoreAssumption, MembersTyped
    <2>2. d.at = "extract" /\ d.by = "extract" /\ d.arg = a
      BY DEF Idle
    <2>3. d \in Call
      BY <2>1, IdleCall DEF Call, Step
    <2>4. LocalsOK(d)
      <3> HIDE DEF d
      <3>1. QED
        BY <2>2 DEF LocalsOK
    <2>5. Goto(p, d)
      BY <1>5 DEF Extract
    <2>6. QED
      BY <2>3, <2>4, <2>5 DEF Moves
  <1>6. ASSUME NEW a \in Archive, CollectionDelete(p, a)
        PROVE  Moves(p)
    BY <1>6 DEF CollectionDelete, Moves
  <1>7. QED
    BY <1>1, <1>2, <1>3, <1>4, <1>5, <1>6 DEF Invoke

LEMMA ContinueMoves ==
    ASSUME TypeOK, NEW p \in Proc, Continue(p) \/ Abort(p)
    PROVE  Moves(p)
  <1> DEFINE c == call[p]
  <1>1. c \in Call /\ LocalsOK(c)
    BY DEF TypeOK
  <1>2. Goto(p, Idle) => Moves(p)
    BY IdleCall DEF Moves
  <1>3. \A s \in Step : [c EXCEPT !.at = s] \in Call
    BY <1>1 DEF Call
  <1>4. CASE Publish(p)
    <2> DEFINE d == [c EXCEPT !.at = "register"]
    <2>1. /\ c.at = "store" /\ d.at = "register" /\ d.by = c.by
          /\ d.file = c.file /\ d.arg = c.arg /\ d.todo = c.todo
      BY <1>1, <1>4 DEF Publish, At, Call
    <2>2. LocalsOK(d)
      <3> HIDE DEF d, c
      <3>1. QED
        BY <1>1, <2>1 DEF LocalsOK
    <2>3. d \in Call /\ Goto(p, d)
      BY <1>3, <1>4 DEF Publish, Step
    <2>4. QED
      BY <2>2, <2>3 DEF Moves
  <1>5. CASE Register(p)
    <2> DEFINE d == [c EXCEPT !.at = "acknowledge"]
    <2>1. /\ c.at = "register" /\ d.at = "acknowledge" /\ d.by = c.by
          /\ d.file = c.file /\ d.arg = c.arg /\ d.todo = c.todo
      BY <1>1, <1>5 DEF Register, At, Call
    <2>2. LocalsOK(d)
      <3> HIDE DEF d, c
      <3>1. QED
        BY <1>1, <2>1 DEF LocalsOK
    <2>3. d \in Call /\ Goto(p, d)
      BY <1>3, <1>5 DEF Register, Step
    <2>4. QED
      BY <2>2, <2>3 DEF Moves
  <1>6. CASE Acknowledge(p)
    <2>1. Goto(p, AfterPut(c)) \/ Goto(p, Idle)
      BY <1>6 DEF Acknowledge
    <2>2. QED
      BY <1>1, <1>2, <2>1, AfterTyped DEF Moves
  <1>7. ASSUME c.at = "remove", Goto(p, [c EXCEPT !.at = "unlink"])
        PROVE  Moves(p)
    <2> DEFINE d == [c EXCEPT !.at = "unlink"]
    <2>1. /\ d.at = "unlink" /\ d.by = c.by
          /\ d.file = c.file /\ d.arg = c.arg /\ d.todo = c.todo
      BY <1>1 DEF Call
    <2>2. LocalsOK(d)
      <3> HIDE DEF d, c
      <3>1. QED
        BY <1>1, <1>7, <2>1 DEF LocalsOK
    <2>3. d \in Call
      BY <1>3 DEF Step
    <2>4. QED
      BY <1>7, <2>2, <2>3 DEF Moves
  <1>8. CASE Remove(p)
    <2>1. \/ Goto(p, AfterFileError(c)) \/ Goto(p, Idle)
          \/ Goto(p, [c EXCEPT !.at = "unlink"])
      BY <1>8 DEF Remove
    <2>2. c.at = "remove"
      BY <1>8 DEF Remove, At
    <2>3. QED
      BY <1>1, <1>2, <1>7, <2>1, <2>2, AfterTyped DEF Moves
  <1>9. CASE ForceRemove(p)
    BY <1>7, <1>9 DEF ForceRemove, At
  <1>10. CASE Unlink(p)
    <2>1. Goto(p, AfterDelete(c))
      BY <1>10 DEF Unlink
    <2>2. QED
      BY <1>1, <2>1, AfterTyped DEF Moves
  <1>11. CASE SweepNext(p)
    <2> DEFINE d == [c EXCEPT !.todo = Tail(c.todo)]
    <2>1. c.at = "sweep" /\ c.todo # <<>> /\ Inspect(p, Head(c.todo), d)
      BY <1>1, <1>11 DEF SweepNext, At, Call
    <2>2. c.todo \in Seq(File)
      BY <1>1 DEF Call
    <2>3. Head(c.todo) \in File /\ Tail(c.todo) \in Seq(File)
      BY <2>1, <2>2, HeadOfList
    <2>4. d \in Call /\ d.at = c.at /\ d.by = c.by
      BY <1>1, <2>3 DEF Call
    <2>5. LocalsOK(d) /\ d.by # "extract"
      <3> HIDE DEF d, c
      <3>1. QED
        BY <1>1, <2>1, <2>4 DEF LocalsOK
    <2>6. QED
      <3> HIDE DEF d, c
      <3>1. QED
        BY <2>1, <2>3, <2>4, <2>5, InspectMoves
  <1>12. CASE ExtractMember(p)
    <2> DEFINE d == [c EXCEPT !.todo = Tail(c.todo)]
    <2>1. c.at = "extract" /\ c.todo # <<>> /\ LookUp(p, Head(c.todo), d)
      BY <1>1, <1>12 DEF ExtractMember, At, Call
    <2>2. c.todo \in Seq(File)
      BY <1>1 DEF Call
    <2>3. Head(c.todo) \in File /\ Tail(c.todo) \in Seq(File)
      BY <2>1, <2>2, HeadOfList
    <2>4. d \in Call /\ d.at = c.at /\ d.by = c.by /\ d.arg = c.arg
      BY <1>1, <2>3 DEF Call
    <2>5. LocalsOK(d) /\ d.by = "extract"
      <3> HIDE DEF d, c
      <3>1. QED
        BY <1>1, <2>1, <2>4 DEF LocalsOK
    <2>6. QED
      <3> HIDE DEF d, c
      <3>1. QED
        BY <2>1, <2>3, <2>4, <2>5, LookUpMoves
  <1>13. CASE \/ SweepEnd(p) \/ AddReference(p) \/ ReleaseReference(p)
              \/ ExtractFail(p) \/ ExtractCommit(p) \/ Abort(p)
    BY <1>2, <1>13
       DEF SweepEnd, AddReference, ReleaseReference, ExtractFail, ExtractCommit, Abort
  <1>14. QED
    BY <1>4, <1>5, <1>6, <1>8, <1>9, <1>10, <1>11, <1>12, <1>13 DEF Continue

\* The keys that extract inserts.
LEMMA ManifestTyped ==
    ASSUME NEW a \in Archive
    PROVE  FirstAtPath(a) \subseteq {a} \X Path \X File
  <1> DEFINE M == Members[a]
  <1>1. M \in Seq(Path \X File)
    BY FileStoreAssumption
  <1> HIDE DEF M
  <1>2. \A i \in DOMAIN M : M[i][1] \in Path /\ M[i][2] \in File
    BY <1>1, LenProperties, ElementOfSeq
  <1>3. \A x \in FirstAtPath(a) : \E i \in DOMAIN M : x = <<a, M[i][1], M[i][2]>>
    BY DEF FirstAtPath, M
  <1>4. QED
    BY <1>2, <1>3

\* The three things a step may do to the rows and to their ages.
RowsKept    == UNCHANGED <<rows, older>> /\ aged \subseteq aged' /\ aged' \subseteq rows
RowIn(f)    == InsertRow(f) /\ UNCHANGED aged

LEMMA RowsTyped ==
    ASSUME TypeOK, RowsKept \/ \E f \in File : RowIn(f) \/ DeleteRow(f)
    PROVE  /\ rows' \subseteq File /\ IsFiniteSet(rows')
           /\ older' \subseteq rows' \X rows' /\ aged' \subseteq rows'
  <1>1. CASE RowsKept
    BY <1>1 DEF RowsKept, TypeOK
  <1>2. ASSUME NEW f \in File, RowIn(f) \/ DeleteRow(f)
        PROVE  /\ rows' \subseteq File /\ IsFiniteSet(rows')
               /\ older' \subseteq rows' \X rows' /\ aged' \subseteq rows'
    <2>1. CASE RowIn(f)
      <3>1. rows' = rows \cup {f} /\ aged' = aged
            /\ older' \subseteq older \cup (rows \X {f})
        BY <2>1 DEF RowIn, InsertRow
      <3>2. IsFiniteSet(rows \cup {f})
        BY FS_AddElement DEF TypeOK
      <3>3. QED
        BY <3>1, <3>2 DEF TypeOK
    <2>2. CASE DeleteRow(f)
      <3>1. /\ rows' = rows \ {f} /\ aged' = aged \ {f}
            /\ older' = {o \in older : o[1] # f /\ o[2] # f}
        BY <2>2 DEF DeleteRow
      <3>2. IsFiniteSet(rows \ {f})
        BY FS_Subset DEF TypeOK
      <3>3. QED
        BY <3>1, <3>2 DEF TypeOK
    <2>3. QED
      BY <1>2, <2>1, <2>2
  <1>3. QED
    BY <1>1, <1>2

\* The tables and the object directory keep their types.
LEMMA TablesTyped ==
    ASSUME TypeOK, Next
    PROVE  /\ rows' \subseteq File /\ IsFiniteSet(rows')
           /\ older' \subseteq rows' \X rows'
           /\ aged' \subseteq rows'
           /\ refs' \subseteq File \X Consumer
           /\ colls' \subseteq Archive
           /\ items' \subseteq Archive \X Path \X File
           /\ objects' \subseteq File
           /\ aborts' \in 0..MaxAborts
  <1> USE DEF db
  <1>0. /\ \A q \in Proc : LocalsOK(call[q]) /\ call[q] \in Call
        /\ refs \subseteq File \X Consumer /\ colls \subseteq Archive
        /\ items \subseteq Archive \X Path \X File
        /\ objects \subseteq File /\ aborts \in 0..MaxAborts
    BY DEF TypeOK
  <1>1. UNCHANGED <<rows, older, aged>> => RowsKept
    BY DEF RowsKept, TypeOK
  <1> DEFINE Kept == RowsKept \/ \E f \in File : RowIn(f) \/ DeleteRow(f)
             Other == /\ refs' \subseteq File \X Consumer
                      /\ colls' \subseteq Archive
                      /\ items' \subseteq Archive \X Path \X File
                      /\ objects' \subseteq File
                      /\ aborts' \in 0..MaxAborts
  <1>2. ASSUME NEW p \in Proc, Invoke(p)
        PROVE  Kept /\ Other
    <2>1. /\ UNCHANGED <<rows, older, aged, refs, objects, aborts>>
          /\ colls' \subseteq colls /\ items' \subseteq items
      BY <1>2 DEF Invoke, Put, LookUp, Delete, Inspect, Sweep, Announce, Extract,
                  CollectionDelete
    <2>2. QED
      BY <1>0, <1>1, <2>1
  <1>3. ASSUME NEW p \in Proc, Publish(p) \/ Unlink(p)
        PROVE  Kept /\ Other
    <2>1. /\ call[p].file \in File /\ UNCHANGED <<rows, older, aged>>
          /\ objects' \subseteq objects \cup {call[p].file}
          /\ UNCHANGED <<refs, colls, items, aborts>>
      BY <1>0, <1>3 DEF Publish, Unlink, At, LocalsOK
    <2>2. QED
      BY <1>0, <1>1, <2>1
  <1>4. ASSUME NEW p \in Proc, Register(p)
        PROVE  Kept /\ Other
    <2>1. /\ call[p].file \in File /\ RowIn(call[p].file)
          /\ UNCHANGED <<refs, colls, items, objects, aborts>>
      BY <1>0, <1>4 DEF Register, RowIn, At, LocalsOK
    <2>2. QED
      BY <1>0, <2>1
  <1>5. ASSUME NEW p \in Proc, Remove(p) \/ ForceRemove(p)
        PROVE  Kept /\ Other
    <2>1. call[p].file \in File
      BY <1>0, <1>5 DEF Remove, ForceRemove, At, LocalsOK
    <2>2. /\ UNCHANGED <<rows, older, aged>> \/ DeleteRow(call[p].file)
          /\ refs' \subseteq refs /\ colls' \subseteq colls
          /\ items' \subseteq items /\ UNCHANGED <<objects, aborts>>
      BY <1>5 DEF Remove, ForceRemove, Unrefer
    <2>3. QED
      BY <1>0, <1>1, <2>1, <2>2
  <1>6. ASSUME NEW p \in Proc, AddReference(p) \/ ReleaseReference(p)
        PROVE  Kept /\ Other
    <2>1. /\ refs' \subseteq File \X Consumer
          /\ UNCHANGED <<rows, older, aged, colls, items, objects, aborts>>
      BY <1>0, <1>6 DEF AddReference, ReleaseReference, At, LocalsOK
    <2>2. QED
      BY <1>0, <1>1, <2>1
  <1>7. ASSUME NEW p \in Proc, ExtractCommit(p)
        PROVE  Kept /\ Other
    <2> DEFINE a == call[p].arg
    <2>1. a \in Archive
      BY <1>0, <1>7 DEF ExtractCommit, At, LocalsOK
    <2>2. /\ colls' \subseteq colls \cup {a} /\ items' \subseteq items \cup FirstAtPath(a)
          /\ UNCHANGED <<rows, older, aged, refs, objects, aborts>>
      BY <1>7 DEF ExtractCommit
    <2>3. FirstAtPath(a) \subseteq Archive \X Path \X File
      BY <2>1, ManifestTyped
    <2> HIDE DEF a
    <2>4. QED
      BY <1>0, <1>1, <2>1, <2>2, <2>3
  <1>8. ASSUME NEW p \in Proc,
               \/ Acknowledge(p) \/ SweepNext(p) \/ SweepEnd(p)
               \/ ExtractMember(p) \/ ExtractFail(p)
        PROVE  Kept /\ Other
    <2>1. UNCHANGED <<rows, older, aged, refs, colls, items, objects, aborts>>
      BY <1>8 DEF Acknowledge, SweepNext, SweepEnd, ExtractMember, ExtractFail,
                  Inspect, LookUp
    <2>2. QED
      BY <1>0, <1>1, <2>1
  <1>9. ASSUME NEW p \in Proc, Abort(p)
        PROVE  Kept /\ Other
    <2>1. /\ UNCHANGED <<rows, older, aged, refs, colls, items, objects>>
          /\ aborts' \in 0..MaxAborts
      BY <1>0, <1>9, FileStoreAssumption DEF Abort
    <2>2. QED
      BY <1>0, <1>1, <2>1
  <1>10. ASSUME NEW f \in File, Age(f)
         PROVE  Kept /\ Other
    <2>1. RowsKept /\ UNCHANGED <<refs, colls, items, objects, aborts>>
      BY <1>10 DEF Age, RowsKept, TypeOK
    <2>2. QED
      BY <1>0, <2>1
  <1>11. Kept /\ Other
    BY <1>2, <1>3, <1>4, <1>5, <1>6, <1>7, <1>8, <1>9, <1>10 DEF Next, Continue
  <1>12. QED
    BY <1>11, RowsTyped

\* Every reachable state is well typed.
THEOREM TypeCorrect == Spec => []TypeOK
  <1>1. Init => TypeOK
    BY IdleCall, FileStoreAssumption, FS_EmptySet DEF Init, TypeOK
  <1>2. TypeOK /\ [Next]_vars => TypeOK'
    <2> SUFFICES ASSUME TypeOK, [Next]_vars
                 PROVE  TypeOK'
      OBVIOUS
    <2>1. CASE UNCHANGED vars
      BY <2>1 DEF vars, TypeOK
    <2>2. CASE Next
      <3>1. UNCHANGED call \/ \E p \in Proc : Moves(p)
        BY <2>2, InvokeMoves, ContinueMoves DEF Next, Age
      <3>2. call' \in [Proc -> Call] /\ \A q \in Proc : LocalsOK(call'[q])
        BY <3>1, GotoTyped DEF Moves, TypeOK
      <3>3. QED
        BY <2>2, <3>2, TablesTyped DEF TypeOK
    <2>3. QED
      BY <2>1, <2>2
  <1>3. QED
    BY <1>1, <1>2, PTL DEF Spec

-----------------------------------------------------------------------------
(* References, memberships and collections. *)

\* No reference, membership or collection ever names a file without a row,
\* whatever a delete or an extract decided on before its transaction.
THEOREM Integrity == Spec => []ReferentialIntegrity
  <1>1. Init => ReferentialIntegrity
    BY DEF Init, ReferentialIntegrity
  <1>2. TypeOK /\ ReferentialIntegrity /\ [Next]_vars => ReferentialIntegrity'
    <2> SUFFICES ASSUME TypeOK, ReferentialIntegrity, [Next]_vars
                 PROVE  ReferentialIntegrity'
      OBVIOUS
    <2> USE DEF ReferentialIntegrity
    <2>1. ASSUME UNCHANGED <<rows, refs, colls, items>>
          PROVE  ReferentialIntegrity'
      BY <2>1
    <2>2. ASSUME NEW p \in Proc, NEW a \in Archive, CollectionDelete(p, a)
          PROVE  ReferentialIntegrity'
      BY <2>2 DEF CollectionDelete
    <2>3. ASSUME NEW p \in Proc, Invoke(p),
                 \A a \in Archive : ~CollectionDelete(p, a)
          PROVE  UNCHANGED <<rows, refs, colls, items>>
      BY <2>3 DEF Invoke, Put, LookUp, Delete, Inspect, Sweep, Announce, Extract, db
    <2>4. ASSUME NEW p \in Proc, Register(p)
          PROVE  ReferentialIntegrity'
      BY <2>4 DEF Register, InsertRow
    <2>5. ASSUME NEW p \in Proc, Remove(p)
          PROVE  ReferentialIntegrity'
      <3>1. UNCHANGED <<refs, colls, items>>
        BY <2>5 DEF Remove, db
      <3> DEFINE f == call[p].file
      <3>2. rows' = rows \/ (rows' = rows \ {f} /\ ~(f \in rows /\ Restricted(f)))
        BY <2>5 DEF Remove, DeleteRow, db, Restricted
      <3>3. ~Restricted(f) => /\ \A r \in refs : r[1] # f
                              /\ \A i \in items : i[3] # f
                              /\ f \notin colls
        BY DEF Restricted, Referenced, Collected, TypeOK
      <3>4. QED
        BY <3>1, <3>2, <3>3
    <2>6. ASSUME NEW p \in Proc, ForceRemove(p)
          PROVE  ReferentialIntegrity'
      <3> DEFINE f == call[p].file
      <3>1. /\ refs' = {r \in refs : r[1] # f}
            /\ colls' = colls \ Touched(f)
            /\ items' = {i \in items : i[1] \notin Touched(f)}
            /\ rows' = rows \ {f}
        BY <2>6 DEF ForceRemove, DeleteRow, Unrefer
      <3>2. \A i \in items : i[3] = f => i[1] \in Touched(f)
        BY DEF Touched, TypeOK
      <3>3. f \in colls => f \in Touched(f)
        BY DEF Touched
      <3>4. QED
        BY <3>1, <3>2, <3>3
    <2>7. ASSUME NEW p \in Proc, AddReference(p) \/ ReleaseReference(p)
          PROVE  ReferentialIntegrity'
      BY <2>7 DEF AddReference, ReleaseReference
    <2>8. ASSUME NEW p \in Proc, ExtractCommit(p)
          PROVE  ReferentialIntegrity'
      <3> DEFINE a     == call[p].arg
                 fresh == {i \in FirstAtPath(a) :
                             \A k \in items : <<k[1], k[2]>> # <<i[1], i[2]>>}
      <3>1. a \in Archive
        BY <2>8 DEF ExtractCommit, At, TypeOK, LocalsOK
      <3>2. \A i \in FirstAtPath(a) : i[1] = a
        BY <3>1, ManifestTyped
      <3>3. /\ UNCHANGED <<rows, refs>>
            /\ \/ UNCHANGED <<colls, items>>
               \/ /\ colls' = colls \cup {a} /\ items' = items \cup fresh
                  /\ a \in rows /\ \A i \in fresh : i[3] \in rows
        BY <2>8 DEF ExtractCommit
      <3>4. \A i \in fresh : i[1] = a
        BY <3>2
      <3> HIDE DEF fresh, a
      <3>5. QED
        BY <3>3, <3>4
    <2>9. ASSUME NEW p \in Proc,
                 \/ Publish(p) \/ Acknowledge(p) \/ Unlink(p) \/ SweepNext(p)
                 \/ SweepEnd(p) \/ ExtractMember(p) \/ ExtractFail(p) \/ Abort(p)
          PROVE  UNCHANGED <<rows, refs, colls, items>>
      BY <2>9 DEF Publish, Acknowledge, Unlink, SweepNext, SweepEnd, ExtractMember,
                  ExtractFail, Abort, Inspect, LookUp, db
    <2>10. QED
      BY <2>1, <2>2, <2>3, <2>4, <2>5, <2>6, <2>7, <2>8, <2>9
         DEF Next, Continue, Age, vars
  <1>3. QED
    BY <1>1, <1>2, TypeCorrect, PTL DEF Spec

\* A set of numbers that is not empty has a least one.
LEMMA Least ==
    ASSUME NEW T, T \subseteq Nat, T # {}
    PROVE  \E x \in T : \A y \in T : x <= y
  <1>1. \E x \in T : \A y \in T : <<y, x>> \notin OpToRel(<, Nat)
    BY WFMin, NatLessThanWellFounded
  <1>2. \A x, y \in Nat : x < y => <<x, y>> \in OpToRel(<, Nat)
    BY DEF OpToRel
  <1>3. \A x, y \in Nat : ~(y < x) => x <= y
    OBVIOUS
  <1>4. PICK x \in T : \A y \in T : <<y, x>> \notin OpToRel(<, Nat)
    BY <1>1
  <1>5. \A y \in T : ~(y < x)
    BY <1>2, <1>4
  <1>6. QED
    BY <1>3, <1>5

\* A collection whose items are those that extract inserts has one file at every
\* path of its archive, the first.
LEMMA ManifestWhole ==
    ASSUME NEW a \in Archive, {i \in items : i[1] = a} = FirstAtPath(a), NEW path \in Path
    PROVE  LET here == {k \in DOMAIN Members[a] : Members[a][k][1] = path}
               kept == {i[3] : i \in {i \in items : i[1] = a /\ i[2] = path}}
           IN  IF here = {} THEN kept = {}
               ELSE \E k \in here : (\A l \in here : k <= l) /\ kept = {Members[a][k][2]}
  <1> DEFINE M    == Members[a]
             here == {k \in DOMAIN M : M[k][1] = path}
             mine == {i \in items : i[1] = a /\ i[2] = path}
             kept == {i[3] : i \in mine}
  <1>1. M \in Seq(Path \X File)
    BY FileStoreAssumption
  <1>2. \A x \in mine : \E i \in DOMAIN M :
            /\ x = <<a, M[i][1], M[i][2]>>
            /\ \A j \in 1..(i - 1) : M[j][1] # M[i][1]
    BY DEF FirstAtPath
  <1>3. \A i \in DOMAIN M : (\A j \in 1..(i - 1) : M[j][1] # M[i][1]) =>
            <<a, M[i][1], M[i][2]>> \in items
    BY DEF FirstAtPath
  <1> HIDE DEF M
  <1>4. Len(M) \in Nat /\ DOMAIN M = 1..Len(M)
    BY <1>1, LenProperties
  <1>5. CASE here = {}
    <2>1. mine = {}
      BY <1>2, <1>5
    <2>2. kept = {}
      BY <2>1
    <2>3. QED
      BY <1>5, <2>2 DEF M
  <1>6. CASE here # {}
    <2>1. here \subseteq Nat
      BY <1>4
    <2>2. PICK k \in here : \A l \in here : k <= l
      <3> HIDE DEF here
      <3>1. QED
        BY <1>6, <2>1, Least
    <2>3. k \in 1..Len(M) /\ M[k][1] = path
      BY <1>4
    <2>4. \A j \in 1..(k - 1) : M[j][1] # M[k][1]
      BY <1>4, <2>2, <2>3
    <2>5. <<a, path, M[k][2]>> \in mine
      BY <1>3, <1>4, <2>3, <2>4
    <2>6. ASSUME NEW x \in mine PROVE x[3] = M[k][2]
      <3>1. PICK i \in DOMAIN M : /\ x = <<a, M[i][1], M[i][2]>>
                                  /\ \A j \in 1..(i - 1) : M[j][1] # M[i][1]
        BY <1>2
      <3>2. M[i][1] = path /\ i \in 1..Len(M)
        BY <1>4, <3>1
      <3>3. k <= i
        BY <2>2, <3>2, <1>4
      <3>4. ~(k < i)
        BY <2>3, <3>1, <3>2, <1>4
      <3>5. k = i
        BY <1>4, <2>3, <3>2, <3>3, <3>4
      <3>6. QED
        BY <3>1, <3>5
    <2>7. kept = {M[k][2]}
      <3> HIDE DEF mine
      <3>1. QED
        BY <2>5, <2>6
    <2>8. QED
      BY <1>6, <2>2, <2>7 DEF M
  <1>7. QED
    BY <1>5, <1>6

\* A collection has the first member at every path of its archive, or does not
\* exist, in every reachable state.
THEOREM Wholeness == Spec => []CollectionsWhole
  <1> DEFINE Whole == /\ \A i \in items : i[1] \in colls
                      /\ \A a \in colls : {i \in items : i[1] = a} = FirstAtPath(a)
  <1>1. TypeOK /\ Whole => CollectionsWhole
    <2> SUFFICES ASSUME TypeOK, Whole, NEW a \in Archive
                 PROVE  IF a \notin colls THEN \A i \in items : i[1] # a
                        ELSE \A path \in Path :
                          LET here == {k \in DOMAIN Members[a] : Members[a][k][1] = path}
                              kept == {i[3] : i \in {i \in items : i[1] = a /\ i[2] = path}}
                          IN  IF here = {} THEN kept = {}
                              ELSE \E k \in here : /\ \A l \in here : k <= l
                                                   /\ kept = {Members[a][k][2]}
      BY DEF CollectionsWhole
    <2>1. CASE a \notin colls
      BY <2>1
    <2>2. CASE a \in colls
      <3>1. {i \in items : i[1] = a} = FirstAtPath(a)
        BY <2>2
      <3>2. QED
        BY <2>2, <3>1, ManifestWhole
    <2>3. QED
      BY <2>1, <2>2
  <1>2. Init => Whole
    BY DEF Init
  <1>3. TypeOK /\ Whole /\ [Next]_vars => Whole'
    <2> SUFFICES ASSUME TypeOK, Whole, [Next]_vars
                 PROVE  Whole'
      OBVIOUS
    <2>0. \A a : FirstAtPath(a)' = FirstAtPath(a)
      BY DEF FirstAtPath
    <2>1. CASE UNCHANGED <<colls, items>>
      BY <2>0, <2>1
    <2>2. ASSUME NEW T, colls' = colls \ T, items' = {i \in items : i[1] \notin T}
          PROVE  Whole'
      BY <2>0, <2>2
    <2>3. ASSUME NEW p \in Proc, NEW a \in Archive, CollectionDelete(p, a)
          PROVE  Whole'
      <3>1. colls' = colls \ {a} /\ items' = {i \in items : i[1] \notin {a}}
        BY <2>3 DEF CollectionDelete
      <3>2. QED
        BY <2>2, <3>1
    <2>4. ASSUME NEW p \in Proc, ForceRemove(p)
          PROVE  Whole'
      <3> DEFINE T == Touched(call[p].file)
      <3>1. colls' = colls \ T /\ items' = {i \in items : i[1] \notin T}
        BY <2>4 DEF ForceRemove
      <3> HIDE DEF T
      <3>2. QED
        BY <2>2, <3>1
    <2>5. ASSUME NEW p \in Proc, ExtractCommit(p)
          PROVE  Whole'
      <3> DEFINE a     == call[p].arg
                 fresh == {i \in FirstAtPath(a) :
                             \A k \in items : <<k[1], k[2]>> # <<i[1], i[2]>>}
      <3>1. a \in Archive
        BY <2>5 DEF ExtractCommit, At, TypeOK, LocalsOK
      <3>2. \A i \in FirstAtPath(a) : i[1] = a
        BY <3>1, ManifestTyped
      <3>3. \/ UNCHANGED <<colls, items>>
            \/ colls' = colls \cup {a} /\ items' = items \cup fresh
        BY <2>5 DEF ExtractCommit
      <3>4. CASE a \in colls
        <4>1. FirstAtPath(a) \subseteq items
          BY <3>4
        <4>2. fresh = {}
          BY <4>1
        <4> HIDE DEF fresh, a
        <4>3. UNCHANGED <<colls, items>>
          BY <3>3, <3>4, <4>2
        <4>4. QED
          BY <2>1, <4>3
      <3>5. CASE a \notin colls
        <4>1. \A i \in items : i[1] # a
          BY <3>5
        <4>2. fresh = FirstAtPath(a)
          BY <3>2, <4>1
        <4> HIDE DEF fresh, a
        <4>3. QED
          BY <2>0, <3>2, <3>3, <3>5, <4>1, <4>2
      <3>6. QED
        BY <3>4, <3>5
    <2>6. ASSUME NEW p \in Proc, Invoke(p),
                 \A a \in Archive : ~CollectionDelete(p, a)
          PROVE  UNCHANGED <<colls, items>>
      BY <2>6 DEF Invoke, Put, LookUp, Delete, Inspect, Sweep, Announce, Extract, db
    <2>7. ASSUME NEW p \in Proc, Continue(p) \/ Abort(p),
                 ~ForceRemove(p), ~ExtractCommit(p)
          PROVE  UNCHANGED <<colls, items>>
      BY <2>7 DEF Continue, Publish, Register, Acknowledge, Remove, Unlink, SweepNext,
                  SweepEnd, AddReference, ReleaseReference, ExtractMember,
                  ExtractFail, Abort, Inspect, LookUp, db
    <2>8. QED
      BY <2>1, <2>3, <2>4, <2>5, <2>6, <2>7 DEF Next, Age, vars
  <1>4. QED
    BY <1>1, <1>2, <1>3, TypeCorrect, PTL DEF Spec

-----------------------------------------------------------------------------
(* Rows and bytes. *)

\* A step of one thread leaves the others where they are.
LEMMA OthersStay ==
    ASSUME TypeOK, NEW q \in Proc, Invoke(q) \/ Continue(q) \/ Abort(q)
    PROVE  \A p \in Proc : p # q => call'[p] = call[p]
  <1>1. Moves(q)
    BY InvokeMoves, ContinueMoves
  <1>2. QED
    BY <1>1, GotoTyped DEF Moves

\* Which steps of a thread touch rows and objects, and where the thread is then.
LEMMA Footprint ==
    ASSUME TypeOK, NEW q \in Proc, Invoke(q) \/ Continue(q) \/ Abort(q)
    PROVE  \/ UNCHANGED <<rows, objects>> /\ call[q].at \notin {"register", "unlink"}
           \/ UNCHANGED <<rows, objects>> /\ aborts' = aborts + 1 /\ call'[q] = Idle
           \/ /\ call[q].at = "store" /\ UNCHANGED rows /\ objects' = objects \cup {call[q].file}
              /\ call'[q].at = "register" /\ call'[q].file = call[q].file
           \/ /\ call[q].at = "register" /\ rows' = rows \cup {call[q].file} /\ UNCHANGED objects
              /\ call'[q].at = "acknowledge"
           \/ /\ call[q].at = "remove"
              /\ rows' = rows \ {call[q].file} /\ UNCHANGED objects
              /\ call'[q].at = "unlink" /\ call'[q].file = call[q].file
           \/ /\ call[q].at = "unlink" /\ UNCHANGED rows /\ objects' = objects \ {call[q].file}
              /\ call'[q].at \in {"idle", "sweep"}
  <1>1. call \in [Proc -> Call]
    BY DEF TypeOK
  <1>2. CASE Invoke(q)
    BY <1>2 DEF Invoke, Put, LookUp, Delete, Inspect, Sweep, Announce, Extract,
                CollectionDelete, db, At
  <1>3. CASE Abort(q)
    BY <1>1, <1>3 DEF Abort, Goto, db
  <1>4. CASE Publish(q)
    BY <1>1, <1>4 DEF Publish, Goto, At, db, Call
  <1>5. CASE Register(q)
    BY <1>1, <1>5 DEF Register, InsertRow, Goto, At, Call
  <1>6. CASE Remove(q) \/ ForceRemove(q)
    <2>1. /\ call[q].at = "remove"
          /\ \/ UNCHANGED <<rows, objects>>
             \/ /\ rows' = rows \ {call[q].file} /\ UNCHANGED objects
                /\ Goto(q, [call[q] EXCEPT !.at = "unlink"])
      BY <1>6 DEF Remove, ForceRemove, DeleteRow, At, db
    <2>2. QED
      BY <1>1, <1>6, <2>1 DEF Goto, Call
  <1>7. CASE Unlink(q)
    <2>1. /\ call[q].at = "unlink"
          /\ UNCHANGED rows /\ objects' = objects \ {call[q].file}
          /\ call'[q] = AfterDelete(call[q])
      BY <1>1, <1>7 DEF Unlink, Goto, At, db
    <2>2. AfterDelete(call[q]).at \in {"idle", "sweep"}
      BY <1>1 DEF AfterDelete, Idle, Call
    <2>3. QED
      BY <1>7, <2>1, <2>2
  <1>8. CASE \/ Acknowledge(q) \/ SweepNext(q) \/ SweepEnd(q) \/ AddReference(q)
             \/ ReleaseReference(q) \/ ExtractMember(q) \/ ExtractFail(q)
             \/ ExtractCommit(q)
    BY <1>8 DEF Acknowledge, SweepNext, SweepEnd, AddReference, ReleaseReference,
                ExtractMember, ExtractFail, ExtractCommit, Inspect, LookUp, At, db
  <1>9. QED
    BY <1>2, <1>3, <1>4, <1>5, <1>6, <1>7, <1>8 DEF Continue

\* Only Abort counts, and it counts up.
LEMMA AbortsGrow ==
    ASSUME TypeOK, NEW q \in Proc, Invoke(q) \/ Continue(q) \/ Abort(q)
    PROVE  aborts \in Nat /\ (UNCHANGED aborts \/ aborts' = aborts + 1)
  <1>1. aborts \in Nat
    BY FileStoreAssumption DEF TypeOK
  <1>2. Invoke(q) => UNCHANGED aborts
    BY DEF Invoke, Put, LookUp, Delete, Inspect, Sweep, Announce, Extract,
           CollectionDelete
  <1>3. Continue(q) => UNCHANGED aborts
    BY DEF Continue, Publish, Register, Acknowledge, Remove, ForceRemove, Unlink,
           SweepNext, SweepEnd, AddReference, ReleaseReference, ExtractMember,
           ExtractFail, ExtractCommit, Inspect, LookUp
  <1>4. QED
    BY <1>1, <1>2, <1>3 DEF Abort

\* Without crashes, bytes without a row are always in the hands of a thread.
THEOREM OrphansOwned == Spec => []NoOrphanBytes
  <1>1. Init => NoOrphanBytes
    BY DEF Init, NoOrphanBytes
  <1>2. TypeOK /\ NoOrphanBytes /\ [Next]_vars => NoOrphanBytes'
    <2> SUFFICES ASSUME TypeOK, NoOrphanBytes, [Next]_vars, aborts' = 0,
                        NEW f \in objects' \ rows'
                 PROVE  \E p \in Proc : /\ call'[p].file = f
                                        /\ call'[p].at \in {"register", "unlink"}
      BY DEF NoOrphanBytes
    <2>1. CASE UNCHANGED <<rows, objects, call, aborts>>
      BY <2>1 DEF NoOrphanBytes
    <2>2. ASSUME NEW q \in Proc, Invoke(q) \/ Continue(q) \/ Abort(q)
          PROVE  \E p \in Proc : /\ call'[p].file = f
                                 /\ call'[p].at \in {"register", "unlink"}
      <3>1. aborts \in Nat /\ (UNCHANGED aborts \/ aborts' = aborts + 1)
        BY <2>2, AbortsGrow
      <3>2. aborts = 0
        BY <3>1
      <3>3. CASE f \in objects \ rows
        <4>1. PICK p \in Proc : /\ call[p].file = f
                                /\ call[p].at \in {"register", "unlink"}
          BY <3>2, <3>3 DEF NoOrphanBytes
        <4>2. CASE p # q
          BY <2>2, <4>1, <4>2, OthersStay
        <4>3. CASE p = q
          BY <2>2, <3>2, <4>1, <4>3, Footprint
        <4>4. QED
          BY <4>2, <4>3
      <3>4. CASE f \notin objects \ rows
        BY <2>2, <3>2, <3>4, Footprint
      <3>5. QED
        BY <3>3, <3>4
    <2>3. QED
      BY <2>1, <2>2 DEF Next, Age, vars
  <1>3. QED
    BY <1>1, <1>2, TypeCorrect, PTL DEF Spec

\* What a thread that is not disturbed knows of the file it is putting or
\* deleting.  Looking at the rows alone is not inductive: that Register adds a
\* row with bytes rests on what LookUp or Publish saw, and that Unlink takes no
\* row's bytes rests on the commit before it.
SoloInv ==
    /\ rows \subseteq objects
    /\ \A p \in Proc : /\ call[p].at = "register" => call[p].file \in objects
                       /\ call[p].at = "unlink" => call[p].file \notin rows

\* Entering "register" with bytes there, and "unlink" with the row gone, are
\* the only ways in.
LEMMA EnterRegister ==
    ASSUME TypeOK, NEW q \in Proc, Invoke(q) \/ Continue(q) \/ Abort(q)
    PROVE  /\ call'[q].at = "register" =>
                 \/ UNCHANGED call
                 \/ call'[q].file \in objects'
           /\ call'[q].at = "unlink" =>
                 \/ UNCHANGED call
                 \/ call'[q].file \notin rows'
  <1>1. call \in [Proc -> Call]
    BY DEF TypeOK
  <1>2. ASSUME NEW f \in File, NEW c \in Call, LookUp(q, f, c)
        PROVE  /\ call'[q].at = "register" => call'[q].file \in objects'
               /\ call'[q].at # "unlink"
    BY <1>1, <1>2 DEF LookUp, Goto, Call
  <1>3. ASSUME NEW f \in File, NEW c \in Call, Inspect(q, f, c)
        PROVE  call'[q].at \notin {"register", "unlink"}
    <2>1. AfterFileError(c).at \notin {"register", "unlink"}
      BY DEF AfterFileError, AfterDelete, Idle, Call
    <2>2. [c EXCEPT !.at = "remove", !.file = f,
                    !.blocked = Referenced(f) \/ Collected(f)].at = "remove"
      BY DEF Call
    <2>3. QED
      BY <1>1, <1>3, <2>1, <2>2 DEF Inspect, Goto
  <1>4. CASE Invoke(q)
    <2>1. ASSUME NEW f \in File, Put(q, f)
          PROVE  /\ call'[q].at = "register" => call'[q].file \in objects'
                 /\ call'[q].at # "unlink"
      BY <1>2, <2>1, IdleCall DEF Put
    <2>2. ASSUME NEW f \in File, NEW force \in Forcing, Delete(q, f, force)
          PROVE  call'[q].at \notin {"register", "unlink"}
      <3>1. [Idle EXCEPT !.force = force] \in Call
        BY IdleCall, FileStoreAssumption DEF Call
      <3>2. QED
        BY <1>3, <2>2, <3>1 DEF Delete
    <2>3. ASSUME NEW by \in {"gc", "cleanup"}, NEW n \in Limits, Sweep(q, by, n)
          PROVE  call'[q].at \notin {"register", "unlink"}
      BY <1>1, <2>3 DEF Sweep, Goto, Idle
    <2>4. ASSUME NEW f \in File, NEW c \in Consumer,
                 NEW step \in {"reference", "release"}, Announce(q, f, c, step)
          PROVE  call'[q].at \notin {"register", "unlink"}
      BY <1>1, <2>4 DEF Announce, Goto, Idle
    <2>5. ASSUME NEW a \in Archive, Extract(q, a) \/ CollectionDelete(q, a)
          PROVE  UNCHANGED call \/ call'[q].at \notin {"register", "unlink"}
      BY <1>1, <2>5 DEF Extract, CollectionDelete, Goto, Idle
    <2>6. QED
      BY <1>4, <2>1, <2>2, <2>3, <2>4, <2>5 DEF Invoke
  <1>5. CASE Publish(q) \/ Register(q)
    BY <1>1, <1>5 DEF Publish, Register, Goto, Call
  <1>6. CASE Remove(q) \/ ForceRemove(q)
    <2>1. AfterFileError(call[q]).at \notin {"register", "unlink"}
      BY <1>1 DEF AfterFileError, AfterDelete, Idle, Call
    <2>2. \/ call'[q] = AfterFileError(call[q])
          \/ call'[q] = Idle
          \/ /\ call'[q] = [call[q] EXCEPT !.at = "unlink"]
             /\ rows' = rows \ {call[q].file}
      BY <1>1, <1>6 DEF Remove, ForceRemove, DeleteRow, Goto
    <2>3. QED
      BY <1>1, <2>1, <2>2 DEF Idle, Call
  <1>7. CASE \/ Acknowledge(q) \/ Unlink(q) \/ SweepEnd(q) \/ AddReference(q)
             \/ ReleaseReference(q) \/ ExtractFail(q) \/ ExtractCommit(q) \/ Abort(q)
    <2>1. /\ AfterPut(call[q]).at \notin {"register", "unlink"}
          /\ AfterDelete(call[q]).at \notin {"register", "unlink"}
          /\ Idle.at = "idle"
      BY <1>1 DEF AfterPut, AfterDelete, Idle, Call
    <2>2. call'[q] \in {AfterPut(call[q]), AfterDelete(call[q]), Idle}
      BY <1>1, <1>7 DEF Acknowledge, Unlink, SweepEnd, AddReference,
         ReleaseReference, ExtractFail, ExtractCommit, Abort, Goto
    <2>3. QED
      BY <2>1, <2>2
  <1>8. CASE SweepNext(q) \/ ExtractMember(q)
    <2> DEFINE d == [call[q] EXCEPT !.todo = Tail(call[q].todo)]
    <2>1. /\ call[q].todo # <<>> /\ call[q].todo \in Seq(File)
          /\ Inspect(q, Head(call[q].todo), d) \/ LookUp(q, Head(call[q].todo), d)
      BY <1>1, <1>8 DEF SweepNext, ExtractMember, Call
    <2>2. Head(call[q].todo) \in File /\ Tail(call[q].todo) \in Seq(File)
      BY <2>1, HeadOfList
    <2>3. d \in Call
      BY <1>1, <2>2 DEF Call
    <2> HIDE DEF d
    <2>4. QED
      BY <1>2, <1>3, <2>1, <2>2, <2>3
  <1>9. QED
    BY <1>4, <1>5, <1>6, <1>7, <1>8 DEF Continue

\* Used by threads that take turns, the store has the bytes of every row,
\* however often an operation is cut off in the middle.
THEOREM BytesKept == Spec => BytesUnderRows
  <1>1. Init => SoloInv
    BY DEF Init, SoloInv, Idle
  <1>2. TypeOK /\ SoloInv /\ TakingTurns /\ TakingTurns' /\ [Next]_vars => SoloInv'
    <2> SUFFICES ASSUME TypeOK, SoloInv, TakingTurns, TakingTurns', [Next]_vars
                 PROVE  SoloInv'
      OBVIOUS
    <2>1. CASE UNCHANGED <<rows, objects, call>>
      BY <2>1 DEF SoloInv
    <2>2. ASSUME NEW q \in Proc, Invoke(q) \/ Continue(q) \/ Abort(q)
          PROVE  SoloInv'
      <3>1. /\ rows \subseteq objects
            /\ call[q].at = "register" => call[q].file \in objects
            /\ call[q].at = "unlink" => call[q].file \notin rows
        BY DEF SoloInv
      <3>2. rows' \subseteq objects'
        BY <2>2, <3>1, Footprint
      <3>3. /\ call'[q].at = "register" => call'[q].file \in objects'
            /\ call'[q].at = "unlink" => call'[q].file \notin rows'
        BY <2>2, <3>1, EnterRegister, Footprint
      <3>4. ASSUME NEW p \in Proc, p # q, call'[p].at \in {"register", "unlink"}
            PROVE  /\ call'[p].at = "register" => call'[p].file \in objects'
                   /\ call'[p].at = "unlink" => call'[p].file \notin rows'
        <4>1. call'[p] = call[p]
          BY <2>2, <3>4, OthersStay
        <4>2. call[q].at = "idle" /\ call'[q].at = "idle"
          BY <3>4, <4>1 DEF TakingTurns, At
        <4>3. UNCHANGED <<rows, objects>>
          BY <2>2, <4>2, Footprint
        <4>4. QED
          BY <4>1, <4>3 DEF SoloInv
      <3>5. QED
        BY <3>2, <3>3, <3>4 DEF SoloInv
    <2>3. QED
      BY <2>1, <2>2 DEF Next, Age, vars
  <1>3. SoloInv => rows \subseteq objects
    BY DEF SoloInv
  <1>4. Spec /\ []TakingTurns => [](rows \subseteq objects)
    BY <1>1, <1>2, <1>3, TypeCorrect, PTL DEF Spec
  <1>5. QED
    BY <1>4 DEF BytesUnderRows

-----------------------------------------------------------------------------
(* What no step does. *)

\* Only a forced delete removes a file with references or memberships, and a
\* reference ends only there or by its release.
THEOREM ReferencesKept == Spec => ReferencesProtect
  <1> DEFINE Rows == \A f \in rows \ rows' :
                         f \in Unreferenced \/ \E p \in Proc : call[p].force /\ call[p].file = f
             Refs == \A r \in refs \ refs' :
                         \E p \in Proc : /\ call[p].file = r[1]
                                         /\ \/ At(p, "release") /\ call[p].arg = r[2]
                                            \/ At(p, "remove") /\ call[p].force
  <1>1. TypeOK /\ [Next]_vars => [Rows]_vars
    <2> SUFFICES ASSUME TypeOK, Next, NEW f \in rows \ rows'
                 PROVE  \/ f \in Unreferenced
                        \/ \E p \in Proc : call[p].force /\ call[p].file = f
      BY DEF vars
    <2>1. PICK q \in Proc : Invoke(q) \/ Continue(q) \/ Abort(q)
      BY DEF Next, Age
    <2>2. CASE Remove(q)
      <3>1. f = call[q].file /\ ~Restricted(f)
        BY <2>2 DEF Remove, DeleteRow, db
      <3>2. QED
        BY <3>1 DEF Restricted, Unreferenced
    <2>3. CASE ForceRemove(q)
      BY <2>3 DEF ForceRemove, DeleteRow
    <2>4. CASE ~Remove(q) /\ ~ForceRemove(q)
      BY <2>1, <2>4 DEF Invoke, Put, LookUp, Delete, Inspect, Sweep, Announce,
         Extract, CollectionDelete, Continue, Publish, Register, Acknowledge,
         InsertRow, Unlink, SweepNext, SweepEnd, AddReference, ReleaseReference,
         ExtractMember, ExtractFail, ExtractCommit, Abort, db
    <2>5. QED
      BY <2>2, <2>3, <2>4
  <1>2. TypeOK /\ [Next]_vars => [Refs]_vars
    <2> SUFFICES ASSUME TypeOK, Next, NEW r \in refs \ refs'
                 PROVE  \E p \in Proc : /\ call[p].file = r[1]
                                        /\ \/ At(p, "release") /\ call[p].arg = r[2]
                                           \/ At(p, "remove") /\ call[p].force
      BY DEF vars
    <2>1. PICK q \in Proc : Invoke(q) \/ Continue(q) \/ Abort(q)
      BY DEF Next, Age
    <2>2. CASE ReleaseReference(q)
      BY <2>2 DEF ReleaseReference, TypeOK
    <2>3. CASE ForceRemove(q)
      BY <2>3 DEF ForceRemove, Unrefer
    <2>4. CASE ~ReleaseReference(q) /\ ~ForceRemove(q)
      BY <2>1, <2>4 DEF Invoke, Put, LookUp, Delete, Inspect, Sweep, Announce,
         Extract, CollectionDelete, Continue, Publish, Register, Acknowledge,
         Remove, Unlink, SweepNext, SweepEnd, AddReference,
         ExtractMember, ExtractFail, ExtractCommit, Abort, db
    <2>5. QED
      BY <2>2, <2>3, <2>4
  <1>3. [Rows]_vars /\ [Refs]_vars => [Rows /\ Refs]_vars
    OBVIOUS
  <1>4. TypeOK /\ [Next]_vars => [Rows /\ Refs]_vars
    BY <1>1, <1>2, <1>3
  <1> QED
    BY <1>4, TypeCorrect, PTL DEF Spec, ReferencesProtect

-----------------------------------------------------------------------------
(* The end of an operation. *)

\* The steps that are left of an operation: of the file it is at, and of each
\* file still on its list.
Left == [idle |-> 0, sweep |-> 1, extract |-> 1, reference |-> 1, release |-> 1,
         acknowledge |-> 2, unlink |-> 2, register |-> 3, remove |-> 3, store |-> 4]

StepsLeft(c) == 4 * Len(c.todo) + Left[c.at]

\* Every step of a thread in an operation brings it nearer to its end, and no
\* other thread's step sets it back.
StepsRunOut ==
    [][\A p \in Proc : \/ At(p, "idle") \/ call'[p] = call[p]
                       \/ StepsLeft(call'[p]) < StepsLeft(call[p])]_vars

LEMMA LeftValues ==
    /\ \A s \in Step : Left[s] \in 0..4 /\ (s # "idle" => Left[s] >= 1)
    /\ Left["idle"] = 0 /\ Left["sweep"] = 1 /\ Left["extract"] = 1
    /\ Left["acknowledge"] = 2 /\ Left["unlink"] = 2
    /\ Left["register"] = 3 /\ Left["remove"] = 3 /\ Left["store"] = 4
  BY DEF Left, Step

LEMMA ListFinite ==
    ASSUME NEW c \in Call
    PROVE  c.todo \in Seq(File) /\ Len(c.todo) \in Nat /\ StepsLeft(c) \in Nat
  <1>1. c.todo \in Seq(File) /\ c.at \in Step
    BY DEF Call
  <1>2. Len(c.todo) \in Nat
    BY <1>1, LenProperties
  <1>3. QED
    BY <1>1, <1>2, LeftValues DEF StepsLeft

\* A step with the same list, or that gives it up,
LEMMA FewerSteps ==
    ASSUME NEW c \in Call, NEW d \in Call,
           d.todo = c.todo \/ d.todo = <<>>, Left[d.at] < Left[c.at]
    PROVE  StepsLeft(d) < StepsLeft(c)
  <1> DEFINE m == Len(c.todo)
             n == Len(d.todo)
             x == Left[c.at]
             y == Left[d.at]
  <1>1. m \in Nat /\ Len(<<>>) = 0
    BY ListFinite, EmptySeq
  <1>2. n = m \/ n = 0
    BY <1>1
  <1>3. x \in Nat /\ y \in Nat /\ y < x
    BY LeftValues DEF Call
  <1>4. StepsLeft(c) = 4 * m + x /\ StepsLeft(d) = 4 * n + y
    BY DEF StepsLeft
  <1> HIDE DEF m, n, x, y
  <1>5. QED
    BY <1>1, <1>2, <1>3, <1>4

\* and one that takes a file from it.
LEMMA FewerFiles ==
    ASSUME NEW c \in Call, NEW d \in Call, c.todo # <<>>,
           d.todo = Tail(c.todo) \/ d.todo = <<>>, c.at # "idle"
    PROVE  StepsLeft(d) < StepsLeft(c)
  <1> DEFINE m == Len(c.todo)
             n == Len(d.todo)
             x == Left[c.at]
             y == Left[d.at]
  <1>1. m \in Nat \ {0} /\ Len(Tail(c.todo)) = m - 1 /\ Len(<<>>) = 0
    BY ListFinite, EmptySeq, HeadOfList
  <1>2. n = m - 1 \/ n = 0
    BY <1>1
  <1>3. x \in Nat /\ x >= 1 /\ y \in 0..4
    BY LeftValues DEF Call
  <1>4. StepsLeft(c) = 4 * m + x /\ StepsLeft(d) = 4 * n + y
    BY DEF StepsLeft
  <1> HIDE DEF m, n, x, y
  <1>5. QED
    BY <1>1, <1>2, <1>3, <1>4

LEMMA StepsDecrease ==
    ASSUME TypeOK, NEW p \in Proc, Continue(p) \/ Abort(p)
    PROVE  StepsLeft(call'[p]) < StepsLeft(call[p])
  <1> DEFINE c == call[p]
             Nearer(d) == /\ d \in Call /\ (d.todo = c.todo \/ d.todo = <<>>)
                          /\ Left[d.at] < Left[c.at]
  <1>1. c \in Call /\ call \in [Proc -> Call]
    BY DEF TypeOK
  <1>2. \A d : Goto(p, d) => call'[p] = d
    BY <1>1 DEF Goto
  <1>3. ASSUME NEW d, Goto(p, d), Nearer(d) PROVE StepsLeft(call'[p]) < StepsLeft(c)
    BY <1>1, <1>2, <1>3, FewerSteps
  <1>4. c.at # "idle" => Nearer(Idle)
    <2>1. Idle.at = "idle" /\ Idle.todo = <<>> /\ Idle \in Call
      BY IdleCall DEF Idle
    <2>2. c.at # "idle" => Left[c.at] >= 1 /\ Left[c.at] \in Nat
      BY <1>1, LeftValues DEF Call
    <2>3. QED
      BY <2>1, <2>2, LeftValues
  <1>5. \A s \in Step : Left[s] < Left[c.at] => Nearer([c EXCEPT !.at = s])
    BY <1>1 DEF Call
  <1>6. /\ c.at = "acknowledge" => Nearer(AfterPut(c))
        /\ c.at \in {"remove", "unlink"} => Nearer(AfterDelete(c)) /\ Nearer(AfterFileError(c))
    <2>1. c.at = "acknowledge" => Nearer([c EXCEPT !.at = "extract", !.file = None])
      <3> DEFINE d == [c EXCEPT !.at = "extract", !.file = None]
      <3>1. d \in Call
        BY <1>1 DEF Call, Step
      <3>2. d.todo = c.todo /\ d.at = "extract"
        BY <1>1 DEF Call
      <3> HIDE DEF d
      <3>3. Nearer(d) \/ c.at # "acknowledge"
        BY <3>1, <3>2, LeftValues
      <3>4. QED
        BY <3>3 DEF d
    <2>2. c.at \in {"remove", "unlink"}
            => Nearer([c EXCEPT !.at = "sweep", !.file = None, !.blocked = FALSE])
      <3> DEFINE d == [c EXCEPT !.at = "sweep", !.file = None, !.blocked = FALSE]
      <3>1. d \in Call
        BY <1>1 DEF Call, Step
      <3>2. d.todo = c.todo /\ d.at = "sweep"
        BY <1>1 DEF Call
      <3> HIDE DEF d
      <3>3. Nearer(d) \/ c.at \notin {"remove", "unlink"}
        BY <3>1, <3>2, LeftValues
      <3>4. QED
        BY <3>3 DEF d
    <2> HIDE DEF Nearer
    <2>3. QED
      BY <1>4, <2>1, <2>2 DEF AfterPut, AfterDelete, AfterFileError
  <1>7. CASE Publish(p) \/ Register(p)
    <2>1. \/ c.at = "store" /\ Goto(p, [c EXCEPT !.at = "register"])
          \/ c.at = "register" /\ Goto(p, [c EXCEPT !.at = "acknowledge"])
      BY <1>7 DEF Publish, Register, At
    <2>2. /\ c.at = "store" => Nearer([c EXCEPT !.at = "register"])
          /\ c.at = "register" => Nearer([c EXCEPT !.at = "acknowledge"])
      BY <1>5, LeftValues DEF Step
    <2> HIDE DEF Nearer
    <2>3. QED
      BY <1>3, <2>1, <2>2
  <1>8. CASE Acknowledge(p)
    <2>1. c.at = "acknowledge" /\ (Goto(p, AfterPut(c)) \/ Goto(p, Idle))
      BY <1>8 DEF Acknowledge, At
    <2> HIDE DEF Nearer
    <2>2. QED
      BY <1>3, <1>4, <1>6, <2>1
  <1>9. CASE Remove(p) \/ ForceRemove(p) \/ Unlink(p)
    <2>1. \/ c.at = "remove" /\ Goto(p, AfterFileError(c))
          \/ c.at = "remove" /\ Goto(p, Idle)
          \/ c.at = "remove" /\ Goto(p, [c EXCEPT !.at = "unlink"])
          \/ c.at = "unlink" /\ Goto(p, AfterDelete(c))
      BY <1>9 DEF Remove, ForceRemove, Unlink, At
    <2>2. c.at = "remove" => Nearer([c EXCEPT !.at = "unlink"])
      BY <1>5, LeftValues DEF Step
    <2> HIDE DEF Nearer
    <2>3. QED
      BY <1>3, <1>4, <1>6, <2>1, <2>2
  <1>10. ASSUME NEW f \in File, NEW d \in Call, c.todo # <<>>, d.todo = Tail(c.todo),
                c.at # "idle", Inspect(p, f, d) \/ LookUp(p, f, d)
         PROVE  StepsLeft(call'[p]) < StepsLeft(c)
    <2>1. ASSUME NEW s \in Step
          PROVE  /\ [d EXCEPT !.file = f, !.at = s] \in Call
                 /\ [d EXCEPT !.file = f, !.at = s].todo = d.todo
      BY DEF Call
    <2>2. ASSUME NEW s \in Step, NEW b \in BOOLEAN
          PROVE  /\ [d EXCEPT !.at = s, !.file = f, !.blocked = b] \in Call
                 /\ [d EXCEPT !.at = s, !.file = f, !.blocked = b].todo = d.todo
      BY DEF Call
    <2> DEFINE Shorter(e) == e \in Call /\ (e.todo = d.todo \/ e.todo = <<>>)
    <2>3. Shorter(AfterFileError(d))
      <3>1. /\ [d EXCEPT !.at = "sweep", !.file = None, !.blocked = FALSE] \in Call
            /\ [d EXCEPT !.at = "sweep", !.file = None, !.blocked = FALSE].todo = d.todo
        BY DEF Call, Step
      <3>2. Idle \in Call /\ Idle.todo = <<>>
        BY IdleCall
      <3>3. QED
        BY <3>1, <3>2 DEF AfterFileError, AfterDelete
    <2>4. Shorter(call'[p])
      <3>1. CASE Inspect(p, f, d)
        <4>1. (Referenced(f) \/ Collected(f)) \in BOOLEAN
          OBVIOUS
        <4>2. \/ call'[p] = AfterFileError(d)
              \/ \E b \in BOOLEAN : call'[p] = [d EXCEPT !.at = "remove", !.file = f,
                                                         !.blocked = b]
          BY <1>2, <3>1, <4>1 DEF Inspect
        <4>3. QED
          BY <2>2, <2>3, <4>2 DEF Step
      <3>2. CASE LookUp(p, f, d)
        <4>1. \E s \in {"register", "store"} : call'[p] = [d EXCEPT !.file = f, !.at = s]
          BY <1>2, <3>2 DEF LookUp
        <4>2. QED
          BY <2>1, <4>1 DEF Step
      <3>3. QED
        BY <1>10, <3>1, <3>2
    <2>5. QED
      BY <1>1, <1>10, <2>4, FewerFiles
  <1>11. CASE SweepNext(p) \/ ExtractMember(p)
    <2> DEFINE d == [c EXCEPT !.todo = Tail(c.todo)]
    <2>1. /\ c.todo # <<>> /\ c.at # "idle"
          /\ Inspect(p, Head(c.todo), d) \/ LookUp(p, Head(c.todo), d)
      BY <1>1, <1>11 DEF SweepNext, ExtractMember, At, Call
    <2>2. Head(c.todo) \in File /\ Tail(c.todo) \in Seq(File)
      BY <1>1, <2>1, HeadOfList DEF Call
    <2>3. d \in Call /\ d.todo = Tail(c.todo)
      BY <1>1, <2>2 DEF Call
    <2> HIDE DEF d
    <2>4. QED
      BY <1>10, <2>1, <2>2, <2>3
  <1>12. CASE \/ SweepEnd(p) \/ AddReference(p) \/ ReleaseReference(p)
              \/ ExtractFail(p) \/ ExtractCommit(p) \/ Abort(p)
    <2>1. Goto(p, Idle) /\ c.at # "idle"
      BY <1>12 DEF SweepEnd, AddReference, ReleaseReference, ExtractFail,
                   ExtractCommit, Abort, At
    <2> HIDE DEF Nearer
    <2>2. QED
      BY <1>3, <1>4, <2>1
  <1>13. QED
    BY <1>7, <1>8, <1>9, <1>11, <1>12 DEF Continue

\* Whatever the others do, an operation is over after a
\* number of its own steps that is settled when it starts.
THEOREM OperationsBounded ==
    Spec => [](\A p \in Proc : StepsLeft(call[p]) \in Nat) /\ StepsRunOut
  <1>1. TypeOK => \A p \in Proc : StepsLeft(call[p]) \in Nat
    BY ListFinite DEF TypeOK
  <1>2. TypeOK /\ [Next]_vars =>
          [\A p \in Proc : \/ At(p, "idle") \/ call'[p] = call[p]
                           \/ StepsLeft(call'[p]) < StepsLeft(call[p])]_vars
    <2> SUFFICES ASSUME TypeOK, Next, NEW p \in Proc, ~At(p, "idle")
                 PROVE  call'[p] = call[p] \/ StepsLeft(call'[p]) < StepsLeft(call[p])
      BY DEF vars
    <2>1. ASSUME NEW q \in Proc, Invoke(q) \/ Continue(q) \/ Abort(q), q # p
          PROVE  call'[p] = call[p]
      BY <2>1, OthersStay
    <2>2. ~Invoke(p)
      BY DEF Invoke, Put, Delete, Sweep, Announce, Extract, CollectionDelete
    <2>3. QED
      BY <2>1, <2>2, StepsDecrease DEF Next, Age
  <1>3. QED
    BY <1>1, <1>2, TypeCorrect, PTL DEF Spec, StepsRunOut

-----------------------------------------------------------------------------
(* The maintenance loop over the store. *)

\* The loop is one more client: the store it runs on is the store, and all that
\* is proved of the store holds of it.
THEOREM StoreUnderMaintenance == MSpec => Spec
  <1>1. MInit => Init
    BY DEF MInit
  <1>2. [MNext]_mvars => [Next]_vars
    <2> SUFFICES ASSUME [MNext]_mvars PROVE [Next]_vars
      OBVIOUS
    <2>1. CASE Wake \/ TrimLog \/ TrimFail \/ Toggle \/ UNCHANGED mvars
      BY <2>1 DEF Wake, TrimLog, TrimFail, Toggle, mvars
    <2>2. CASE CleanFiles
      BY <2>2, JanitorAssumption DEF CleanFiles, Next, Invoke
    <2>3. CASE StoreStep
      BY <2>3 DEF StoreStep, Next
    <2>4. QED
      BY <2>1, <2>2, <2>3 DEF MNext
  <1>3. QED
    BY <1>1, <1>2, PTL DEF MSpec, Spec

\* In an operation a thread stays who it is, and as forceful.
LEMMA CallerStays ==
    ASSUME TypeOK, NEW p \in Proc, Continue(p) \/ Abort(p)
    PROVE  \/ call'[p].at = "idle"
           \/ call'[p].by = call[p].by /\ call'[p].force = call[p].force
  <1> DEFINE c == call[p]
             Same(d) == d.at = "idle" \/ (d.by = c.by /\ d.force = c.force)
  <1>1. c \in Call /\ call \in [Proc -> Call]
    BY DEF TypeOK
  <1>2. \A d : Goto(p, d) => call'[p] = d
    BY <1>1 DEF Goto
  <1>3. Same(Idle)
    BY DEF Idle
  <1>4. Same(AfterPut(c)) /\ Same(AfterDelete(c)) /\ Same(AfterFileError(c))
    <2>1. Same([c EXCEPT !.at = "extract", !.file = None])
      BY <1>1 DEF Call
    <2>2. Same([c EXCEPT !.at = "sweep", !.file = None, !.blocked = FALSE])
      BY <1>1 DEF Call
    <2> HIDE DEF Same
    <2>3. QED
      BY <1>3, <2>1, <2>2 DEF AfterPut, AfterDelete, AfterFileError
  <1>5. \A s : Same([c EXCEPT !.at = s])
    BY <1>1 DEF Call
  <1>6. CASE SweepNext(p) \/ ExtractMember(p)
    <2> DEFINE f == Head(c.todo)
               d == [c EXCEPT !.todo = Tail(c.todo)]
    <2>1. c.todo \in Seq(File) /\ c.todo # <<>> /\ (Inspect(p, f, d) \/ LookUp(p, f, d))
      BY <1>1, <1>6 DEF SweepNext, ExtractMember, Call
    <2>0. f \in File /\ Tail(c.todo) \in Seq(File)
      BY <2>1, HeadOfList
    <2>2. d \in Call /\ d.by = c.by /\ d.force = c.force
      BY <1>1, <2>0 DEF Call
    <2>3. Inspect(p, f, d) \/ LookUp(p, f, d)
      BY <2>1
    <2> HIDE DEF d
    <2>4. \A s : Same([d EXCEPT !.file = f, !.at = s])
      BY <2>2 DEF Call
    <2>5. \A b : Same([d EXCEPT !.at = "remove", !.file = f, !.blocked = b])
      BY <2>2 DEF Call
    <2>6. Same(AfterFileError(d))
      <3>1. Same([d EXCEPT !.at = "sweep", !.file = None, !.blocked = FALSE])
        BY <2>2 DEF Call
      <3> HIDE DEF Same
      <3>2. QED
        BY <1>3, <3>1 DEF AfterFileError, AfterDelete
    <2>7. Same(call'[p])
      <3> HIDE DEF Same
      <3>1. CASE Inspect(p, f, d)
        <4>1. \/ call'[p] = AfterFileError(d)
              \/ \E b : call'[p] = [d EXCEPT !.at = "remove", !.file = f, !.blocked = b]
          BY <1>2, <3>1 DEF Inspect
        <4>2. QED
          BY <2>5, <2>6, <4>1
      <3>2. CASE LookUp(p, f, d)
        BY <1>2, <2>4, <3>2 DEF LookUp
      <3>3. QED
        BY <2>3, <3>1, <3>2
    <2>8. QED
      BY <2>7
  <1>7. CASE ~SweepNext(p) /\ ~ExtractMember(p)
    <2>1. \/ Goto(p, AfterPut(c)) \/ Goto(p, AfterDelete(c)) \/ Goto(p, AfterFileError(c))
          \/ Goto(p, Idle) \/ \E s : Goto(p, [c EXCEPT !.at = s])
      BY <1>7 DEF Continue, Publish, Register, Acknowledge, Remove, ForceRemove, Unlink,
                  SweepEnd, AddReference, ReleaseReference, ExtractFail, ExtractCommit,
                  Abort
    <2>2. Same(call'[p])
      <3> HIDE DEF Same
      <3>1. QED
        BY <1>2, <1>3, <1>4, <1>5, <2>1
    <2>3. QED
      BY <2>2
  <1>8. QED
    BY <1>6, <1>7

\* The loop's thread is idle while the loop does something else, and cleans up
\* without force otherwise.
LoopSafe ==
    /\ cycle # "asleep" => At(Janitor, "idle")
    /\ At(Janitor, "idle") \/ (call[Janitor].by = "cleanup" /\ ~call[Janitor].force)

\* What the loop's thread does never takes a file that somebody refers to, nor
\* a reference, a membership or a collection, though it decides from a list
\* that it has read before.
LoopTakesUnreferenced ==
    [][call'[Janitor] # call[Janitor] =>
          /\ rows \ rows' \subseteq Unreferenced
          /\ UNCHANGED <<refs, colls, items>>]_mvars

LEMMA LoopStep ==
    ASSUME TypeOK, LoopSafe, [MNext]_mvars
    PROVE  /\ LoopSafe'
           /\ call'[Janitor] # call[Janitor] =>
                 rows \ rows' \subseteq Unreferenced /\ UNCHANGED <<refs, colls, items>>
  <1>1. call \in [Proc -> Call] /\ Janitor \in Proc
    BY JanitorAssumption DEF TypeOK
  <1>2. CASE Wake \/ TrimLog \/ TrimFail \/ Toggle \/ UNCHANGED mvars
    BY <1>2 DEF Wake, TrimLog, TrimFail, Toggle, mvars, vars, loop, LoopSafe, At
  <1>3. CASE CleanFiles
    <2>1. /\ cycle' = "asleep" /\ UNCHANGED db
          /\ \E s : Goto(Janitor, [Idle EXCEPT !.at = "sweep", !.by = "cleanup", !.todo = s])
      BY <1>3 DEF CleanFiles, Sweep
    <2>2. call'[Janitor].by = "cleanup" /\ ~call'[Janitor].force
      BY <1>1, <2>1 DEF Goto, Idle
    <2>3. QED
      BY <2>1, <2>2 DEF LoopSafe, db
  <1>4. CASE StoreStep
    <2>1. UNCHANGED cycle
      BY <1>4 DEF StoreStep, loop
    <2>2. ASSUME NEW q \in Proc, q # Janitor, Invoke(q) \/ Continue(q) \/ Abort(q)
          PROVE  call'[Janitor] = call[Janitor]
      BY <1>1, <2>2, OthersStay
    <2>3. ASSUME Continue(Janitor) \/ Abort(Janitor)
          PROVE  LoopSafe' /\ rows \ rows' \subseteq Unreferenced
                 /\ UNCHANGED <<refs, colls, items>>
      <3>1. ~At(Janitor, "idle")
        BY <2>3 DEF Continue, Publish, Register, Acknowledge, Remove, ForceRemove, Unlink,
           SweepNext, SweepEnd, AddReference, ReleaseReference, ExtractMember,
           ExtractFail, ExtractCommit, Abort, At
      <3>2. call[Janitor].by = "cleanup" /\ ~call[Janitor].force /\ cycle = "asleep"
        BY <3>1 DEF LoopSafe
      <3>3. LoopSafe'
        BY <1>1, <2>1, <2>3, <3>2, CallerStays DEF LoopSafe, At
      <3>4. call[Janitor].at \in {"sweep", "remove", "unlink"}
        <4>1. LocalsOK(call[Janitor]) /\ call[Janitor].at \in Step
          BY <1>1 DEF TypeOK, Call
        <4>2. QED
          BY <3>1, <3>2, <4>1 DEF LocalsOK, Step, At
      <3>5. CASE Remove(Janitor)
        <4>1. /\ \A f \in rows \ rows' : f = call[Janitor].file /\ ~Restricted(f)
              /\ UNCHANGED <<refs, colls, items>>
          BY <3>5 DEF Remove, DeleteRow, db
        <4>2. QED
          BY <3>3, <4>1 DEF Restricted, Unreferenced
      <3>6. CASE ~Remove(Janitor)
        <4>1. UNCHANGED <<rows, refs, colls, items>>
          BY <2>3, <3>2, <3>4, <3>6
             DEF Continue, Publish, Register, InsertRow, Acknowledge, ForceRemove, Unlink,
                 SweepNext, SweepEnd, AddReference, ReleaseReference, ExtractMember,
                 ExtractFail, ExtractCommit, Abort, Inspect, At, db
        <4>2. QED
          BY <3>3, <4>1
      <3>7. QED
        BY <3>5, <3>6
    <2>4. ASSUME call'[Janitor] = call[Janitor] PROVE LoopSafe'
      BY <2>1, <2>4 DEF LoopSafe, At
    <2>5. ASSUME NEW f \in File, Age(f) PROVE call'[Janitor] = call[Janitor]
      BY <2>5 DEF Age
    <2>6. QED
      BY <1>4, <2>2, <2>3, <2>4, <2>5 DEF StoreStep
  <1>5. QED
    BY <1>2, <1>3, <1>4 DEF MNext

\* No cleanup of the loop takes what is referred to.
THEOREM LoopHarmless == MSpec => LoopTakesUnreferenced
  <1> DEFINE Kept == call'[Janitor] # call[Janitor] =>
                        rows \ rows' \subseteq Unreferenced /\ UNCHANGED <<refs, colls, items>>
  <1>1. MInit => LoopSafe
    BY JanitorAssumption DEF MInit, Init, LoopSafe, At, Idle
  <1>2. TypeOK /\ LoopSafe /\ [MNext]_mvars => LoopSafe' /\ [Kept]_mvars
    BY LoopStep
  <1>3. MSpec => []TypeOK
    BY TypeCorrect, StoreUnderMaintenance, PTL
  <1>4. QED
    BY <1>1, <1>2, <1>3, PTL DEF MSpec, LoopTakesUnreferenced

\* Among the loop and its failures too, what the store promises holds, and every
\* operation is bounded.
THEOREM MaintainedStore ==
    /\ MSpec => []ReferentialIntegrity /\ []CollectionsWhole /\ []NoOrphanBytes
    /\ MSpec => ReferencesProtect /\ BytesUnderRows /\ StepsRunOut
  <1>1. /\ Spec => []ReferentialIntegrity /\ []CollectionsWhole /\ []NoOrphanBytes
        /\ Spec => ReferencesProtect /\ BytesUnderRows /\ StepsRunOut
    BY Integrity, Wholeness, OrphansOwned, ReferencesKept, BytesKept, OperationsBounded
  <1>2. QED
    BY <1>1, StoreUnderMaintenance
=============================================================================
