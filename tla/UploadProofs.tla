---------------------------- MODULE UploadProofs ----------------------------
(* Theorems about UploadSessions, for every set of threads, of uploads and  *)
(* of contents and for every bound on chunks and aborts.                    *)
EXTENDS UploadSessions, SequenceTheorems, TLAPS

-----------------------------------------------------------------------------
(* What an append does to a part file. *)

\* t is what a part file s of upload u may become: longer by at least a byte,
\* no longer than declared, and still a prefix of an honest client's content.
Grown(u, s, t) ==
    /\ t \in Seq(Byte)
    /\ Len(s) < Len(t) /\ Len(t) <= Size[u]
    /\ SubSeq(t, 1, Len(s)) = s
    /\ u \in Honest => t = SubSeq(Content[u], 1, Len(t))

LEMMA ContentType ==
    ASSUME NEW u \in Upload
    PROVE  /\ Content[u] \in Seq(Byte) /\ Size[u] = Len(Content[u])
           /\ Size[u] \in Nat /\ Content[u] # None
  BY UploadAssumption DEF Size

\* A chunk is a sequence of bytes, and an honest one the content's own bytes
\* from its offset on.
LEMMA ChunkType ==
    ASSUME NEW u \in Upload, NEW offset \in 0..Size[u],
           NEW chunk \in Chunks(u, offset)
    PROVE  /\ chunk \in Seq(Byte)
           /\ u \in Honest =>
                \E e \in offset..Size[u] :
                   /\ chunk = SubSeq(Content[u], offset + 1, e)
                   /\ Len(chunk) = e - offset
  <1>1. CASE u \in Honest
    <2>1. PICK k \in 1..MaxChunk :
             chunk = SubSeq(Content[u], offset + 1, Least(offset + k, Size[u]))
      BY <1>1 DEF Chunks
    <2> DEFINE e == Least(offset + k, Size[u])
    <2>2. /\ Size[u] \in Nat /\ offset \in Nat /\ k \in Nat \ {0}
          /\ offset <= Size[u]
      BY ContentType, UploadAssumption
    <2>3. e \in offset..Size[u]
      BY <2>2 DEF Least
    <2>4. \A i \in offset + 1 .. e : Content[u][i] \in Byte
      BY <2>2, <2>3, ContentType
    <2>5. /\ SubSeq(Content[u], offset + 1, e) \in Seq(Byte)
          /\ Len(SubSeq(Content[u], offset + 1, e)) = e - offset
      <3> HIDE DEF e
      <3>1. offset + 1 \in Int /\ e \in Int
        BY <2>2, <2>3
      <3>2. QED
        BY <2>2, <2>3, <2>4, <3>1, SubSeqProperties
    <2>6. QED
      BY <2>1, <2>3, <2>5
  <1>2. CASE u \notin Honest
    <2>1. PICK k \in 1..MaxChunk : chunk \in [1..k -> Byte]
      BY <1>2 DEF Chunks
    <2>2. QED
      BY <1>2, <2>1, UploadAssumption
  <1>3. QED
    BY <1>1, <1>2

\* The part of an accepted chunk that reaches the disk, which is all of it
\* unless the write is torn, grows the part file.
LEMMA AcceptedGrows ==
    ASSUME TypeOK, NoSplice, NEW u \in Upload, NEW offset \in 0..Size[u],
           NEW chunk \in Chunks(u, offset), Accepts(u, offset, chunk),
           NEW n \in 1..Len(chunk)
    PROVE  /\ part[u] \in Seq(Byte) /\ offset = Len(part[u])
           /\ Grown(u, part[u], part[u] \o SubSeq(chunk, 1, n))
           /\ Len(part[u] \o SubSeq(chunk, 1, n)) = offset + n
  <1> DEFINE s == part[u]
             t == SubSeq(chunk, 1, n)
  <1>1. s \in Seq(Byte) /\ row[u].received \in Nat
    BY DEF TypeOK, Accepts, Sound, Row
  <1>2. chunk \in Seq(Byte) /\ Size[u] \in Nat
    BY ChunkType, ContentType
  <1>3. /\ offset = Len(s) /\ offset + Len(chunk) <= Size[u]
        /\ Len(s) \in Nat /\ Len(chunk) \in Nat
    BY <1>1, <1>2, UploadAssumption DEF Accepts, Sound, Reconciled, TypeOK, Row
  <1>4. n \in Nat \ {0} /\ n <= Len(chunk)
    BY <1>3
  <1>5. t \in Seq(Byte) /\ Len(t) = n
    <2>1. \A i \in 1..n : chunk[i] \in Byte
      BY <1>2, <1>4
    <2>2. QED
      BY <1>4, <2>1, SubSeqProperties
  <1>6. s \o t \in Seq(Byte) /\ Len(s \o t) = offset + n
    BY <1>1, <1>3, <1>5, ConcatProperties
  <1>7. SubSeq(s \o t, 1, Len(s)) = s
    <2>1. CASE Len(s) = 0
      BY <1>1, <1>6, <2>1
    <2>2. CASE Len(s) # 0
      <3>1. 1 \in 1..Len(s) /\ Len(s) \in 1..Len(s)
        BY <1>3, <2>2
      <3>2. SubSeq(s \o t, 1, Len(s)) = SubSeq(s, 1, Len(s))
        BY <1>1, <1>5, <3>1, SubSeqOfConcat1
      <3>3. QED
        BY <1>1, <3>2, SubSeqFull
    <2>3. QED
      BY <2>1, <2>2
  <1>8. ASSUME u \in Honest
        PROVE  s \o t = SubSeq(Content[u], 1, offset + n)
    <2>1. PICK e \in offset..Size[u] : /\ chunk = SubSeq(Content[u], offset + 1, e)
                                       /\ Len(chunk) = e - offset
      BY <1>8, ChunkType
    <2>2. t = SubSeq(Content[u], offset + 1, offset + n)
      <3> DEFINE w == Content[u]
      <3>1. /\ w \in Seq(Byte) /\ Len(w) = Size[u] /\ offset \in Nat
            /\ e \in offset..Size[u] /\ n <= e - offset
        BY <1>2, <1>3, <1>4, <2>1, ContentType
      <3> HIDE DEF w
      <3>2. /\ offset + 1 \in 1..Len(w) /\ e \in 1..Len(w)
            /\ 1 \in 1 .. e - (offset + 1) + 1 /\ n \in 1 .. e - (offset + 1) + 1
        BY <1>2, <1>4, <3>1
      <3>3. SubSeq(SubSeq(w, offset + 1, e), 1, n)
               = SubSeq(w, offset + 1 + 1 - 1, offset + 1 + n - 1)
        BY <3>1, <3>2, SubSeqOfSubSeq
      <3>4. offset + 1 + 1 - 1 = offset + 1 /\ offset + 1 + n - 1 = offset + n
        BY <1>4, <3>1
      <3>5. QED
        BY <2>1, <3>3, <3>4 DEF w
    <2>3. s = SubSeq(Content[u], 1, offset)
      BY <1>1, <1>3, <1>8, UploadAssumption DEF NoSplice
    <2>4. /\ Content[u] \in Seq(Byte) /\ offset \in Nat
          /\ 1 \in 1 .. Len(Content[u]) + 1
          /\ offset \in 1 - 1 .. Len(Content[u])
          /\ offset + n \in offset .. Len(Content[u])
      BY <1>2, <1>3, <1>4, ContentType
    <2>5. SubSeq(Content[u], 1, offset) \o SubSeq(Content[u], offset + 1, offset + n)
             = SubSeq(Content[u], 1, offset + n)
      BY <2>4, ConcatAdjacentSubSeq
    <2>6. QED
      BY <2>2, <2>3, <2>5
  <1>9. QED
    <2> HIDE DEF s, t
    <2>1. Grown(u, s, s \o t)
      BY <1>2, <1>3, <1>4, <1>6, <1>7, <1>8 DEF Grown
    <2>2. QED
      BY <1>1, <1>3, <1>6, <2>1 DEF s, t

-----------------------------------------------------------------------------
(* What a step may do to an upload: one disjunct per transition of its row  *)
(* and its part file, whichever thread makes it.                            *)

\* A begin of upload u ends in this step.
BeginEnds(u) == \E p \in Proc : /\ At(p, "insert") /\ call[p].upload = u
                                /\ call'[p] = Idle

Kept(u)      == row'[u] = row[u] /\ part'[u] = part[u]
Touched(u)   == /\ row[u].state = "unused" /\ part[u] = None
                /\ row'[u] = row[u] /\ part'[u] = <<>>
Opened(u)    == /\ BeginEnds(u)
                /\ row'[u] = [Unused EXCEPT !.state = "open"] /\ part'[u] = part[u]
Untouched(u) == /\ BeginEnds(u)
                /\ row'[u] = row[u] /\ part'[u] = None
Adopted(u)   == /\ row[u].state = "open" /\ Sound(u)
                /\ row'[u] = Reconciled(u) /\ part'[u] = part[u]
Written(u)   == /\ row[u].state = "open" /\ Sound(u)
                /\ Grown(u, part[u], part'[u])
                /\ row'[u] = [row[u] EXCEPT !.received = Len(part'[u]), !.stale = FALSE]
Torn(u)      == /\ row[u].state = "open" /\ Sound(u)
                /\ Grown(u, part[u], part'[u]) /\ row'[u] = row[u]
Completed(u) == /\ row[u].state = "open" /\ Sound(u) /\ Len(part[u]) = Size[u]
                /\ u \in Checked \cup Honest => part[u] = Content[u]
                /\ row'[u] = [state |-> "completed", received |-> Size[u],
                              file |-> part[u], stale |-> FALSE]
                /\ part'[u] = part[u]
Dropped(u)   == Present(u) /\ row'[u] = Gone /\ part'[u] = part[u]
Grizzled(u)  == /\ Present(u)
                /\ row'[u] = [row[u] EXCEPT !.stale = TRUE] /\ part'[u] = part[u]
Unlinked(u)  == /\ row[u].state \in {"completed", "gone"}
                /\ row'[u] = row[u] /\ part'[u] = None

UploadStep(u) ==
    \/ Kept(u) \/ Touched(u) \/ Opened(u) \/ Untouched(u) \/ Adopted(u)
    \/ Written(u) \/ Torn(u) \/ Completed(u) \/ Dropped(u) \/ Grizzled(u)
    \/ Unlinked(u)

Lifecycle ==
    /\ row' = [u \in Upload |-> row'[u]]
    /\ part' = [u \in Upload |-> part'[u]]
    /\ \A u \in Upload : UploadStep(u)
    /\ \E u : \A w \in Upload \ {u} : Kept(w)

\* A step that leaves row and part alone, or changes those of one upload.
LEMMA NoUpload ==
    ASSUME TypeOK, UNCHANGED <<row, part>>
    PROVE  Lifecycle
  BY DEF TypeOK, Lifecycle, UploadStep, Kept

LEMMA OneUpload ==
    ASSUME TypeOK, NEW u \in Upload, NEW r, NEW s,
           row' = [row EXCEPT ![u] = r], part' = [part EXCEPT ![u] = s],
           UploadStep(u)
    PROVE  Lifecycle
  <1>1. /\ row' = [w \in Upload |-> row'[w]]
        /\ part' = [w \in Upload |-> part'[w]]
    BY DEF TypeOK
  <1>2. ASSUME NEW w \in Upload PROVE UploadStep(w)
    <2>1. CASE w = u
      BY <2>1
    <2>2. CASE w # u
      BY <2>2 DEF TypeOK, UploadStep, Kept
    <2>3. QED
      BY <2>1, <2>2
  <1>3. \A w \in Upload \ {u} : Kept(w)
    BY DEF TypeOK, Kept
  <1>4. QED
    BY <1>1, <1>2, <1>3 DEF Lifecycle

LEMMA RowOnly ==
    ASSUME TypeOK, NEW u \in Upload, NEW r, SetRow(u, r), UNCHANGED part,
           UploadStep(u)
    PROVE  Lifecycle
  <1>1. part' = [part EXCEPT ![u] = part[u]]
    BY DEF TypeOK
  <1>2. QED
    BY <1>1, OneUpload DEF SetRow

LEMMA PartOnly ==
    ASSUME TypeOK, NEW u \in Upload, NEW s, SetPart(u, s), UNCHANGED row,
           UploadStep(u)
    PROVE  Lifecycle
  <1>1. row' = [row EXCEPT ![u] = row[u]]
    BY DEF TypeOK
  <1>2. QED
    BY <1>1, OneUpload DEF SetPart

\* A write that is accepted changes its upload as Written or Torn say.
LEMMA WriteLifecycle ==
    ASSUME UploadInv, NEW p \in Proc, NEW u \in Upload,
           Write(p, u) \/ WriteTorn(p, u)
    PROVE  Lifecycle
  <1> USE DEF UploadInv
  <1>1. CASE Write(p, u)
    <2>0. PICK offset \in 0..Size[u] : \E chunk \in Chunks(u, offset) :
             /\ Accepts(u, offset, chunk)
             /\ SetPart(u, part[u] \o chunk)
             /\ SetRow(u, [row[u] EXCEPT !.received = offset + Len(chunk),
                                         !.stale = FALSE])
      BY <1>1 DEF Write
    <2>1. PICK chunk \in Chunks(u, offset) :
             /\ Accepts(u, offset, chunk)
             /\ SetPart(u, part[u] \o chunk)
             /\ SetRow(u, [row[u] EXCEPT !.received = offset + Len(chunk),
                                         !.stale = FALSE])
      BY <2>0
    <2>2. chunk \in Seq(Byte) /\ Len(chunk) \in 1..Len(chunk)
      <3>1. chunk \in Seq(Byte) /\ chunk # <<>>
        BY <2>1, ChunkType DEF Accepts
      <3>2. Len(chunk) \in Nat /\ Len(chunk) # 0
        BY <3>1
      <3>3. QED
        BY <3>1, <3>2
    <2>3. SubSeq(chunk, 1, Len(chunk)) = chunk
      BY <2>2, SubSeqFull
    <2>4. /\ Grown(u, part[u], part[u] \o chunk)
          /\ Len(part[u] \o chunk) = offset + Len(chunk)
      <3>1. \A n \in 1..Len(chunk) :
               /\ Grown(u, part[u], part[u] \o SubSeq(chunk, 1, n))
               /\ Len(part[u] \o SubSeq(chunk, 1, n)) = offset + n
        BY <2>1, AcceptedGrows
      <3>2. QED
        BY <2>2, <2>3, <3>1
    <2>5. row[u].state = "open" /\ Sound(u)
      BY <2>1 DEF Accepts
    <2>6. part'[u] = part[u] \o chunk
      BY <2>1 DEF SetPart, TypeOK
    <2>7. row'[u] = [row[u] EXCEPT !.received = Len(part[u] \o chunk), !.stale = FALSE]
      BY <2>1, <2>4 DEF SetRow, TypeOK
    <2>8. UploadStep(u)
      BY <2>4, <2>5, <2>6, <2>7 DEF UploadStep, Written
    <2>9. QED
      BY <2>1, <2>8, OneUpload DEF SetRow, SetPart
  <1>2. CASE WriteTorn(p, u)
    <2>0. PICK offset \in 0..Size[u] : \E chunk \in Chunks(u, offset) :
             /\ Accepts(u, offset, chunk)
             /\ \E n \in 1..Len(chunk) : SetPart(u, part[u] \o SubSeq(chunk, 1, n))
      BY <1>2 DEF WriteTorn
    <2>1. PICK chunk \in Chunks(u, offset) :
             /\ Accepts(u, offset, chunk)
             /\ \E n \in 1..Len(chunk) : SetPart(u, part[u] \o SubSeq(chunk, 1, n))
      BY <2>0
    <2>2. PICK n \in 1..Len(chunk) : SetPart(u, part[u] \o SubSeq(chunk, 1, n))
      BY <2>1
    <2>3. Grown(u, part[u], part[u] \o SubSeq(chunk, 1, n))
      BY <2>1, <2>2, AcceptedGrows
    <2>4. row[u].state = "open" /\ Sound(u)
      BY <2>1 DEF Accepts
    <2>5. row'[u] = row[u] /\ part'[u] = part[u] \o SubSeq(chunk, 1, n)
      BY <1>2, <2>2 DEF WriteTorn, SetPart, TypeOK
    <2>6. UploadStep(u)
      BY <2>3, <2>4, <2>5 DEF UploadStep, Torn
    <2>7. QED
      BY <1>2, <2>2, <2>6, PartOnly DEF WriteTorn
  <1>3. QED
    BY <1>1, <1>2

\* Every step keeps to these transitions.
LEMMA NextLifecycle ==
    ASSUME UploadInv, Next
    PROVE  Lifecycle
  <1> USE DEF UploadInv
  <1>1. ASSUME NEW p \in Proc, NEW u \in Upload,
               \/ Touch(p, u) \/ Status(p, u) \/ Write(p, u) \/ WriteTorn(p, u)
               \/ FinishStatus(p, u) \/ Cancel(p, u)
        PROVE  Lifecycle
    <2>1. CASE Touch(p, u)
      <3>1. UploadStep(u)
        BY <2>1 DEF Touch, SetPart, TypeOK, UploadStep, Touched
      <3>2. QED
        BY <2>1, <3>1, PartOnly DEF Touch
    <2>2. CASE Status(p, u)
      <3>1. UploadStep(u)
        BY <2>2 DEF Status, SetRow, TypeOK, UploadStep, Adopted
      <3>2. QED
        BY <2>2, <3>1, RowOnly DEF Status
    <2>3. CASE Write(p, u) \/ WriteTorn(p, u)
      BY <2>3, WriteLifecycle
    <2>4. CASE FinishStatus(p, u)
      <3>1. CASE UNCHANGED row
        BY <2>4, <3>1, NoUpload DEF FinishStatus
      <3>2. CASE row[u].state = "open" /\ Sound(u) /\ SetRow(u, Reconciled(u))
        <4>1. UploadStep(u)
          BY <2>4, <3>2 DEF FinishStatus, SetRow, TypeOK, UploadStep, Adopted
        <4>2. QED
          BY <2>4, <3>2, <4>1, RowOnly DEF FinishStatus
      <3>3. QED
        BY <2>4, <3>1, <3>2 DEF FinishStatus
    <2>5. CASE Cancel(p, u)
      <3>1. UploadStep(u)
        BY <2>5 DEF Cancel, SetRow, TypeOK, UploadStep, Dropped, Present
      <3>2. QED
        BY <2>5, <3>1, RowOnly DEF Cancel
    <2>6. QED
      BY <1>1, <2>1, <2>2, <2>3, <2>4, <2>5
  <1>2. ASSUME NEW p \in Proc,
               \/ Insert(p) \/ InsertFail(p)
               \/ Receipt(p) \/ Hash(p) \/ Store(p) \/ Commit(p) \/ Discard(p)
               \/ Cleanup(p) \/ CleanupItem(p) \/ Abort(p)
        PROVE  Lifecycle
    <2> DEFINE u == call[p].upload
    <2>1. CASE Insert(p)
      <3>1. u \in Upload /\ UploadStep(u)
        BY <2>1 DEF Insert, SetRow, Goto, TypeOK, At, UploadStep, Opened, BeginEnds
      <3>2. QED
        BY <2>1, <3>1, RowOnly DEF Insert
    <2>2. CASE InsertFail(p)
      <3>1. u \in Upload /\ UploadStep(u)
        BY <2>2 DEF InsertFail, SetPart, Goto, TypeOK, At, UploadStep, Untouched, BeginEnds
      <3>2. QED
        BY <2>2, <3>1, PartOnly DEF InsertFail
    <2>3. CASE Receipt(p) \/ Discard(p)
      <3>1. u \in Upload /\ UploadStep(u)
        BY <2>3 DEF Receipt, Discard, SetPart, TypeOK, At, ThreadOK, UploadStep, Unlinked
      <3>2. QED
        BY <2>3, <3>1, PartOnly DEF Receipt, Discard
    <2>4. CASE Hash(p) \/ Store(p) \/ Cleanup(p) \/ Abort(p)
      BY <2>4, NoUpload DEF Hash, Store, Cleanup, Abort
    <2>5. CASE Commit(p)
      <3>1. CASE UNCHANGED row
        BY <2>5, <3>1, NoUpload DEF Commit
      <3>2. CASE ~ UNCHANGED row
        <4>1. /\ row[u].state = "open" /\ Sound(u) /\ Reconciled(u).received = Size[u]
              /\ SetRow(u, [state |-> "completed", received |-> Size[u],
                            file |-> call[p].data, stale |-> FALSE])
          BY <2>5, <3>2 DEF Commit
        <4>2. u \in Upload /\ part[u] = call[p].data /\ Len(part[u]) = Size[u]
              /\ (u \in Checked \cup Honest => part[u] = Content[u])
          BY <2>5, <4>1 DEF Commit, TypeOK, At, ThreadOK, Sound
        <4>3. UploadStep(u)
          BY <2>5, <4>1, <4>2 DEF Commit, SetRow, TypeOK, UploadStep, Completed
        <4>4. QED
          BY <2>5, <4>1, <4>2, <4>3, RowOnly DEF Commit
      <3>3. QED
        BY <3>1, <3>2
    <2>6. CASE CleanupItem(p)
      <3>1. CASE UNCHANGED row
        BY <2>6, <3>1, NoUpload DEF CleanupItem
      <3>2. CASE ~ UNCHANGED row
        <4>1. PICK w \in call[p].todo : Present(w) /\ SetRow(w, Gone)
          BY <2>6, <3>2 DEF CleanupItem
        <4>2. w \in Upload
          BY DEF TypeOK, Call
        <4>3. UploadStep(w)
          BY <2>6, <4>1, <4>2 DEF CleanupItem, SetRow, TypeOK, UploadStep, Dropped
        <4>4. QED
          BY <2>6, <4>1, <4>2, <4>3, RowOnly DEF CleanupItem
      <3>3. QED
        BY <3>1, <3>2
    <2>7. QED
      BY <1>2, <2>1, <2>2, <2>3, <2>4, <2>5, <2>6
  <1>3. ASSUME NEW u \in Upload, Age(u)
        PROVE  Lifecycle
    <2>1. UploadStep(u)
      BY <1>3 DEF Age, SetRow, TypeOK, UploadStep, Grizzled
    <2>2. QED
      BY <1>3, <2>1, RowOnly DEF Age
  <1>4. CASE Forget
    BY <1>4, NoUpload DEF Forget
  <1>5. QED
    BY <1>1, <1>2, <1>3, <1>4 DEF Next

-----------------------------------------------------------------------------
(* What the transitions preserve. *)

LEMMA SoundFacts ==
    ASSUME TypeOK, NEW u \in Upload, Sound(u)
    PROVE  /\ part[u] \in Seq(Byte) /\ Len(part[u]) \in Nat
           /\ Reconciled(u) = [row[u] EXCEPT !.received = Len(part[u]),
                                             !.stale = Reconciled(u).stale]
           /\ Reconciled(u).stale \in BOOLEAN
           /\ Len(part[u]) <= Size[u]
  <1>1. /\ part[u] \in Seq(Byte) /\ Len(part[u]) \in Nat
        /\ row[u] \in Row /\ row[u].received \in Nat
        /\ row[u].received <= Len(part[u]) /\ Len(part[u]) <= Size[u]
    BY DEF TypeOK, Sound, Row
  <1>2. CASE Len(part[u]) > row[u].received
    BY <1>1, <1>2 DEF Reconciled, Row
  <1>3. CASE ~(Len(part[u]) > row[u].received)
    <2>1. row[u].received = Len(part[u])
      BY <1>1, <1>3
    <2>2. row[u] = [row[u] EXCEPT !.received = Len(part[u]), !.stale = row[u].stale]
      BY <1>1, <2>1 DEF Row
    <2>3. QED
      BY <1>1, <1>3, <2>2 DEF Reconciled, Row
  <1>4. QED
    BY <1>2, <1>3

LEMMA UploadsTyped ==
    ASSUME TypeOK, Lifecycle
    PROVE  /\ row' \in [Upload -> Row]
           /\ part' \in [Upload -> Seq(Byte) \cup {None}]
  <1>1. ASSUME NEW u \in Upload
        PROVE  row'[u] \in Row /\ part'[u] \in Seq(Byte) \cup {None}
    <2>0. /\ row[u] \in Row /\ part[u] \in Seq(Byte) \cup {None}
          /\ Size[u] \in Nat /\ Unused \in Row /\ <<>> \in Seq(Byte)
      BY ContentType DEF TypeOK, Unused, Row
    <2>1. CASE Kept(u) \/ Touched(u) \/ Untouched(u) \/ Unlinked(u)
      BY <2>0, <2>1 DEF Kept, Touched, Untouched, Unlinked
    <2>2. CASE Opened(u)
      BY <2>0, <2>2 DEF Opened, Unused, Row
    <2>3. CASE Adopted(u)
      <3>1. Len(part[u]) \in Nat /\ row'[u] = Reconciled(u) /\ part'[u] = part[u]
        BY <2>3, SoundFacts DEF Adopted
      <3>2. Reconciled(u) \in Row
        BY <2>0, <3>1 DEF Reconciled, Row
      <3>3. QED
        BY <2>0, <3>1, <3>2
    <2>4. CASE Written(u) \/ Torn(u)
      <3>1. part'[u] \in Seq(Byte) /\ Len(part'[u]) \in Nat
        BY <2>4 DEF Written, Torn, Grown
      <3>2. CASE Written(u)
        BY <2>0, <3>1, <3>2 DEF Written, Row
      <3>3. CASE Torn(u)
        BY <2>0, <3>1, <3>3 DEF Torn
      <3>4. QED
        BY <2>4, <3>2, <3>3
    <2>5. CASE Completed(u)
      BY <2>0, <2>5 DEF Completed, Sound, Row
    <2>6. CASE Dropped(u)
      BY <2>0, <2>6 DEF Dropped, Gone, Unused, Row
    <2>7. CASE Grizzled(u)
      BY <2>0, <2>7 DEF Grizzled, Row
    <2>8. QED
      BY <2>1, <2>2, <2>3, <2>4, <2>5, <2>6, <2>7 DEF Lifecycle, UploadStep
  <1>2. QED
    BY <1>1 DEF Lifecycle

LEMMA OpenStays ==
    ASSUME UploadInv, Lifecycle
    PROVE  OpenResumable'
  <1> SUFFICES ASSUME NEW u \in Upload, row'[u].state = "open"
               PROVE  Sound(u)'
    BY DEF OpenResumable
  <1> USE DEF UploadInv
  <1>0. /\ row[u] \in Row /\ part[u] \in Seq(Byte) \cup {None}
        /\ row[u].state = "open" => Sound(u)
    BY DEF TypeOK, OpenResumable
  <1>1. CASE Kept(u) \/ Touched(u) \/ Untouched(u) \/ Unlinked(u)
    <2>1. row[u].state = "open"
      BY <1>1 DEF Kept, Touched, Untouched, Unlinked
    <2>2. Kept(u)
      BY <1>1, <2>1 DEF Kept, Touched, Untouched, Unlinked, BeginEnds, ThreadOK, At
    <2>3. QED
      BY <1>0, <2>1, <2>2 DEF Kept, Sound
  <1>2. CASE Opened(u)
    <2>1. part[u] = <<>>
      BY <1>2 DEF Opened, BeginEnds, ThreadOK, At
    <2>2. part'[u] = <<>> /\ row'[u].received = 0
      BY <1>2, <2>1 DEF Opened, Unused
    <2>3. <<>> # None /\ Size[u] \in Nat /\ Len(<<>>) = 0
      <3>1. <<>> \in Seq(Byte)
        OBVIOUS
      <3>2. QED
        BY <3>1, ContentType, UploadAssumption
    <2>4. QED
      BY <2>2, <2>3 DEF Sound, Size
  <1>3. CASE Adopted(u)
    <2>1. /\ part'[u] = part[u] /\ part[u] \in Seq(Byte)
          /\ Len(part[u]) \in Nat /\ Len(part[u]) <= Size[u]
      BY <1>3, SoundFacts DEF Adopted
    <2>2. row'[u].received = Len(part[u])
      BY <1>0, <1>3, SoundFacts DEF Adopted, Row
    <2>3. part[u] # None
      BY <2>1, UploadAssumption
    <2>4. QED
      BY <2>1, <2>2, <2>3 DEF Sound, Size
  <1>4. CASE Written(u) \/ Torn(u)
    <2>1. /\ part'[u] \in Seq(Byte) /\ Len(part'[u]) \in Nat
          /\ Len(part[u]) < Len(part'[u]) /\ Len(part'[u]) <= Size[u]
          /\ Sound(u)
      BY <1>4 DEF Written, Torn, Grown
    <2>2. part[u] \in Seq(Byte) /\ Len(part[u]) \in Nat /\ row[u].received <= Len(part[u])
          /\ row[u].received \in Nat
      BY <1>0, <2>1 DEF Sound, Row
    <2>3. row'[u].received <= Len(part'[u])
      <3>1. CASE Written(u)
        BY <1>0, <2>1, <3>1 DEF Written, Row
      <3>2. CASE Torn(u)
        BY <2>1, <2>2, <3>2 DEF Torn
      <3>3. QED
        BY <1>4, <3>1, <3>2
    <2>4. part'[u] # None
      BY <2>1, UploadAssumption
    <2>5. QED
      BY <2>1, <2>3, <2>4 DEF Sound, Size
  <1>5. CASE Completed(u) \/ Dropped(u)
    BY <1>5 DEF Completed, Dropped, Gone, Unused
  <1>6. CASE Grizzled(u)
    BY <1>0, <1>6 DEF Grizzled, Row, Sound, Size
  <1>7. QED
    BY <1>1, <1>2, <1>3, <1>4, <1>5, <1>6 DEF Lifecycle, UploadStep

LEMMA SpliceStays ==
    ASSUME UploadInv, Lifecycle, row' \in [Upload -> Row]
    PROVE  NoSplice'
  <1> SUFFICES ASSUME NEW u \in Honest, part'[u] # None
               PROVE  part'[u] = SubSeq(Content[u], 1, Len(part'[u]))
    BY DEF NoSplice
  <1> USE DEF UploadInv
  <1>0. u \in Upload
    BY UploadAssumption
  <1>1. CASE \/ Kept(u) \/ Opened(u) \/ Adopted(u) \/ Completed(u) \/ Dropped(u)
             \/ Grizzled(u)
    BY <1>1 DEF Kept, Opened, Adopted, Completed, Dropped, Grizzled, NoSplice
  <1>2. CASE Touched(u)
    <2>1. part'[u] = <<>> /\ Len(<<>>) = 0
      BY <1>2 DEF Touched
    <2>2. SubSeq(Content[u], 1, 0) = <<>>
      BY SubSeqEmpty
    <2>3. QED
      BY <2>1, <2>2
  <1>3. CASE Written(u) \/ Torn(u)
    BY <1>3 DEF Written, Torn, Grown
  <1>4. CASE Untouched(u) \/ Unlinked(u)
    BY <1>4 DEF Untouched, Unlinked
  <1>5. QED
    BY <1>0, <1>1, <1>2, <1>3, <1>4 DEF Lifecycle, UploadStep

LEMMA ReceiptsStay ==
    ASSUME UploadInv, Lifecycle
    PROVE  ReceiptValid'
  <1> SUFFICES ASSUME NEW u \in Upload, row'[u].state = "completed"
               PROVE  /\ row'[u].file # None
                      /\ Len(row'[u].file) = Size[u]
                      /\ u \in Checked \cup Honest => row'[u].file = Content[u]
    BY DEF ReceiptValid, Size
  <1> USE DEF UploadInv
  <1>0. row[u] \in Row
    BY DEF TypeOK
  <1>1. CASE \/ Kept(u) \/ Touched(u) \/ Untouched(u) \/ Torn(u) \/ Unlinked(u)
    BY <1>1 DEF Kept, Touched, Untouched, Torn, Unlinked, ReceiptValid
  <1>2. CASE Opened(u) \/ Written(u) \/ Dropped(u)
    BY <1>0, <1>2 DEF Opened, Written, Dropped, Unused, Gone, Row
  <1>3. CASE Adopted(u)
    BY <1>0, <1>3 DEF Adopted, Reconciled, Row
  <1>4. CASE Completed(u)
    BY <1>4 DEF Completed, Sound
  <1>5. CASE Grizzled(u)
    <2>1. row'[u].state = row[u].state /\ row'[u].file = row[u].file
      BY <1>0, <1>5 DEF Grizzled, Row
    <2>2. QED
      BY <2>1 DEF ReceiptValid
  <1>6. QED
    BY <1>1, <1>2, <1>3, <1>4, <1>5 DEF Lifecycle, UploadStep

\* The content a thread has hashed is what the file store gets.
LEMMA AdmissionStays ==
    ASSUME UploadInv, Next
    PROVE  stored' \in SUBSET Seq(Byte) /\ AdmittedValid'
  <1> USE DEF UploadInv
  <1>1. ASSUME NEW p \in Proc, Store(p)
        PROVE  stored' \in SUBSET Seq(Byte) /\ AdmittedValid'
    <2> DEFINE u == call[p].upload
    <2>1. /\ u \in Upload /\ Len(call[p].data) = Size[u]
          /\ u \in Checked => call[p].data = Content[u]
          /\ part[u] # None => part[u] = call[p].data
          /\ call[p].data \in Seq(Byte)
      BY <1>1 DEF Store, At, ThreadOK, TypeOK
    <2>2. stored' = IF part[u] # None THEN stored \cup {part[u]} ELSE stored
      BY <1>1 DEF Store
    <2>3. stored' \subseteq stored \cup {call[p].data}
      BY <2>1, <2>2
    <2>4. QED
      BY <2>1, <2>3 DEF AdmittedValid, TypeOK, Size
  <1>2. CASE stored' \subseteq stored
    BY <1>2 DEF AdmittedValid, TypeOK, Size
  <1>3. stored' \subseteq stored \/ \E p \in Proc : Store(p)
    BY DEF Next, Touch, Status, Write, WriteTorn, FinishStatus, Cancel, Insert, InsertFail,
           Receipt, Hash, Commit, Discard, Cleanup, CleanupItem, Abort, Age, Forget
  <1>4. QED
    BY <1>1, <1>2, <1>3

-----------------------------------------------------------------------------
(* What a thread relies on survives the steps of the others. *)

LEMMA OthersKeep ==
    ASSUME UploadInv, Lifecycle, NEW q \in Proc, call'[q] = call[q],
           \A r \in Proc : call'[r].at = "insert" =>
              \/ call'[r] = call[r]
              \/ part[call'[r].upload] = None
    PROVE  ThreadOK(q)'
  <1> DEFINE u == call[q].upload
             s == call[q].at
  <1> USE DEF UploadInv
  <1>0. /\ s \notin {"idle", "clean"} => u \in Upload /\ UploadStep(u)
        /\ ThreadOK(q)
        /\ <<>> # None
    <2>1. <<>> \in Seq(Byte)
      OBVIOUS
    <2>2. QED
      BY <2>1, UploadAssumption DEF TypeOK, Lifecycle
  <1>1. ASSUME s = "insert"
        PROVE  /\ row'[u].state = "unused" /\ part'[u] = <<>>
               /\ \A r \in Proc : call'[r].at = "insert" /\ call'[r].upload = u => r = q
    <2>1. /\ row[u].state = "unused" /\ part[u] = <<>>
          /\ \A r \in Proc : call[r].at = "insert" /\ call[r].upload = u => r = q
      BY <1>0, <1>1 DEF ThreadOK
    <2>2. ~BeginEnds(u)
      BY <1>1, <2>1 DEF BeginEnds, Idle, At
    <2>3. Kept(u)
      BY <1>0, <1>1, <2>1, <2>2 DEF UploadStep, Touched, Opened, Untouched, Adopted, Written,
             Torn, Completed, Dropped, Grizzled, Unlinked, Present
    <2>4. QED
      BY <1>0, <2>1, <2>3 DEF Kept
  <1>2. ASSUME s \in {"receipt", "discard"}
        PROVE  row'[u].state \in {"completed", "gone"}
    <2>1. row[u].state \in {"completed", "gone"} /\ row[u] \in Row
      BY <1>0, <1>2 DEF ThreadOK, TypeOK
    <2>2. ~BeginEnds(u)
      BY <2>1 DEF BeginEnds, ThreadOK, At
    <2>3. QED
      BY <1>0, <1>2, <2>1, <2>2 DEF UploadStep, Kept, Touched, Opened, Untouched, Adopted,
             Written, Torn, Completed, Dropped, Grizzled, Unlinked, Present, Gone, Unused, Row
  <1>3. ASSUME s \in {"hash", "store", "commit"}, row[u].state # "unused",
               part[u] # None => Len(part[u]) = Size[u]
        PROVE  /\ row'[u].state # "unused"
               /\ part'[u] = part[u] \/ part'[u] = None
    <2>1. row[u] \in Row /\ u \in Upload
      BY <1>0, <1>3 DEF TypeOK
    <2>2. ~BeginEnds(u)
      BY <1>3 DEF BeginEnds, ThreadOK, At
    <2>3. ~Written(u) /\ ~Torn(u)
      <3>1. ASSUME Written(u) \/ Torn(u) PROVE FALSE
        <4>1. /\ Sound(u) /\ part[u] # None
              /\ Len(part[u]) < Len(part'[u]) /\ Len(part'[u]) <= Size[u]
              /\ part'[u] \in Seq(Byte)
          BY <3>1 DEF Written, Torn, Grown, Sound
        <4>2. Len(part'[u]) \in Nat /\ Size[u] \in Nat /\ Len(part[u]) = Size[u]
          BY <1>3, <2>1, <4>1, ContentType
        <4>3. QED
          BY <4>1, <4>2
      <3>2. QED
        BY <3>1
    <2>4. CASE Adopted(u)
      BY <1>3, <2>1, <2>4 DEF Adopted, Reconciled, Row
    <2>5. CASE ~Adopted(u)
      BY <1>0, <1>3, <2>1, <2>2, <2>3, <2>5 DEF UploadStep, Kept, Touched, Opened, Untouched,
             Completed, Dropped, Grizzled, Unlinked, Gone, Unused, Row
    <2>6. QED
      BY <2>4, <2>5
  <1>4. ASSUME s = "hash"
        PROVE  /\ row'[u].state # "unused"
               /\ part'[u] # None => Len(part'[u]) = Size[u]
    BY <1>0, <1>3, <1>4 DEF ThreadOK
  <1>5. ASSUME s \in {"store", "commit"}
        PROVE  /\ row'[u].state # "unused"
               /\ part'[u] # None => part'[u] = call[q].data
               /\ Len(call[q].data) = Size[u]
               /\ u \in Checked \cup Honest => call[q].data = Content[u]
    BY <1>0, <1>3, <1>5 DEF ThreadOK
  <1>6. QED
    BY <1>1, <1>2, <1>4, <1>5 DEF ThreadOK, Size

-----------------------------------------------------------------------------
(* What the thread that takes a step relies on afterwards. *)

CallOK(c) ==
    /\ c \in Call
    /\ c.at \notin {"idle", "clean"} => c.upload \in Upload
    /\ c.at \in {"store", "commit"} => c.data \in Seq(Byte)

Acted(p, d) ==
    /\ call' = [call EXCEPT ![p] = d]
    /\ CallOK(d)
    /\ d.at = "insert" => part[d.upload] = None
    /\ ThreadOK(p)'

LEMMA CallFields ==
    ASSUME TypeOK, NEW p \in Proc
    PROVE  CallOK(call[p]) /\ CallOK(Idle)
  BY DEF TypeOK, CallOK, Idle, Call

\* A thread that is idle or between two rows of cleanup relies on nothing.
LEMMA RestActs ==
    ASSUME TypeOK, NEW p \in Proc, NEW d, Goto(p, d), CallOK(d),
           d.at \in {"idle", "clean"}
    PROVE  Acted(p, d)
  BY DEF Acted, Goto, TypeOK, ThreadOK

LEMMA IdleActs ==
    ASSUME TypeOK, NEW p \in Proc, Goto(p, Idle)
    PROVE  \E d : Acted(p, d)
  BY RestActs, CallFields DEF Idle

LEMMA TouchActs ==
    ASSUME UploadInv, NEW p \in Proc, NEW u \in Upload, Touch(p, u)
    PROVE  \E d : Acted(p, d)
  <1> USE DEF UploadInv
  <1> DEFINE d == [Idle EXCEPT !.at = "insert", !.upload = u]
  <1>1. d.at = "insert" /\ d.upload = u /\ CallOK(d)
    BY DEF Idle, CallOK, Call
  <1>2. call' = [call EXCEPT ![p] = d] /\ call'[p] = d /\ part[u] = None
    BY DEF Touch, Goto, TypeOK
  <1> HIDE DEF d
  <1>3. /\ row'[u].state = "unused" /\ part'[u] = <<>>
    BY DEF Touch, SetPart, TypeOK
  <1>4. ASSUME NEW q \in Proc, call'[q].at = "insert", call'[q].upload = u, q # p
        PROVE  FALSE
    <2>1. call[q] = call'[q]
      BY <1>2, <1>4 DEF TypeOK
    <2>2. part[u] = <<>>
      BY <1>4, <2>1 DEF ThreadOK
    <2>3. <<>> \in Seq(Byte)
      OBVIOUS
    <2>4. QED
      BY <1>2, <2>2, <2>3, UploadAssumption
  <1>5. ThreadOK(p)'
    BY <1>1, <1>2, <1>3, <1>4 DEF ThreadOK
  <1>6. QED
    BY <1>1, <1>2, <1>5 DEF Acted

LEMMA FinishStatusActs ==
    ASSUME UploadInv, NEW p \in Proc, NEW u \in Upload, FinishStatus(p, u)
    PROVE  \E d : Acted(p, d)
  <1> USE DEF UploadInv
  <1>1. CASE row[u].state = "completed"
    <2> DEFINE d == [Idle EXCEPT !.at = "receipt", !.upload = u]
    <2>1. d.at = "receipt" /\ d.upload = u /\ CallOK(d)
      BY DEF Idle, CallOK, Call
    <2>2. call' = [call EXCEPT ![p] = d] /\ call'[p] = d /\ row' = row
      BY <1>1 DEF FinishStatus, Goto, TypeOK
    <2> HIDE DEF d
    <2>3. ThreadOK(p)'
      BY <1>1, <2>1, <2>2 DEF ThreadOK
    <2>4. QED
      BY <2>1, <2>2, <2>3 DEF Acted
  <1>2. CASE row[u].state = "open"
    <2> DEFINE d == [Idle EXCEPT !.at = "hash", !.upload = u]
    <2>1. d.at = "hash" /\ d.upload = u /\ CallOK(d)
      BY DEF Idle, CallOK, Call
    <2>2. /\ call' = [call EXCEPT ![p] = d] /\ call'[p] = d
          /\ Sound(u) /\ Reconciled(u).received = Size[u]
          /\ row'[u] = Reconciled(u) /\ part'[u] = part[u]
      BY <1>2 DEF FinishStatus, Goto, SetRow, TypeOK
    <2> HIDE DEF d
    <2>3. row[u] \in Row /\ Len(part[u]) \in Nat
      BY <2>2, SoundFacts DEF TypeOK
    <2>4. Len(part[u]) = Size[u] /\ Reconciled(u).state = "open"
      BY <1>2, <2>2, <2>3 DEF Sound, Reconciled, Row
    <2>5. ThreadOK(p)'
      BY <2>1, <2>2, <2>4 DEF ThreadOK, Size
    <2>6. QED
      BY <2>1, <2>2, <2>5 DEF Acted
  <1>3. QED
    BY <1>1, <1>2 DEF FinishStatus

\* A cancel or a row of cleanup that is deleted: its part file is unlinked next.
LEMMA DropActs ==
    ASSUME UploadInv, NEW p \in Proc, NEW u \in Upload, NEW d, CallOK(d),
           Goto(p, d), SetRow(u, Gone), d.at = "discard", d.upload = u
    PROVE  Acted(p, d)
  <1> USE DEF UploadInv
  <1>1. call' = [call EXCEPT ![p] = d] /\ call'[p] = d
    BY DEF Goto, TypeOK
  <1>2. row'[u].state = "gone"
    BY DEF SetRow, TypeOK, Gone, Unused
  <1>3. ThreadOK(p)'
    BY <1>1, <1>2 DEF ThreadOK
  <1>4. QED
    BY <1>1, <1>3 DEF Acted

\* Hashing takes the data that put_file will copy.
LEMMA HashActs ==
    ASSUME UploadInv, NEW p \in Proc, Hash(p)
    PROVE  \E d : Acted(p, d)
  <1> USE DEF UploadInv
  <1> DEFINE u == call[p].upload
             d == [call[p] EXCEPT !.at = "store", !.data = part[u]]
  <1>1. CASE Present(u) /\ part[u] # None /\ DigestOK(u)
    <2>1. u \in Upload /\ call[p].at = "hash"
      BY DEF Hash, At, TypeOK
    <2>2. part[u] \in Seq(Byte) /\ Len(part[u]) = Size[u]
      BY <1>1, <2>1 DEF ThreadOK, TypeOK
    <2>3. d.at = "store" /\ d.upload = u /\ d.data = part[u] /\ CallOK(d)
      BY <2>1, <2>2, CallFields DEF CallOK, Call
    <2>4. call' = [call EXCEPT ![p] = d] /\ call'[p] = d
      BY <1>1 DEF Hash, Goto, TypeOK
    <2> HIDE DEF d
    <2>5. u \in Checked \cup Honest => part[u] = Content[u]
      <3>1. u \in Checked => part[u] = Content[u]
        BY <1>1 DEF DigestOK
      <3>2. u \in Honest => part[u] = SubSeq(Content[u], 1, Len(Content[u]))
        BY <1>1, <2>1, <2>2, ContentType DEF NoSplice
      <3>3. SubSeq(Content[u], 1, Len(Content[u])) = Content[u]
        BY <2>1, ContentType, SubSeqFull
      <3>4. QED
        BY <3>1, <3>2, <3>3
    <2>6. row[u].state # "unused" /\ row' = row /\ part' = part
      BY <1>1 DEF Hash, Present
    <2>7. ThreadOK(p)'
      BY <2>2, <2>3, <2>4, <2>5, <2>6 DEF ThreadOK, Size
    <2>8. QED
      BY <2>3, <2>4, <2>7 DEF Acted
  <1>2. CASE ~(Present(u) /\ part[u] # None /\ DigestOK(u))
    BY <1>2, IdleActs DEF Hash
  <1>3. QED
    BY <1>1, <1>2

LEMMA StoreActs ==
    ASSUME UploadInv, NEW p \in Proc, Store(p)
    PROVE  \E d : Acted(p, d)
  <1> USE DEF UploadInv
  <1> DEFINE u == call[p].upload
             d == [call[p] EXCEPT !.at = "commit"]
  <1>1. CASE part[u] = call[p].data
    <2>1. u \in Upload /\ call[p].at = "store" /\ call[p].data \in Seq(Byte)
      BY DEF Store, At, TypeOK
    <2>2. d.at = "commit" /\ d.upload = u /\ d.data = call[p].data /\ CallOK(d)
      BY <2>1, CallFields DEF CallOK, Call
    <2>3. /\ call' = [call EXCEPT ![p] = d] /\ call'[p] = d
          /\ row' = row /\ part' = part
      BY <1>1 DEF Store, Goto, TypeOK
    <2> HIDE DEF d
    <2>4. ThreadOK(p)'
      BY <2>1, <2>2, <2>3 DEF ThreadOK, Size
    <2>5. QED
      BY <2>2, <2>3, <2>4 DEF Acted
  <1>2. CASE part[u] # call[p].data
    BY <1>2, IdleActs DEF Store
  <1>3. QED
    BY <1>1, <1>2

LEMMA CommitActs ==
    ASSUME UploadInv, NEW p \in Proc, Commit(p)
    PROVE  \E d : Acted(p, d)
  <1> USE DEF UploadInv
  <1> DEFINE u == call[p].upload
             d == [call[p] EXCEPT !.at = "discard"]
  <1>1. CASE Goto(p, d)
    <2>1. u \in Upload /\ call[p].at = "commit"
      BY DEF Commit, At, TypeOK
    <2>2. d.at = "discard" /\ d.upload = u /\ CallOK(d)
      BY <2>1, CallFields DEF CallOK, Call
    <2>3. call' = [call EXCEPT ![p] = d] /\ call'[p] = d
      BY <1>1 DEF Goto, TypeOK
    <2>4. \/ SetRow(u, [state |-> "completed", received |-> Size[u],
                        file |-> call[p].data, stale |-> FALSE])
          \/ row[u].state = "completed" /\ row' = row
          \/ Goto(p, Idle)
      BY DEF Commit
    <2>5. ~Goto(p, Idle)
      <3>1. d # Idle
        BY <2>2 DEF Idle
      <3>2. QED
        BY <2>3, <3>1 DEF Goto, TypeOK
    <2> HIDE DEF d
    <2>6. row'[u].state = "completed"
      BY <2>1, <2>4, <2>5 DEF SetRow, TypeOK
    <2>7. ThreadOK(p)'
      BY <2>2, <2>3, <2>6 DEF ThreadOK
    <2>8. QED
      BY <2>2, <2>3, <2>7 DEF Acted
  <1>2. CASE Goto(p, Idle)
    BY <1>2, IdleActs
  <1>3. QED
    BY <1>1, <1>2 DEF Commit

LEMMA DiscardActs ==
    ASSUME UploadInv, NEW p \in Proc, Discard(p)
    PROVE  \E d : Acted(p, d)
  <1> USE DEF UploadInv
  <1> DEFINE d == [call[p] EXCEPT !.at = "clean", !.upload = None]
  <1>1. CASE Goto(p, d)
    <2>1. d.at = "clean" /\ CallOK(d)
      BY CallFields DEF CallOK, Call
    <2>2. QED
      BY <1>1, <2>1, RestActs
  <1>2. CASE Goto(p, Idle)
    BY <1>2, IdleActs
  <1>3. QED
    BY <1>1, <1>2 DEF Discard

LEMMA CleanupActs ==
    ASSUME UploadInv, NEW p \in Proc, Cleanup(p) \/ CleanupItem(p)
    PROVE  \E d : Acted(p, d)
  <1> USE DEF UploadInv
  <1>1. CASE Cleanup(p)
    <2>1. PICK old \in SUBSET {u \in Upload : Present(u) /\ row[u].stale} :
             Goto(p, [Idle EXCEPT !.at = "clean", !.todo = old])
      BY <1>1 DEF Cleanup
    <2> DEFINE d == [Idle EXCEPT !.at = "clean", !.todo = old]
    <2>2. d.at = "clean" /\ CallOK(d)
      BY CallFields DEF CallOK, Call, Idle
    <2>3. QED
      BY <2>1, <2>2, RestActs
  <1>2. CASE CleanupItem(p)
    <2>1. PICK u \in call[p].todo :
             LET c == [call[p] EXCEPT !.todo = @ \ {u}] IN
             IF Present(u) /\ row[u].stale
             THEN /\ SetRow(u, Gone)
                  /\ Goto(p, [c EXCEPT !.at = "discard", !.upload = u])
             ELSE /\ Goto(p, IF c.todo = {} THEN Idle ELSE c)
                  /\ UNCHANGED row
      BY <1>2 DEF CleanupItem
    <2> DEFINE c == [call[p] EXCEPT !.todo = @ \ {u}]
               d == [c EXCEPT !.at = "discard", !.upload = u]
    <2>2. u \in Upload /\ call[p] \in Call
      BY DEF TypeOK, Call
    <2>3. CallOK(c) /\ c.at = "clean" /\ CallOK(d) /\ d.at = "discard" /\ d.upload = u
      BY <1>2, <2>2 DEF CleanupItem, At, CallOK, Call
    <2>4. CASE Present(u) /\ row[u].stale
      <3>1. SetRow(u, Gone) /\ Goto(p, d)
        BY <2>1, <2>4
      <3> HIDE DEF d
      <3>2. QED
        BY <2>2, <2>3, <3>1, DropActs
    <2>5. CASE ~(Present(u) /\ row[u].stale)
      <3>1. Goto(p, Idle) \/ Goto(p, c)
        BY <2>1, <2>5
      <3> HIDE DEF c
      <3>2. QED
        BY <2>3, <3>1, IdleActs, RestActs
    <2>6. QED
      BY <2>4, <2>5
  <1>3. QED
    BY <1>1, <1>2

-----------------------------------------------------------------------------
(* The invariant. *)

LEMMA AbortsTyped ==
    ASSUME TypeOK, Next
    PROVE  aborts' \in 0..MaxAborts
  <1>1. /\ aborts \in Nat /\ aborts <= MaxAborts /\ MaxAborts \in Nat
    BY UploadAssumption DEF TypeOK
  <1>2. aborts' = aborts \/ (aborts < MaxAborts /\ aborts' = aborts + 1)
    BY DEF Next, Touch, Status, Write, WriteTorn, FinishStatus, Cancel, Insert, InsertFail,
           Receipt, Hash, Store, Commit, Discard, Cleanup, CleanupItem, Abort, Age, Forget
  <1>3. QED
    BY <1>1, <1>2

\* A step changes what at most one thread is doing.
LEMMA NextActs ==
    ASSUME UploadInv, Next
    PROVE  \/ UNCHANGED call
           \/ \E p \in Proc : \E d : Acted(p, d)
  <1> USE DEF UploadInv
  <1>1. ASSUME NEW p \in Proc, NEW u \in Upload, Cancel(p, u)
        PROVE  \E d : Acted(p, d)
    <2> DEFINE d == [Idle EXCEPT !.at = "discard", !.upload = u]
    <2>1. d.at = "discard" /\ d.upload = u /\ CallOK(d)
      BY DEF Idle, CallOK, Call
    <2>2. Goto(p, d) /\ SetRow(u, Gone)
      BY <1>1 DEF Cancel
    <2> HIDE DEF d
    <2>3. QED
      BY <2>1, <2>2, DropActs
  <1>2. ASSUME NEW p \in Proc, Insert(p) \/ InsertFail(p) \/ Receipt(p) \/ Abort(p)
        PROVE  \E d : Acted(p, d)
    BY <1>2, IdleActs DEF Insert, InsertFail, Receipt, Abort
  <1>3. ASSUME NEW p \in Proc, NEW u \in Upload, Status(p, u) \/ Write(p, u) \/ WriteTorn(p, u)
        PROVE  UNCHANGED call
    BY <1>3 DEF Status, Write, WriteTorn
  <1>4. ASSUME NEW u \in Upload, Age(u) \/ Forget
        PROVE  UNCHANGED call
    BY <1>4 DEF Age, Forget
  <1>5. CASE Forget
    BY <1>5 DEF Forget
  <1>6. QED
    BY <1>1, <1>2, <1>3, <1>4, <1>5, TouchActs, FinishStatusActs, HashActs, StoreActs,
       CommitActs, DiscardActs, CleanupActs DEF Next

LEMMA ThreadsStay ==
    ASSUME UploadInv, Lifecycle, NEW p \in Proc, NEW d, Acted(p, d)
    PROVE  \A q \in Proc : CallOK(call'[q]) /\ ThreadOK(q)'
  <1> USE DEF UploadInv
  <1>1. \A q \in Proc : q # p => call'[q] = call[q]
    BY DEF Acted, TypeOK
  <1>2. call'[p] = d
    BY DEF Acted, TypeOK
  <1>3. \A r \in Proc : call'[r].at = "insert" =>
           call'[r] = call[r] \/ part[call'[r].upload] = None
    BY <1>1, <1>2 DEF Acted
  <1>4. \A q \in Proc : q # p => ThreadOK(q)'
    BY <1>1, <1>3, OthersKeep
  <1>5. QED
    BY <1>1, <1>2, <1>4, CallFields DEF Acted

LEMMA NextKeepsUploadInv ==
    ASSUME UploadInv, Next
    PROVE  UploadInv'
  <1>1. Lifecycle
    BY NextLifecycle
  <1>2. /\ row' \in [Upload -> Row]
        /\ part' \in [Upload -> Seq(Byte) \cup {None}]
    BY <1>1, UploadsTyped DEF UploadInv
  <1>3. OpenResumable' /\ NoSplice' /\ ReceiptValid'
    BY <1>1, <1>2, OpenStays, SpliceStays, ReceiptsStay
  <1>4. stored' \in SUBSET Seq(Byte) /\ AdmittedValid' /\ aborts' \in 0..MaxAborts
    BY AdmissionStays, AbortsTyped DEF UploadInv
  <1>5. \A q \in Proc : CallOK(call'[q]) /\ ThreadOK(q)'
    <2>1. CASE UNCHANGED call
      <3>1. \A r \in Proc : call'[r] = call[r]
        BY <2>1
      <3>2. QED
        BY <1>1, <3>1, OthersKeep, CallFields DEF UploadInv
    <2>2. CASE \E p \in Proc : \E d : Acted(p, d)
      BY <1>1, <2>2, ThreadsStay
    <2>3. QED
      BY <2>1, <2>2, NextActs
  <1>6. call' \in [Proc -> Call]
    <2>1. call' = [q \in Proc |-> call'[q]]
      BY NextActs DEF Acted, UploadInv, TypeOK
    <2>2. QED
      BY <1>5, <2>1 DEF CallOK
  <1>7. TypeOK'
    BY <1>2, <1>4, <1>5, <1>6 DEF TypeOK, CallOK
  <1>8. QED
    BY <1>3, <1>4, <1>5, <1>7 DEF UploadInv

LEMMA StutterKeepsUploadInv ==
    ASSUME UploadInv, UNCHANGED vars
    PROVE  UploadInv'
  BY DEF UploadInv, vars, TypeOK, OpenResumable, NoSplice, AdmittedValid, ReceiptValid,
         ThreadOK, Sound, Size

LEMMA InitUploadInv ==
    ASSUME Init
    PROVE  UploadInv
  <1>1. TypeOK
    BY UploadAssumption DEF Init, TypeOK, Row, Unused, Call, Idle
  <1>2. OpenResumable /\ NoSplice /\ AdmittedValid /\ ReceiptValid
    BY UploadAssumption DEF Init, OpenResumable, NoSplice, AdmittedValid, ReceiptValid, Unused
  <1>3. \A p \in Proc : ThreadOK(p)
    BY DEF Init, ThreadOK, Idle
  <1>4. QED
    BY <1>1, <1>2, <1>3 DEF UploadInv

\* The inductive invariant of the upload manager: every variable has its type
\* and, among any number of clients, crashes and torn writes, an open session
\* can be resumed, an honest client's bytes are never spliced, only valid
\* contents are admitted, receipts name valid contents, and a thread inside
\* finish, cancel or cleanup never meets a state it does not expect.
THEOREM UploadSafety == Spec => []UploadInv
  <1>1. Init => UploadInv
    BY InitUploadInv
  <1>2. UploadInv /\ [Next]_vars => UploadInv'
    BY NextKeepsUploadInv, StutterKeepsUploadInv
  <1>3. QED
    BY <1>1, <1>2, PTL DEF Spec

\* Its parts, under the names the runs check them by.

\* Every variable has its type.
THEOREM UploadTypes == Spec => []TypeOK
  <1>1. UploadInv => TypeOK
    BY DEF UploadInv
  <1>2. QED
    BY <1>1, UploadSafety, PTL

\* An open session can always be resumed.
THEOREM Resumable == Spec => []OpenResumable
  <1>1. UploadInv => OpenResumable
    BY DEF UploadInv
  <1>2. QED
    BY <1>1, UploadSafety, PTL

\* An honest client's bytes are never lost, doubled or reordered.
THEOREM NeverSpliced == Spec => []NoSplice
  <1>1. UploadInv => NoSplice
    BY DEF UploadInv
  <1>2. QED
    BY <1>1, UploadSafety, PTL

\* Only complete contents of the expected digest reach the file store.
THEOREM Admission == Spec => []AdmittedValid
  <1>1. UploadInv => AdmittedValid
    BY DEF UploadInv
  <1>2. QED
    BY <1>1, UploadSafety, PTL

\* A commit receipt names a valid content.
THEOREM Receipts == Spec => []ReceiptValid
  <1>1. UploadInv => ReceiptValid
    BY DEF UploadInv
  <1>2. QED
    BY <1>1, UploadSafety, PTL

\* What is admitted and what a receipt names is what was declared.
THEOREM Contents == Spec => []ContentsValid
  <1>1. UploadInv => ContentsValid
    BY DEF UploadInv, ContentsValid
  <1>2. QED
    BY <1>1, UploadSafety, PTL

\* While a session stays open its part file and its offset only grow.
THEOREM AppendOnly == Spec => OnlyAppends
  <1> DEFINE Appends(u) ==
        row[u].state = "open" /\ row'[u].state = "open" =>
            /\ row'[u].received >= row[u].received
            /\ part[u] # None /\ part'[u] # None
            /\ Len(part'[u]) >= Len(part[u])
            /\ SubSeq(part'[u], 1, Len(part[u])) = part[u]
  <1>1. ASSUME UploadInv, Lifecycle, NEW u \in Upload,
               row[u].state = "open", row'[u].state = "open"
        PROVE  Appends(u)
    <2> USE DEF UploadInv
    <2>0. /\ row[u] \in Row /\ row[u].received \in Nat /\ Sound(u)
          /\ part[u] \in Seq(Byte) /\ Len(part[u]) \in Nat /\ part[u] # None
          /\ row[u].received <= Len(part[u])
      BY <1>1 DEF TypeOK, OpenResumable, Row, Sound
    <2>1. SubSeq(part[u], 1, Len(part[u])) = part[u]
      BY <2>0, SubSeqFull
    <2>2. CASE Kept(u)
      BY <2>0, <2>1, <2>2 DEF Kept
    <2>3. CASE Adopted(u) \/ Grizzled(u)
      <3>1. row'[u].received \in {row[u].received, Len(part[u])} /\ part'[u] = part[u]
        BY <2>0, <2>3 DEF Adopted, Grizzled, Reconciled, Row
      <3>2. QED
        BY <2>0, <2>1, <3>1
    <2>4. CASE Written(u) \/ Torn(u)
      <3>1. /\ part'[u] \in Seq(Byte) /\ Len(part'[u]) \in Nat
            /\ Len(part[u]) < Len(part'[u])
            /\ SubSeq(part'[u], 1, Len(part[u])) = part[u]
        BY <2>4 DEF Written, Torn, Grown
      <3>2. row'[u].received \in {row[u].received, Len(part'[u])}
        BY <2>0, <2>4 DEF Written, Torn, Row
      <3>3. part'[u] # None
        BY <3>1, UploadAssumption
      <3>4. QED
        BY <2>0, <3>1, <3>2, <3>3
    <2>5. CASE \/ Touched(u) \/ Opened(u) \/ Untouched(u) \/ Completed(u) \/ Dropped(u)
               \/ Unlinked(u)
      BY <1>1, <2>5 DEF Touched, Opened, Untouched, Completed, Dropped, Unlinked, Gone,
         Unused, BeginEnds, ThreadOK, At
    <2>6. QED
      BY <1>1, <2>2, <2>3, <2>4, <2>5 DEF Lifecycle, UploadStep
  <1>2. UploadInv /\ [Next]_vars => [\A u \in Upload : Appends(u)]_vars
    <2>1. ASSUME UploadInv, Next
          PROVE  \A u \in Upload : Appends(u)
      <3>1. Lifecycle
        BY <2>1, NextLifecycle
      <3>2. QED
        BY <1>1, <2>1, <3>1
    <2>2. QED
      BY <2>1
  <1>3. Spec => [][\A u \in Upload : Appends(u)]_vars
    BY <1>2, UploadSafety, PTL DEF Spec
  <1>4. QED
    BY <1>3 DEF OnlyAppends

-----------------------------------------------------------------------------
(* Part files without a row. *)

LEMMA TouchedBy ==
    ASSUME UploadInv, Next, NEW u \in Upload, Touched(u)
    PROVE  \E p \in Proc : call'[p].upload = u /\ call'[p].at = "insert"
  <1> USE DEF UploadInv
  <1>1. part[u] = None /\ part'[u] # None
    <2>1. <<>> \in Seq(Byte)
      OBVIOUS
    <2>2. QED
      BY <2>1, UploadAssumption DEF Touched
  <1>2. ASSUME NEW p \in Proc, NEW w \in Upload, Touch(p, w)
        PROVE  call'[p].upload = u /\ call'[p].at = "insert"
    <2>1. w = u
      BY <1>1, <1>2 DEF Touch, SetPart, TypeOK
    <2>2. QED
      BY <1>2, <2>1 DEF Touch, Goto, Idle, TypeOK
  <1>3. ASSUME NEW p \in Proc, NEW w \in Upload, Write(p, w) \/ WriteTorn(p, w)
        PROVE  FALSE
    <2>1. w # u
      BY <1>1, <1>3 DEF Write, WriteTorn, Accepts, Sound
    <2>2. \E s : SetPart(w, s)
      BY <1>3 DEF Write, WriteTorn
    <2>3. QED
      BY <1>1, <2>1, <2>2 DEF SetPart, TypeOK
  <1>4. ASSUME NEW p \in Proc, InsertFail(p) \/ Receipt(p) \/ Discard(p)
        PROVE  FALSE
    BY <1>1, <1>4 DEF InsertFail, Receipt, Discard, SetPart, TypeOK
  <1>5. part' = part \/ \E p \in Proc : \/ \E w \in Upload : \/ Touch(p, w)
                                                           \/ Write(p, w)
                                                           \/ WriteTorn(p, w)
                                        \/ InsertFail(p) \/ Receipt(p) \/ Discard(p)
    BY DEF Next, Status, FinishStatus, Cancel, Insert, Hash, Store, Commit, Cleanup,
           CleanupItem, Abort, Age, Forget
  <1>6. QED
    BY <1>1, <1>2, <1>3, <1>4, <1>5

LEMMA EndedBy ==
    ASSUME UploadInv, Next, NEW u \in Upload,
           row'[u].state # row[u].state, row'[u].state # "open"
    PROVE  \E p \in Proc : call'[p].upload = u /\ call'[p].at = "discard"
  <1> USE DEF UploadInv
  <1>1. ASSUME NEW p \in Proc, NEW w \in Upload, Cancel(p, w)
        PROVE  call'[p].upload = u /\ call'[p].at = "discard"
    <2>1. w = u
      BY <1>1 DEF Cancel, SetRow, TypeOK
    <2>2. QED
      BY <1>1, <2>1 DEF Cancel, Goto, Idle, TypeOK
  <1>2. ASSUME NEW p \in Proc, Commit(p)
        PROVE  call'[p].upload = u /\ call'[p].at = "discard"
    <2>1. call[p] \in Call /\ call[p].upload \in Upload
      BY <1>2 DEF Commit, At, TypeOK
    <2>2. \E r : SetRow(call[p].upload, r) /\ Goto(p, [call[p] EXCEPT !.at = "discard"])
      BY <1>2 DEF Commit
    <2>3. call[p].upload = u
      BY <2>1, <2>2 DEF SetRow, TypeOK
    <2>4. QED
      BY <2>1, <2>2, <2>3 DEF Goto, Call, TypeOK
  <1>3. ASSUME NEW p \in Proc, CleanupItem(p)
        PROVE  call'[p].upload = u /\ call'[p].at = "discard"
    <2>1. PICK w \in call[p].todo :
             LET c == [call[p] EXCEPT !.todo = @ \ {w}] IN
             SetRow(w, Gone) /\ Goto(p, [c EXCEPT !.at = "discard", !.upload = w])
      BY <1>3 DEF CleanupItem
    <2>2. w = u
      BY <2>1 DEF SetRow, TypeOK
    <2>3. call[p] \in Call
      BY DEF TypeOK
    <2>4. QED
      BY <2>1, <2>2, <2>3 DEF Goto, Call, TypeOK
  <1>4. ASSUME NEW p \in Proc, NEW w \in Upload,
               Status(p, w) \/ Write(p, w) \/ FinishStatus(p, w)
        PROVE  FALSE
    <2>1. CASE row' = row
      BY <2>1
    <2>2. CASE row' # row
      <3>1. row[w].state = "open" /\ row[w] \in Row
        BY <1>4, <2>2 DEF Status, Write, FinishStatus, Accepts, TypeOK
      <3>2. \E r : SetRow(w, r) /\ r.state = "open"
        <4>1. CASE Status(p, w) \/ FinishStatus(p, w)
          <5>1. SetRow(w, Reconciled(w))
            BY <2>2, <3>1, <4>1 DEF Status, FinishStatus
          <5>2. Reconciled(w).state = "open"
            BY <3>1 DEF Reconciled, Row
          <5>3. QED
            BY <5>1, <5>2
        <4>2. CASE Write(p, w)
          <5>1. PICK n : SetRow(w, [row[w] EXCEPT !.received = n, !.stale = FALSE])
            BY <4>2 DEF Write
          <5>2. [row[w] EXCEPT !.received = n, !.stale = FALSE].state = "open"
            BY <3>1 DEF Row
          <5>3. QED
            BY <5>1, <5>2
        <4>3. QED
          BY <1>4, <4>1, <4>2
      <3>3. QED
        BY <3>1, <3>2 DEF SetRow, TypeOK
    <2>3. QED
      BY <2>1, <2>2
  <1>5. ASSUME NEW p \in Proc, Insert(p)
        PROVE  FALSE
    BY <1>5 DEF Insert, SetRow, Unused, TypeOK
  <1>6. ASSUME NEW w \in Upload, Age(w)
        PROVE  FALSE
    BY <1>6 DEF Age, SetRow, Row, TypeOK
  <1>7. row' # row
    OBVIOUS
  <1>8. QED
    BY <1>1, <1>2, <1>3, <1>4, <1>5, <1>6, <1>7 DEF Next, Touch, WriteTorn, InsertFail,
       Receipt, Hash, Store, Discard, Cleanup, Abort, Forget

\* A thread that owes an upload its row or the unlink of its part file stays
\* where it is until it has paid, unless it aborts.
LEMMA OwnerStays ==
    ASSUME UploadInv, Next, NEW q \in Proc, call[q].at \in {"insert", "discard"},
           part'[call[q].upload] # None, row'[call[q].upload].state # "open",
           aborts' = aborts
    PROVE  call'[q] = call[q]
  <1> USE DEF UploadInv
  <1>0. call[q].upload \in Upload /\ aborts \in Nat
    BY DEF TypeOK
  <1>1. ASSUME NEW p \in Proc, p # q, \E d : Goto(p, d)
        PROVE  call'[q] = call[q]
    BY <1>1 DEF Goto, TypeOK
  <1>2. ~Insert(q)
    BY <1>0 DEF Insert, SetRow, Unused, TypeOK
  <1>3. ~InsertFail(q) /\ ~Discard(q)
    BY <1>0 DEF InsertFail, Discard, SetPart, TypeOK
  <1>4. ~Abort(q)
    BY <1>0 DEF Abort
  <1>5. ASSUME NEW p \in Proc,
               \/ Insert(p) \/ InsertFail(p) \/ Receipt(p) \/ Hash(p) \/ Store(p)
               \/ Commit(p) \/ Discard(p) \/ Cleanup(p) \/ CleanupItem(p) \/ Abort(p)
        PROVE  call'[q] = call[q]
    <2>1. \E d : Goto(p, d)
      BY <1>5 DEF Insert, InsertFail, Receipt, Hash, Store, Commit, Discard, Cleanup,
         CleanupItem, Abort
    <2>2. p # q
      BY <1>2, <1>3, <1>4, <1>5 DEF Receipt, Hash, Store, Commit, Cleanup, CleanupItem, At
    <2>3. QED
      BY <1>1, <2>1, <2>2
  <1>6. ASSUME NEW p \in Proc, NEW u \in Upload,
               \/ Touch(p, u) \/ FinishStatus(p, u) \/ Cancel(p, u)
        PROVE  call'[q] = call[q]
    <2>1. \E d : Goto(p, d)
      BY <1>6 DEF Touch, FinishStatus, Cancel
    <2>2. p # q
      BY <1>6 DEF Touch, FinishStatus, Cancel, At
    <2>3. QED
      BY <1>1, <2>1, <2>2
  <1>7. CASE UNCHANGED call
    BY <1>7
  <1>8. QED
    BY <1>5, <1>6, <1>7 DEF Next, Status, Write, WriteTorn, Age, Forget

\* Without crashes and failures, whatever part file has no open session is
\* about to get one or about to be unlinked.
THEOREM PartsOwned == Spec => []NoOrphanPart
  <1>1. Init => NoOrphanPart
    BY DEF Init, NoOrphanPart
  <1>2. ASSUME UploadInv, NoOrphanPart, Next
        PROVE  NoOrphanPart'
    <2> SUFFICES ASSUME aborts' = 0, NEW u \in Upload, part'[u] # None,
                        row'[u].state # "open"
                 PROVE  \E p \in Proc : /\ call'[p].upload = u
                                        /\ call'[p].at \in {"insert", "discard"}
      BY DEF NoOrphanPart
    <2>1. aborts = 0
      <3>1. aborts \in Nat
        BY <1>2 DEF UploadInv, TypeOK
      <3>2. aborts' = aborts \/ aborts' = aborts + 1
        BY <1>2 DEF Next, Touch, Status, Write, WriteTorn, FinishStatus, Cancel, Insert,
           InsertFail, Receipt, Hash, Store, Commit, Discard, Cleanup, CleanupItem, Abort,
           Age, Forget
      <3>3. QED
        BY <3>1, <3>2
    <2>2. UploadStep(u) /\ row[u] \in Row
      BY <1>2, NextLifecycle DEF Lifecycle, UploadInv, TypeOK
    <2>3. CASE row'[u].state # row[u].state
      BY <1>2, <2>3, EndedBy
    <2>4. CASE Touched(u)
      BY <1>2, <2>4, TouchedBy
    <2>5. CASE row'[u].state = row[u].state /\ ~Touched(u)
      <3>1. part'[u] = part[u]
        BY <2>2, <2>5 DEF UploadStep, Kept, Opened, Untouched, Adopted, Written, Torn,
           Completed, Dropped, Grizzled, Unlinked
      <3>2. PICK p \in Proc : call[p].upload = u /\ call[p].at \in {"insert", "discard"}
        BY <1>2, <2>1, <2>5, <3>1 DEF NoOrphanPart
      <3>3. call'[p] = call[p]
        BY <1>2, <2>1, <3>2, OwnerStays
      <3>4. QED
        BY <3>2, <3>3
    <2>6. QED
      BY <2>3, <2>4, <2>5
  <1>3. NoOrphanPart /\ UNCHANGED vars => NoOrphanPart'
    BY DEF NoOrphanPart, vars
  <1>4. QED
    BY <1>1, <1>2, <1>3, UploadSafety, PTL DEF Spec

-----------------------------------------------------------------------------
(* The upload manager implements ResumableUpload. *)

\* What the client is told the server holds of an upload.
Held(u) == CASE row[u].state = "open" -> part[u]
             [] row[u].state = "completed" -> row[u].file
             [] OTHER -> <<>>

Phases == [u \in Upload |-> row[u].state]
Holdings == [u \in Upload |-> Held(u)]

LEMMA OnePromise ==
    ASSUME NEW u \in Upload, \A w \in Upload \ {u} : Kept(w)
    PROVE  /\ Phases' = [Phases EXCEPT ![u] = row'[u].state]
           /\ Holdings' = [Holdings EXCEPT ![u] = Held(u)']
           /\ Phases[u] = row[u].state /\ Holdings[u] = Held(u)
  <1>1. \A w \in Upload \ {u} : row'[w].state = row[w].state /\ Held(w)' = Held(w)
    BY DEF Kept, Held
  <1>2. QED
    BY <1>1 DEF Phases, Holdings

LEMMA OnePromiseStutters ==
    ASSUME NEW u \in Upload, \A w \in Upload \ {u} : Kept(w),
           row'[u].state = row[u].state, Held(u)' = Held(u)
    PROVE  Phases' = Phases /\ Holdings' = Holdings
  <1>1. \A w \in Upload \ {u} : row'[w].state = row[w].state /\ Held(w)' = Held(w)
    BY DEF Kept, Held
  <1>2. QED
    BY <1>1 DEF Phases, Holdings

\* The bytes that a write, torn or whole, adds.
LEMMA GrownExtends ==
    ASSUME NEW u \in Upload, NEW s \in Seq(Byte), NEW t, Grown(u, s, t)
    PROVE  \E n \in 1 .. Size[u] - Len(s) : \E x \in [1..n -> Byte] : t = s \o x
  <1> DEFINE n == Len(t) - Len(s)
             x == SubSeq(t, Len(s) + 1, Len(t))
  <1>1. /\ t \in Seq(Byte) /\ Len(t) \in Nat /\ Len(s) \in Nat /\ Size[u] \in Nat
        /\ Len(s) < Len(t) /\ Len(t) <= Size[u] /\ SubSeq(t, 1, Len(s)) = s
    BY ContentType DEF Grown
  <1>2. n \in 1 .. Size[u] - Len(s) /\ n \in Nat
    BY <1>1
  <1>3. x \in Seq(Byte) /\ Len(x) = n
    <2>1. \A i \in Len(s) + 1 .. Len(t) : t[i] \in Byte
      BY <1>1
    <2>2. Len(s) + 1 \in Int /\ Len(t) \in Int
      BY <1>1
    <2>3. x \in Seq(Byte) /\ Len(x) = IF Len(s) + 1 <= Len(t)
                                      THEN Len(t) - (Len(s) + 1) + 1 ELSE 0
      BY <2>1, <2>2, SubSeqProperties
    <2>4. QED
      BY <1>1, <2>3
  <1>4. s \o x = t
    <2>1. /\ 1 \in 1 .. Len(t) + 1 /\ Len(s) \in 1 - 1 .. Len(t)
          /\ Len(t) \in Len(s) .. Len(t)
      BY <1>1
    <2>2. SubSeq(t, 1, Len(s)) \o SubSeq(t, Len(s) + 1, Len(t)) = SubSeq(t, 1, Len(t))
      BY <1>1, <2>1, ConcatAdjacentSubSeq
    <2>3. QED
      BY <1>1, <2>2, SubSeqFull
  <1>5. x \in [1..n -> Byte]
    <2> HIDE DEF n, x
    <2>1. x \in [1..Len(x) -> Byte]
      BY <1>3, ElementOfSeq
    <2>2. QED
      BY <1>3, <2>1
  <1>6. QED
    <2> HIDE DEF n, x
    <2>1. QED
      BY <1>2, <1>4, <1>5

LEMMA LifecyclePromise ==
    ASSUME UploadInv, Lifecycle
    PROVE  Promise!Next \/ (Phases' = Phases /\ Holdings' = Holdings)
  <1> USE DEF UploadInv
  <1>0. PICK u0 : \A w \in Upload \ {u0} : Kept(w)
    BY DEF Lifecycle
  <1>1. CASE u0 \notin Upload
    <2>1. \A w \in Upload : row'[w].state = row[w].state /\ Held(w)' = Held(w)
      BY <1>0, <1>1 DEF Kept, Held
    <2>2. QED
      BY <2>1 DEF Phases, Holdings
  <1>2. ASSUME NEW u \in Upload, \A w \in Upload \ {u} : Kept(w)
        PROVE  Promise!Next \/ (Phases' = Phases /\ Holdings' = Holdings)
    <2>0. /\ row[u] \in Row
          /\ Phases' = [Phases EXCEPT ![u] = row'[u].state]
          /\ Holdings' = [Holdings EXCEPT ![u] = Held(u)']
          /\ Phases[u] = row[u].state /\ Holdings[u] = Held(u)
          /\ Phases \in [Upload -> {"unused", "open", "completed", "gone"}]
          /\ Holdings = [w \in Upload |-> Holdings[w]]
      BY <1>2, OnePromise DEF TypeOK, Phases, Holdings, Row
    <2>1. CASE Kept(u) \/ Touched(u) \/ Untouched(u) \/ Unlinked(u)
      <3>1. row'[u] = row[u] /\ (row[u].state = "open" => part'[u] = part[u])
        BY <2>1 DEF Kept, Touched, Untouched, Unlinked, BeginEnds, ThreadOK, At
      <3>2. Held(u)' = Held(u)
        BY <3>1 DEF Held
      <3>3. QED
        BY <1>2, <3>1, <3>2, OnePromiseStutters
    <2>2. CASE Opened(u)
      <3>1. row[u].state = "unused" /\ part[u] = <<>>
        BY <2>2 DEF Opened, BeginEnds, ThreadOK, At
      <3>2. row'[u].state = "open" /\ Held(u)' = <<>> /\ Held(u) = <<>>
        BY <2>2, <3>1 DEF Opened, Unused, Held
      <3>3. Holdings' = Holdings
        BY <2>0, <3>2
      <3>4. Promise!Begin(u)
        BY <2>0, <3>1, <3>2, <3>3 DEF Promise!Begin, Phases, Holdings, Held
      <3>5. QED
        BY <3>4 DEF Promise!Next
    <2>3. CASE Adopted(u) \/ Grizzled(u)
      <3>1. /\ row'[u].state = row[u].state /\ row'[u].file = row[u].file
            /\ part'[u] = part[u]
        BY <2>0, <2>3 DEF Adopted, Grizzled, Reconciled, Row
      <3>2. Held(u)' = Held(u)
        BY <3>1 DEF Held
      <3>3. QED
        BY <1>2, <3>1, <3>2, OnePromiseStutters
    <2>4. CASE Written(u) \/ Torn(u)
      <3>1. row[u].state = "open" /\ Sound(u) /\ Grown(u, part[u], part'[u])
        BY <2>4 DEF Written, Torn
      <3>2. row'[u].state = "open"
        BY <2>0, <2>4, <3>1 DEF Written, Torn, Row
      <3>3. part[u] \in Seq(Byte)
        BY <3>1 DEF Sound, TypeOK
      <3>4. PICK n \in 1 .. Size[u] - Len(part[u]) :
               \E x \in [1..n -> Byte] : part'[u] = part[u] \o x
        <4>1. \A t : Grown(u, part[u], t) =>
                 \E n \in 1 .. Size[u] - Len(part[u]) :
                    \E x \in [1..n -> Byte] : t = part[u] \o x
          BY <3>3, GrownExtends
        <4>2. QED
          BY <3>1, <4>1
      <3>5. Held(u) = part[u] /\ Held(u)' = part'[u]
        BY <3>1, <3>2 DEF Held
      <3>6. Phases' = Phases
        BY <2>0, <3>1, <3>2
      <3>7. Promise!Extend(u)
        <4>1. /\ Phases[u] = "open"
              /\ \E x \in [1..n -> Byte] :
                    Holdings' = [Holdings EXCEPT ![u] = Holdings[u] \o x]
              /\ Holdings[u] = part[u]
          BY <2>0, <3>1, <3>4, <3>5
        <4>2. /\ Phases[u] = "open"
              /\ \E k \in 1 .. Size[u] - Len(Holdings[u]) : \E x \in [1..k -> Byte] :
                    Holdings' = [Holdings EXCEPT ![u] = Holdings[u] \o x]
              /\ Phases' = Phases
          BY <3>6, <4>1
        <4>3. QED
          BY <4>2 DEF Promise!Extend, Phases, Holdings, Held
      <3>8. QED
        BY <3>7 DEF Promise!Next
    <2>5. CASE Completed(u)
      <3>1. /\ row[u].state = "open" /\ row'[u].state = "completed"
            /\ row'[u].file = part[u] /\ Len(part[u]) = Size[u]
        BY <2>5 DEF Completed
      <3>2. Held(u) = part[u] /\ Held(u)' = part[u]
        BY <3>1 DEF Held
      <3>3. Holdings' = Holdings
        BY <2>0, <3>2
      <3>4. Promise!Complete(u)
        BY <2>0, <3>1, <3>2, <3>3 DEF Promise!Complete, Phases, Holdings, Held
      <3>5. QED
        BY <3>4 DEF Promise!Next
    <2>6. CASE Dropped(u)
      <3>1. row[u].state \in {"open", "completed"} /\ row'[u].state = "gone"
        BY <2>6 DEF Dropped, Present, Gone, Unused
      <3>2. Held(u)' = <<>>
        BY <3>1 DEF Held
      <3>3. Promise!Drop(u)
        BY <2>0, <3>1, <3>2 DEF Promise!Drop, Phases, Holdings, Held
      <3>4. QED
        BY <3>3 DEF Promise!Next
    <2>7. QED
      BY <2>1, <2>2, <2>3, <2>4, <2>5, <2>6 DEF Lifecycle, UploadStep
  <1>3. QED
    BY <1>0, <1>1, <1>2

\* The sessions, their part files, retries, torn writes and racing finishes
\* implement the promise: what a client is told of an upload only grows by
\* appends, is committed once and complete, and then stays or disappears.
THEOREM Implementation == Spec => KeepsPromise
  <1>1. Init => Promise!Init
    BY DEF Init, Promise!Init, Unused
  <1>2. ASSUME UploadInv, [Next]_vars
        PROVE  [Promise!Next]_(<<Phases, Holdings>>)
    <2>1. CASE Next
      BY <1>2, <2>1, NextLifecycle, LifecyclePromise
    <2>2. CASE UNCHANGED vars
      BY <2>2 DEF vars, Phases, Holdings, Held
    <2>3. QED
      BY <1>2, <2>1, <2>2
  <1>3. [Promise!Next]_(<<Phases, Holdings>>) => [Promise!Next]_(Promise!vars)
    BY DEF Phases, Holdings, Held, Promise!vars
  <1>4. QED
    BY <1>1, <1>2, <1>3, UploadSafety, PTL DEF Spec, KeepsPromise, Promise!Spec
=============================================================================
