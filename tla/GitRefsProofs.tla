---------------------------- MODULE GitRefsProofs ----------------------------
(***************************************************************************)
(* The properties of the branches, for any number of callers, branches and *)
(* files and histories of any length.  The first lemmas are about commits; *)
(* then every step is quiet (it moves no branch), a caller's write, what   *)
(* GitHub integrates for a caller, or somebody else's change, and each     *)
(* property is proved of the four kinds.                                   *)
(***************************************************************************)
EXTENDS GitRefs, SequenceTheorems, TLAPS

SameTrees(c, d) == Len(c) = Len(d) /\ \A i \in 1..Len(d) : c[i].tree = d[i].tree

\* What a transaction has planned, from the head it read.
Planned(c) ==
    /\ c.head \in Commit /\ c.new \in Commit
    /\ c.op = "commit" => \E e \in Edit : c.new = Child(c.head, e)
    /\ c.op = "repoint" => Tip(c.new).tree = Tip(c.head).tree
    /\ c.op = "rewrite" => SameTrees(c.new, c.head)

\* A call on its way has what its next steps need.
Shaped(c) ==
    /\ c.at # "idle" => /\ c.op \in Op /\ c.branch \in Branch
                        /\ Permitted(c.op, c.branch, c.other)
    /\ c.at # "idle" => c.other \in Others(c.op, c.branch)
    /\ c.at \in {"recheck", "write"} /\ c.op \in Transactions => Planned(c)
    /\ c.at = "recheck" => c.op \in Transactions
    /\ c.at = "write" /\ c.op = "put" => c.edit \in Edit /\ c.head \in Commit
    /\ c.at = "write" /\ c.op \in {"fast_forward", "create"} => c.new \in Commit

GitInv == TypeOK /\ Window /\ \A p \in Caller : Shaped(call[p])

-----------------------------------------------------------------------------
(* Commits *)

LEMMA TipIsAnEntry == ASSUME NEW c \in Commit PROVE Tip(c) \in Entry /\ Len(c) \in Nat \ {0}
BY DEF Commit, Tip

LEMMA EditedIsATree ==
    ASSUME NEW t \in Tree, NEW e \in Edit
    PROVE  /\ Edited(t, e) \in Tree
           /\ \A g \in File \ {e.file} : Edited(t, e)[g] = t[g]
BY DEF Tree, Edit, Edited

LEMMA AppendIsACommit ==
    ASSUME NEW c \in Commit, NEW x \in Entry
    PROVE  /\ Append(c, x) \in Commit
           /\ Len(Append(c, x)) = Len(c) + 1
           /\ Tip(Append(c, x)) = x
           /\ IsPrefix(c, Append(c, x))
<1>1. /\ Append(c, x) \in Seq(Entry) /\ Len(Append(c, x)) = Len(c) + 1
      /\ Append(c, x)[Len(c) + 1] = x /\ c \in Seq(Entry) /\ Len(c) \in Nat
      /\ \A i \in 1..Len(c) : Append(c, x)[i] = c[i]
  BY AppendProperties DEF Commit
<1>2. SubSeq(c, 1, Len(c)) = SubSeq(Append(c, x), 1, Len(c))
  BY <1>1, SMTT(30)
<1> QED BY <1>1, <1>2 DEF Commit, Tip, IsPrefix

LEMMA ChildIsACommit ==
    ASSUME NEW c \in Commit, NEW e \in Edit
    PROVE  /\ Child(c, e) \in Commit
           /\ Len(Child(c, e)) = Len(c) + 1
           /\ IsPrefix(c, Child(c, e))
           /\ \A g \in File \ {e.file} : Tip(Child(c, e)).tree[g] = Tip(c).tree[g]
<1> DEFINE x == [tree |-> Edited(Tip(c).tree, e), by |-> "agent"]
<1>1. Tip(c).tree \in Tree BY TipIsAnEntry DEF Entry
<1>2. /\ x \in Entry /\ x.tree = Edited(Tip(c).tree, e)
      /\ \A g \in File \ {e.file} : x.tree[g] = Tip(c).tree[g]
  BY <1>1, EditedIsATree DEF Entry, Identity
<1>3. Child(c, e) = Append(c, x) BY DEF Child
<1> HIDE DEF x
<1> QED BY <1>2, <1>3, AppendIsACommit

LEMMA AncestorsAreCommits == \A c \in Commit : Ancestors(c) \subseteq Commit
<1> SUFFICES ASSUME NEW c \in Commit, NEW n \in 1..Len(c)
             PROVE  SubSeq(c, 1, n) \in Commit
  BY DEF Ancestors
<1>1. c \in Seq(Entry) /\ Len(c) \in Nat BY DEF Commit
<1>2. SubSeq(c, 1, n) \in Seq(Entry) /\ Len(SubSeq(c, 1, n)) = n
  BY <1>1, SubSeqProperties
<1> QED BY <1>2 DEF Commit

LEMMA RewrittenIsACommit ==
    ASSUME NEW c \in Commit, NEW base \in Nat
    PROVE  Rewritten(c, base) \in Commit /\ SameTrees(Rewritten(c, base), c)
<1>1. c \in Seq(Entry) /\ Len(c) \in Nat \ {0} BY DEF Commit
<1>2. ASSUME NEW i \in 1..Len(c)
      PROVE  LET x == IF i <= base THEN c[i] ELSE [c[i] EXCEPT !.by = "agent"]
             IN  x \in Entry /\ x.tree = c[i].tree
  <2>1. c[i] \in Entry BY <1>1
  <2> QED BY <2>1 DEF Entry, Identity
<1>3. Rewritten(c, base) \in [1..Len(c) -> Entry] BY <1>2 DEF Rewritten
<1>4. Rewritten(c, base) \in Seq(Entry) /\ Len(Rewritten(c, base)) = Len(c)
  BY <1>1, <1>3, IsASeq, LenProperties
<1>5. \A i \in 1..Len(c) : Rewritten(c, base)[i].tree = c[i].tree BY <1>2 DEF Rewritten
<1> QED BY <1>1, <1>4, <1>5 DEF Commit, SameTrees

LEMMA KnownAreCommits == TypeOK => Known \subseteq Commit
<1> SUFFICES ASSUME TypeOK, NEW b \in Branch, head[b] # None,
                    NEW c \in Ancestors(head[b]), NEW n \in 0..Len(c)
             PROVE  Rewritten(c, n) \in Commit
  BY DEF Known
<1>1. c \in Commit BY AncestorsAreCommits DEF TypeOK
<1> QED BY <1>1, RewrittenIsACommit DEF Commit

LEMMA PrefixOfItself == \A c \in Commit : IsPrefix(c, c)
BY DEF Commit, IsPrefix

\* What lies behind a child is the child, its parent, or behind the parent.
LEMMA BehindAChild ==
    ASSUME NEW h \in Commit, NEW c \in Commit, NEW e \in Edit, IsPrefix(h, Child(c, e))
    PROVE  h = Child(c, e) \/ h = c \/ IsStrictPrefix(h, c)
<1> DEFINE d == Child(c, e)
<1>1. /\ h \in Seq(Entry) /\ c \in Seq(Entry) /\ d \in Seq(Entry)
      /\ Len(h) \in Nat /\ Len(c) \in Nat /\ Len(d) = Len(c) + 1
      /\ IsPrefix(c, d) /\ IsPrefix(h, d)
  BY ChildIsACommit DEF Commit
<1> HIDE DEF d
<1>2. CASE Len(h) = Len(c) + 1
  <2>1. SubSeq(h, 1, Len(h)) = h /\ SubSeq(d, 1, Len(d)) = d BY <1>1, SubSeqFull
  <2> QED BY <1>1, <1>2, <2>1 DEF IsPrefix, d
<1>3. CASE Len(h) <= Len(c)
  <2>1. \A i \in 1..Len(h) : h[i] = d[i] /\ d[i] = c[i]
    <3> TAKE i \in 1..Len(h)
    <3>1. SubSeq(h, 1, Len(h))[i] = SubSeq(d, 1, Len(h))[i] BY <1>1 DEF IsPrefix
    <3>2. SubSeq(c, 1, Len(c))[i] = SubSeq(d, 1, Len(c))[i] BY <1>1 DEF IsPrefix
    <3> QED BY <1>1, <1>3, <3>1, <3>2, SubSeqProperties
  <2>2. SubSeq(h, 1, Len(h)) = SubSeq(c, 1, Len(h)) BY <1>1, <1>3, <2>1
  <2> QED BY <1>1, <1>3, <2>2 DEF IsPrefix, IsStrictPrefix
<1> QED BY <1>1, <1>2, <1>3 DEF IsPrefix

-----------------------------------------------------------------------------
(* The kinds of steps *)

Comes(p, c) ==
    /\ p \in Caller /\ c \in Call /\ Shaped(c)
    /\ call' = [call EXCEPT ![p] = c]
    /\ c # call[p]
    /\ work' \in 0..MaxWork

\* No branch moves; who comes to the write of a transaction has just looked.
Quiet(p, c) ==
    /\ Comes(p, c)
    /\ head' = head
    /\ moved' \in {moved, [moved EXCEPT ![p] = FALSE]}
    /\ c.at = "write" /\ c.op \in Transactions => head[c.branch] = c.head

Replied(p, c) == c = Idle \/ c = [call[p] EXCEPT !.resent = TRUE]

Wrote(p, c) ==
    /\ Comes(p, c)
    /\ call[p].at = "write" /\ call[p].op \notin Integrations
    /\ Accepted(call[p]) /\ head' = Written(call[p])
    /\ Moves(p)
    /\ Replied(p, c)

\* The branch has become n, which only a rebase puts beside what was there.
Joined(p, c, n) ==
    /\ Comes(p, c)
    /\ call[p].at = "write" /\ call[p].op \in Integrations
    /\ n \in Commit
    /\ head' = [head EXCEPT ![call[p].branch] = n]
    /\ call[p].op # "rebase" => IsPrefix(head[call[p].branch], n)
    /\ Moves(p)
    /\ Replied(p, c)

Changed(b, c) ==
    /\ b \in Branch /\ c \in Commit
    /\ head' = [head EXCEPT ![b] = c]
    /\ moved' = [q \in Caller |-> moved[q] \/ (call[q].branch = b /\ head'[b] # head[b])]
    /\ call' = call
    /\ work' \in 0..MaxWork

LEMMA WorksIsCounted == TypeOK /\ (Works \/ UNCHANGED work) => work' \in 0..MaxWork
BY GitAssumption DEF TypeOK, Works

LEMMA IdleIsACall == Idle \in Call /\ Shaped(Idle)
BY DEF Idle, Call, Shaped

LEMMA Starts ==
    ASSUME TypeOK, NEW p \in Caller, Start(p)
    PROVE  \E c \in Call : Quiet(p, c)
<1>1. PICK op \in Op, b \in Branch :
        \E other \in Others(op, b),
           e \in CASE op \in {"commit", "update", "rebase"} -> {head[b], None}
                   [] op \in Forced -> {head[b]}
                   [] OTHER -> {None} :
          /\ Permitted(op, b, other)
          /\ Goto(p, [Idle EXCEPT !.at = IF op \in Direct THEN "write" ELSE "read",
                                  !.op = op, !.branch = b, !.other = other, !.expected = e])
  BY DEF Start
<1>2. PICK other \in Others(op, b), e \in {head[b], None} :
          /\ Permitted(op, b, other)
          /\ Goto(p, [Idle EXCEPT !.at = IF op \in Direct THEN "write" ELSE "read",
                                  !.op = op, !.branch = b, !.other = other, !.expected = e])
  BY <1>1 DEF Op, Updates, Transactions, Forced, Integrations
<1> DEFINE c == [Idle EXCEPT !.at = IF op \in Direct THEN "write" ELSE "read",
                             !.op = op, !.branch = b, !.other = other, !.expected = e]
<1>3. /\ c.at \in {"read", "write"} /\ c.op = op /\ c.branch = b /\ c.other = other
      /\ c.at = "write" => op \in Direct
  BY DEF Idle
<1>4. c \in Call
  BY <1>2 DEF Idle, Call, TypeOK, Others
<1>5. call' = [call EXCEPT ![p] = c] /\ call[p].at = "idle" BY <1>2 DEF Goto, Start
<1> HIDE DEF c
<1>6. Shaped(c)
  BY <1>2, <1>3 DEF Shaped, Transactions, Op, Updates, Direct, Integrations
<1>7. work' \in 0..MaxWork BY WorksIsCounted DEF Start
<1>8. c.at = "write" => c.op \notin Transactions
  BY <1>3 DEF Transactions, Direct, Integrations
<1>9. head' = head /\ moved' = [moved EXCEPT ![p] = FALSE] BY DEF Start
<1> QED BY <1>3, <1>4, <1>5, <1>6, <1>7, <1>8, <1>9 DEF Quiet, Comes

LEMMA Abandons ==
    ASSUME TypeOK, NEW p \in Caller, Abandon(p)
    PROVE  \E c \in Call : Quiet(p, c)
<1>1. Idle.at = "idle" BY DEF Idle
<1> QED BY <1>1, IdleIsACall, WorksIsCounted DEF Abandon, Goto, Quiet, Comes

LEMMA PlansAreCommits ==
    ASSUME TypeOK, NEW c \in Call, c.op \in Transactions, NEW h \in Commit,
           NEW n \in Plans(c, h)
    PROVE  /\ n \in Commit
           /\ c.op = "commit" => \E e \in Edit : n = Child(h, e)
           /\ c.op = "repoint" => Tip(n).tree = Tip(h).tree
           /\ c.op = "rewrite" => SameTrees(n, h)
<1>1. CASE c.op = "commit"
  <2>1. PICK e \in Edit : n = Child(h, e) BY <1>1 DEF Plans, CommitPlans, ResetPlans, RepointPlans, RewritePlans
  <2> QED BY <1>1, <2>1, ChildIsACommit
<1>2. CASE c.op = "reset"
  <2>1. n \in Ancestors(h) BY <1>2 DEF Plans, CommitPlans, ResetPlans, RepointPlans, RewritePlans
  <2> QED BY <1>2, <2>1, AncestorsAreCommits
<1>3. CASE c.op = "repoint"
  <2>1. n \in Known /\ Tip(n).tree = Tip(h).tree BY <1>3 DEF Plans, CommitPlans, ResetPlans, RepointPlans, RewritePlans
  <2> QED BY <1>3, <2>1, KnownAreCommits
<1>4. CASE c.op = "rewrite"
  <2>1. PICK base \in 0..Len(h) - 1 : n = Rewritten(h, base) BY <1>4 DEF Plans, CommitPlans, ResetPlans, RepointPlans, RewritePlans
  <2>2. base \in Nat BY DEF Commit
  <2> QED BY <1>4, <2>1, <2>2, RewrittenIsACommit
<1> QED BY <1>1, <1>2, <1>3, <1>4 DEF Transactions

LEMMA Begins ==
    ASSUME TypeOK, NEW p \in Caller, Shaped(call[p]), Begin(p)
    PROVE  \E c \in Call : Quiet(p, c)
<1> DEFINE k == call[p]
           h == head[k.branch]
<1>1. /\ k \in Call /\ k.at = "read" /\ k.op \in Transactions /\ k.op \in Op
      /\ k.branch \in Branch /\ Permitted(k.op, k.branch, k.other)
      /\ k.other \in Others(k.op, k.branch)
  BY DEF Begin, Shaped, TypeOK
<1>2. h \in Commit BY <1>1 DEF Begin, TypeOK
<1>3. PICK n \in Plans(k, h) : Goto(p, [k EXCEPT !.at = "recheck", !.head = h, !.new = n])
  BY DEF Begin
<1> DEFINE c == [k EXCEPT !.at = "recheck", !.head = h, !.new = n]
<1> HIDE DEF k, h
<1>4. /\ n \in Commit
      /\ k.op = "commit" => \E e \in Edit : n = Child(h, e)
      /\ k.op = "repoint" => Tip(n).tree = Tip(h).tree
      /\ k.op = "rewrite" => SameTrees(n, h)
  BY <1>1, <1>2, PlansAreCommits
<1>5. c \in Call /\ c.at = "recheck" /\ c.op = k.op /\ c.branch = k.branch /\ c.other = k.other
      /\ c.head = h /\ c.new = n
  BY <1>1, <1>2, <1>4 DEF Call
<1>6. call' = [call EXCEPT ![p] = c] BY <1>3 DEF Goto
<1>7. c # k BY <1>1, <1>5
<1>8. work' \in 0..MaxWork /\ head' = head /\ moved' = moved BY WorksIsCounted DEF Begin
<1> HIDE DEF c
<1>9. Planned(c) BY <1>2, <1>4, <1>5 DEF Planned
<1>10. Shaped(c) BY <1>1, <1>5, <1>9 DEF Shaped, Transactions
<1> QED BY <1>5, <1>6, <1>7, <1>8, <1>10 DEF Quiet, Comes, k

LEMMA Rechecks ==
    ASSUME TypeOK, NEW p \in Caller, Shaped(call[p]), Recheck(p)
    PROVE  \E c \in Call : Quiet(p, c)
<1> DEFINE k == call[p]
           c == [k EXCEPT !.at = "write"]
<1>1. /\ k \in Call /\ k.at = "recheck" /\ k.op \in Transactions /\ k.op \in Op
      /\ k.branch \in Branch /\ Permitted(k.op, k.branch, k.other) /\ Planned(k)
      /\ head[k.branch] = k.head /\ k.other \in Others(k.op, k.branch)
  BY DEF Recheck, Shaped, TypeOK
<1>2. call' = [call EXCEPT ![p] = c] /\ head' = head /\ moved' = [moved EXCEPT ![p] = FALSE]
  BY DEF Recheck, Goto
<1>3. work' \in 0..MaxWork BY WorksIsCounted DEF Recheck
<1> HIDE DEF k
<1>4. /\ c \in Call /\ c.at = "write" /\ c.op = k.op /\ c.branch = k.branch
      /\ c.other = k.other /\ c.head = k.head /\ c.new = k.new
  BY <1>1 DEF Call
<1> HIDE DEF c
<1>5. Planned(c) BY <1>1, <1>4 DEF Planned
<1>6. Shaped(c) BY <1>1, <1>4, <1>5 DEF Shaped, Transactions
<1>7. c # k BY <1>1, <1>4
<1> QED BY <1>1, <1>2, <1>3, <1>4, <1>6, <1>7 DEF Quiet, Comes, k

LEMMA ReadsFile ==
    ASSUME TypeOK, NEW p \in Caller, Shaped(call[p]), ReadFile(p)
    PROVE  \E c \in Call : Quiet(p, c)
<1> DEFINE k == call[p]
           h == head[k.branch]
<1>1. /\ k \in Call /\ k.at = "read" /\ k.op = "put" /\ k.op \in Op
      /\ k.branch \in Branch /\ Permitted(k.op, k.branch, k.other) /\ h \in Commit
      /\ k.other \in Others(k.op, k.branch)
  BY DEF ReadFile, Shaped, TypeOK
<1>2. PICK e \in Edit : Goto(p, [k EXCEPT !.at = "write", !.head = h, !.edit = e])
  BY DEF ReadFile
<1> DEFINE c == [k EXCEPT !.at = "write", !.head = h, !.edit = e]
<1>3. call' = [call EXCEPT ![p] = c] BY <1>2 DEF Goto
<1>4. work' \in 0..MaxWork /\ head' = head /\ moved' = moved BY WorksIsCounted DEF ReadFile
<1> HIDE DEF k, h
<1>5. /\ c \in Call /\ c.at = "write" /\ c.op = "put" /\ c.branch = k.branch
      /\ c.other = k.other /\ c.head = h /\ c.edit = e
  BY <1>1 DEF Call
<1> HIDE DEF c
<1>6. Shaped(c) BY <1>1, <1>5 DEF Shaped, Transactions
<1>7. c # k BY <1>1, <1>5
<1> QED BY <1>3, <1>4, <1>5, <1>6, <1>7 DEF Quiet, Comes, k, Transactions

LEMMA ReadsOther ==
    ASSUME TypeOK, NEW p \in Caller, Shaped(call[p]), ReadOther(p)
    PROVE  \E c \in Call : Quiet(p, c)
<1> DEFINE k == call[p]
           h == head[k.other]
           c == [k EXCEPT !.at = "write", !.new = h]
<1>1. /\ k \in Call /\ k.at = "read" /\ k.op \in {"fast_forward", "create"} /\ k.op \in Op
      /\ k.branch \in Branch /\ k.other \in Branch \ {k.branch}
      /\ k.other \in Others(k.op, k.branch)
      /\ Permitted(k.op, k.branch, k.other)
  BY DEF ReadOther, Shaped, TypeOK, Others
<1>2. h \in Commit BY <1>1 DEF ReadOther, TypeOK
<1>3. call' = [call EXCEPT ![p] = c] BY DEF ReadOther, Goto
<1>4. work' \in 0..MaxWork /\ head' = head /\ moved' = moved BY WorksIsCounted DEF ReadOther
<1> HIDE DEF k, h
<1>5. /\ c \in Call /\ c.at = "write" /\ c.op = k.op /\ c.branch = k.branch
      /\ c.other = k.other /\ c.new = h
  BY <1>1, <1>2 DEF Call
<1> HIDE DEF c
<1>6. Shaped(c) BY <1>1, <1>2, <1>5 DEF Shaped, Transactions
<1>7. c # k BY <1>1, <1>5
<1> QED BY <1>1, <1>3, <1>4, <1>5, <1>6, <1>7 DEF Quiet, Comes, k, Transactions

\* After its write a call is over or will be sent again.
LEMMA Replies ==
    ASSUME TypeOK, NEW p \in Caller, Shaped(call[p]), call[p].at = "write",
           Answered(p) \/ Lost(p)
    PROVE  \E c \in Call : Comes(p, c) /\ Replied(p, c)
<1> DEFINE k == call[p]
           c == [k EXCEPT !.resent = TRUE]
<1>1. k \in Call /\ k.at = "write" BY DEF TypeOK
<1>2. work' \in 0..MaxWork BY WorksIsCounted DEF Answered, Lost
<1>3. CASE Answered(p)
  <2>1. Idle # k BY <1>1 DEF Idle
  <2> QED BY <1>1, <1>2, <1>3, <2>1, IdleIsACall DEF Answered, Goto, Comes, Replied
<1>4. CASE Lost(p)
  <2>1. /\ c \in Call /\ c.at = k.at /\ c.op = k.op /\ c.branch = k.branch /\ c.other = k.other
        /\ c.head = k.head /\ c.new = k.new /\ c.edit = k.edit /\ c.resent
    BY <1>1 DEF Call
  <2>2. Shaped(c) BY <2>1 DEF Shaped, Planned
  <2>3. c # k BY <1>4, <2>1 DEF Lost
  <2> QED BY <1>1, <1>2, <1>4, <2>1, <2>2, <2>3 DEF Lost, Goto, Comes, Replied
<1> QED BY <1>3, <1>4

LEMMA WritesMove ==
    ASSUME TypeOK, NEW p \in Caller, Shaped(call[p]), Write(p)
    PROVE  \E c \in Call : Wrote(p, c)
BY Replies DEF Write, Wrote

LEMMA MergedIsATree ==
    ASSUME NEW t \in Tree, NEW u \in Tree, NEW v \in Tree PROVE Merged(t, u, v) \in Tree
BY DEF Tree, Merged

\* A merge extends the branch, and a rebase is a history too.
LEMMA IntegratedIsACommit ==
    ASSUME NEW c \in Commit, NEW o \in Commit, NEW k \in 1..Len(c)
    PROVE  /\ MergeOf(c, o, k) \in Commit /\ IsPrefix(c, MergeOf(c, o, k))
           /\ RebaseOf(c, o, k) \in Commit
<1>1. /\ c \in Seq(Entry) /\ o \in Seq(Entry) /\ Len(c) \in Nat /\ Len(o) \in Nat \ {0}
      /\ Tip(c) \in Entry /\ Tip(o) \in Entry /\ c[k] \in Entry
  BY TipIsAnEntry DEF Commit
<1>2. Tip(c).tree \in Tree /\ Tip(o).tree \in Tree /\ c[k].tree \in Tree BY <1>1 DEF Entry
<1>3. [tree |-> Merged(Tip(c).tree, Tip(o).tree, c[k].tree), by |-> "agent"] \in Entry
  <2>1. Merged(Tip(c).tree, Tip(o).tree, c[k].tree) \in Tree BY <1>2, MergedIsATree
  <2> QED BY <2>1 DEF Entry, Identity
<1>4. MergeOf(c, o, k) \in Commit /\ IsPrefix(c, MergeOf(c, o, k))
  BY <1>3, AppendIsACommit DEF MergeOf
<1> DEFINE own == [i \in 1..Len(c) - k |->
                      [c[k + i] EXCEPT !.tree = Merged(@, Tip(o).tree, c[k].tree)]]
<1>5. ASSUME NEW i \in 1..Len(c) - k
      PROVE  [c[k + i] EXCEPT !.tree = Merged(@, Tip(o).tree, c[k].tree)] \in Entry
  <2>1. k + i \in 1..Len(c) BY <1>1
  <2>2. c[k + i] \in Entry BY <1>1, <2>1
  <2>3. c[k + i].tree \in Tree BY <2>2 DEF Entry
  <2>4. Merged(c[k + i].tree, Tip(o).tree, c[k].tree) \in Tree BY <1>2, <2>3, MergedIsATree
  <2> QED BY <2>2, <2>4 DEF Entry
<1>6. own \in [1..Len(c) - k -> Entry] /\ Len(c) - k \in Nat BY <1>1, <1>5
<1> HIDE DEF own
<1>7. own \in Seq(Entry) BY <1>6, IsASeq
<1>8. o \o own \in Seq(Entry) /\ Len(o \o own) = Len(o) + Len(own) /\ Len(own) \in Nat
  BY <1>1, <1>7, ConcatProperties, LenProperties
<1>9. o \o own \in Commit BY <1>1, <1>8 DEF Commit
<1> QED BY <1>4, <1>9 DEF RebaseOf, own

LEMMA Integrates ==
    ASSUME TypeOK, NEW p \in Caller, Shaped(call[p]), Integrate(p)
    PROVE  \E c \in Call : \E n \in Commit : Joined(p, c, n)
<1> DEFINE k == call[p]
           now == head[k.branch]
<1>1. /\ k.at = "write" /\ k.op \in Integrations /\ now # None
      /\ Moves(p) /\ (Answered(p) \/ Lost(p))
      /\ k.branch \in Branch /\ k.other \in Others(k.op, k.branch)
  BY DEF Integrate, Shaped
<1>2. now \in Commit BY <1>1 DEF TypeOK
<1>3. PICK b \in Sources(k), f \in 1..Len(now) :
        LET o == head[b]
            n == IF k.op = "rebase" THEN RebaseOf(now, o, f) ELSE MergeOf(now, o, f)
        IN  /\ o # None
            /\ head' = [head EXCEPT ![k.branch] = n]
  BY DEF Integrate
<1>4. b \in Branch
  <2>1. k.op = "merge" => k.other \in Branch BY <1>1 DEF Others
  <2> QED BY <2>1 DEF Sources
<1> DEFINE o == head[b]
           n == IF k.op = "rebase" THEN RebaseOf(now, o, f) ELSE MergeOf(now, o, f)
<1>5. o \in Commit BY <1>3, <1>4 DEF TypeOK
<1>6. head' = [head EXCEPT ![k.branch] = n] BY <1>3
<1>7. n \in Commit /\ (k.op # "rebase" => IsPrefix(now, n))
  <2> HIDE DEF now, o, k
  <2> QED BY <1>2, <1>5, IntegratedIsACommit
<1>8. PICK c \in Call : Comes(p, c) /\ Replied(p, c)
  BY <1>1, Replies
<1> HIDE DEF n
<1> QED BY <1>1, <1>6, <1>7, <1>8 DEF Joined

LEMMA OthersChange ==
    ASSUME TypeOK, NEW b \in Branch, Push(b) \/ Rewind(b)
    PROVE  \E c \in Commit : Changed(b, c)
<1>1. head[b] \in Commit BY DEF TypeOK, Push, Rewind
<1>2. PICK c \in Commit : Outside(b, c)
  <2>1. CASE Push(b)
    <3>1. PICK e \in Edit :
            Outside(b, Append(head[b], [tree |-> Edited(Tip(head[b]).tree, e), by |-> "other"]))
      BY <2>1 DEF Push
    <3>2. Tip(head[b]).tree \in Tree BY <1>1, TipIsAnEntry DEF Entry
    <3>3. [tree |-> Edited(Tip(head[b]).tree, e), by |-> "other"] \in Entry
      BY <3>2, EditedIsATree DEF Entry, Identity
    <3> QED BY <1>1, <3>1, <3>3, AppendIsACommit
  <2>2. CASE Rewind(b)
    BY <1>1, <2>2, AncestorsAreCommits DEF Rewind
  <2> QED BY <2>1, <2>2
<1> QED BY <1>2, WorksIsCounted DEF Outside, Changed

\* Every step is one of the four kinds.
LEMMA EveryStep ==
    ASSUME GitInv, Next
    PROVE  \/ \E p \in Caller : \E c \in Call : Quiet(p, c) \/ Wrote(p, c)
           \/ \E p \in Caller : \E c \in Call : \E n \in Commit : Joined(p, c, n)
           \/ \E b \in Branch : \E c \in Commit : Changed(b, c)
<1>1. TypeOK /\ \A p \in Caller : Shaped(call[p]) BY DEF GitInv
<1>2. ASSUME NEW p \in Caller,
             Start(p) \/ Abandon(p) \/ Begin(p) \/ Recheck(p) \/ ReadFile(p) \/ ReadOther(p)
                \/ Write(p)
      PROVE  \E c \in Call : Quiet(p, c) \/ Wrote(p, c)
  BY <1>1, <1>2, Starts, Abandons, Begins, Rechecks, ReadsFile, ReadsOther,
     WritesMove
<1>4. ASSUME NEW p \in Caller, Integrate(p)
      PROVE  \E c \in Call : \E n \in Commit : Joined(p, c, n)
  BY <1>1, <1>4, Integrates
<1>3. ASSUME NEW b \in Branch, Push(b) \/ Rewind(b)
      PROVE  \E c \in Commit : Changed(b, c)
  BY <1>1, <1>3, OthersChange
<1> QED BY <1>2, <1>3, <1>4 DEF Next

-----------------------------------------------------------------------------
(* What a write does to the branches *)

LEMMA CallersStep ==
    ASSUME GitInv, NEW p \in Caller, NEW c \in Call, Comes(p, c)
    PROVE  call'[p] = c /\ \A q \in Caller \ {p} : call'[q] = call[q]
BY DEF GitInv, TypeOK, Comes

\* A write leaves every branch a commit or nothing; an update leaves the new one.
LEMMA WrittenHeads ==
    ASSUME GitInv, NEW p \in Caller, call[p].at = "write", call[p].op \notin Integrations,
           Accepted(call[p]), head' = Written(call[p])
    PROVE  /\ head' \in [Branch -> Commit \cup {None}]
           /\ \A x \in Branch : x \notin {call[p].branch, call[p].other} => head'[x] = head[x]
           /\ call[p].op # "rename" => \A x \in Branch \ {call[p].branch} : head'[x] = head[x]
           /\ call[p].op \in Updates \cup {"create"} => head'[call[p].branch] = call[p].new
           /\ call[p].op = "put" => /\ head[call[p].branch] \in Commit
                                    /\ call[p].edit \in Edit
                                    /\ head'[call[p].branch]
                                         = Child(head[call[p].branch], call[p].edit)
<1> DEFINE k == call[p]
           b == k.branch
<1>1. /\ k \in Call /\ Shaped(k) /\ k.op \in Op \ Integrations /\ b \in Branch /\ k.at = "write"
      /\ head \in [Branch -> Commit \cup {None}]
      /\ Accepted(k) /\ head' = Written(k)
  BY DEF GitInv, TypeOK, Shaped
<1> HIDE DEF k
<1>2. CASE k.op \in Updates \cup {"create"}
  <2>1. k.new \in Commit BY <1>1, <1>2 DEF Shaped, Planned, Updates, Transactions
  <2>2. head' = [head EXCEPT ![b] = k.new] BY <1>1, <1>2 DEF Written, Updates, Transactions
  <2> QED BY <1>1, <1>2, <2>1, <2>2 DEF k, Updates, Transactions
<1>3. CASE k.op = "put"
  <2>1. head' = [head EXCEPT ![b] = Child(head[b], k.edit)]
    BY <1>1, <1>3 DEF Written, Updates, Transactions
  <2>2. k.edit \in Edit /\ head[b] # None
    BY <1>1, <1>3 DEF Shaped, Accepted, Updates, Transactions
  <2>3. Child(head[b], k.edit) \in Commit BY <1>1, <2>2, ChildIsACommit
  <2> QED BY <1>1, <1>3, <2>1, <2>2, <2>3 DEF k, Updates, Transactions
<1>4. CASE k.op = "delete"
  <2>1. head' = [head EXCEPT ![b] = None] BY <1>1, <1>4 DEF Written, Updates, Transactions
  <2> QED BY <1>1, <1>4, <2>1 DEF k, Updates, Transactions
<1>5. CASE k.op = "rename"
  <2>1. head' = [head EXCEPT ![k.other] = head[b], ![b] = None]
    BY <1>1, <1>5 DEF Written, Updates, Transactions
  <2>2. k.other \in Branch \ {b} BY <1>1, <1>5 DEF Shaped, Others
  <2> QED BY <1>1, <1>5, <2>1, <2>2 DEF k, Updates, Transactions
<1> QED BY <1>1, <1>2, <1>3, <1>4, <1>5 DEF Op

-----------------------------------------------------------------------------
(* The invariant *)

LEMMA InitGitInv == Init => GitInv
<1> SUFFICES ASSUME Init PROVE GitInv OBVIOUS
<1>1. TypeOK BY GitAssumption, IdleIsACall DEF Init, TypeOK
<1>2. \A p \in Caller : call[p] = Idle /\ call[p].at = "idle" BY DEF Init, Idle
<1> QED BY <1>1, <1>2, IdleIsACall DEF GitInv, Window

LEMMA QuietKeeps ==
    ASSUME GitInv, NEW p \in Caller, NEW c \in Call, Quiet(p, c)
    PROVE  GitInv'
<1>1. call'[p] = c /\ \A q \in Caller \ {p} : call'[q] = call[q]
  BY CallersStep DEF Quiet
<1>2. TypeOK'
  BY DEF GitInv, TypeOK, Quiet, Comes
<1>3. Window'
  <2> SUFFICES ASSUME NEW q \in Caller, call'[q].at = "write", call'[q].op \in Transactions,
                      ~moved'[q]
               PROVE  head'[call'[q].branch] \in {call'[q].head, call'[q].new}
    BY DEF Window
  <2>1. CASE q = p BY <1>1, <2>1 DEF Quiet
  <2>2. CASE q # p
    <3>1. call'[q] = call[q] /\ moved'[q] = moved[q] /\ head' = head
      BY <1>1, <2>2 DEF Quiet, GitInv, TypeOK
    <3> QED BY <3>1 DEF GitInv, Window
  <2> QED BY <2>1, <2>2
<1>4. \A q \in Caller : Shaped(call'[q])
  BY <1>1 DEF GitInv, Quiet, Comes
<1> QED BY <1>2, <1>3, <1>4 DEF GitInv, Shaped, Planned

LEMMA WroteKeeps ==
    ASSUME GitInv, NEW p \in Caller, NEW c \in Call, Wrote(p, c)
    PROVE  GitInv'
<1>1. call'[p] = c /\ \A q \in Caller \ {p} : call'[q] = call[q]
  BY CallersStep DEF Wrote
<1>2. call[p] \in Call /\ call[p].at = "write" BY DEF GitInv, TypeOK, Wrote
<1>3. TypeOK'
  <2>1. head' \in [Branch -> Commit \cup {None}] BY WrittenHeads DEF Wrote
  <2>2. moved' \in [Caller -> BOOLEAN] BY DEF Wrote, Moves, GitInv, TypeOK
  <2> QED BY <2>1, <2>2 DEF GitInv, TypeOK, Wrote, Comes
<1>4. Window'
  <2> SUFFICES ASSUME NEW q \in Caller, call'[q].at = "write", call'[q].op \in Transactions,
                      ~moved'[q]
               PROVE  head'[call'[q].branch] \in {call'[q].head, call'[q].new}
    BY DEF Window
  <2>1. CASE q = p
    <3>1. c # Idle BY <1>1, <2>1 DEF Idle
    <3>2. c.op = call[p].op /\ c.branch = call[p].branch /\ c.new = call[p].new
      BY <1>2, <3>1 DEF Wrote, Call, Replied
    <3>3. head'[call[p].branch] = call[p].new
      BY <1>1, <1>2, <2>1, <3>2, WrittenHeads DEF Wrote, Updates
    <3> QED BY <1>1, <2>1, <3>2, <3>3
  <2>2. CASE q # p
    <3>1. call'[q] = call[q] BY <1>1, <2>2
    <3>2. ~moved[q] /\ head'[call[q].branch] = head[call[q].branch]
      BY <2>2, <3>1 DEF Wrote, Moves
    <3> QED BY <3>1, <3>2 DEF GitInv, Window
  <2> QED BY <2>1, <2>2
<1>5. \A q \in Caller : Shaped(call'[q])
  BY <1>1 DEF GitInv, Wrote, Comes
<1> QED BY <1>3, <1>4, <1>5 DEF GitInv, Shaped, Planned

LEMMA JoinedKeeps ==
    ASSUME GitInv, NEW p \in Caller, NEW c \in Call, NEW n \in Commit, Joined(p, c, n)
    PROVE  GitInv'
<1>1. call'[p] = c /\ \A q \in Caller \ {p} : call'[q] = call[q]
  BY CallersStep DEF Joined
<1>2. call[p] \in Call BY DEF GitInv, TypeOK
<1>3. TypeOK'
  BY DEF GitInv, TypeOK, Joined, Comes, Moves
<1>4. c.at = "write" => c.op \notin Transactions
  <2>1. CASE c = Idle BY <2>1 DEF Idle
  <2>2. CASE c = [call[p] EXCEPT !.resent = TRUE]
    <3>1. c.op = call[p].op BY <1>2, <2>2 DEF Call
    <3> QED BY <3>1 DEF Joined, Transactions, Integrations
  <2> QED BY <2>1, <2>2 DEF Joined, Replied
<1>5. Window'
  <2> SUFFICES ASSUME NEW q \in Caller, call'[q].at = "write", call'[q].op \in Transactions,
                      ~moved'[q]
               PROVE  head'[call'[q].branch] \in {call'[q].head, call'[q].new}
    BY DEF Window
  <2>1. q # p /\ call'[q] = call[q] BY <1>1, <1>4
  <2>2. ~moved[q] /\ head'[call[q].branch] = head[call[q].branch]
    BY <2>1 DEF Joined, Moves
  <2> QED BY <2>1, <2>2 DEF GitInv, Window
<1>6. \A q \in Caller : Shaped(call'[q])
  BY <1>1 DEF GitInv, Joined, Comes
<1> QED BY <1>3, <1>5, <1>6 DEF GitInv, Shaped, Planned

LEMMA ChangedKeeps ==
    ASSUME GitInv, NEW b \in Branch, NEW c \in Commit, Changed(b, c)
    PROVE  GitInv'
<1>1. TypeOK'
  BY DEF GitInv, TypeOK, Changed
<1>2. Window'
  <2> SUFFICES ASSUME NEW q \in Caller, call[q].at = "write", call[q].op \in Transactions,
                      ~moved'[q]
               PROVE  head'[call[q].branch] \in {call[q].head, call[q].new}
    BY DEF Window, Changed
  <2>1. call[q].branch \in Branch BY DEF GitInv, Shaped
  <2>2. ~moved[q] /\ head'[call[q].branch] = head[call[q].branch]
    BY <2>1 DEF Changed, GitInv, TypeOK
  <2> QED BY <2>2 DEF GitInv, Window
<1>3. \A q \in Caller : Shaped(call'[q])
  BY DEF GitInv, Changed
<1> QED BY <1>1, <1>2, <1>3 DEF GitInv, Shaped, Planned

\* The branches' invariant: types, the window, and what a call on its way has.
THEOREM GitSafety == Spec => []GitInv
<1>1. Init => GitInv BY InitGitInv
<1>2. GitInv /\ [Next]_vars => GitInv'
  <2> SUFFICES ASSUME GitInv, [Next]_vars PROVE GitInv' OBVIOUS
  <2>1. CASE Next BY <2>1, EveryStep, QuietKeeps, WroteKeeps, JoinedKeeps, ChangedKeeps
  <2>2. CASE UNCHANGED vars
    BY <2>2 DEF vars, GitInv, TypeOK, Window, Shaped, Planned
  <2> QED BY <2>1, <2>2
<1> QED BY <1>1, <1>2, PTL DEF Spec

\* Heads and calls keep their types, for any number of callers and branches.
THEOREM GitTypes == Spec => []TypeOK
<1>1. GitInv => TypeOK BY DEF GitInv
<1> QED BY <1>1, GitSafety, PTL

\* Nobody else having moved the branch since the second look, it is where the
\* caller expects it (git_transaction.py:164-179 and the like).
THEOREM SecondLook == Spec => []Window
<1>1. GitInv => Window BY DEF GitInv
<1> QED BY <1>1, GitSafety, PTL

-----------------------------------------------------------------------------
(* What a step may do *)

\* The writer of a step is the caller whose write it is.
LEMMA TheWriter ==
    ASSUME GitInv, Next, NEW p \in Caller, Writes(p)
    PROVE  \E c \in Call : IF call[p].op \in Integrations
                          THEN \E n \in Commit : Joined(p, c, n) ELSE Wrote(p, c)
<1>1. ASSUME NEW q \in Caller, NEW c \in Call, Quiet(q, c) \/ Wrote(q, c)
      PROVE  Wrote(p, c)
  <2>1. Wrote(q, c) BY <1>1 DEF Writes, Quiet
  <2>2. q = p BY <2>1, CallersStep DEF Wrote, Writes
  <2> QED BY <2>1, <2>2
<1>3. ASSUME NEW q \in Caller, NEW c \in Call, NEW n \in Commit, Joined(q, c, n)
      PROVE  Joined(p, c, n)
  <2>1. q = p BY <1>3, CallersStep DEF Joined, Writes
  <2> QED BY <1>3, <2>1
<1>4. ASSUME NEW c \in Call, Wrote(p, c) PROVE call[p].op \notin Integrations
  BY <1>4 DEF Wrote
<1>5. ASSUME NEW c \in Call, NEW n \in Commit, Joined(p, c, n)
      PROVE call[p].op \in Integrations
  BY <1>5 DEF Joined
<1>2. \A b \in Branch : \A c \in Commit : ~Changed(b, c) BY DEF Writes, Changed
<1> QED BY <1>1, <1>2, <1>3, <1>4, <1>5, EveryStep

\* The branch of an update is a commit before and after; unforced, it is extended.
LEMMA Updated ==
    ASSUME GitInv, NEW p \in Caller, NEW c \in Call, Wrote(p, c), call[p].op \in Updates
    PROVE  /\ head[call[p].branch] \in Commit
           /\ head'[call[p].branch] = call[p].new
           /\ call[p].op \notin Forced => IsPrefix(head[call[p].branch], call[p].new)
<1>1. head[call[p].branch] # None /\ call[p].branch \in Branch
  BY DEF Wrote, Accepted, GitInv, Shaped, Updates, Transactions
<1>2. head[call[p].branch] \in Commit BY <1>1 DEF GitInv, TypeOK
<1>3. head'[call[p].branch] = call[p].new BY WrittenHeads DEF Wrote
<1>4. call[p].op \notin Forced => IsPrefix(head[call[p].branch], call[p].new)
  BY DEF Wrote, Accepted, Updates, Transactions
<1> QED BY <1>2, <1>3, <1>4

LEMMA NoStepDrops ==
    ASSUME GitInv, Next, NEW b \in Branch, head[b] # None
    PROVE  \/ head'[b] # None /\ IsPrefix(head[b], head'[b])
           \/ UNCHANGED call
           \/ \E p \in Caller :
                 /\ Writes(p) /\ call[p].branch = b
                 /\ call[p].op \in {"reset", "repoint", "rewrite", "rebase", "delete", "rename"}
<1> DEFINE Extended == head'[b] # None /\ IsPrefix(head[b], head'[b])
<1>1. head[b] \in Commit BY DEF GitInv, TypeOK
<1>2. ASSUME head'[b] = head[b] PROVE Extended BY <1>1, <1>2, PrefixOfItself
<1>3. ASSUME NEW p \in Caller, NEW c \in Call, Quiet(p, c) PROVE Extended
  BY <1>2, <1>3 DEF Quiet
<1>4. ASSUME NEW x \in Branch, NEW c \in Commit, Changed(x, c) PROVE UNCHANGED call
  BY <1>4 DEF Changed
<1>5. ASSUME NEW p \in Caller, NEW c \in Call, Wrote(p, c)
      PROVE  \/ Extended
             \/ /\ Writes(p) /\ call[p].branch = b
                /\ call[p].op \in {"reset", "repoint", "rewrite", "rebase", "delete", "rename"}
  <2>1. call[p].op \in Op /\ call[p].branch \in Branch /\ Accepted(call[p])
    BY <1>5 DEF Wrote, GitInv, Shaped
  <2>2. CASE b # call[p].branch
    <3>1. call[p].op = "rename" => head[call[p].other] = None
      BY <2>1 DEF Accepted, Updates, Transactions
    <3>2. head'[b] = head[b] BY <1>5, <2>2, <3>1, WrittenHeads DEF Wrote
    <3> QED BY <1>2, <3>2
  <2>3. CASE b = call[p].branch /\ call[p].op \in {"commit", "fast_forward"}
    <3>1. call[p].op \in Updates /\ call[p].op \notin Forced
      BY <2>3 DEF Updates, Transactions, Forced
    <3>2. call[p].new \in Commit
      BY <1>5, <2>3 DEF Wrote, GitInv, Shaped, Planned, Transactions
    <3> QED BY <1>5, <2>3, <3>1, <3>2, Updated, GitAssumption
  <2>4. CASE b = call[p].branch /\ call[p].op = "put"
    <3>1. head'[b] = Child(head[b], call[p].edit) /\ call[p].edit \in Edit
      BY <1>5, <2>4, WrittenHeads DEF Wrote
    <3> QED BY <1>1, <3>1, ChildIsACommit, GitAssumption
  <2>5. CASE b = call[p].branch /\ call[p].op = "create"
    BY <2>1, <2>5 DEF Accepted, Updates, Transactions
  <2>6. CASE b = call[p].branch
             /\ call[p].op \in {"reset", "repoint", "rewrite", "rebase", "delete", "rename"}
    <3>1. call'[p] # call[p] BY <1>5, CallersStep DEF Wrote, Comes
    <3>2. head' = head \/ Writes(p) BY <1>5, <3>1 DEF Wrote, Writes
    <3> QED BY <1>2, <2>6, <3>2
  <2>7. call[p].op \notin Integrations BY <1>5 DEF Wrote
  <2> QED BY <2>1, <2>2, <2>3, <2>4, <2>5, <2>6, <2>7 DEF Op, Updates, Transactions
<1>6. ASSUME NEW p \in Caller, NEW c \in Call, NEW n \in Commit, Joined(p, c, n)
      PROVE  Extended \/ (Writes(p) /\ call[p].branch = b /\ call[p].op = "rebase")
  <2>1. call[p].branch \in Branch BY <1>6 DEF Joined, GitInv, Shaped
  <2>2. CASE b # call[p].branch
    <3>1. head'[b] = head[b] BY <1>6, <2>2 DEF Joined, GitInv, TypeOK
    <3> QED BY <1>2, <3>1
  <2>3. CASE b = call[p].branch
    <3>1. head'[b] = n BY <1>6, <2>1, <2>3 DEF Joined, GitInv, TypeOK
    <3>2. CASE call[p].op # "rebase" BY <1>6, <2>3, <3>1, <3>2, GitAssumption DEF Joined
    <3>3. CASE call[p].op = "rebase"
      <4>1. call'[p] # call[p] BY <1>6, CallersStep DEF Joined, Comes
      <4>2. head' = head \/ Writes(p) BY <1>6, <4>1 DEF Joined, Writes
      <4> QED BY <1>2, <2>3, <3>3, <4>2
    <3> QED BY <3>2, <3>3
  <2> QED BY <2>2, <2>3
<1> QED BY <1>3, <1>4, <1>5, <1>6, EveryStep

\* Commits leave a branch only by a forced update, the rebase of a pull request, a
\* deletion, a renaming or a rewind by somebody else (refs.py:331,
\* git_transaction.py:181, pulls.py:263).
THEOREM Undropped == Spec => NothingDropped
<1>1. GitInv /\ [Next]_vars =>
        [\A b \in Branch :
          head[b] # None => \/ head'[b] # None /\ IsPrefix(head[b], head'[b])
                            \/ UNCHANGED call
                            \/ \E p \in Caller :
                                  /\ Writes(p) /\ call[p].branch = b
                                  /\ call[p].op \in {"reset", "repoint", "rewrite",
                                                     "rebase", "delete", "rename"}]_vars
  BY NoStepDrops
<1> QED BY <1>1, GitSafety, PTL DEF Spec, NothingDropped

LEMMA StepKeepsFiles ==
    ASSUME GitInv, Next, NEW p \in Caller, Writes(p), call[p].op \in {"commit", "put"}
    PROVE  LET b == call[p].branch IN
           \/ \E f \in File : \A g \in File \ {f} :
                  Tip(head'[b]).tree[g] = Tip(head[b]).tree[g]
           \/ IsStrictPrefix(head[b], call[p].head)
<1> DEFINE b == call[p].branch
<1> SUFFICES \/ \E f \in File : \A g \in File \ {f} :
                   Tip(head'[b]).tree[g] = Tip(head[b]).tree[g]
             \/ IsStrictPrefix(head[b], call[p].head)
  OBVIOUS
<1>1. PICK c \in Call : Wrote(p, c) BY TheWriter DEF Integrations
<1>2. CASE call[p].op = "put"
  <2>1. /\ head[b] \in Commit /\ call[p].edit \in Edit
        /\ head'[b] = Child(head[b], call[p].edit)
    BY <1>1, <1>2, WrittenHeads DEF Wrote
  <2>2. call[p].edit.file \in File BY <2>1 DEF Edit
  <2> QED BY <2>1, <2>2, ChildIsACommit
<1>3. CASE call[p].op = "commit"
  <2>1. call[p].head \in Commit /\ \E e \in Edit : call[p].new = Child(call[p].head, e)
    BY <1>1, <1>3 DEF Wrote, GitInv, Shaped, Planned, Transactions
  <2>2. PICK e \in Edit : call[p].new = Child(call[p].head, e) BY <2>1
  <2>3. e.file \in File BY DEF Edit
  <2>4. head[b] \in Commit /\ head'[b] = call[p].new /\ IsPrefix(head[b], call[p].new)
    BY <1>1, <1>3, Updated DEF Updates, Transactions, Forced
  <2>5. head[b] = call[p].new \/ head[b] = call[p].head \/ IsStrictPrefix(head[b], call[p].head)
    BY <2>1, <2>2, <2>4, BehindAChild
  <2>6. CASE head[b] = call[p].new BY <2>3, <2>4, <2>6
  <2>7. CASE head[b] = call[p].head
    <3>1. \A g \in File \ {e.file} : Tip(head'[b]).tree[g] = Tip(head[b]).tree[g]
      BY <2>1, <2>2, <2>4, <2>7, ChildIsACommit
    <3> QED BY <2>3, <3>1
  <2> QED BY <2>5, <2>6, <2>7
<1> QED BY <1>2, <1>3

\* A commit or a put changes one file of the branch, unless the branch was rewound
\* behind what it builds on (git_transaction.py:140-164, content_api.py:126-150).
THEOREM FilesKept == Spec => OnlyItsFile
<1>1. GitInv /\ [Next]_vars =>
        [\A p \in Caller :
          Writes(p) /\ call[p].op \in {"commit", "put"} =>
              LET b == call[p].branch IN
              \/ \E f \in File : \A g \in File \ {f} :
                     Tip(head'[b]).tree[g] = Tip(head[b]).tree[g]
              \/ IsStrictPrefix(head[b], call[p].head)]_vars
  BY StepKeepsFiles
<1> QED BY <1>1, GitSafety, PTL DEF Spec, OnlyItsFile

LEMMA StepIsPermitted ==
    ASSUME GitInv, Next, NEW p \in Caller, NEW b \in Reserved, Writes(p), head'[b] # head[b]
    PROVE  \/ call[p].op \in {"create", "reset"}
           \/ call[p].op = "repoint" /\ b # Default
           \/ call[p].op \in {"update", "rebase"} /\ call[p].branch = b
<1>1. b \in Branch BY GitAssumption
<1>2. b = call[p].branch \/ (call[p].op = "rename" /\ b = call[p].other)
  <2>1. PICK c \in Call : IF call[p].op \in Integrations
                          THEN \E n \in Commit : Joined(p, c, n) ELSE Wrote(p, c)
    BY TheWriter
  <2>2. CASE call[p].op \in Integrations
    BY <1>1, <2>1, <2>2 DEF Joined, GitInv, TypeOK
  <2>3. CASE call[p].op \notin Integrations
    BY <1>1, <2>1, <2>3, WrittenHeads DEF Wrote
  <2> QED BY <2>2, <2>3
<1>3. call[p].op \in Op /\ Permitted(call[p].op, call[p].branch, call[p].other)
  BY DEF Writes, GitInv, Shaped
<1> QED BY <1>2, <1>3 DEF Permitted, Mutable, Unprotected, Repointable, Op, Updates,
                          Transactions, Integrations

\* A reserved branch is only made, reset by a caller who allows it, repointed, which
\* the default one never is, or updated as the head of a pull request, which no tool
\* checks (policy.py:10, refs.py:365, github_admin.py:54, pulls.py:253).
THEOREM PolicyHolds == Spec => ReservedSafe
<1>1. GitInv /\ [Next]_vars =>
        [\A p \in Caller, b \in Reserved :
          Writes(p) /\ head'[b] # head[b] =>
              \/ call[p].op \in {"create", "reset"}
              \/ call[p].op = "repoint" /\ b # Default
              \/ call[p].op \in {"update", "rebase"} /\ call[p].branch = b]_vars
  BY StepIsPermitted
<1> QED BY <1>1, GitSafety, PTL DEF Spec, ReservedSafe

LEMMA StepKeepsContent ==
    ASSUME GitInv, Next, NEW p \in Caller, Writes(p), ~moved[p]
    PROVE  LET b == call[p].branch IN
           /\ call[p].op = "repoint" => Tip(head'[b]).tree = Tip(head[b]).tree
           /\ call[p].op = "rewrite" =>
                  /\ Len(head'[b]) = Len(head[b])
                  /\ \A i \in 1..Len(head[b]) : head'[b][i].tree = head[b][i].tree
<1> DEFINE b == call[p].branch
<1> SUFFICES ASSUME call[p].op \in {"repoint", "rewrite"}
             PROVE  /\ call[p].op = "repoint" => Tip(head'[b]).tree = Tip(head[b]).tree
                    /\ call[p].op = "rewrite" => SameTrees(head'[b], head[b])
  BY DEF SameTrees
<1>1. PICK c \in Call : Wrote(p, c) BY TheWriter DEF Integrations
<1>2. call[p].op \in Transactions /\ call[p].op \in Updates BY DEF Transactions, Updates
<1>3. Planned(call[p]) BY <1>1, <1>2 DEF Wrote, GitInv, Shaped
<1>4. head[b] \in {call[p].head, call[p].new} /\ head'[b] = call[p].new
  BY <1>1, <1>2, Updated DEF Wrote, GitInv, Window
<1>5. SameTrees(call[p].new, call[p].new) BY DEF SameTrees
<1> QED BY <1>3, <1>4, <1>5 DEF Planned

\* Unless the branch moves after the second look, a rewrite keeps every tree and a
\* repoint the content (github_history_graph.py:122, github_admin.py:96).
THEOREM ContentStays == Spec => ContentKept
<1>1. GitInv /\ [Next]_vars =>
        [\A p \in Caller :
          Writes(p) /\ ~moved[p] =>
              LET b == call[p].branch IN
              /\ call[p].op = "repoint" => Tip(head'[b]).tree = Tip(head[b]).tree
              /\ call[p].op = "rewrite" =>
                     /\ Len(head'[b]) = Len(head[b])
                     /\ \A i \in 1..Len(head[b]) : head'[b][i].tree = head[b][i].tree]_vars
  BY StepKeepsContent
<1> QED BY <1>1, GitSafety, PTL DEF Spec, ContentKept
=============================================================================
