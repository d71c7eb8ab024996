------------------------------- MODULE GitRefs -------------------------------
(***************************************************************************)
(* The tools of src/src/modules/github that write the branches of a        *)
(* repository: git_transaction.py, git_mutations.py, content_api.py,       *)
(* refs.py, github_admin.py, github_history.py, github_history_graph.py,   *)
(* and those that have GitHub bring a branch up to date with another one:  *)
(* merge_branch (github_collab.py) and the two that update the head branch *)
(* of a pull request (pulls.py, github_review.py).  Most read the branch,  *)
(* decide, and write it with another request to GitHub; several callers    *)
(* and people who push do so at once.  The merge of a pull request is in   *)
(* PullMerge.                                                              *)
(*                                                                         *)
(* A commit is what its sha stands for: its history, as a sequence, each   *)
(* entry a tree and an identity.  An ancestor is a prefix, and commits of  *)
(* the same trees and identities are the same.  Histories are taken along  *)
(* the first parents: of a merge they have its tree but not what it merged *)
(* (GitHub lets a branch go forward through a second parent as well, which *)
(* drops nothing).  An edit changes one file.  Creating blobs, trees and   *)
(* commits moves no branch and is part of the step that plans the write.   *)
(* The answer to a write may be lost, and common/http_transport.py then    *)
(* sends it again.                                                         *)
(***************************************************************************)
EXTENDS Naturals, Sequences, SequencesExt

CONSTANTS
    Caller,      \* threads of the GitHub module
    Branch,      \* names of branches
    Reserved,    \* GITHUB_AGENT_PROTECTED_BRANCHES
    Protected,   \* branches GitHub itself protects
    Default,     \* the repository's default branch
    File,        \* paths in a tree
    Content,     \* blobs, the absence of a file being one
    Heads,       \* what the heads of the branches may be at first
    MaxLen,      \* bound on the length of a history
    MaxWork,     \* bound on calls, lost answers and outside changes
    None         \* no such branch, no commit, no argument

Tree == [File -> Content]
Identity == {"agent", "other"}
Entry == [tree : Tree, by : Identity]
Commit == Seq(Entry) \ {<<>>}
Edit == [file : File, content : Content]

ASSUME GitAssumption ==
    /\ Reserved \subseteq Branch /\ Protected \subseteq Branch
    /\ Heads \subseteq [Branch -> Commit \cup {None}]
    /\ MaxLen \in Nat /\ MaxWork \in Nat
    /\ None \notin Commit /\ None \notin Branch /\ None \notin Edit

VARIABLES
    head,      \* at GitHub: the commit of each branch, None if it does not exist
    call,      \* what each caller is doing
    moved,     \* of a caller: whether its branch changed since the caller looked
    work       \* calls, lost answers and outside changes so far

vars == <<head, call, moved, work>>

-----------------------------------------------------------------------------
(* Commits *)

Tip(c) == c[Len(c)]

Edited(tree, e) == [tree EXCEPT ![e.file] = e.content]

Child(c, e) == Append(c, [tree |-> Edited(Tip(c).tree, e), by |-> "agent"])

Ancestors(c) == {SubSeq(c, 1, n) : n \in 1..Len(c)}

\* Mutant of Rewritten: the commits are not put back in order.
RewrittenBackwards(c, base) ==
    [i \in 1..Len(c) |-> IF i <= base THEN c[i]
                         ELSE [c[base + Len(c) + 1 - i] EXCEPT !.by = "agent"]]

\* base is how many commits base_sha and its ancestors are, 0 without a base_sha.
Rewritten(c, base) ==
    [i \in 1..Len(c) |-> IF i <= base THEN c[i] ELSE [c[i] EXCEPT !.by = "agent"]]

\* Commits a caller may know the sha of: those of a branch, and those that the
\* dry run of a rewrite has made of them.
Known ==
    UNION {{Rewritten(c, n) : n \in 0..Len(c)} :
           c \in UNION {Ancestors(head[b]) : b \in {x \in Branch : head[x] # None}}}

-----------------------------------------------------------------------------
(***************************************************************************)
(* A call: branch is the one it writes, other a second branch, expected    *)
(* the caller's expected_head_sha; head is the head it read, new the       *)
(* commit it plans for the branch, edit the change to a file; resent       *)
(* whether its write has been sent twice.                                  *)
(***************************************************************************)
Transactions == {"commit", "reset", "repoint", "rewrite"}   \* these look twice

\* Mutant of Forced: commits are forced too.
ForcedCommits == {"commit", "reset", "repoint", "rewrite"}

Forced == {"reset", "repoint", "rewrite"}

Updates == Transactions \cup {"fast_forward"}               \* PATCH of a ref

\* GitHub merges another branch into the branch: merge_branch, or into the head
\* branch of a pull request, which it may rebase on its base branch instead.
Integrations == {"merge", "update", "rebase"}

Op == Updates \cup Integrations \cup {"put", "create", "delete", "rename"}

\* One request and no decision of the tool (update_pull_branch_graphql looks at
\* the pull request first, and may only fail by it: Abandon).
Direct == {"delete", "rename"} \cup Integrations

Call == [at : {"idle", "read", "recheck", "write"}, op : Op \cup {None},
         branch : Branch \cup {None}, other : Branch \cup {None},
         expected : Commit \cup {None}, head : Commit \cup {None},
         new : Commit \cup {None}, edit : Edit \cup {None}, resent : BOOLEAN]

Idle == [at |-> "idle", op |-> None, branch |-> None, other |-> None, expected |-> None,
         head |-> None, new |-> None, edit |-> None, resent |-> FALSE]

Goto(p, c) == call' = [call EXCEPT ![p] = c]

Works == work < MaxWork /\ work' = work + 1

Init ==
    /\ head \in Heads
    /\ call = [p \in Caller |-> Idle]
    /\ moved = [p \in Caller |-> FALSE]
    /\ work = 0

\* Mutant of Mutable: the reserved branches are forgotten.
MutableAny(b) == TRUE

\* _assert_mutable_branch
Mutable(b) == b \notin Reserved

\* _assert_branch_mutation_allowed
Unprotected(b) == Mutable(b) /\ b \notin Protected

\* repoint_reserved_branch
Repointable(b) == b \in Reserved \ {Default} /\ b \notin Protected

\* reset_branch is called with allow_protected_branch where it needs it.
Permitted(op, b, other) ==
    \/ op \in {"commit", "put", "fast_forward", "merge"} /\ Mutable(b)
    \/ op \in {"delete", "rewrite"} /\ Unprotected(b)
    \/ op = "rename" /\ Mutable(b) /\ Mutable(other)
    \/ op = "repoint" /\ Repointable(b)
    \/ op \in {"create", "reset"}
    \/ op \in {"update", "rebase"}

\* The other branch a caller names: an update names a pull request instead.
Others(op, b) ==
    IF op \in {"fast_forward", "create", "rename", "merge"} THEN Branch \ {b} ELSE {None}

\* A caller names the head it last saw; a commit and an update may do without.
Start(p) ==
    /\ call[p].at = "idle"
    /\ Works
    /\ \E op \in Op, b \in Branch :
       \E other \in Others(op, b),
          e \in CASE op \in {"commit", "update", "rebase"} -> {head[b], None}
                  [] op \in Forced -> {head[b]}
                  [] OTHER -> {None} :
          /\ Permitted(op, b, other)
          /\ Goto(p, [Idle EXCEPT !.at = IF op \in Direct THEN "write" ELSE "read",
                                  !.op = op, !.branch = b, !.other = other, !.expected = e])
    /\ moved' = [moved EXCEPT ![p] = FALSE]
    /\ UNCHANGED head

\* Whatever the reason: a request fails, a check fails, it was a dry run.
Abandon(p) ==
    /\ call[p].at # "idle"
    /\ Goto(p, Idle)
    /\ UNCHANGED <<head, moved, work>>

-----------------------------------------------------------------------------
(* Reading, deciding, and looking again *)

\* What a call may plan for its branch, whose head it reads as h.
CommitPlans(h) == {Child(h, e) : e \in {x \in Edit : Len(h) < MaxLen}}

ResetPlans(h) == Ancestors(h) \ {h}

RepointPlans(h) == {t \in Known \ {h} : Tip(t).tree = Tip(h).tree /\ Tip(t).by = "agent"}

RewritePlans(h) == {Rewritten(h, base) : base \in 0..Len(h) - 1}

Plans(c, h) ==
    CASE c.op = "commit" -> CommitPlans(h)
      [] c.op = "reset" -> ResetPlans(h)
      [] c.op = "repoint" -> RepointPlans(h)
      [] c.op = "rewrite" -> RewritePlans(h)

\* _begin_git_transaction and the first half of reset, repoint and rewrite.
Begin(p) ==
    LET c == call[p]  h == head[c.branch] IN
    /\ c.at = "read" /\ c.op \in Transactions
    /\ h # None
    /\ c.expected \in {h, None}
    /\ \E n \in Plans(c, h) :
          Goto(p, [c EXCEPT !.at = "recheck", !.head = h, !.new = n])
    /\ UNCHANGED <<head, moved, work>>

\* Mutant of Recheck: the answer is not compared.
RecheckBlind(p) ==
    /\ call[p].at = "recheck"
    /\ Goto(p, [call[p] EXCEPT !.at = "write"])
    /\ moved' = [moved EXCEPT ![p] = FALSE]
    /\ UNCHANGED <<head, work>>

Recheck(p) ==
    /\ call[p].at = "recheck"
    /\ head[call[p].branch] = call[p].head
    /\ Goto(p, [call[p] EXCEPT !.at = "write"])
    /\ moved' = [moved EXCEPT ![p] = FALSE]
    /\ UNCHANGED <<head, work>>

\* put_file, put_binary_file and delete_file read the blob they replace.
ReadFile(p) ==
    LET c == call[p]  h == head[c.branch] IN
    /\ c.at = "read" /\ c.op = "put"
    /\ h # None
    /\ \E e \in Edit : Goto(p, [c EXCEPT !.at = "write", !.head = h, !.edit = e])
    /\ UNCHANGED <<head, moved, work>>

\* fast_forward and create_branch read the commit of another branch.
ReadOther(p) ==
    LET c == call[p] IN
    /\ c.at = "read" /\ c.op \in {"fast_forward", "create"}
    /\ head[c.other] # None
    /\ Goto(p, [c EXCEPT !.at = "write", !.new = head[c.other]])
    /\ UNCHANGED <<head, moved, work>>

-----------------------------------------------------------------------------
(* Writing: what GitHub accepts, and what it then does *)

Accepted(c) ==
    LET now == head[c.branch] IN
    CASE c.op \in Updates -> /\ now # None
                             /\ \/ IsPrefix(now, c.new)
                                \/ c.op \in Forced /\ c.branch \notin Protected
      [] c.op = "put"     -> /\ now # None /\ Len(now) < MaxLen
                             /\ Tip(now).tree[c.edit.file] = Tip(c.head).tree[c.edit.file]
      [] c.op = "create"  -> now = None
      [] c.op = "delete"  -> now # None /\ c.branch \notin Protected
      [] c.op = "rename"  -> now # None /\ head[c.other] = None

Written(c) ==
    CASE c.op \in Updates \cup {"create"} -> [head EXCEPT ![c.branch] = c.new]
      [] c.op = "put"    -> [head EXCEPT ![c.branch] = Child(@, c.edit)]
      [] c.op = "delete" -> [head EXCEPT ![c.branch] = None]
      [] c.op = "rename" -> [head EXCEPT ![c.other] = head[c.branch], ![c.branch] = None]

\* Everyone but p whose branch is no longer what it was is out of date.
Moves(p) ==
    moved' = [q \in Caller |->
                 \/ moved[q]
                 \/ /\ q # p
                    /\ call[q].at # "idle"
                    /\ head'[call[q].branch] # head[call[q].branch]]

Answered(p) == Goto(p, Idle) /\ UNCHANGED work

\* The connection breaks before the answer; the request is sent once more.
Lost(p) ==
    /\ ~call[p].resent
    /\ Works
    /\ Goto(p, [call[p] EXCEPT !.resent = TRUE])

Write(p) ==
    /\ call[p].at = "write" /\ call[p].op \notin Integrations
    /\ Accepted(call[p])
    /\ head' = Written(call[p])
    /\ Moves(p)
    /\ Answered(p) \/ Lost(p)

-----------------------------------------------------------------------------
(* Bringing a branch up to date with another one, which GitHub does *)

\* Two histories have their first k commits in common, and d has more.
Fork(c, d, k) ==
    /\ k < Len(d)
    /\ \A i \in 1..k : c[i] = d[i]
    /\ k < Len(c) => c[k + 1] # d[k + 1]

\* The file of the side that changed it.
Merged(ours, theirs, from) ==
    [f \in File |-> IF ours[f] = from[f] THEN theirs[f] ELSE ours[f]]

Conflict(ours, theirs, from) ==
    \E f \in File : /\ ours[f] # from[f] /\ theirs[f] # from[f]
                    /\ ours[f] # theirs[f]

MergeOf(now, o, k) ==
    Append(now, [tree |-> Merged(Tip(now).tree, Tip(o).tree, now[k].tree), by |-> "agent"])

\* The branch's own commits, on top of the other branch.
RebaseOf(now, o, k) ==
    o \o [i \in 1..Len(now) - k |->
             [now[k + i] EXCEPT !.tree = Merged(@, Tip(o).tree, now[k].tree)]]

\* The base of a pull request is what it is by then, not what the caller saw.
Sources(c) == IF c.op = "merge" THEN {c.other} ELSE Branch \ {c.branch}

Integrate(p) ==
    LET c == call[p]  now == head[c.branch] IN
    /\ c.at = "write" /\ c.op \in Integrations
    /\ now # None /\ c.expected \in {now, None}
    /\ \E b \in Sources(c), k \in 1..Len(now) :
         LET o == head[b]
             n == IF c.op = "rebase" THEN RebaseOf(now, o, k) ELSE MergeOf(now, o, k)
         IN  /\ o # None
             /\ Fork(now, o, k)
             /\ ~Conflict(Tip(now).tree, Tip(o).tree, now[k].tree)
             /\ Len(n) <= MaxLen
             /\ IsPrefix(now, n) \/ c.branch \notin Protected
             /\ head' = [head EXCEPT ![c.branch] = n]
    /\ Moves(p)
    /\ Answered(p) \/ Lost(p)

-----------------------------------------------------------------------------
(* Everybody else who writes the repository *)

Outside(b, c) ==
    /\ Works
    /\ head' = [head EXCEPT ![b] = c]
    /\ moved' = [q \in Caller |-> \/ moved[q]
                                  \/ call[q].branch = b /\ head'[b] # head[b]]
    /\ UNCHANGED call

Push(b) ==
    /\ head[b] # None /\ Len(head[b]) < MaxLen
    /\ \E e \in Edit :
          Outside(b, Append(head[b], [tree |-> Edited(Tip(head[b]).tree, e), by |-> "other"]))

Rewind(b) ==
    /\ head[b] # None
    /\ \E c \in Ancestors(head[b]) \ {head[b]} : Outside(b, c)

Next ==
    \/ \E p \in Caller : \/ Start(p) \/ Abandon(p)
                         \/ Begin(p) \/ Recheck(p) \/ ReadFile(p) \/ ReadOther(p)
                         \/ Write(p) \/ Integrate(p)
    \/ \E b \in Branch : Push(b) \/ Rewind(b)

Spec == Init /\ [][Next]_vars

-----------------------------------------------------------------------------
(* Properties *)

\* Branches hold commits, and a call only what its operation has given it.
TypeOK ==
    /\ head \in [Branch -> Commit \cup {None}]
    /\ call \in [Caller -> Call]
    /\ moved \in [Caller -> BOOLEAN]
    /\ work \in 0..MaxWork

\* The step is the write of p, the only one of p's steps that moves a branch.
Writes(p) == call[p].at = "write" /\ call'[p] # call[p] /\ head' # head

\* While nobody else has touched the branch since a transaction looked at it the
\* second time, the branch is where the caller expects it, or, the write being
\* sent again, where the caller put it (git_transaction.py:164-179, refs.py:423,
\* github_admin.py:136, github_history.py:402, github_history_graph.py:235).
Window ==
    \A p \in Caller :
        call[p].at = "write" /\ call[p].op \in Transactions /\ ~moved[p]
            => head[call[p].branch] \in {call[p].head, call[p].new}

\* Commits leave a branch only by a forced update, the rebase of a pull request,
\* a deletion, a renaming, or a rewind by somebody else: a commit, a put, a
\* fast-forward and a merge never drop what was pushed meanwhile, however late or
\* often they are executed (refs.py:331, git_transaction.py:181, pulls.py:263).
NothingDropped ==
    [][\A b \in Branch :
          head[b] # None => \/ head'[b] # None /\ IsPrefix(head[b], head'[b])
                            \/ UNCHANGED call
                            \/ \E p \in Caller :
                                  /\ Writes(p) /\ call[p].branch = b
                                  /\ call[p].op \in {"reset", "repoint", "rewrite",
                                                     "rebase", "delete", "rename"}]_vars

\* A commit or a put leaves the other files of the branch as they are, those
\* pushed since it read included, unless the branch was rewound behind the commit
\* it builds on (git_transaction.py:140-164, content_api.py:126-150).
OnlyItsFile ==
    [][\A p \in Caller :
          Writes(p) /\ call[p].op \in {"commit", "put"} =>
              LET b == call[p].branch IN
              \/ \E f \in File : \A g \in File \ {f} :
                     Tip(head'[b]).tree[g] = Tip(head[b]).tree[g]
              \/ IsStrictPrefix(head[b], call[p].head)]_vars

\* The tools write a reserved branch in four ways only: they make it, a caller who
\* allows it resets it, it is repointed, which the default one never is, or it is
\* the head of a pull request and is updated from the base, which no tool checks
\* (policy.py:10, refs.py:365, github_admin.py:54, pulls.py:253, github_review.py:48).
\* No commit, put, fast-forward, merge, renaming, deletion or rewrite reaches one.
ReservedSafe ==
    [][\A p \in Caller, b \in Reserved :
          Writes(p) /\ head'[b] # head[b] =>
              \/ call[p].op \in {"create", "reset"}
              \/ call[p].op = "repoint" /\ b # Default
              \/ call[p].op \in {"update", "rebase"} /\ call[p].branch = b]_vars

\* Unless the branch moves after the second look, a rewrite keeps the trees of
\* the branch, commit by commit, and a repoint the content of its head
\* (github_history.py:337, github_history_graph.py:122, github_admin.py:96).
ContentKept ==
    [][\A p \in Caller :
          Writes(p) /\ ~moved[p] =>
              LET b == call[p].branch IN
              /\ call[p].op = "repoint" => Tip(head'[b]).tree = Tip(head[b]).tree
              /\ call[p].op = "rewrite" =>
                     /\ Len(head'[b]) = Len(head[b])
                     /\ \A i \in 1..Len(head[b]) : head'[b][i].tree = head[b][i].tree]_vars
=============================================================================
