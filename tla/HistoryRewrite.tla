--------------------------- MODULE HistoryRewrite ---------------------------
(***************************************************************************)
(* The tools that give the commits of a branch the identity of the App:    *)
(* rewrite_branch_identity (github_history.py) for a linear range, down to *)
(* a base or the root, and rewrite_branch_identity_graph                   *)
(* (github_history_graph.py) for all that is reachable.  A call walks down *)
(* from the head by one request per commit, makes every commit again, the  *)
(* parents first, looks at the branch again and moves it.                  *)
(*                                                                         *)
(* A commit object is its parents, its content and its identity.  A sha is *)
(* the place of the object in the repository, and an object that exists is *)
(* not made a second time, as shas are digests.  tree stands for the tree, *)
(* the message and the dates, which the default, preserve_author_dates,    *)
(* keeps.  Which branches may be rewritten at all is a matter of GitRefs.  *)
(***************************************************************************)
EXTENDS Naturals, Sequences, FiniteSets

CONSTANTS
    Tree,        \* contents of commits
    Stores,      \* the repositories' objects to begin with
    Limits,      \* max_commits
    MaxObjects   \* bound on the objects others add to

VARIABLES
    objects,  \* the commit objects of the repository
    ref,      \* the branch
    at,       \* where the call is
    tool,     \* which of the two tools it is
    base,     \* base_sha, 0 when there is none
    limit,    \* max_commits
    head,     \* old_head
    path,     \* the commits being visited; of the linear walk, the current one
    order,    \* the commits to make again, parents first
    new,      \* what the first of them have become
    outcome   \* how the last call ended

vars == <<objects, ref, at, tool, base, limit, head, path, order, new, outcome>>

Commit == [parents : Seq(Nat), tree : Tree, by : {"app", "person"}]

\* Parents come before their children, and no object is there twice.
Repository(s) ==
    /\ s \in Seq(Commit)
    /\ \A i \in 1..Len(s) : \A j \in 1..Len(s[i].parents) : s[i].parents[j] \in 1..(i - 1)
    /\ \A i, k \in 1..Len(s) : s[i] = s[k] => i = k

ASSUME HistoryAssumption ==
    /\ \A s \in Stores : Repository(s) /\ s # <<>>
    /\ Limits \subseteq Nat \ {0} /\ MaxObjects \in Nat

Sha == 1..Len(objects)

Parents(s) == objects[s].parents

Last(s) == s[Len(s)]

Init ==
    /\ objects \in Stores
    /\ ref = Len(objects)
    /\ at = "idle" /\ tool = "graph" /\ base = 0 /\ limit = 1 /\ head = ref
    /\ path = <<>> /\ order = <<>> /\ new = <<>>
    /\ outcome = "none"

\* The call ends, and what it knew is gone; what it has made stays.
Stop(why) ==
    /\ at' = "idle" /\ outcome' = why
    /\ path' = <<>> /\ order' = <<>> /\ new' = <<>>
    /\ UNCHANGED <<tool, base, limit, head>>

\* GitHub stores a commit object under its digest.
Put(c) == objects' = IF \E s \in Sha : objects[s] = c THEN objects ELSE Append(objects, c)

Named(c) == CHOOSE s \in 1..Len(objects') : objects'[s] = c

-----------------------------------------------------------------------------
(* The walk. *)

\* A call for another head than the branch's is refused and no step.
Begin(t, b, n) ==
    /\ at = "idle"
    /\ t = "graph" => b = 0
    /\ at' = "walk" /\ tool' = t /\ base' = b /\ limit' = n /\ head' = ref
    /\ path' = <<ref>> /\ order' = <<>> /\ new' = <<>> /\ outcome' = "none"
    /\ UNCHANGED <<objects, ref>>

Visited(s) == \E i \in 1..Len(order) : order[i] = s

\* visit: the parents it still has to descend to.
Waiting == {j \in 1..Len(Parents(Last(path))) : ~Visited(Parents(Last(path))[j])}

\* Mutant of Room: the commits that are being visited are not counted.
RoomForVisited == Len(order) < limit

Room == Len(order) + Len(path) < limit

Descend ==
    /\ at = "walk" /\ tool = "graph"
    /\ \E j \in Waiting :
          /\ \A k \in Waiting : j <= k
          /\ IF Room THEN /\ path' = Append(path, Parents(Last(path))[j])
                          /\ UNCHANGED <<at, tool, base, limit, head, order, new, outcome>>
                     ELSE Stop("limit")
    /\ UNCHANGED <<objects, ref>>

Leave ==
    /\ at = "walk" /\ tool = "graph" /\ Waiting = {}
    /\ order' = Append(order, Last(path))
    /\ path' = SubSeq(path, 1, Len(path) - 1)
    /\ at' = IF Len(path) = 1 THEN "make" ELSE "walk"
    /\ UNCHANGED <<objects, ref, tool, base, limit, head, new, outcome>>

AtBase == base # 0 /\ Last(path) = base

\* The next of the chain, which the code collects newest first and reverses.
Follow ==
    LET s == Last(path) IN
    /\ at = "walk" /\ tool = "linear"
    /\ Len(order) < limit /\ ~AtBase /\ Len(Parents(s)) <= 1
    /\ IF Parents(s) = <<>> /\ base # 0
          THEN Stop("unrelated")
          ELSE /\ order' = <<s>> \o order
               /\ path' = Parents(s)
               /\ at' = IF Parents(s) = <<>> THEN "make" ELSE "walk"
               /\ UNCHANGED <<tool, base, limit, head, new, outcome>>
    /\ UNCHANGED <<objects, ref>>

ReachBase ==
    /\ at = "walk" /\ tool = "linear"
    /\ Len(order) < limit /\ AtBase /\ order # <<>>
    /\ at' = "make"
    /\ UNCHANGED <<objects, ref, tool, base, limit, head, path, order, new, outcome>>

\* The limit, a range without commits, a merge.
WalkFails ==
    /\ at = "walk" /\ tool = "linear"
    /\ \/ Len(order) = limit /\ Stop("limit")
       \/ Len(order) < limit /\ AtBase /\ order = <<>> /\ Stop("empty")
       \/ Len(order) < limit /\ ~AtBase /\ Len(Parents(Last(path))) > 1 /\ Stop("merge")
    /\ UNCHANGED <<objects, ref>>

-----------------------------------------------------------------------------
(* The commits made again. *)

\* mapping[s]
Becomes(s) == new[CHOOSE i \in 1..Len(order) : order[i] = s]

\* Mutant of NewParents: the first commit of a range gets base_sha as it is.
NewParentsUnguarded(s) ==
    IF tool = "graph" THEN [j \in 1..Len(Parents(s)) |-> Becomes(Parents(s)[j])]
    ELSE IF new = <<>> THEN <<base>>
    ELSE <<Last(new)>>

\* Mutant of NewParents: of a merge, the first parent.
NewParentsFirst(s) ==
    CASE tool = "graph"      -> [j \in 1..(IF Parents(s) = <<>> THEN 0 ELSE 1) |->
                                    Becomes(Parents(s)[j])]
      [] new # <<>>          -> <<Last(new)>>
      [] base # 0            -> <<base>>
      [] OTHER               -> <<>>

NewParents(s) ==
    CASE tool = "graph"                   -> [j \in 1..Len(Parents(s)) |-> Becomes(Parents(s)[j])]
      [] tool = "linear" /\ new # <<>>    -> <<Last(new)>>
      [] tool = "linear" /\ new = <<>>    -> IF base = 0 THEN <<>> ELSE <<base>>

\* Mutant of Reusable: a commit of the App's is left as it is.
ReusableAsIs(s) == tool = "graph" /\ objects[s].by = "app"

Reusable(s) == tool = "graph" /\ objects[s].by = "app" /\ NewParents(s) = Parents(s)

Reuse ==
    /\ at = "make" /\ Len(new) < Len(order)
    /\ Reusable(order[Len(new) + 1])
    /\ new' = Append(new, order[Len(new) + 1])
    /\ UNCHANGED <<objects, ref, at, tool, base, limit, head, path, order, outcome>>

Rewritten(s) == [parents |-> NewParents(s), tree |-> objects[s].tree, by |-> "app"]

Make ==
    /\ at = "make" /\ Len(new) < Len(order)
    /\ LET s == order[Len(new) + 1] IN
          /\ ~Reusable(s)
          /\ Put(Rewritten(s))
          /\ new' = Append(new, Named(Rewritten(s)))
    /\ UNCHANGED <<ref, at, tool, base, limit, head, path, order, outcome>>

\* Two parents have become one: GitHub may leave the second out, and the
\* answer is not what was asked for.
MakeRefused ==
    /\ at = "make" /\ Len(new) < Len(order)
    /\ LET c == Rewritten(order[Len(new) + 1]) IN
          /\ \E j, k \in 1..Len(c.parents) : j < k /\ c.parents[j] = c.parents[k]
          /\ Put([c EXCEPT !.parents = <<c.parents[1]>>])
    /\ Stop("mismatch")
    /\ UNCHANGED ref

-----------------------------------------------------------------------------
(* The branch. *)

Made == new # <<>> /\ Len(new) = Len(order)

NewHead == Last(new)

\* A dry run, or nothing to do.
Report ==
    /\ at = "make" /\ Made
    /\ Stop("result")
    /\ UNCHANGED <<objects, ref>>

Recheck ==
    /\ at = "make" /\ Made
    /\ tool = "graph" => NewHead # head
    /\ IF ref = head
          THEN /\ at' = "update"
               /\ UNCHANGED <<tool, base, limit, head, path, order, new, outcome>>
          ELSE Stop("raced")
    /\ UNCHANGED <<objects, ref>>

Update ==
    /\ at = "update"
    /\ ref' = NewHead
    /\ Stop("result")
    /\ UNCHANGED objects

\* A request fails, or visit reaches the interpreter's limit on recursion.
Fail ==
    /\ at # "idle"
    /\ Stop("error")
    /\ UNCHANGED <<objects, ref>>

\* Somebody pushes a commit, or merges.
Push(c) ==
    /\ Len(objects) < MaxObjects
    /\ \A j \in 1..Len(c.parents) : c.parents[j] \in Sha
    /\ c.parents # <<>> /\ c.parents[1] = ref
    /\ \A s \in Sha : objects[s] # c
    /\ objects' = Append(objects, c)
    /\ ref' = Len(objects')
    /\ UNCHANGED <<at, tool, base, limit, head, path, order, new, outcome>>

Pushed == [parents : {<<ref>>} \cup {<<ref, s>> : s \in Sha \ {ref}},
           tree : Tree, by : {"app", "person"}]

Next ==
    \/ \E b \in {0} \cup Sha, n \in Limits : Begin("linear", b, n) \/ Begin("graph", b, n)
    \/ Descend \/ Leave \/ Follow \/ ReachBase \/ WalkFails
    \/ Reuse \/ Make \/ MakeRefused
    \/ Report \/ Recheck \/ Update \/ Fail
    \/ \E c \in Pushed : Push(c)

Spec == Init /\ [][Next]_vars

-----------------------------------------------------------------------------
(* Properties. *)

TypeOK ==
    /\ Repository(objects) /\ objects # <<>>
    /\ ref \in Sha /\ head \in Sha /\ base \in {0} \cup Sha
    /\ at \in {"idle", "walk", "make", "update"}
    /\ tool \in {"linear", "graph"} /\ limit \in Nat
    /\ path \in Seq(Sha) /\ order \in Seq(Sha) /\ new \in Seq(Sha)
    /\ Len(new) <= Len(order)
    /\ outcome \in {"none", "limit", "unrelated", "empty", "merge", "mismatch",
                    "result", "raced", "error"}

\* A commit without identities: its content and what it grew from.
Bare[s \in Sha] ==
    [tree |-> objects[s].tree,
     parents |-> [j \in 1..Len(Parents(s)) |-> Bare[Parents(s)[j]]]]

\* A commit and all it grew from.
History[s \in Sha] ==
    {s} \cup UNION {History[Parents(s)[j]] : j \in 1..Len(Parents(s))}

\* What a call has to rewrite, when its base is one.
ToRewrite(s) == IF base \in History[s] THEN History[s] \ History[base] ELSE History[s]

\* All is made, and the call is to report it or to move the branch.
Finished == Made /\ at \in {"make", "update"}

\* new[i] is order[i] with the same content and its parents as they have become.
MadeFrom(i) ==
    LET old == order[i] IN
    /\ objects[new[i]].tree = objects[old].tree /\ objects[new[i]].by = "app"
    /\ Len(Parents(new[i])) = Len(Parents(old))
    /\ \A j \in 1..Len(Parents(old)) :
          \/ tool = "linear" /\ Parents(old)[j] = base /\ Parents(new[i])[j] = base
          \/ \E k \in 1..(i - 1) :
                order[k] = Parents(old)[j] /\ new[k] = Parents(new[i])[j]

\* However the walk went and whatever is pushed meanwhile, every commit is made
\* after its parents and names what these have become, one for one; only a base
\* is left as it is.  A call that is about to move the branch has done so up to
\* the head it was given, for no more commits than its limit.
CommitByCommit ==
    /\ \A i \in 1..Len(new) : MadeFrom(i)
    /\ Finished => Last(order) = head /\ Len(order) <= limit

\* Identities apart, the branch grew as it did before, commit by commit and
\* merge by merge, and every commit of the range is the App's: whatever the
\* order of the walk, and however often histories meet and part.
SameHistory ==
    Finished => /\ Bare[NewHead] = Bare[head]
                /\ \A s \in ToRewrite(NewHead) : objects[s].by = "app"

\* Of a graph, a commit keeps its sha if, and only if, it and all it grew from
\* were the App's: a second rewrite changes nothing, nor does one after a push
\* change what is below.
OnlyOthersRewritten ==
    Finished /\ tool = "graph" => \A i \in 1..Len(order) :
        new[i] = order[i] <=> \A s \in ToRewrite(order[i]) : objects[s].by = "app"

\* A call that goes on has found all it has to rewrite, no more than its limit,
\* and one that is refused for its size would have had to rewrite more; only a
\* range that ends in a base is refused one commit early.
LimitExact ==
    /\ at = "make" =>
          /\ {order[i] : i \in 1..Len(order)} = ToRewrite(head)
          /\ Cardinality(ToRewrite(head)) <= limit
    /\ outcome = "limit" =>
          Cardinality(ToRewrite(head)) > limit - (IF base \in History[head] THEN 1 ELSE 0)
=============================================================================
