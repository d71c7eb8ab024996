----------------------------- MODULE MCGitRefs -----------------------------
(* Histories for GitRefs: two commits, one of the agent and one of another. *)
EXTENDS GitRefs

CONSTANTS f1, f2, old, new, stable, topic

Blank == [x \in File |-> old]
Half == [x \in File |-> IF x = f1 THEN new ELSE old]
By(t, who) == [tree |-> t, by |-> who]

Mixed == <<By(Blank, "agent"), By(Half, "other")>>

\* The free branch topic and the reserved branch stable do not exist at first.
MainAndDev == {[b \in Branch |-> IF b \in {stable, topic} THEN None ELSE Mixed]}

Alike == Permutations(Caller)
=============================================================================
