---------------------------- MODULE MCPullMerge ----------------------------
(* PullMerge for TLC: callers, checks and reviewers are interchangeable. *)
EXTENDS PullMerge, TLC

Alike == Permutations(Caller) \cup Permutations(Check) \cup Permutations(Reviewer)
=============================================================================
