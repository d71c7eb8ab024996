---------------------------- MODULE MCGitHubCaches ----------------------------
(* Values for the constants of GitHubCaches. *)
EXTENDS GitHubCaches, TLC

CONSTANT r1

SecondPage == r1 :> 2
=============================================================================
