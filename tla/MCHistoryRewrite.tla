-------------------------- MODULE MCHistoryRewrite --------------------------
(* HistoryRewrite for TLC: every repository of three commits. *)
EXTENDS HistoryRewrite, TLC

MCParents(n) == {<<>>} \cup {<<p>> : p \in 1..n}
                \cup {pq \in (1..n) \X (1..n) : pq[1] # pq[2]}

MCCommits(n) == [parents : MCParents(n), tree : Tree, by : {"app", "person"}]

MCStores ==
    {<<a, b, c>> : a \in MCCommits(0), b \in MCCommits(1), c \in MCCommits(2)}

MCSymmetry == Permutations(Tree)

\* Those in which no object is there twice.
MCRepositories == {s \in MCStores : s[1] # s[2] /\ s[1] # s[3] /\ s[2] # s[3]}
=============================================================================
