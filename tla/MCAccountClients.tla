-------------------------- MODULE MCAccountClients --------------------------
(* AccountClients for TLC; its parts of one kind are interchangeable. *)
EXTENDS AccountClients, TLC

Symmetry == Permutations(Account) \cup Permutations(Alias)
            \cup Permutations(Thread) \cup Permutations(Admin)
=============================================================================
