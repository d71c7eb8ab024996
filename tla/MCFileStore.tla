---------------------------- MODULE MCFileStore ----------------------------
(* Values for the constants of FileStore: an archive zip that holds the same *)
(* bytes at two paths, which may also be stored as a file of their own.      *)
EXTENDS FileStore, TLC

CONSTANTS zip, m1, first, second

NoArchive == [f \in {} |-> <<>>]
TwoPaths  == zip :> << <<first, m1>>, <<second, m1>> >>
=============================================================================
