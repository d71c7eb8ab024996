--------------------------- MODULE ResumableUpload ---------------------------
(***************************************************************************)
(* What the resumable upload protocol promises its client, without         *)
(* processes, files, rows or failures: bytes are only ever appended, an    *)
(* upload is committed once, with exactly the bytes received and no fewer  *)
(* than declared, and it can disappear at any time but never comes back.   *)
(***************************************************************************)
EXTENDS Sequences, Naturals

CONSTANTS
    Upload,     \* upload ids
    Byte,       \* byte values
    Size        \* declared size of each upload

VARIABLES
    phase,      \* "unused", "open", "completed" or "gone"
    bytes       \* what the server holds of an upload

Init ==
    /\ phase = [u \in Upload |-> "unused"]
    /\ bytes = [u \in Upload |-> <<>>]

Begin(u) ==
    /\ phase[u] = "unused"
    /\ phase' = [phase EXCEPT ![u] = "open"]
    /\ UNCHANGED bytes

Extend(u) ==
    /\ phase[u] = "open"
    /\ \E n \in 1 .. Size[u] - Len(bytes[u]) : \E s \in [1..n -> Byte] :
          bytes' = [bytes EXCEPT ![u] = bytes[u] \o s]
    /\ UNCHANGED phase

Complete(u) ==
    /\ phase[u] = "open"
    /\ Len(bytes[u]) = Size[u]
    /\ phase' = [phase EXCEPT ![u] = "completed"]
    /\ UNCHANGED bytes

Drop(u) ==
    /\ phase[u] \in {"open", "completed"}
    /\ phase' = [phase EXCEPT ![u] = "gone"]
    /\ bytes' = [bytes EXCEPT ![u] = <<>>]

Next == \E u \in Upload : Begin(u) \/ Extend(u) \/ Complete(u) \/ Drop(u)

vars == <<phase, bytes>>

Spec == Init /\ [][Next]_vars
=============================================================================
