--------------------------- MODULE MCInvocationLog ---------------------------
(* Values for the constants of InvocationLog. *)
EXTENDS InvocationLog, TLC

K(e, c, l) == [enabled |-> e, capture |-> c, limit |-> l]
AllOn == K(TRUE, TRUE, 2)
Forms == {K(TRUE, FALSE, 1), K(FALSE, TRUE, 2)}
=============================================================================
