--------------------------- MODULE MCCurlCapture ---------------------------
(* CurlCapture for TLC. *)
EXTENDS CurlCapture

\* Empty, as long as the limit, and longer than the limit and than the store takes.
MCTotals == {0, 2, 3}
=============================================================================
