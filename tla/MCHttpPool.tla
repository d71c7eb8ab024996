----------------------------- MODULE MCHttpPool -----------------------------
(* HttpPool for TLC, which takes Thread and Conn to be sets of model values. *)
EXTENDS HttpPool
=============================================================================
