----------------------------- MODULE MCFwToHost -----------------------------
(* FwToHost on small rings: the values are in the cfg files.               *)
EXTENDS FwToHost

=============================================================================
