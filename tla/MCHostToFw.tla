----------------------------- MODULE MCHostToFw -----------------------------
(* HostToFw on small rings: the values are in the cfg files.               *)
EXTENDS HostToFw

=============================================================================
