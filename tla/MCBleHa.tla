------------------------------ MODULE MCBleHa ------------------------------
(* BleHa with the constants of its cfg.                                    *)
EXTENDS BleHa

=============================================================================
