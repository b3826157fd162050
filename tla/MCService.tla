------------------------------ MODULE MCService ------------------------------
(* A few updates and two configurations for TLC.                           *)
EXTENDS ServiceInv

CONSTANTS u1, u2

=============================================================================
