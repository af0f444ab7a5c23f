------------------------------ MODULE MCAtaPio ------------------------------
(* The ATA driver with two values a sector can hold.                       *)
EXTENDS AtaPio
CONSTANTS v, w
=============================================================================
