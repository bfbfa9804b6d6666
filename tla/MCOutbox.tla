------------------------------ MODULE MCOutbox ------------------------------
(***************************************************************************)
(* Small instances of Outbox for TLC: the .cfg files give the sets, and     *)
(* FairSpec is checked without symmetry, which is not sound for liveness.   *)
(***************************************************************************)
EXTENDS Outbox
=============================================================================
