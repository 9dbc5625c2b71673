----------------------------- MODULE MCCddaRing -----------------------------
(***************************************************************************)
(* Small instances of CddaRing for TLC: two buffers, the minimum with       *)
(* jitter correction, and a recording that goes round the ring.             *)
(***************************************************************************)
EXTENDS CddaRingInv

NoFaults == {}
AllFaults == FaultKinds
=============================================================================
