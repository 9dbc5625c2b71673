------------------------------ MODULE MCRscsi ------------------------------
(* Instance of Rscsi for TLC *)
EXTENDS Rscsi
=============================================================================
