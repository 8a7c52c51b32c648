------------------------------ MODULE MCIngest ------------------------------
(* The connections are interchangeable. *)
EXTENDS Ingest, TLC

Symmetry == Permutations(Conn)
=============================================================================
