------------------------------ MODULE MCMonton ------------------------------
(* Monton with a memory map of two usable regions. *)
EXTENDS Monton

ArenaMC == {1}
UsablesMC == <<3, 4, 6>>
=============================================================================
