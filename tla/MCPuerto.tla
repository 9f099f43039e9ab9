------------------------------ MODULE MCPuerto ------------------------------
(* Puerto with two threads of which neither is special. *)
EXTENDS Puerto, TLC

HilosIguales == Permutations(Hilos)
=============================================================================
