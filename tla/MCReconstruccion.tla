-------------------------- MODULE MCReconstruccion --------------------------
(* Slices for TLC: a whole picture of three rows, and one that starts and    *)
(* ends inside a row.                                                        *)
EXTENDS Reconstruccion

TrozosMC == {<<1, 5>>, <<3, 6>>}
=============================================================================
