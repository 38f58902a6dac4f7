---------------------------- MODULE MCSrtOutput ----------------------------
(* SrtOutput for TLC: connections are interchangeable, slots are not. *)
EXTENDS SrtOutput, TLC

SocksSymmetry == Permutations(Socks)
=============================================================================
