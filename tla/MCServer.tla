------------------------------ MODULE MCServer -----------------------------
(* The server for TLC: addresses are interchangeable in the safety runs.   *)
EXTENDS ServerProperties, TLC

AddrSymmetry == Permutations(Addrs)
=============================================================================
