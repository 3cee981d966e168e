----------------------------- MODULE MCHashMap -----------------------------
(***************************************************************************)
(* Three keys that share a bucket of four, one of which leaves the others  *)
(* when the table grows to eight.  The table grows when it holds all three *)
(* and any of them is written.                                             *)
(***************************************************************************)
EXTENDS HashMap

CONSTANTS k1, k2, k3, zero, one

Hashes == k1 :> 0 @@ k2 :> 4 @@ k3 :> 0
=============================================================================
