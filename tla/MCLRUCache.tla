----------------------------- MODULE MCLRUCache -----------------------------
(***************************************************************************)
(* LRUCache with three places for four keys: keys are given up, set again and *)
(* given up again, and cells are used for other keys.                      *)
(***************************************************************************)
EXTENDS LRUCache

CONSTANTS k1, k2, k3, k4, x, y, null
=============================================================================
