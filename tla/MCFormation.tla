---------------------------- MODULE MCFormation ----------------------------
(***************************************************************************)
(* Formation on two hosts: m1 and m2 share one, as MDS_SIZE_PER_HOST > 1    *)
(* makes them, and m3 shares the other with the monitor, which main never   *)
(* arranges and any driver may.                                            *)
(***************************************************************************)
EXTENDS Formation

CONSTANTS h1, h2, mon, m1, m2, m3, c1

MCProcs  == {mon, m1, m2, m3, c1}
MCHostOf == [p \in MCProcs |-> IF p \in {mon, m3} THEN h1 ELSE h2]
=============================================================================
