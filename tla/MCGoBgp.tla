------------------------------ MODULE MCGoBgp -------------------------------
(***************************************************************************)
(* Instances of GoBgp for TLC.                                             *)
(***************************************************************************)
EXTENDS GoBgp, TLC

CONSTANTS eth0, eth1, peer

(* Two sessions to the same address, over two interfaces.                  *)
OnePeer == [s \in Sessions |-> peer]
=============================================================================
