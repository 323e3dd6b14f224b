----------------------------- MODULE MCMicroBfd -----------------------------
(***************************************************************************)
(* Instances of MicroBfd for TLC.                                          *)
(***************************************************************************)
EXTENDS MicroBfd, TLC

CONSTANTS bond0, bond1, eth0, eth1

(* Both links in one LAG, a link moved to the other LAG, no LAG.           *)
TwoLags ==
  {[lag \in {bond0, bond1} |-> CASE lag = bond0 -> [links |-> {eth0, eth1}, minActive |-> 2]
                                 [] lag = bond1 -> Absent],
   [lag \in {bond0, bond1} |-> CASE lag = bond0 -> Absent
                                 [] lag = bond1 -> [links |-> {eth1}, minActive |-> 1]],
   [lag \in {bond0, bond1} |-> Absent]}
=============================================================================
