------------------------------- MODULE MCLink -------------------------------
(***************************************************************************)
(* Instances of Link for TLC.                                              *)
(***************************************************************************)
EXTENDS Link

(* An active end and a passive end, both faster than the slow rate once Up.*)
MixedConfig ==
  [a |-> [localDiscr |-> 1, role |-> "Active", desiredMinTx |-> 2,
          requiredMinRx |-> 2, detectMult |-> 2],
   b |-> [localDiscr |-> 1, role |-> "Passive", desiredMinTx |-> 1,
          requiredMinRx |-> 2, detectMult |-> 2]]

(* The same with short intervals: restarts, few timers.                    *)
BriefConfig ==
  [MixedConfig EXCEPT !.a.desiredMinTx = 1, !.a.requiredMinRx = 1, !.b.requiredMinRx = 1]

Ends == {"a", "b"}

(* A drain is followed on a good path, until the peer has left Up.         *)
UntilNoticed ==
  \A n \in Nodes :
    sess[n].cachedState = "AdminDown" => path = "good" /\ \E m \in Nodes \ {n} : Up(m)
=============================================================================
