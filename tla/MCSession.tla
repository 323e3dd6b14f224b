------------------------------ MODULE MCSession -----------------------------
(***************************************************************************)
(* Instances of Session for TLC.                                           *)
(***************************************************************************)
EXTENDS Session

Discr == 1
PeerDiscr == 2

(* A passive session with one-tick intervals: all the control, few timers. *)
ControlConfig ==
  [s1 |-> [localDiscr |-> Discr, role |-> "Passive", desiredMinTx |-> 1,
           requiredMinRx |-> 1, detectMult |-> 2]]

(* An active session that is faster than the slow rate.                    *)
TimerConfig ==
  [s1 |-> [localDiscr |-> Discr, role |-> "Active", desiredMinTx |-> 2,
           requiredMinRx |-> 4, detectMult |-> 2]]

FromPeer(state, poll, tx, rx) ==
  [state |-> state, diag |-> "None", poll |-> poll, final |-> FALSE, detectMult |-> 2,
   myDiscr |-> PeerDiscr, yourDiscr |-> IF state \in {"Down", "AdminDown"} THEN 0 ELSE Discr,
   desiredMinTx |-> tx, requiredMinRx |-> rx]

ControlInputs ==
  {[pkt |-> FromPeer(st, poll, 1, 1), authentic |-> TRUE] : st \in States, poll \in BOOLEAN}
  \cup {[pkt |-> FromPeer("Up", TRUE, 1, 1), authentic |-> FALSE]}

(* After an overflow ConsumersTrack says nothing more.                      *)
BeforeOverflow == ~dropped

TimerInputs ==
  {[pkt |-> FromPeer(st, FALSE, iv[1], iv[2]), authentic |-> TRUE] :
     st \in {"Down", "Up"}, iv \in {<<1, 3>>, <<3, 0>>}}
=============================================================================
