------------------------------ MODULE MCEvents ------------------------------
(* Instance of module Events for TLC.                                      *)
EXTENDS Events, FiniteSets

(* The two streams are not opened or taken down in the same moment, the    *)
(* agent is started first, and no connection breaks and no shutdown begins *)
(* while the link is down: no two of these touch the same state.           *)
OneAtATime ==
  /\ Cardinality({c \in Clients : stream[c].phase \in {"opened", "snapped", "returned"}}) <= 1
  /\ stream["agent"].client = "dial" => stream["bridge"].client = "dial"
  /\ breaks > 0 \/ cancelled => events = <<>> /\ link = "up"
=============================================================================
