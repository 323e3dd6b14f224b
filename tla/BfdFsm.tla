------------------------------- MODULE BfdFsm -------------------------------
(***************************************************************************)
(* The session state machine of internal/bfd/fsm.go: a pure table from     *)
(* (state, event) to (new state, list of side effects).  The caller, see   *)
(* SessionHandlers, executes the side effects in the order of the list.    *)
(***************************************************************************)
EXTENDS Sequences

States == {"AdminDown", "Down", "Init", "Up"}

Events == {"RecvAdminDown", "RecvDown", "RecvInit", "RecvUp",
           "TimerExpired", "AdminDown", "AdminUp"}

Actions == {"SendControl", "NotifyUp", "NotifyDown", "SetDiagTimeExpired",
            "SetDiagNeighborDown", "SetDiagAdminDown"}

Diags == {"None", "ControlTimeExpired", "NeighborDown", "PathDown", "AdminDown"}

Into(newState, actions) == [newState |-> newState, actions |-> actions]

(* fsmTable and ApplyEvent.  A pair the table does not list, and a         *)
(* self-loop, leave the state alone and have no side effects.              *)
ApplyEvent(state, event) ==
  CASE state = "AdminDown" /\ event = "AdminUp" -> Into("Down", <<>>)
    [] state = "Down" /\ event = "RecvDown" -> Into("Init", <<"SendControl">>)
    [] state = "Down" /\ event = "RecvInit" ->
         Into("Up", <<"SendControl", "NotifyUp">>)
    [] state = "Init" /\ event \in {"RecvInit", "RecvUp"} ->
         Into("Up", <<"SendControl", "NotifyUp">>)
    [] \/ state \in {"Init", "Up"} /\ event = "RecvAdminDown"
       \/ state = "Up" /\ event = "RecvDown" ->
         Into("Down", <<"SetDiagNeighborDown", "NotifyDown">>)
    [] state \in {"Init", "Up"} /\ event = "TimerExpired" ->
         Into("Down", <<"SetDiagTimeExpired", "NotifyDown">>)
    [] state # "AdminDown" /\ event = "AdminDown" ->
         Into("AdminDown", <<"SetDiagAdminDown">>)
    [] OTHER -> Into(state, <<>>)

(* A wrong translation: Down taken for Init.                               *)
MutRecvStateToEvent(remoteState) ==
  CASE remoteState = "AdminDown" -> "RecvAdminDown"
    [] remoteState \in {"Down", "Init"} -> "RecvInit"
    [] remoteState = "Up" -> "RecvUp"

(* RecvStateToEvent: the State field of a received packet as an event.     *)
RecvStateToEvent(remoteState) ==
  CASE remoteState = "AdminDown" -> "RecvAdminDown"
    [] remoteState = "Down" -> "RecvDown"
    [] remoteState = "Init" -> "RecvInit"
    [] remoteState = "Up" -> "RecvUp"
=============================================================================
