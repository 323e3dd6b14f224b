-------------------------- MODULE SessionHandlers ---------------------------
(***************************************************************************)
(* The handlers of one BFD session (internal/bfd/session_loop.go and       *)
(* session_packet.go) as functions from the session's fields to its        *)
(* fields.  The session goroutine owns these fields and runs one handler   *)
(* at a time, so a handler is one atomic step of the modules that use it   *)
(* (Session, Link).                                                        *)
(*                                                                         *)
(* A session r is a record.  Beside the fields of the Go struct it has     *)
(*   txTimer, detectTimer   time left on the two timers, Off when the      *)
(*                          timer has fired and was not re-armed;          *)
(*   out                    the packets the handler passed to              *)
(*                          PacketSender.SendPacket (which may lose them); *)
(*   notes                  the StateChange values the handler offered to  *)
(*                          notifyCh.  Both are empty between handlers.    *)
(* pollActive and the two pending parameters are left out: nothing in the  *)
(* program sets them, so no session ever starts a Poll Sequence; it only   *)
(* answers the peer's.                                                     *)
(*                                                                         *)
(* c is the SessionConfig plus the local discriminator, j the percentage   *)
(* drawn for the transmission jitter.                                      *)
(***************************************************************************)
EXTENDS BfdFsm, Integers

CONSTANTS SlowTx,        \* slowTxInterval, the one-second floor
          Microsecond,   \* clock ticks per microsecond
          WireModulus,   \* 2^32: an interval on the wire is a uint32
          Discrs         \* discriminators, zero excluded

ASSUME TimeAssumption == /\ SlowTx \in Nat \ {0}
                         /\ Microsecond \in Nat \ {0}
                         /\ WireModulus \in Nat \ {0}
ASSUME WireAssumption == SlowTx \div Microsecond < WireModulus   \* a second fits the wire
ASSUME DiscrAssumption == Discrs \subseteq Nat \ {0}

Off == -1

Larger(a, b) == IF a >= b THEN a ELSE b

MaxWireInterval == (WireModulus - 1) * Microsecond

(* What validateSessionConfig accepts.                                     *)
Configs == [localDiscr : Discrs, role : {"Active", "Passive"},
            desiredMinTx : 1..MaxWireInterval, requiredMinRx : 1..MaxWireInterval,
            detectMult : 1..255]

(* What UnmarshalControlPacket lets through: MyDiscriminator and           *)
(* DetectMult are nonzero, and YourDiscriminator is zero only in a packet  *)
(* of a peer that is Down or AdminDown.                                    *)
Decodable(p) == /\ p.myDiscr # 0
                /\ p.detectMult # 0
                /\ p.yourDiscr = 0 => p.state \in {"Down", "AdminDown"}

PacketFields == [state : States, diag : Diags, poll : BOOLEAN, final : BOOLEAN,
                 detectMult : 0..255, myDiscr : Nat, yourDiscr : Nat,
                 desiredMinTx : Nat, requiredMinRx : Nat]

Packets == {p \in PacketFields : Decodable(p)}

StateChanges == [discr : Discrs, oldState : States, newState : States, diag : Diags]

Sessions == [state : States, cachedState : States, remoteState : States,
             localDiag : Diags, remoteDiscr : Nat,
             remoteMinRx : Nat, remoteDesiredMinTx : Nat, remoteDetectMult : 0..255,
             pendingFinal : BOOLEAN, txTimer : Int, detectTimer : Int,
             out : Seq(PacketFields), notes : Seq(StateChanges)]

(* NewSession: the values RFC 5880 Section 6.8.1 requires.                 *)
NewSession == [state |-> "Down", cachedState |-> "Down", remoteState |-> "Down",
               localDiag |-> "None", remoteDiscr |-> 0,
               remoteMinRx |-> Microsecond, remoteDesiredMinTx |-> 0,
               remoteDetectMult |-> 0, pendingFinal |-> FALSE,
               txTimer |-> Off, detectTimer |-> Off, out |-> <<>>, notes |-> <<>>]

-----------------------------------------------------------------------------
(* Timers                                                                  *)

durationFromMicroseconds(us) == us * Microsecond
microsecondsFromDuration(d) == (d \div Microsecond) % WireModulus

(* The floor forgotten.                                                    *)
MutFloorTx(c, r) == c.desiredMinTx

(* The desired interval, floored to one second while the session is not Up *)
floorTx(c, r) ==
  IF r.cachedState # "Up" /\ c.desiredMinTx < SlowTx THEN SlowTx ELSE c.desiredMinTx

calcTxInterval(c, r) == Larger(floorTx(c, r), r.remoteMinRx)

calcDetectionTime(c, r) ==
  IF r.remoteDetectMult = 0
  THEN calcTxInterval(c, r) * c.detectMult
  ELSE Larger(c.requiredMinRx, r.remoteDesiredMinTx) * r.remoteDetectMult

(* The percentages applyJitterWithRand can draw.                           *)
JitterPercents(c) == IF c.detectMult = 1 THEN 10..25 ELSE 0..25

applyJitter(interval, j) == interval - ((interval * j) \div 100)

resetTxTimer(c, r, j) == [r EXCEPT !.txTimer = applyJitter(calcTxInterval(c, r), j)]

resetDetectTimer(c, r) == [r EXCEPT !.detectTimer = calcDetectionTime(c, r)]

-----------------------------------------------------------------------------
(* Transmission                                                            *)

buildControlPacket(c, r) ==
  [state |-> r.cachedState, diag |-> r.localDiag,
   poll |-> FALSE, final |-> r.pendingFinal, detectMult |-> c.detectMult,
   myDiscr |-> c.localDiscr, yourDiscr |-> r.remoteDiscr,
   desiredMinTx |-> microsecondsFromDuration(floorTx(c, r)),
   requiredMinRx |-> microsecondsFromDuration(c.requiredMinRx)]

(* The Final sent is not consumed.                                         *)
MutSendControl(c, r) ==
  [r EXCEPT !.out = Append(@, buildControlPacket(c, r))]

(* sendControl builds the packet, which consumes pendingFinal, and passes  *)
(* it to the sender.  An error of the sender is only logged: it is a lost  *)
(* packet.                                                                 *)
sendControl(c, r) ==
  [r EXCEPT !.out = Append(@, buildControlPacket(c, r)), !.pendingFinal = FALSE]

maybeSendControl(c, r) ==
  IF \/ c.role = "Passive" /\ r.remoteDiscr = 0
     \/ r.remoteMinRx = 0
  THEN r
  ELSE sendControl(c, r)

-----------------------------------------------------------------------------
(* Side effects of the state machine                                       *)

executeAction(c, r, action, j) ==
  CASE action = "SendControl" -> resetTxTimer(c, sendControl(c, r), j)
    [] action = "NotifyUp" -> resetDetectTimer(c, resetTxTimer(c, r, j))
    [] action = "NotifyDown" ->
         LET forgotten == [r EXCEPT !.remoteDiscr = 0]
         IN  resetDetectTimer(c, resetTxTimer(c, forgotten, j))
    [] action = "SetDiagTimeExpired" -> [r EXCEPT !.localDiag = "ControlTimeExpired"]
    [] action = "SetDiagNeighborDown" -> [r EXCEPT !.localDiag = "NeighborDown"]
    [] action = "SetDiagAdminDown" -> [r EXCEPT !.localDiag = "AdminDown"]

(* Only transitions to Up are notified.                                    *)
MutEmitNotification(c, r, newState) ==
  IF newState # "Up" THEN r
  ELSE [r EXCEPT !.notes = Append(@, [discr |-> c.localDiscr, oldState |-> r.cachedState,
                                      newState |-> newState, diag |-> r.localDiag])]

(* logStateChange and emitNotification: the notification carries the       *)
(* diagnostic of this moment, before any side effect is executed.          *)
emitNotification(c, r, newState) ==
  [r EXCEPT !.notes = Append(@, [discr |-> c.localDiscr, oldState |-> r.cachedState,
                                 newState |-> newState, diag |-> r.localDiag])]

(* The atomic mirror is not updated.                                       *)
MutEnterState(c, r, newState) ==
  IF newState = r.cachedState THEN r
  ELSE [emitNotification(c, r, newState) EXCEPT !.cachedState = newState]

enterState(c, r, newState) ==
  IF newState = r.cachedState THEN r
  ELSE [emitNotification(c, r, newState) EXCEPT !.state = newState,
                                                !.cachedState = newState]

executeNth(c, r, actions, n, j) ==
  IF n \in DOMAIN actions THEN executeAction(c, r, actions[n], j) ELSE r

(* The side effects executed before the transition.                        *)
MutExecuteFSMActions(c, r, result, j) ==
  enterState(c, executeNth(c, executeNth(c, r, result.actions, 1, j), result.actions, 2, j),
             result.newState)

(* No list of side effects is longer than two.                             *)
executeFSMActions(c, r, result, j) ==
  LET entered == enterState(c, r, result.newState)
  IN  executeNth(c, executeNth(c, entered, result.actions, 1, j), result.actions, 2, j)

applyFSMEvent(c, r, event, j) ==
  executeFSMActions(c, r, ApplyEvent(r.cachedState, event), j)

-----------------------------------------------------------------------------
(* The handlers                                                            *)

(* A handler starts with nothing sent and nothing notified.                *)
begin(r) == [r EXCEPT !.out = <<>>, !.notes = <<>>]

(* Run, up to its select loop.                                             *)
startLoop(c, r, j) ==
  LET mirrored == [begin(r) EXCEPT !.cachedState = r.state]
  IN  resetDetectTimer(c, resetTxTimer(c, mirrored, j))

learn(r, p) ==
  [r EXCEPT !.remoteDiscr = p.myDiscr, !.remoteState = p.state,
            !.remoteMinRx = durationFromMicroseconds(p.requiredMinRx),
            !.remoteDesiredMinTx = durationFromMicroseconds(p.desiredMinTx),
            !.remoteDetectMult = p.detectMult,
            !.pendingFinal = @ \/ p.poll]

(* The detection timer not restarted by a packet.                          *)
MutHandleRecvPacket(c, r, p, authentic, j) ==
  LET stepped == applyFSMEvent(c, learn(begin(r), p), RecvStateToEvent(p.state), j)
  IN  CASE ~authentic -> begin(r)
        [] authentic /\ stepped.pendingFinal -> resetTxTimer(c, sendControl(c, stepped), j)
        [] authentic /\ ~stepped.pendingFinal -> stepped

(* handleRecvPacket.  authentic is the verdict of checkAuthConsistency and *)
(* Authenticator.Verify.  A Final that no side effect has carried is sent  *)
(* at the end.                                                             *)
handleRecvPacket(c, r, p, authentic, j) ==
  LET learned == resetDetectTimer(c, learn(begin(r), p))
      stepped == applyFSMEvent(c, learned, RecvStateToEvent(p.state), j)
  IN  CASE ~authentic -> begin(r)
        [] authentic /\ stepped.pendingFinal -> resetTxTimer(c, sendControl(c, stepped), j)
        [] authentic /\ ~stepped.pendingFinal -> stepped

(* AdminDown not announced.                                                *)
MutHandleAdminDown(c, r, j) ==
  applyFSMEvent(c, [begin(r) EXCEPT !.txTimer = Off], "AdminDown", j)

handleAdminDown(c, r, j) ==
  LET result == ApplyEvent(r.cachedState, "AdminDown")
  IN  IF result.newState = r.cachedState
      THEN [begin(r) EXCEPT !.localDiag = "AdminDown"]
      ELSE executeFSMActions(c, begin(r),
             Into(result.newState, Append(result.actions, "SendControl")), j)

(* AdminDown not excepted.                                                 *)
MutHandlePathDown(c, r, j) ==
  LET marked == [begin(r) EXCEPT !.localDiag = "PathDown"]
  IN  IF r.cachedState = "Down"
      THEN marked
      ELSE executeFSMActions(c, marked, Into("Down", <<"NotifyDown", "SendControl">>), j)

handlePathDown(c, r, j) ==
  LET marked == [begin(r) EXCEPT !.localDiag = "PathDown"]
  IN  IF r.cachedState \in {"Down", "AdminDown"}
      THEN marked
      ELSE executeFSMActions(c, marked, Into("Down", <<"NotifyDown", "SendControl">>), j)

(* The timer not re-armed, and the detection timer restarted by our own    *)
(* transmissions.                                                          *)
MutTxOnce(c, r, j) ==
  maybeSendControl(c, [begin(r) EXCEPT !.txTimer = Off])

MutTxRestartsDetection(c, r, j) ==
  resetDetectTimer(c,
    resetTxTimer(c, maybeSendControl(c, [begin(r) EXCEPT !.txTimer = Off]), j))

handleTxTimer(c, r, j) ==
  resetTxTimer(c, maybeSendControl(c, [begin(r) EXCEPT !.txTimer = Off]), j)

MutDetectIgnored(c, r, j) ==
  resetDetectTimer(c, [begin(r) EXCEPT !.detectTimer = Off])

handleDetectTimer(c, r, j) ==
  LET fired == [begin(r) EXCEPT !.detectTimer = Off]
  IN  IF r.cachedState \notin {"Init", "Up"}
      THEN resetDetectTimer(c, fired)
      ELSE applyFSMEvent(c, fired, "TimerExpired", j)

(* Time passes: each armed timer comes closer to firing.                   *)
elapse(t) == IF t > 0 THEN t - 1 ELSE t

passTime(r) == [r EXCEPT !.txTimer = elapse(@), !.detectTimer = elapse(@)]
=============================================================================
