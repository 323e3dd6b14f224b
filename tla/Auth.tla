-------------------------------- MODULE Auth --------------------------------
(***************************************************************************)
(* Authentication (internal/bfd/auth.go) between the sender and the        *)
(* receiver of one direction of a session.  With the keyed types the       *)
(* sender numbers its packets modulo Modulus; the receiver accepts a       *)
(* window of 3 * DetectMult numbers above the last one it accepted, and    *)
(* any number when it has been deaf for two detection times.  A key is its *)
(* Key ID; that digest, password, type and lengths are what the key gives  *)
(* is one Boolean, intact.                                                 *)
(*                                                                         *)
(* Time is discrete.  Timers and frames that are due are handled before    *)
(* the next tick.                                                          *)
(***************************************************************************)
EXTENDS Integers, Sequences

CONSTANTS Modulus,      \* 2^32 in the code
          DetectMult,   \* of the sender
          AuthType,     \* "SimplePassword", "Keyed" or "MeticulousKeyed"
          SenderKeys,   \* the current keys the sender may be started with
          ReceiverKeys, \* the keys the receiver knows
          Intervals,    \* the transmission intervals the sender may use
          MaxStateChanges, \* bound: state changes the sender announces
          FirstSeqs,    \* the initial sequence numbers drawn
          MaxRestarts,  \* bound: restarts of the sender
          MaxDelay,     \* the longest a frame is under way, in ticks
          MaxInFlight,  \* bound: frames under way
          BitErrors     \* what a damaged frame adds to its sequence number

ASSUME AuthAssumption ==
  /\ {Modulus, DetectMult, MaxStateChanges, MaxRestarts, MaxDelay, MaxInFlight} \subseteq Nat
  /\ DetectMult > 0 /\ 3 * DetectMult < Modulus
  /\ AuthType \in {"SimplePassword", "Keyed", "MeticulousKeyed"}
  /\ Intervals \subseteq Nat \ {0} /\ \E i \in Intervals : \A j \in Intervals : j <= i
  /\ FirstSeqs \subseteq 0..(Modulus - 1) /\ BitErrors \subseteq 0..(Modulus - 1)

VARIABLES XmitAuthSeq, currentKey, interval, txTimer,   \* the sender
          RcvAuthSeq, AuthSeqKnown,   \* the receiver
          remoteDesiredMinTx, detectTimer,
          lastPacketRecv,             \* as the time since then
          net, path,
          life,    \* history: restarts of the sender so far
          stateChanges, \* history: state changes the sender announced so far
          last     \* history: the frame accepted last

sender == <<XmitAuthSeq, currentKey, interval, txTimer, life, stateChanges>>
receiver == <<RcvAuthSeq, AuthSeqKnown, remoteDesiredMinTx, detectTimer, lastPacketRecv>>
authVars == <<XmitAuthSeq, currentKey, interval, txTimer, life, stateChanges, RcvAuthSeq,
              AuthSeqKnown, remoteDesiredMinTx, detectTimer, lastPacketRecv, net, path, last>>

Slow == CHOOSE i \in Intervals : \A j \in Intervals : j <= i

(* The four hash types differ in the hash, and in being meticulous; a      *)
(* simple password has no sequence number.                                 *)
Meticulous == AuthType = "MeticulousKeyed"
Numbered == AuthType # "SimplePassword"

(* The receiver's store, by Key ID.                                        *)
LookupKey(id) == id \in ReceiverKeys

applyJitter(i) == {t \in 1..i : 4 * t >= 3 * i /\ (DetectMult = 1 => 10 * t <= 9 * i)}

calcDetectionTime == DetectMult * remoteDesiredMinTx

(* A frame.  Histories: the life of the sender it comes from, the number   *)
(* of frames sent since in that life (counted up to Modulus), the number   *)
(* of state changes among them, the shortest interval used since.          *)
Frame(seq, i) == [seq |-> seq, keyID |-> currentKey, intact |-> TRUE, desiredMinTx |-> i,
                  left |-> MaxDelay, life |-> life, since |-> 0, changes |-> 0, pace |-> i]

(* A later frame is sent, with interval i, for n state changes.            *)
Older(f, i, n) ==
  IF f.life # life THEN f
  ELSE [f EXCEPT !.since = IF @ < Modulus THEN @ + 1 ELSE @,
                 !.changes = @ + n,
                 !.pace = IF i < @ THEN i ELSE @]

AuthInit ==
  /\ XmitAuthSeq \in FirstSeqs /\ currentKey \in SenderKeys
  /\ interval = Slow /\ txTimer \in applyJitter(Slow)
  /\ RcvAuthSeq = 0 /\ AuthSeqKnown = FALSE
  /\ remoteDesiredMinTx = Slow /\ detectTimer = DetectMult * Slow
  /\ lastPacketRecv = 0
  /\ net = <<>> /\ path = "good"
  /\ life = 0 /\ stateChanges = 0
  /\ last = [life |-> -1, since |-> 0, changes |-> 0, pace |-> Slow]

-----------------------------------------------------------------------------
(* The sender                                                              *)

(* A password has no number; the keyed types number every packet.          *)
Sign == IF Numbered THEN (XmitAuthSeq + 1) % Modulus ELSE XmitAuthSeq

(* Every packet is signed anew just before it is sent.                     *)
sendControl(i, n) ==
  /\ XmitAuthSeq' = Sign
  /\ LET old == [k \in DOMAIN net |-> Older(net[k], i, n)]
     IN  net' = IF Len(net) < MaxInFlight THEN Append(old, Frame(Sign, i)) ELSE old
  /\ last' = Older(last, i, n)

handleTxTimer ==
  /\ txTimer = 0
  /\ sendControl(interval, 0)
  /\ txTimer' \in applyJitter(interval)
  /\ UNCHANGED <<currentKey, interval, life, stateChanges, receiver, path>>

(* A state change is announced at once and may change the interval.        *)
StateChange(i) ==
  /\ stateChanges < MaxStateChanges
  /\ interval' = i
  /\ sendControl(i, 1)
  /\ txTimer' \in applyJitter(i)
  /\ stateChanges' = stateChanges + 1
  /\ UNCHANGED <<currentKey, life, receiver, path>>

(* The sender's daemon restarts and draws a new sequence number; its key   *)
(* may have been rotated.                                                  *)
NewAuthState ==
  /\ life < MaxRestarts
  /\ life' = life + 1
  /\ XmitAuthSeq' \in FirstSeqs /\ currentKey' \in SenderKeys
  /\ interval' = Slow /\ txTimer' \in applyJitter(Slow)
  /\ UNCHANGED <<stateChanges, receiver, net, path, last>>

-----------------------------------------------------------------------------
(* The receiver                                                            *)

(* Mutant: no wrap-around.                                                 *)
MutSeqInWindow(seq, lo, hi) == lo <= seq /\ seq <= hi

(* seq is in [lo, hi], all modulo Modulus.                                 *)
SeqInWindow(seq, lo, hi) == (seq - lo) % Modulus <= (hi - lo) % Modulus

(* Mutant: also a repetition is accepted.                                  *)
MutCheckSeqWindow(f) ==
  AuthSeqKnown => SeqInWindow(f.seq, RcvAuthSeq, RcvAuthSeq + 3 * DetectMult)

checkSeqWindow(f) ==
  AuthSeqKnown => SeqInWindow(f.seq, IF Meticulous THEN RcvAuthSeq + 1 ELSE RcvAuthSeq,
                              RcvAuthSeq + 3 * DetectMult)

Verify(f) ==
  LookupKey(f.keyID) /\ checkSeqWindow(f) /\ f.intact

Without(k) == [i \in 1..(Len(net) - 1) |-> IF i < k THEN net[i] ELSE net[i + 1]]

(* A bad path may duplicate and reorder.                                   *)
Taken(k) ==
  /\ path = "bad" \/ k = 1
  /\ net' \in {Without(k)} \cup (IF path = "bad" THEN {net} ELSE {})

(* handleRecvPacket: what Verify refuses changes nothing.  Only the keyed  *)
(* types keep the number.                                                  *)
Accept(k) ==
  LET f == net[k]
  IN  /\ Verify(f)
      /\ Taken(k)
      /\ IF Numbered THEN RcvAuthSeq' = f.seq /\ AuthSeqKnown' = TRUE
                     ELSE UNCHANGED <<RcvAuthSeq, AuthSeqKnown>>
      /\ remoteDesiredMinTx' = f.desiredMinTx
      /\ detectTimer' = DetectMult * f.desiredMinTx
      /\ lastPacketRecv' = 0
      /\ last' = [life |-> f.life, since |-> f.since, changes |-> f.changes, pace |-> f.pace]
      /\ UNCHANGED <<sender, path>>

Discard(k) ==
  /\ ~Verify(net[k])
  /\ Taken(k)
  /\ UNCHANGED <<sender, receiver, path, last>>

(* Mutant: the sequence number is never forgotten.                         *)
MutMaybeResetAuthSeqKnown == UNCHANGED AuthSeqKnown

maybeResetAuthSeqKnown ==
  AuthSeqKnown' = (AuthSeqKnown /\ lastPacketRecv < 2 * calcDetectionTime)

(* The timer is armed again whatever the state of the session.             *)
handleDetectTimer ==
  /\ detectTimer = 0
  /\ maybeResetAuthSeqKnown
  /\ detectTimer' = calcDetectionTime
  /\ UNCHANGED <<sender, RcvAuthSeq, remoteDesiredMinTx, lastPacketRecv, net, path, last>>

-----------------------------------------------------------------------------
(* The path and the clock                                                  *)

ChangePath ==
  /\ path' \in {"good", "bad"} \ {path}
  /\ UNCHANGED <<sender, receiver, net, last>>

Lose(k) ==
  /\ path = "bad"
  /\ net' = Without(k)
  /\ UNCHANGED <<sender, receiver, path, last>>

Damage(k) ==
  /\ path = "bad" /\ net[k].intact
  /\ \E e \in BitErrors :
       net' = [net EXCEPT ![k].seq = (@ + e) % Modulus, ![k].intact = FALSE]
  /\ UNCHANGED <<sender, receiver, path, last>>

(* lastPacketRecv is counted up to the time after which it is the same.    *)
Tick ==
  /\ txTimer > 0 /\ detectTimer > 0 /\ \A k \in DOMAIN net : net[k].left > 0
  /\ txTimer' = txTimer - 1
  /\ detectTimer' = detectTimer - 1
  /\ lastPacketRecv' = IF last.life >= 0 /\ lastPacketRecv < 2 * calcDetectionTime
                       THEN lastPacketRecv + 1 ELSE lastPacketRecv
  /\ net' = [k \in DOMAIN net |-> [net[k] EXCEPT !.left = @ - 1]]
  /\ UNCHANGED <<XmitAuthSeq, currentKey, interval, life, stateChanges, RcvAuthSeq,
                 AuthSeqKnown, remoteDesiredMinTx, path, last>>

AuthNext ==
  \/ handleTxTimer
  \/ \E i \in Intervals : StateChange(i)
  \/ NewAuthState
  \/ \E k \in DOMAIN net : Accept(k) \/ Discard(k) \/ Lose(k) \/ Damage(k)
  \/ handleDetectTimer
  \/ ChangePath
  \/ Tick

AuthSpec == AuthInit /\ [][AuthNext]_authVars

-----------------------------------------------------------------------------
(* Properties                                                              *)

Seqs == 0..(Modulus - 1)

Frames == [seq : Seqs, keyID : SenderKeys, intact : BOOLEAN, desiredMinTx : Intervals,
           left : 0..MaxDelay, life : 0..MaxRestarts, since : 0..Modulus,
           changes : 0..MaxStateChanges, pace : Intervals]

Lasts == [life : -1..MaxRestarts, since : 0..Modulus, changes : 0..MaxStateChanges,
          pace : Intervals]

(* Sequence numbers keep their width, timers and frames are well formed.   *)
AuthTypeOK ==
  /\ XmitAuthSeq \in Seqs /\ RcvAuthSeq \in Seqs /\ AuthSeqKnown \in BOOLEAN
  /\ currentKey \in SenderKeys /\ interval \in Intervals /\ remoteDesiredMinTx \in Intervals
  /\ txTimer \in 0..Slow /\ detectTimer \in 0..(DetectMult * Slow)
  /\ lastPacketRecv \in 0..(2 * (DetectMult * Slow))
  /\ net \in Seq(Frames) /\ Len(net) <= MaxInFlight /\ path \in {"good", "bad"}
  /\ life \in 0..MaxRestarts /\ stateChanges \in 0..MaxStateChanges /\ last \in Lasts

(* Of one life of the sender nothing is accepted that is older than what   *)
(* was accepted last, and with a meticulous type nothing twice, across the *)
(* wrap-around and also after AuthSeqKnown was reset, because a frame is   *)
(* under way for less than the two detection times it takes to reset it    *)
(* (checkSeqWindow, maybeResetAuthSeqKnown).                               *)
InOrder ==
  [][\A k \in DOMAIN net :
       Accept(k) /\ net[k].life = last.life =>
         \/ ~Numbered
         \/ ~Meticulous /\ net[k].since = last.since
         \/ net[k].since < last.since]_authVars

(* The window is wide enough: a sound frame newer than the last accepted   *)
(* one of the same life is never refused, however many were lost, damaged  *)
(* or reordered in between.  Within the two detection times after which    *)
(* any number is accepted, the jittered sender cannot pass                 *)
(* 3 * DetectMult, provided it did not speed up meanwhile and announced at *)
(* most one state change (checkSeqWindow, applyJitter, handleDetectTimer). *)
FreshAccepted ==
  [][\A k \in DOMAIN net :
       /\ Discard(k) /\ net[k].intact /\ LookupKey(net[k].keyID)
       /\ net[k].life = last.life /\ last.pace >= remoteDesiredMinTx /\ last.changes <= 1
       => net[k].since >= last.since]_authVars

(* However far apart the numbers are after a restart: a receiver refuses   *)
(* what is sound for less than two detection times, and the detection      *)
(* timer fires often enough to notice (handleDetectTimer,                  *)
(* maybeResetAuthSeqKnown).                                                *)
Resynchronises ==
  [][\A k \in DOMAIN net :
       Discard(k) /\ net[k].intact /\ LookupKey(net[k].keyID) =>
         lastPacketRecv < 2 * calcDetectionTime \/ detectTimer = 0]_authVars
=============================================================================
