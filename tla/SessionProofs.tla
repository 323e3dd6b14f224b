---------------------------- MODULE SessionProofs ---------------------------
(***************************************************************************)
(* Theorems about Session, for any set of sessions, configurations,        *)
(* channel capacities and received packets.  Their heart is SessionInv,    *)
(* which the handlers keep by the lemmas of HandlerProofs.                 *)
(***************************************************************************)
EXTENDS Session, HandlerProofs, FiniteSetTheorems

(* What holds of one session between two handlers, whatever it has heard.  *)
SessionOK(s) == Safe(Config[s], sess[s], Nat) /\ Agrees(sess[s])

QueuesOK ==
  /\ recvCh \in [Ids -> Seq(RecvItems)] /\ \A s \in Ids : Len(recvCh[s]) <= RecvChSize
  /\ ctrlCh \in [Ids -> Seq(Commands)] /\ \A s \in Ids : Len(ctrlCh[s]) <= CtrlChSize

SessionInv ==
  /\ TypeOK
  /\ \A s \in Ids : SessionOK(s)
  /\ SentDecodable

(* A session's configuration, and a percentage drawn for it.               *)
LEMMA DrawTypes ==
  ASSUME NEW s \in Ids
  PROVE  Config[s] \in Configs /\ \A j \in Jitters : j \in 0..25
<1>1. Config[s] \in Configs
  BY ConfigAssumption
<1>2. \A j \in Jitters : j \in JitterPercents(Config[s])
  BY JitterAssumption
<1>3. \A j \in JitterPercents(Config[s]) : j \in 0..25
  BY DEF JitterPercents
<1> QED
  BY <1>1, <1>2, <1>3

(* The program starts with fresh sessions and empty channels.              *)
LEMMA InitInv ==
  Init => SessionInv
<1> SUFFICES ASSUME Init PROVE SessionInv
  OBVIOUS
<1>1. \A s \in Ids : SessionOK(s)
  <2> TAKE s \in Ids
  <2>1. Safe(Config[s], NewSession, Nat) /\ Agrees(NewSession)
    BY DrawTypes, NewSessionSafe
  <2> QED
    BY <2>1 DEF Init, SessionOK
<1>2. sess \in [Ids -> Sessions]
  <2>1. \A s \in Ids : NewSession \in Sessions
    BY DrawTypes, NewSessionSafe DEF Safe
  <2> QED
    BY <2>1 DEF Init
<1>3. /\ <<>> \in Seq(RecvItems) /\ <<>> \in Seq(Commands) /\ <<>> \in Seq(StateChanges)
      /\ <<>> \in Seq(PacketFields) /\ Len(<<>>) = 0
  OBVIOUS
<1>4. 0 <= RecvChSize /\ 0 <= CtrlChSize /\ 0 <= NotifyChSize
  BY ChannelAssumption
<1>5. TypeOK
  BY <1>2, <1>3, <1>4 DEF Init, TypeOK, States
<1>6. SentDecodable
  BY DEF Init, SentDecodable
<1> QED
  BY <1>1, <1>5, <1>6 DEF SessionInv

(* One iteration of the select loop: its handler ends with r.              *)
LEMMA HandledInv ==
  ASSUME SessionInv, NEW s \in Ids, NEW r,
         Safe(Config[s], r, Nat), Agrees(r), Handled(s, r),
         UNCHANGED <<phase, adminCall, view>>, QueuesOK'
  PROVE  SessionInv'
<1> DEFINE b == begin(r)
<1>1. Config[s] \in Configs
  BY DrawTypes
<1>2. Safe(Config[s], b, Nat) /\ Agrees(b)
  BY <1>1, BeginSafe DEF Agrees, Same
<1>3. b \in Sessions /\ r \in Sessions
  BY <1>2 DEF Safe
<1>4. sess' = [sess EXCEPT ![s] = b] /\ sess \in [Ids -> Sessions]
  BY DEF Handled, SessionInv, TypeOK
<1> HIDE DEF b
<1>5. sess' \in [Ids -> Sessions]
  BY <1>3, <1>4
<1>6. ASSUME NEW t \in Ids PROVE SessionOK(t)'
  <2>1. CASE t = s
    BY <1>2, <1>4, <2>1 DEF SessionOK
  <2>2. CASE t # s
    BY <1>4, <2>2 DEF SessionOK, SessionInv
  <2> QED
    BY <2>1, <2>2
<1>7. r.out \in Seq(PacketFields) /\ r.notes \in Seq(StateChanges)
  BY <1>3 DEF Sessions
<1>8. sent' \in Seq(PacketFields) /\ SentDecodable'
  BY <1>7 DEF Handled, SentDecodable, Safe, SafeOut
<1>9. notifyCh' \in Seq(StateChanges) /\ Len(notifyCh') <= NotifyChSize
  <2>1. notifyCh \in Seq(StateChanges) /\ Len(notifyCh) <= NotifyChSize
    BY DEF SessionInv, TypeOK
  <2>2. /\ notifyCh \o r.notes \in Seq(StateChanges)
        /\ Len(notifyCh \o r.notes) = Len(notifyCh) + Len(r.notes)
    BY <1>7, <2>1, ConcatProperties
  <2> QED
    BY <2>1, <2>2 DEF Handled
<1>10. dropped' \in BOOLEAN
  BY DEF Handled
<1>11. TypeOK'
  BY <1>5, <1>8, <1>9, <1>10 DEF TypeOK, SessionInv, QueuesOK
<1> QED
  BY <1>6, <1>8, <1>11 DEF SessionInv

(* Taking a value off a channel and putting one on it.                     *)
LEMMA TailType ==
  ASSUME NEW S, NEW q \in Seq(S), q # <<>>
  PROVE  Head(q) \in S /\ Tail(q) \in Seq(S) /\ Len(Tail(q)) <= Len(q)
BY HeadTailProperties, LenProperties

(* The select loop's receive case.                                         *)
LEMMA LoopRecvInv ==
  ASSUME SessionInv, NEW s \in Ids, LoopRecv(s)
  PROVE  SessionInv'
<1> DEFINE item == Head(recvCh[s])
<1>1. recvCh[s] \in Seq(RecvItems) /\ recvCh[s] # <<>>
  BY DEF SessionInv, TypeOK, LoopRecv
<1>2. /\ item \in RecvItems /\ Tail(recvCh[s]) \in Seq(RecvItems)
      /\ Len(Tail(recvCh[s])) <= Len(recvCh[s])
  BY <1>1, TailType
<1>3. item.pkt \in Packets /\ item.authentic \in BOOLEAN
  BY <1>2 DEF RecvItems
<1>4. QueuesOK'
  <2>1. recvCh' = [recvCh EXCEPT ![s] = Tail(@)] /\ ctrlCh' = ctrlCh
    BY DEF LoopRecv
  <2>2. \A t \in Ids : recvCh'[t] \in Seq(RecvItems) /\ Len(recvCh'[t]) <= RecvChSize
    BY <1>1, <1>2, <2>1, LenProperties, ChannelAssumption DEF SessionInv, TypeOK
  <2> QED
    BY <2>1, <2>2 DEF QueuesOK, SessionInv, TypeOK
<1> HIDE DEF item
<1>5. PICK j \in Jitters :
        Handled(s, handleRecvPacket(Config[s], sess[s], item.pkt, item.authentic, j))
  BY DEF LoopRecv, item
<1>6. Config[s] \in Configs /\ j \in 0..25
  BY DrawTypes
<1> DEFINE r == handleRecvPacket(Config[s], sess[s], item.pkt, item.authentic, j)
<1>7. Safe(Config[s], sess[s], Nat) /\ Agrees(sess[s]) /\ 0 \in Nat
  BY DEF SessionInv, SessionOK
<1>8. item.pkt.myDiscr \in Nat
  BY <1>3 DEF Packets, PacketFields
<1>9. Safe(Config[s], r, Nat) /\ Agrees(r)
  BY <1>3, <1>6, <1>7, <1>8, RecvSafe
<1> HIDE DEF r
<1> QED
  BY <1>4, <1>5, <1>9, HandledInv DEF LoopRecv, r

(* The select loop's control case.                                         *)
LEMMA LoopControlInv ==
  ASSUME SessionInv, NEW s \in Ids, LoopControl(s)
  PROVE  SessionInv'
<1>1. ctrlCh[s] \in Seq(Commands) /\ ctrlCh[s] # <<>>
  BY DEF SessionInv, TypeOK, LoopControl, ControlReady
<1>2. Tail(ctrlCh[s]) \in Seq(Commands) /\ Len(Tail(ctrlCh[s])) <= Len(ctrlCh[s])
  BY <1>1, TailType
<1>3. QueuesOK'
  <2>1. ctrlCh' = [ctrlCh EXCEPT ![s] = Tail(@)] /\ recvCh' = recvCh
    BY DEF LoopControl
  <2>2. \A t \in Ids : ctrlCh'[t] \in Seq(Commands) /\ Len(ctrlCh'[t]) <= CtrlChSize
    BY <1>1, <1>2, <2>1, LenProperties, ChannelAssumption DEF SessionInv, TypeOK
  <2> QED
    BY <2>1, <2>2 DEF QueuesOK, SessionInv, TypeOK
<1>4. PICK j \in Jitters :
        Handled(s, IF Head(ctrlCh[s]) = "PathDown"
                   THEN handlePathDown(Config[s], sess[s], j)
                   ELSE handleAdminDown(Config[s], sess[s], j))
  BY DEF LoopControl
<1>5. Config[s] \in Configs /\ j \in 0..25
  BY DrawTypes
<1>6. Safe(Config[s], sess[s], Nat) /\ Agrees(sess[s]) /\ 0 \in Nat
  BY DEF SessionInv, SessionOK
<1> DEFINE pathDown == handlePathDown(Config[s], sess[s], j)
<1> DEFINE adminDown == handleAdminDown(Config[s], sess[s], j)
<1>7. Safe(Config[s], pathDown, Nat) /\ Agrees(pathDown)
  BY <1>5, <1>6, PathDownSafe
<1>8. Safe(Config[s], adminDown, Nat) /\ Agrees(adminDown)
  BY <1>5, <1>6, AdminDownSafe
<1>9. Handled(s, pathDown) \/ Handled(s, adminDown)
  BY <1>4
<1> HIDE DEF pathDown, adminDown
<1> QED
  BY <1>3, <1>7, <1>8, <1>9, HandledInv DEF LoopControl

(* The select loop's two timer cases.                                      *)
LEMMA LoopTimersInv ==
  ASSUME SessionInv, NEW s \in Ids, LoopTx(s) \/ LoopDetect(s)
  PROVE  SessionInv'
<1>1. QueuesOK'
  BY DEF SessionInv, TypeOK, QueuesOK, LoopTx, LoopDetect
<1>2. PICK j \in Jitters : \/ Handled(s, handleTxTimer(Config[s], sess[s], j))
                           \/ Handled(s, handleDetectTimer(Config[s], sess[s], j))
  BY DEF LoopTx, LoopDetect
<1>3. Config[s] \in Configs /\ j \in 0..25
  BY DrawTypes
<1>4. Safe(Config[s], sess[s], Nat) /\ Agrees(sess[s]) /\ 0 \in Nat
  BY DEF SessionInv, SessionOK
<1> DEFINE tx == handleTxTimer(Config[s], sess[s], j)
<1> DEFINE detect == handleDetectTimer(Config[s], sess[s], j)
<1>5. Safe(Config[s], tx, Nat) /\ Agrees(tx)
  BY <1>3, <1>4, TxTimerSafe
<1>6. Safe(Config[s], detect, Nat) /\ Agrees(detect)
  BY <1>3, <1>4, DetectTimerSafe
<1>7. UNCHANGED <<phase, adminCall, view>>
  BY DEF LoopTx, LoopDetect
<1>8. Handled(s, tx) \/ Handled(s, detect)
  BY <1>2
<1> HIDE DEF tx, detect
<1> QED
  BY <1>1, <1>5, <1>6, <1>7, <1>8, HandledInv

(* A step outside the loop's handlers: it transmits nothing and leaves     *)
(* every session in order.                                                 *)
LEMMA OutsideInv ==
  ASSUME SessionInv, sess' \in [Ids -> Sessions], \A t \in Ids : SessionOK(t)',
         sent' = <<>>, QueuesOK', dropped' = dropped,
         phase' \in [Ids -> {"created", "starting", "looping", "stopped"}],
         adminCall' \in [Ids -> {"idle", "offering", "direct", "diagStored", "returned"}],
         notifyCh' \in Seq(StateChanges), Len(notifyCh') <= NotifyChSize,
         view' \in [Ids -> States]
  PROVE  SessionInv'
<1>1. sent' \in Seq(PacketFields) /\ SentDecodable'
  BY DEF SentDecodable
<1>2. TypeOK'
  BY <1>1 DEF TypeOK, SessionInv, QueuesOK
<1> QED
  BY <1>1, <1>2 DEF SessionInv

(* The steps that leave the sessions' fields alone.                        *)
LEMMA FieldsUnchanged ==
  ASSUME SessionInv, sess' = sess
  PROVE  sess' \in [Ids -> Sessions] /\ \A t \in Ids : SessionOK(t)'
BY DEF SessionInv, TypeOK, SessionOK

(* The steps that change the fields of one session.                        *)
LEMMA FieldsOfOne ==
  ASSUME SessionInv, NEW s \in Ids, NEW r, sess' = [sess EXCEPT ![s] = r],
         Safe(Config[s], r, Nat), Agrees(r)
  PROVE  sess' \in [Ids -> Sessions] /\ \A t \in Ids : SessionOK(t)'
<1>1. sess \in [Ids -> Sessions] /\ r \in Sessions
  BY DEF SessionInv, TypeOK, Safe
<1>2. ASSUME NEW t \in Ids PROVE SessionOK(t)'
  <2>1. CASE t = s
    BY <1>1, <2>1 DEF SessionOK
  <2>2. CASE t # s
    BY <1>1, <2>2 DEF SessionOK, SessionInv
  <2> QED
    BY <2>1, <2>2
<1> QED
  BY <1>1, <1>2

(* Run starts, enters its loop, and returns when its context is cancelled. *)
LEMMA RunInv ==
  ASSUME SessionInv, NEW s \in Ids, RunStart(s) \/ RunEnterLoop(s) \/ RunStop(s)
  PROVE  SessionInv'
<1>1. sess' \in [Ids -> Sessions] /\ \A t \in Ids : SessionOK(t)'
  <2>1. CASE RunStart(s) \/ RunStop(s)
    BY <2>1, FieldsUnchanged DEF RunStart, RunStop
  <2>2. CASE RunEnterLoop(s)
    <3>1. PICK j \in Jitters : sess' = [sess EXCEPT ![s] = startLoop(Config[s], @, j)]
      BY <2>2 DEF RunEnterLoop
    <3>2. Config[s] \in Configs /\ j \in 0..25
      BY DrawTypes
    <3>3. Safe(Config[s], sess[s], Nat) /\ Agrees(sess[s])
      BY DEF SessionInv, SessionOK
    <3> DEFINE r == startLoop(Config[s], sess[s], j)
    <3>4. Safe(Config[s], r, Nat) /\ Agrees(r)
      BY <3>2, <3>3, StartLoopSafe
    <3>5. sess' = [sess EXCEPT ![s] = r]
      BY <3>1
    <3> HIDE DEF r
    <3> QED
      BY <3>4, <3>5, FieldsOfOne
  <2> QED
    BY <2>1, <2>2
<1>2. /\ QueuesOK' /\ sent' = <<>> /\ dropped' = dropped
      /\ notifyCh' = notifyCh /\ adminCall' = adminCall /\ view' = view
  BY DEF RunStart, RunEnterLoop, RunStop, SessionInv, TypeOK, QueuesOK
<1>3. phase' \in [Ids -> {"created", "starting", "looping", "stopped"}]
  BY DEF RunStart, RunEnterLoop, RunStop, SessionInv, TypeOK
<1> QED
  BY <1>1, <1>2, <1>3, OutsideInv DEF SessionInv, TypeOK

(* Receivers and the interface monitor offer values to the channels.       *)
LEMMA OfferInv ==
  ASSUME SessionInv, NEW s \in Ids,
         (\E item \in Inputs : RecvPacket(s, item)) \/ SetPathDown(s)
  PROVE  SessionInv'
<1>1. sess' \in [Ids -> Sessions] /\ \A t \in Ids : SessionOK(t)'
  BY FieldsUnchanged DEF RecvPacket, SetPathDown
<1>2. /\ sent' = <<>> /\ dropped' = dropped /\ phase' = phase
      /\ notifyCh' = notifyCh /\ adminCall' = adminCall /\ view' = view
  BY DEF RecvPacket, SetPathDown
<1>3. QueuesOK'
  <2>1. ASSUME NEW item \in Inputs, RecvPacket(s, item) PROVE QueuesOK'
    <3>1. item \in RecvItems /\ recvCh[s] \in Seq(RecvItems)
      BY <2>1, InputAssumption DEF SessionInv, TypeOK
    <3>2. /\ Append(recvCh[s], item) \in Seq(RecvItems)
          /\ Len(Append(recvCh[s], item)) = Len(recvCh[s]) + 1 /\ Len(recvCh[s]) \in Nat
      BY <3>1, AppendProperties, LenProperties
    <3>3. Len(Append(recvCh[s], item)) <= RecvChSize
      BY <2>1, <3>2, ChannelAssumption DEF RecvPacket
    <3> QED
      BY <2>1, <3>2, <3>3 DEF RecvPacket, QueuesOK, SessionInv, TypeOK
  <2>2. CASE SetPathDown(s)
    <3>1. "PathDown" \in Commands /\ ctrlCh[s] \in Seq(Commands)
      BY DEF SessionInv, TypeOK, Commands
    <3>2. /\ Append(ctrlCh[s], "PathDown") \in Seq(Commands)
          /\ Len(Append(ctrlCh[s], "PathDown")) = Len(ctrlCh[s]) + 1 /\ Len(ctrlCh[s]) \in Nat
      BY <3>1, AppendProperties, LenProperties
    <3>3. Len(Append(ctrlCh[s], "PathDown")) <= CtrlChSize
      BY <2>2, <3>2, ChannelAssumption DEF SetPathDown
    <3> QED
      BY <2>2, <3>2, <3>3 DEF SetPathDown, QueuesOK, SessionInv, TypeOK
  <2> QED
    BY <2>1, <2>2
<1> QED
  BY <1>1, <1>2, <1>3, OutsideInv DEF SessionInv, TypeOK

(* SetAdminDown of a draining goroutine.  A direct store of AdminDown is   *)
(* the one way for state to differ from cachedState.                       *)
LEMMA SetAdminDownInv ==
  ASSUME SessionInv, NEW s \in Ids, SetAdminDown(s)
  PROVE  SessionInv'
<1> USE DEF SetAdminDown, SetAdminDownLoad, SetAdminDownOffer,
            SetAdminDownStoreDiag, SetAdminDownStoreState
<1>1. /\ sent' = <<>> /\ dropped' = dropped /\ phase' = phase
      /\ notifyCh' = notifyCh /\ view' = view
  OBVIOUS
<1>2. adminCall' \in [Ids -> {"idle", "offering", "direct", "diagStored", "returned"}]
  BY DEF SessionInv, TypeOK
<1>3. QueuesOK'
  <2>1. CASE ctrlCh' = ctrlCh
    BY <2>1 DEF QueuesOK, SessionInv, TypeOK
  <2>2. CASE /\ Len(ctrlCh[s]) < CtrlChSize /\ recvCh' = recvCh
             /\ ctrlCh' = [ctrlCh EXCEPT ![s] = Append(@, "AdminDown")]
    <3>1. "AdminDown" \in Commands /\ ctrlCh[s] \in Seq(Commands)
      BY DEF SessionInv, TypeOK, Commands
    <3>2. /\ Append(ctrlCh[s], "AdminDown") \in Seq(Commands)
          /\ Len(Append(ctrlCh[s], "AdminDown")) = Len(ctrlCh[s]) + 1 /\ Len(ctrlCh[s]) \in Nat
      BY <3>1, AppendProperties, LenProperties
    <3>3. Len(Append(ctrlCh[s], "AdminDown")) <= CtrlChSize
      BY <2>2, <3>2, ChannelAssumption
    <3> QED
      BY <2>2, <3>2, <3>3 DEF QueuesOK, SessionInv, TypeOK
  <2> QED
    BY <2>1, <2>2
<1>4. sess' \in [Ids -> Sessions] /\ \A t \in Ids : SessionOK(t)'
  <2>0. Safe(Config[s], sess[s], Nat) /\ Agrees(sess[s]) /\ sess[s] \in Sessions
    BY DEF SessionInv, SessionOK, Safe
  <2> DEFINE d == [sess[s] EXCEPT !.localDiag = "AdminDown"]
  <2> DEFINE t == [sess[s] EXCEPT !.state = "AdminDown"]
  <2>1. d \in Sessions /\ t \in Sessions
    BY <2>0 DEF Sessions, Diags, States
  <2>2. /\ d.remoteDiscr = sess[s].remoteDiscr /\ d.cachedState = sess[s].cachedState
        /\ d.remoteState = sess[s].remoteState /\ d.state = sess[s].state
        /\ d.out = sess[s].out
    BY <2>0 DEF Sessions
  <2>3. /\ t.remoteDiscr = sess[s].remoteDiscr /\ t.cachedState = sess[s].cachedState
        /\ t.remoteState = sess[s].remoteState /\ t.state = "AdminDown"
        /\ t.out = sess[s].out
    BY <2>0 DEF Sessions
  <2>4. sess' = sess \/ sess' = [sess EXCEPT ![s] = d] \/ sess' = [sess EXCEPT ![s] = t]
    OBVIOUS
  <2> HIDE DEF d, t, SetAdminDown
  <2>5. Safe(Config[s], d, Nat) /\ Agrees(d)
    BY <2>0, <2>1, <2>2 DEF Safe, Agrees
  <2>6. Safe(Config[s], t, Nat) /\ Agrees(t)
    BY <2>0, <2>1, <2>3 DEF Safe, Agrees
  <2> QED
    BY <2>4, <2>5, <2>6, FieldsOfOne, FieldsUnchanged
<1> HIDE DEF SetAdminDown
<1> QED
  BY <1>1, <1>2, <1>3, <1>4, OutsideInv DEF SessionInv, TypeOK

(* The dispatcher takes a state change off notifyCh.                       *)
LEMMA DispatchInv ==
  ASSUME SessionInv, Dispatch
  PROVE  SessionInv'
<1>1. sess' \in [Ids -> Sessions] /\ \A t \in Ids : SessionOK(t)'
  BY FieldsUnchanged DEF Dispatch
<1>2. /\ sent' = <<>> /\ dropped' = dropped /\ phase' = phase /\ adminCall' = adminCall
      /\ QueuesOK'
  BY DEF Dispatch, QueuesOK, SessionInv, TypeOK
<1>3. notifyCh \in Seq(StateChanges) /\ notifyCh # <<>> /\ Len(notifyCh) <= NotifyChSize
  BY DEF Dispatch, SessionInv, TypeOK
<1>4. /\ Head(notifyCh) \in StateChanges /\ Tail(notifyCh) \in Seq(StateChanges)
      /\ Len(Tail(notifyCh)) <= Len(notifyCh)
  BY <1>3, TailType
<1>5. Len(notifyCh) \in Nat /\ Len(Tail(notifyCh)) \in Nat /\ NotifyChSize \in Nat
  BY <1>3, <1>4, LenProperties, ChannelAssumption
<1>6. notifyCh' \in Seq(StateChanges) /\ Len(notifyCh') <= NotifyChSize
  BY <1>3, <1>4, <1>5 DEF Dispatch
<1>7. Head(notifyCh).newState \in States
  BY <1>4 DEF StateChanges
<1>8. view' \in [Ids -> States]
  BY <1>7 DEF Dispatch, SessionInv, TypeOK
<1> QED
  BY <1>1, <1>2, <1>6, <1>8, OutsideInv DEF SessionInv, TypeOK

(* A tick of the clock.                                                    *)
LEMMA TickInv ==
  ASSUME SessionInv, Tick
  PROVE  SessionInv'
<1>1. ASSUME NEW t \in Ids PROVE SessionOK(t)' /\ sess'[t] \in Sessions
  <2>1. Safe(Config[t], sess[t], Nat) /\ Agrees(sess[t]) /\ Config[t] \in Configs
    BY DrawTypes DEF SessionInv, SessionOK
  <2>2. sess'[t] = passTime(sess[t])
    BY DEF Tick
  <2>3. Safe(Config[t], passTime(sess[t]), Nat) /\ Agrees(passTime(sess[t]))
    BY <2>1, PassTimeSafe
  <2> QED
    BY <2>2, <2>3 DEF SessionOK, Safe
<1>2. sess' \in [Ids -> Sessions]
  BY <1>1 DEF Tick
<1>3. /\ sent' = <<>> /\ dropped' = dropped /\ phase' = phase /\ adminCall' = adminCall
      /\ notifyCh' = notifyCh /\ view' = view /\ QueuesOK'
  BY DEF Tick, QueuesOK, SessionInv, TypeOK
<1> QED
  BY <1>1, <1>2, <1>3, OutsideInv DEF SessionInv, TypeOK

(* Every step of the program keeps SessionInv.                             *)
LEMMA NextInv ==
  SessionInv /\ [Next]_vars => SessionInv'
<1> SUFFICES ASSUME SessionInv, [Next]_vars PROVE SessionInv'
  OBVIOUS
<1>1. ASSUME NEW s \in Ids, Loop(s) PROVE SessionInv'
  BY <1>1, RunInv, LoopRecvInv, LoopControlInv, LoopTimersInv DEF Loop
<1>2. ASSUME NEW s \in Ids,
             \/ RunStop(s) \/ SetPathDown(s) \/ SetAdminDown(s)
             \/ \E item \in Inputs : RecvPacket(s, item)
      PROVE  SessionInv'
  BY <1>2, RunInv, OfferInv, SetAdminDownInv
<1>3. CASE Dispatch
  BY <1>3, DispatchInv
<1>4. CASE Tick
  BY <1>4, TickInv
<1>5. CASE UNCHANGED vars
  BY <1>5 DEF vars, SessionInv, TypeOK, SessionOK, SentDecodable
<1> QED
  BY <1>1, <1>2, <1>3, <1>4, <1>5 DEF Next

(* SessionInv holds in every state the program reaches.                    *)
THEOREM SessionInvariant ==
  Spec => []SessionInv
<1> QED
  BY InitInv, NextInv, PTL DEF Spec

(* Every field of every session keeps to its Go type, and no channel       *)
(* exceeds its capacity, for any number of sessions and any capacities.    *)
THEOREM TypeCorrect ==
  Spec => []TypeOK
<1>1. SessionInv => TypeOK
  BY DEF SessionInv
<1> QED
  BY <1>1, SessionInvariant, PTL

(* A session in Init or Up always knows its peer's discriminator, although *)
(* NotifyDown clears it in the middle of a handler.                        *)
THEOREM PeerAlwaysKnown ==
  Spec => []PeerKnown
<1>1. SessionInv => PeerKnown
  BY DEF SessionInv, SessionOK, Safe, PeerKnown
<1> QED
  BY <1>1, SessionInvariant, PTL

(* No handler ever transmits a packet that the peer's decoder refuses.     *)
THEOREM AlwaysDecodable ==
  Spec => []SentDecodable
<1>1. SessionInv => SentDecodable
  BY DEF SessionInv
<1> QED
  BY <1>1, SessionInvariant, PTL

(* A reader of State() is misled in one way only: it sees AdminDown early. *)
THEOREM MirrorLagsOnlyToAdminDown ==
  Spec => []MirrorLag
<1>1. SessionInv => MirrorLag
  BY DEF SessionInv, SessionOK, Safe, MirrorLag
<1> QED
  BY <1>1, SessionInvariant, PTL

(* Init and Up always agree with the peer's last packet.                   *)
THEOREM HandshakeAlwaysAgrees ==
  Spec => []HandshakeAgrees
<1>1. SessionInv => HandshakeAgrees
  BY DEF SessionInv, SessionOK, Agrees, HandshakeAgrees
<1> QED
  BY <1>1, SessionInvariant, PTL

(* Every step leaves a looping session that is in AdminDown there.         *)
LEMMA AdminDownKept ==
  ASSUME SessionInv, [Next]_vars, NEW s \in Ids,
         phase[s] = "looping", sess[s].cachedState = "AdminDown"
  PROVE  sess'[s].cachedState = "AdminDown"
<1>0. /\ sess \in [Ids -> Sessions] /\ Config[s] \in Configs
      /\ Safe(Config[s], sess[s], Nat) /\ Agrees(sess[s]) /\ 0 \in Nat
  BY DrawTypes DEF SessionInv, SessionOK, TypeOK
<1>1. CASE sess'[s] = sess[s]
  BY <1>1
<1>2. ASSUME NEW r, Handled(s, r), r.cachedState = "AdminDown", r \in Sessions
      PROVE  sess'[s].cachedState = "AdminDown"
  <2>1. begin(r).cachedState = "AdminDown"
    BY <1>2 DEF begin, Sessions
  <2> QED
    BY <1>0, <1>2, <2>1 DEF Handled
<1>3. CASE LoopRecv(s)
  <2> DEFINE item == Head(recvCh[s])
  <2>1. PICK j \in Jitters :
          Handled(s, handleRecvPacket(Config[s], sess[s], item.pkt, item.authentic, j))
    BY <1>3 DEF LoopRecv
  <2>2. recvCh[s] \in Seq(RecvItems) /\ recvCh[s] # <<>>
    BY <1>3 DEF SessionInv, TypeOK, LoopRecv
  <2>3. item \in RecvItems
    BY <2>2, TailType
  <2> HIDE DEF item
  <2>4. item.pkt \in Packets /\ item.authentic \in BOOLEAN
    BY <2>3 DEF RecvItems
  <2>5. item.pkt.myDiscr \in Nat /\ j \in 0..25
    BY <2>4, DrawTypes DEF Packets, PacketFields
  <2> DEFINE r == handleRecvPacket(Config[s], sess[s], item.pkt, item.authentic, j)
  <2>6. /\ Safe(Config[s], r, Nat)
        /\ IF item.authentic THEN Received(sess[s], item.pkt, r) ELSE Same(sess[s], r)
    BY <1>0, <2>4, <2>5, RecvSafe
  <2> HIDE DEF r
  <2>7. r.cachedState = "AdminDown" /\ r \in Sessions
    BY <2>6 DEF Received, Same, Safe
  <2> QED
    BY <1>2, <2>1, <2>7 DEF r
<1>4. CASE LoopControl(s) \/ LoopTx(s) \/ LoopDetect(s)
  <2>1. PICK j \in Jitters :
          \/ Handled(s, handlePathDown(Config[s], sess[s], j))
          \/ Handled(s, handleAdminDown(Config[s], sess[s], j))
          \/ Handled(s, handleTxTimer(Config[s], sess[s], j))
          \/ Handled(s, handleDetectTimer(Config[s], sess[s], j))
    BY <1>4 DEF LoopControl, LoopTx, LoopDetect
  <2>2. j \in 0..25
    BY DrawTypes
  <2> DEFINE pathDown == handlePathDown(Config[s], sess[s], j)
  <2> DEFINE adminDown == handleAdminDown(Config[s], sess[s], j)
  <2> DEFINE tx == handleTxTimer(Config[s], sess[s], j)
  <2> DEFINE detect == handleDetectTimer(Config[s], sess[s], j)
  <2>3. Safe(Config[s], pathDown, Nat) /\ Steps(sess[s], pathDown)
    BY <1>0, <2>2, PathDownSafe
  <2>4. Safe(Config[s], adminDown, Nat) /\ Steps(sess[s], adminDown)
    BY <1>0, <2>2, AdminDownSafe
  <2>5. Safe(Config[s], tx, Nat) /\ Steps(sess[s], tx)
    BY <1>0, <2>2, TxTimerSafe
  <2>6. Safe(Config[s], detect, Nat) /\ Steps(sess[s], detect)
    BY <1>0, <2>2, DetectTimerSafe
  <2>7. Handled(s, pathDown) \/ Handled(s, adminDown) \/ Handled(s, tx) \/ Handled(s, detect)
    BY <2>1
  <2> HIDE DEF pathDown, adminDown, tx, detect
  <2> QED
    BY <1>2, <2>3, <2>4, <2>5, <2>6, <2>7 DEF Safe, Steps
<1>5. CASE SetAdminDown(s)
  <2>1. \/ sess' = sess
        \/ sess' = [sess EXCEPT ![s].localDiag = "AdminDown"]
        \/ sess' = [sess EXCEPT ![s].state = "AdminDown"]
    BY <1>5 DEF SetAdminDown, SetAdminDownLoad, SetAdminDownOffer,
                SetAdminDownStoreDiag, SetAdminDownStoreState
  <2>2. sess[s] \in Sessions
    BY <1>0
  <2>3. /\ [sess[s] EXCEPT !.localDiag = "AdminDown"].cachedState = "AdminDown"
        /\ [sess[s] EXCEPT !.state = "AdminDown"].cachedState = "AdminDown"
    BY <2>2 DEF Sessions
  <2> QED
    BY <1>0, <2>1, <2>3
<1>6. CASE Tick
  <2>1. Steps(sess[s], passTime(sess[s])) /\ sess'[s] = passTime(sess[s])
    BY <1>0, <1>6, PassTimeSafe DEF Tick
  <2> QED
    BY <2>1 DEF Steps
<1>7. ASSUME NEW t \in Ids, t # s, Loop(t) \/ SetAdminDown(t)
      PROVE  sess'[s] = sess[s]
  BY <1>0, <1>7 DEF Loop, RunStart, RunEnterLoop, LoopRecv, LoopControl, LoopTx, LoopDetect,
       Handled, SetAdminDown, SetAdminDownLoad, SetAdminDownOffer,
       SetAdminDownStoreDiag, SetAdminDownStoreState
<1>8. ASSUME NEW t \in Ids,
             \/ RunStart(t) \/ RunStop(t) \/ SetPathDown(t)
             \/ \E item \in Inputs : RecvPacket(t, item)
      PROVE  sess' = sess
  BY <1>8 DEF RunStart, RunStop, SetPathDown, RecvPacket
<1>9. ~RunEnterLoop(s)
  BY DEF RunEnterLoop
<1>10. CASE Dispatch \/ UNCHANGED vars
  BY <1>10 DEF Dispatch, vars
<1> QED
  BY <1>1, <1>3, <1>4, <1>5, <1>6, <1>7, <1>8, <1>9, <1>10 DEF Next, Loop

(* No packet, timer or command brings a looping session back from          *)
(* AdminDown, and State() keeps saying AdminDown.                          *)
THEOREM AdminDownIsFinal ==
  Spec => AdminDownStays
<1>1. SessionInv /\ SessionInv' /\ [Next]_vars =>
        [\A s \in Ids :
           phase[s] = "looping" /\ sess[s].cachedState = "AdminDown" =>
             sess'[s].cachedState = "AdminDown" /\ sess'[s].state = "AdminDown"]_vars
  <2> SUFFICES ASSUME SessionInv, SessionInv', [Next]_vars, NEW s \in Ids,
                      phase[s] = "looping", sess[s].cachedState = "AdminDown"
               PROVE  sess'[s].cachedState = "AdminDown" /\ sess'[s].state = "AdminDown"
    OBVIOUS
  <2>1. sess'[s].cachedState = "AdminDown"
    BY AdminDownKept
  <2>2. sess'[s].state # sess'[s].cachedState => sess'[s].state = "AdminDown"
    BY DEF SessionInv, SessionOK, Safe
  <2> QED
    BY <2>1, <2>2
<1> QED
  BY <1>1, SessionInvariant, PTL DEF Spec, AdminDownStays

-----------------------------------------------------------------------------
(* What a session tells its peer and its consumers                         *)

(* The state change i of notifyCh is of session s.                         *)
Mine(s, i) == notifyCh[i].discr = Config[s].localDiscr

(* Consumers that saw state have seen the state of s, see ConsumersTrack.  *)
Reflects(s, state) == \/ state = sess[s].cachedState
                      \/ state = "Down" /\ sess[s].cachedState = "AdminDown"

(* The last state change of s in notifyCh, or what was seen before.        *)
Tracked(s) ==
  \/ (\A i \in DOMAIN notifyCh : ~Mine(s, i)) /\ Reflects(s, view[s])
  \/ \E i \in DOMAIN notifyCh : /\ Mine(s, i)
                                /\ \A k \in DOMAIN notifyCh : Mine(s, k) => k <= i
                                /\ Reflects(s, notifyCh[i].newState)

Early(s) == phase[s] \in {"created", "starting"}

(* Between handlers no Final is owed; before its loop a session is Down.   *)
RestInv == \A s \in Ids : /\ ~sess[s].pendingFinal
                          /\ Early(s) => sess[s].cachedState = "Down"

TrackInv == ~dropped => \A s \in Ids : Tracked(s)

(* One handler of session s, which took a Poll or not; ...                 *)
LoopStep(s, poll, r) ==
  /\ phase[s] = "looping" /\ Handled(s, r) /\ Tells(Config[s], poll, sess[s], r)
  /\ ~r.pendingFinal /\ UNCHANGED <<phase, view>>
  /\ \/ UNCHANGED recvCh /\ ~poll
     \/ /\ recvCh[s] # <<>> /\ recvCh' = [recvCh EXCEPT ![s] = Tail(@)]
        /\ poll = (Head(recvCh[s]).authentic /\ Head(recvCh[s]).pkt.poll)

(* ... and a step that neither transmits nor notifies.                     *)
QuietStep ==
  /\ sent' = <<>> /\ UNCHANGED <<notifyCh, view, dropped>>
  /\ \A s \in Ids : /\ sess'[s].cachedState = sess[s].cachedState
                    /\ sess'[s].pendingFinal = sess[s].pendingFinal
                    /\ sess'[s].txTimer <= sess[s].txTimer
                    /\ Early(s)' => Early(s)
                    /\ Len(recvCh'[s]) >= Len(recvCh[s])

(* The session, its configuration and the item it takes have their types.  *)
LEMMA LoopTypes ==
  ASSUME SessionInv, RestInv, NEW s \in Ids
  PROVE  /\ Config[s] \in Configs /\ sess[s] \in Sessions /\ ~sess[s].pendingFinal
         /\ \A j \in Jitters : j \in 0..25
BY DrawTypes DEF SessionInv, TypeOK, RestInv

(* The select loop's receive case.                                         *)
LEMMA RecvLoops ==
  ASSUME SessionInv, RestInv, NEW s \in Ids, LoopRecv(s)
  PROVE  \E poll \in BOOLEAN : \E r : LoopStep(s, poll, r)
<1>1. PICK item : item = Head(recvCh[s]) OBVIOUS
<1>2. recvCh[s] \in Seq(RecvItems) /\ recvCh[s] # <<>>
  BY DEF SessionInv, TypeOK, LoopRecv
<1>3. item \in RecvItems BY <1>1, <1>2, TailType
<1>4. item.pkt \in Packets /\ item.authentic \in BOOLEAN BY <1>3 DEF RecvItems
<1>5. item.pkt.poll \in BOOLEAN BY <1>4 DEF Packets, PacketFields
<1>6. PICK j \in Jitters :
        Handled(s, handleRecvPacket(Config[s], sess[s], item.pkt, item.authentic, j))
  BY <1>1 DEF LoopRecv
<1>7. PICK r : r = handleRecvPacket(Config[s], sess[s], item.pkt, item.authentic, j) OBVIOUS
<1>8. Tells(Config[s], item.authentic /\ item.pkt.poll, sess[s], r) /\ ~r.pendingFinal
  BY <1>4, <1>7, LoopTypes, RecvTells
<1>9. LoopStep(s, item.authentic /\ item.pkt.poll, r)
  BY <1>1, <1>2, <1>6, <1>7, <1>8 DEF LoopStep, LoopRecv
<1> QED BY <1>4, <1>5, <1>9

(* Its other cases.                                                        *)
LEMMA OthersLoop ==
  ASSUME SessionInv, RestInv, NEW s \in Ids, LoopControl(s) \/ LoopTx(s) \/ LoopDetect(s)
  PROVE  \E r : LoopStep(s, FALSE, r)
<1>1. /\ phase[s] = "looping" /\ UNCHANGED <<phase, view>> /\ UNCHANGED recvCh
  BY DEF LoopControl, ControlReady, LoopTx, LoopDetect
<1>2. ASSUME NEW r, Handled(s, r), Tells(Config[s], FALSE, sess[s], r)
      PROVE  LoopStep(s, FALSE, r)
  BY <1>1, <1>2, NothingOwed DEF LoopStep
<1>3. CASE LoopControl(s)
  <2>1. PICK j \in Jitters :
          \/ Handled(s, handlePathDown(Config[s], sess[s], j))
          \/ Handled(s, handleAdminDown(Config[s], sess[s], j))
    BY <1>3 DEF LoopControl
  <2>2. /\ Tells(Config[s], FALSE, sess[s], handleAdminDown(Config[s], sess[s], j))
        /\ Tells(Config[s], FALSE, sess[s], handlePathDown(Config[s], sess[s], j))
    BY LoopTypes, CommandTells
  <2> QED BY <1>2, <2>1, <2>2
<1>4. CASE LoopTx(s)
  <2>1. PICK j \in Jitters : Handled(s, handleTxTimer(Config[s], sess[s], j))
    BY <1>4 DEF LoopTx
  <2>2. Tells(Config[s], FALSE, sess[s], handleTxTimer(Config[s], sess[s], j))
    BY <1>4, LoopTypes, TimerTells DEF LoopTx
  <2> QED BY <1>2, <2>1, <2>2
<1>5. CASE LoopDetect(s)
  <2>1. PICK j \in Jitters : Handled(s, handleDetectTimer(Config[s], sess[s], j))
    BY <1>5 DEF LoopDetect
  <2>2. Tells(Config[s], FALSE, sess[s], handleDetectTimer(Config[s], sess[s], j))
    BY LoopTypes, TimerTells
  <2> QED BY <1>2, <2>1, <2>2
<1> QED BY <1>3, <1>4, <1>5

(* The goroutines around the loop.                                         *)
LEMMA CallersQuiet ==
  ASSUME SessionInv, NEW s \in Ids,
         \/ RunStart(s) \/ RunStop(s) \/ SetPathDown(s) \/ SetAdminDown(s)
         \/ \E item \in Inputs : RecvPacket(s, item)
  PROVE  QuietStep
<1>1. /\ sent' = <<>> /\ UNCHANGED <<notifyCh, view, dropped>>
  BY DEF RunStart, RunStop, SetPathDown, RecvPacket, SetAdminDown, SetAdminDownLoad,
         SetAdminDownOffer, SetAdminDownStoreDiag, SetAdminDownStoreState
<1>2. ASSUME NEW t \in Ids
      PROVE  /\ sess'[t].cachedState = sess[t].cachedState
             /\ sess'[t].pendingFinal = sess[t].pendingFinal
             /\ sess'[t].txTimer <= sess[t].txTimer
  <2>0. sess \in [Ids -> Sessions] /\ sess[t] \in Sessions BY DEF SessionInv, TypeOK
  <2>1. sess[t].txTimer \in Int BY <2>0 DEF Sessions
  <2>2. \/ sess' = sess
        \/ sess' = [sess EXCEPT ![s].localDiag = "AdminDown"]
        \/ sess' = [sess EXCEPT ![s].state = "AdminDown"]
    BY DEF RunStart, RunStop, SetPathDown, RecvPacket, SetAdminDown, SetAdminDownLoad,
           SetAdminDownOffer, SetAdminDownStoreDiag, SetAdminDownStoreState
  <2>3. CASE sess'[t] = sess[t] BY <2>1, <2>3
  <2>4. \/ sess'[t] = sess[t]
        \/ sess'[t] = [sess[t] EXCEPT !.localDiag = "AdminDown"]
        \/ sess'[t] = [sess[t] EXCEPT !.state = "AdminDown"]
    BY <2>0, <2>2
  <2>5. /\ [sess[t] EXCEPT !.localDiag = "AdminDown"].cachedState = sess[t].cachedState
        /\ [sess[t] EXCEPT !.localDiag = "AdminDown"].pendingFinal = sess[t].pendingFinal
        /\ [sess[t] EXCEPT !.localDiag = "AdminDown"].txTimer = sess[t].txTimer
        /\ [sess[t] EXCEPT !.state = "AdminDown"].cachedState = sess[t].cachedState
        /\ [sess[t] EXCEPT !.state = "AdminDown"].pendingFinal = sess[t].pendingFinal
        /\ [sess[t] EXCEPT !.state = "AdminDown"].txTimer = sess[t].txTimer
    BY <2>0 DEF Sessions
  <2>6. sess[t].txTimer <= sess[t].txTimer BY <2>1
  <2> QED BY <2>3, <2>4, <2>5, <2>6
<1>3. ASSUME NEW t \in Ids PROVE Early(t)' => Early(t)
  <2>1. \/ phase' = phase
        \/ phase[s] = "created" /\ phase' = [phase EXCEPT ![s] = "starting"]
        \/ phase' = [phase EXCEPT ![s] = "stopped"]
    BY DEF RunStart, RunStop, SetPathDown, RecvPacket, SetAdminDown, SetAdminDownLoad,
           SetAdminDownOffer, SetAdminDownStoreDiag, SetAdminDownStoreState
  <2> QED BY <2>1 DEF Early, SessionInv, TypeOK
<1>4. ASSUME NEW t \in Ids PROVE Len(recvCh'[t]) >= Len(recvCh[t])
  <2>1. recvCh \in [Ids -> Seq(RecvItems)] BY DEF SessionInv, TypeOK
  <2>2. Len(recvCh[t]) \in Nat BY <2>1, LenProperties
  <2>3. \/ recvCh' = recvCh
        \/ \E item \in Inputs : recvCh' = [recvCh EXCEPT ![s] = Append(@, item)]
    BY DEF RunStart, RunStop, SetPathDown, RecvPacket, SetAdminDown, SetAdminDownLoad,
           SetAdminDownOffer, SetAdminDownStoreDiag, SetAdminDownStoreState
  <2>4. ASSUME NEW item \in Inputs PROVE Len(Append(recvCh[t], item)) = Len(recvCh[t]) + 1
    <3>1. item \in RecvItems /\ recvCh[t] \in Seq(RecvItems) BY <2>1, InputAssumption
    <3> QED BY <3>1, AppendProperties
  <2>5. \/ recvCh'[t] = recvCh[t]
        \/ \E item \in Inputs : recvCh'[t] = Append(recvCh[t], item)
    BY <2>1, <2>3, Zenon
  <2>6. Len(recvCh[t]) + 1 >= Len(recvCh[t]) /\ Len(recvCh[t]) >= Len(recvCh[t]) BY <2>2
  <2> QED BY <2>4, <2>5, <2>6, Zenon
<1> QED BY <1>1, <1>2, <1>3, <1>4 DEF QuietStep

(* A tick of the clock.                                                    *)
LEMMA TickQuiet ==
  ASSUME SessionInv, Tick
  PROVE  QuietStep
<1>1. ASSUME NEW s \in Ids
      PROVE  /\ sess'[s].cachedState = sess[s].cachedState
             /\ sess'[s].pendingFinal = sess[s].pendingFinal
             /\ sess'[s].txTimer <= sess[s].txTimer
  <2>1. sess[s] \in Sessions /\ sess'[s] = passTime(sess[s]) BY DEF SessionInv, TypeOK, Tick
  <2>2. sess[s].txTimer \in Int BY <2>1 DEF Sessions
  <2>3. elapse(sess[s].txTimer) <= sess[s].txTimer BY <2>2 DEF elapse
  <2>4. /\ passTime(sess[s]).cachedState = sess[s].cachedState
        /\ passTime(sess[s]).pendingFinal = sess[s].pendingFinal
        /\ passTime(sess[s]).txTimer = elapse(sess[s].txTimer)
    BY <2>1 DEF passTime, Sessions
  <2> QED BY <2>1, <2>3, <2>4
<1>2. /\ sent' = <<>> /\ UNCHANGED <<notifyCh, view, dropped>> /\ phase' = phase /\ recvCh' = recvCh
  BY DEF Tick
<1>3. ASSUME NEW s \in Ids PROVE Len(recvCh'[s]) >= Len(recvCh[s])
  <2>1. recvCh[s] \in Seq(RecvItems) BY DEF SessionInv, TypeOK
  <2>2. Len(recvCh[s]) \in Nat BY <2>1, LenProperties
  <2> QED BY <1>2, <2>2
<1> QED BY <1>1, <1>2, <1>3 DEF QuietStep, Early

(* A step is one of these.                                                 *)
LEMMA StepKinds ==
  ASSUME SessionInv, RestInv, Next
  PROVE  \/ \E s \in Ids : \E poll \in BOOLEAN : \E r : LoopStep(s, poll, r)
         \/ \E s \in Ids : RunEnterLoop(s)
         \/ Dispatch
         \/ QuietStep
BY RecvLoops, OthersLoop, CallersQuiet, TickQuiet DEF Next, Loop

(* Between handlers no Final is owed.                                      *)
LEMMA RestStep ==
  ASSUME SessionInv, RestInv, [Next]_vars
  PROVE  RestInv'
<1>0. sess \in [Ids -> Sessions] /\ phase \in [Ids -> {"created", "starting", "looping", "stopped"}]
  BY DEF SessionInv, TypeOK
<1>1. ASSUME NEW s \in Ids, NEW poll \in BOOLEAN, NEW r, LoopStep(s, poll, r) PROVE RestInv'
  <2>1. r \in Sessions /\ ~r.pendingFinal /\ phase' = phase /\ phase[s] = "looping"
        /\ sess' = [sess EXCEPT ![s] = begin(r)]
    BY <1>1 DEF LoopStep, Tells, Handled
  <2>2. ~begin(r).pendingFinal BY <2>1, BeginBegun DEF Begun
  <2> QED BY <1>0, <2>1, <2>2 DEF RestInv, Early
<1>2. ASSUME NEW s \in Ids, RunEnterLoop(s) PROVE RestInv'
  <2>1. PICK j \in Jitters : sess' = [sess EXCEPT ![s] = startLoop(Config[s], @, j)]
    BY <1>2 DEF RunEnterLoop
  <2>2. phase' = [phase EXCEPT ![s] = "looping"] BY <1>2 DEF RunEnterLoop
  <2>3. startLoop(Config[s], sess[s], j).pendingFinal = sess[s].pendingFinal
    BY LoopTypes, StartLoopKeeps
  <2> QED BY <1>0, <2>1, <2>2, <2>3 DEF RestInv, Early
<1>3. Dispatch => RestInv' BY DEF Dispatch, RestInv, Early
<1>4. QuietStep => RestInv' BY DEF QuietStep, RestInv
<1>5. UNCHANGED vars => RestInv' BY DEF vars, RestInv, Early
<1> QED BY <1>1, <1>2, <1>3, <1>4, <1>5, StepKinds

(* A handler's notification, if it fits, is the last one of its session.   *)
LEMMA LoopTracks ==
  ASSUME SessionInv, TrackInv, NEW s \in Ids, NEW poll \in BOOLEAN, NEW r, LoopStep(s, poll, r)
  PROVE  TrackInv'
<1> SUFFICES ASSUME ~dropped', NEW t \in Ids PROVE Tracked(t)' BY DEF TrackInv
<1>1. /\ r \in Sessions /\ Notes(Config[s], sess[s], r) /\ UNCHANGED view
      /\ sess' = [sess EXCEPT ![s] = begin(r)]
  BY DEF LoopStep, Tells, Handled
<1>2. /\ ~dropped /\ notifyCh' = notifyCh \o r.notes
  BY DEF LoopStep, Handled
<1>3. Tracked(t) BY <1>2 DEF TrackInv
<1>4. notifyCh \in Seq(StateChanges) /\ sess \in [Ids -> Sessions] BY DEF SessionInv, TypeOK
<1>5. begin(r).cachedState = r.cachedState BY <1>1 DEF begin, Sessions
<1>6. /\ sess'[s].cachedState = r.cachedState
      /\ t # s => sess'[t].cachedState = sess[t].cachedState
  BY <1>1, <1>4, <1>5
<1>7. CASE r.notes = <<>> /\ r.cachedState = sess[s].cachedState
  <2>1. notifyCh' = notifyCh BY <1>2, <1>4, <1>7
  <2>2. sess'[t].cachedState = sess[t].cachedState BY <1>6, <1>7
  <2> QED BY <1>1, <1>3, <2>1, <2>2, Zenon DEF Tracked, Mine, Reflects
<1>8. ASSUME NEW n \in StateChanges, r.notes = <<n>>, n.discr = Config[s].localDiscr,
             n.newState = r.cachedState
      PROVE  Tracked(t)'
  <2>1. notifyCh' = Append(notifyCh, n) BY <1>2, <1>4, <1>8
  <2>2. PICK m : m = Len(notifyCh) + 1 OBVIOUS
  <2>3. /\ m \in DOMAIN notifyCh' /\ notifyCh'[m] = n
        /\ \A i \in DOMAIN notifyCh : i \in DOMAIN notifyCh' /\ notifyCh'[i] = notifyCh[i]
        /\ \A i \in DOMAIN notifyCh' : i <= m /\ (i # m => i \in DOMAIN notifyCh)
    BY <1>4, <1>8, <2>1, <2>2
  <2>4. CASE t = s
    <3>1. Mine(t, m)' BY <1>8, <2>3, <2>4 DEF Mine
    <3>2. Reflects(t, notifyCh[m].newState)' BY <1>6, <1>8, <2>3, <2>4 DEF Reflects
    <3> QED BY <2>3, <3>1, <3>2, Zenon DEF Tracked
  <2>5. CASE t # s
    <3>1. ~Mine(t, m)' BY <1>8, <2>3, <2>5, DistinctAssumption DEF Mine
    <3>2. \A i \in DOMAIN notifyCh : Mine(t, i)' <=> Mine(t, i) BY <2>3, Zenon DEF Mine
    <3>3. \A state : Reflects(t, state)' <=> Reflects(t, state) BY <1>6, <2>5, Zenon DEF Reflects
    <3>4. CASE (\A i \in DOMAIN notifyCh : ~Mine(t, i)) /\ Reflects(t, view[t])
      <4>1. \A i \in DOMAIN notifyCh' : ~Mine(t, i)' BY <2>3, <3>1, <3>2, <3>4, Zenon
      <4>2. Reflects(t, view[t])' BY <1>1, <1>6, <2>5, <3>4, Zenon DEF Reflects
      <4> QED BY <4>1, <4>2, Zenon DEF Tracked
    <3>5. ASSUME NEW i \in DOMAIN notifyCh, Mine(t, i), Reflects(t, notifyCh[i].newState),
                 \A k \in DOMAIN notifyCh : Mine(t, k) => k <= i
          PROVE  Tracked(t)'
      <4>1. i \in DOMAIN notifyCh' /\ Mine(t, i)' BY <2>3, <3>2, <3>5, Zenon
      <4>2. \A k \in DOMAIN notifyCh' : Mine(t, k)' => k <= i
        BY <2>3, <3>1, <3>2, <3>5, Zenon
      <4>3. Reflects(t, notifyCh[i].newState)'
        BY <1>6, <2>3, <2>5, <3>5, Zenon DEF Reflects
      <4> QED BY <4>1, <4>2, <4>3, Zenon DEF Tracked
    <3> QED BY <1>3, <3>4, <3>5, Zenon DEF Tracked
  <2> QED BY <2>4, <2>5
<1> QED BY <1>1, <1>7, <1>8 DEF Notes

(* RunDispatch hands the first state change over.                          *)
LEMMA DispatchTracks ==
  ASSUME SessionInv, TrackInv, Dispatch
  PROVE  TrackInv'
<1> SUFFICES ASSUME ~dropped', NEW t \in Ids PROVE Tracked(t)' BY DEF TrackInv
<1>1. Tracked(t) BY DEF TrackInv, Dispatch
<1>2. /\ notifyCh # <<>> /\ notifyCh' = Tail(notifyCh) /\ UNCHANGED sess
      /\ view'[t] = IF Config[t].localDiscr = Head(notifyCh).discr
                    THEN Head(notifyCh).newState ELSE view[t]
  BY DEF Dispatch
<1>3. notifyCh \in Seq(StateChanges) BY DEF SessionInv, TypeOK
<1>4. /\ Head(notifyCh) = notifyCh[1] /\ 1 \in DOMAIN notifyCh
      /\ \A i \in DOMAIN notifyCh' : i + 1 \in DOMAIN notifyCh /\ notifyCh'[i] = notifyCh[i + 1]
      /\ \A i \in DOMAIN notifyCh : i # 1 => i - 1 \in DOMAIN notifyCh' /\ (i - 1) + 1 = i
      /\ \A i \in DOMAIN notifyCh : i \in Nat /\ i >= 1
      /\ \A i \in DOMAIN notifyCh' : i \in Nat /\ i >= 1
  BY <1>2, <1>3
<1>5. \A i \in DOMAIN notifyCh' : Mine(t, i)' <=> Mine(t, i + 1) BY <1>4, Zenon DEF Mine
<1>6. \A state : Reflects(t, state)' <=> Reflects(t, state) BY <1>2, Zenon DEF Reflects
<1>7. CASE (\A i \in DOMAIN notifyCh : ~Mine(t, i)) /\ Reflects(t, view[t])
  <2>1. \A i \in DOMAIN notifyCh' : ~Mine(t, i)' BY <1>4, <1>5, <1>7, Zenon
  <2>2. view'[t] = view[t] BY <1>2, <1>4, <1>7 DEF Mine
  <2>3. Reflects(t, view[t])' BY <1>2, <1>7, <2>2, Zenon DEF Reflects
  <2> QED BY <2>1, <2>3, Zenon DEF Tracked
<1>8. ASSUME NEW i \in DOMAIN notifyCh, Mine(t, i), Reflects(t, notifyCh[i].newState),
             \A k \in DOMAIN notifyCh : Mine(t, k) => k <= i
      PROVE  Tracked(t)'
  <2>1. CASE i = 1
    <3>1. view'[t] = notifyCh[1].newState BY <1>2, <1>4, <1>8, <2>1 DEF Mine
    <3>2. Reflects(t, view[t])' BY <1>2, <1>8, <2>1, <3>1, Zenon DEF Reflects
    <3>3. \A k \in DOMAIN notifyCh' : ~Mine(t, k)'
      <4> SUFFICES ASSUME NEW k \in DOMAIN notifyCh', Mine(t, k)' PROVE FALSE
        OBVIOUS
      <4>1. k + 1 \in DOMAIN notifyCh /\ Mine(t, k + 1) BY <1>4, <1>5
      <4>2. k + 1 <= 1 BY <1>8, <2>1, <4>1
      <4>3. k \in Nat /\ k >= 1 BY <1>4
      <4> QED BY <4>2, <4>3
    <3> QED BY <3>2, <3>3, Zenon DEF Tracked
  <2>2. CASE i # 1
    <3>1. PICK m : m = i - 1 OBVIOUS
    <3>2. m \in DOMAIN notifyCh' /\ m + 1 = i BY <1>4, <2>2, <3>1
    <3>3. Mine(t, m)' /\ notifyCh'[m] = notifyCh[i] BY <1>4, <1>5, <1>8, <3>2
    <3>4. ASSUME NEW k \in DOMAIN notifyCh', Mine(t, k)' PROVE k <= m
      <4>1. k + 1 \in DOMAIN notifyCh /\ Mine(t, k + 1) BY <1>4, <1>5, <3>4
      <4>2. k + 1 <= m + 1 BY <1>8, <3>2, <4>1
      <4>3. k \in Nat /\ m \in Nat BY <1>4, <3>2
      <4> QED BY <4>2, <4>3
    <3>5. Reflects(t, notifyCh[m].newState)' BY <1>2, <1>8, <3>3, Zenon DEF Reflects
    <3> QED BY <3>2, <3>3, <3>4, <3>5, Zenon DEF Tracked
  <2> QED BY <2>1, <2>2
<1> QED BY <1>1, <1>7, <1>8, Zenon DEF Tracked

(* A session enters its loop in Down, or AdminDown if it was drained.      *)
LEMMA EnterLoopTracks ==
  ASSUME SessionInv, RestInv, TrackInv, NEW s \in Ids, RunEnterLoop(s)
  PROVE  TrackInv'
<1> SUFFICES ASSUME ~dropped', NEW t \in Ids PROVE Tracked(t)' BY DEF TrackInv
<1>1. ~dropped /\ UNCHANGED <<notifyCh, view>> BY DEF RunEnterLoop
<1>2. Tracked(t) BY <1>1 DEF TrackInv
<1>3. PICK j \in Jitters : sess' = [sess EXCEPT ![s] = startLoop(Config[s], @, j)]
  BY DEF RunEnterLoop
<1>4. startLoop(Config[s], sess[s], j).cachedState = sess[s].state BY LoopTypes, StartLoopKeeps
<1>5. sess \in [Ids -> Sessions] BY DEF SessionInv, TypeOK
<1>6. sess[s].cachedState = "Down" /\ (sess[s].state # "Down" => sess[s].state = "AdminDown")
  BY DEF RestInv, Early, RunEnterLoop, SessionInv, SessionOK, Safe
<1>7. /\ t # s => sess'[t].cachedState = sess[t].cachedState
      /\ t = s => sess'[t].cachedState \in {sess[t].cachedState, "AdminDown"}
                  /\ sess[t].cachedState = "Down"
  BY <1>3, <1>4, <1>5, <1>6
<1>8. ASSUME NEW state, Reflects(t, state)
      PROVE  \/ state = sess'[t].cachedState
             \/ state = "Down" /\ sess'[t].cachedState = "AdminDown"
  BY <1>7, <1>8 DEF Reflects
<1> QED BY <1>1, <1>2, <1>8, Zenon DEF Tracked, Mine, Reflects

(* Every step keeps the consumers informed.                                *)
LEMMA TrackStep ==
  ASSUME SessionInv, RestInv, TrackInv, [Next]_vars
  PROVE  TrackInv'
<1>1. QuietStep => TrackInv'
  <2> SUFFICES ASSUME QuietStep, ~dropped', NEW t \in Ids PROVE Tracked(t)' BY DEF TrackInv
  <2>1. /\ Tracked(t) /\ UNCHANGED <<notifyCh, view>> /\ sess'[t].cachedState = sess[t].cachedState
    BY DEF QuietStep, TrackInv
  <2> QED BY <2>1, Zenon DEF Tracked, Mine, Reflects
<1>2. UNCHANGED vars => TrackInv'
  <2> SUFFICES ASSUME UNCHANGED vars, ~dropped', NEW t \in Ids PROVE Tracked(t)' BY DEF TrackInv
  <2>1. Tracked(t) /\ UNCHANGED <<notifyCh, view, sess>> BY DEF vars, TrackInv
  <2> QED BY <2>1, Zenon DEF Tracked, Mine, Reflects
<1> QED BY <1>1, <1>2, LoopTracks, EnterLoopTracks, DispatchTracks, StepKinds

(* RestInv and TrackInv hold in every state the program reaches.           *)
LEMMA RestAndTrack ==
  Spec => [](SessionInv /\ RestInv /\ TrackInv)
<1>1. Init => RestInv /\ TrackInv
  <2> SUFFICES ASSUME Init, NEW s \in Ids
               PROVE  /\ ~sess[s].pendingFinal /\ sess[s].cachedState = "Down" /\ Tracked(s)
    BY DEF RestInv, TrackInv
  <2>1. sess[s] = NewSession /\ notifyCh = <<>> /\ view[s] = "Down" BY DEF Init
  <2>2. ~sess[s].pendingFinal /\ sess[s].cachedState = "Down" BY <2>1 DEF NewSession
  <2>3. \A i \in DOMAIN notifyCh : FALSE BY <2>1
  <2> QED BY <2>1, <2>2, <2>3 DEF Tracked, Reflects
<1>2. SessionInv /\ RestInv /\ TrackInv /\ [Next]_vars => RestInv' /\ TrackInv'
  BY RestStep, TrackStep
<1> QED BY <1>1, <1>2, SessionInvariant, PTL DEF Spec

(* As long as notifyCh never overflowed, its consumers end up with the     *)
(* state of every session (ConsumersTrack): each transition of a session   *)
(* is notified, once and with the state it leads to, for any number of     *)
(* sessions that share notifyCh and any capacity.                          *)
THEOREM ConsumersAlwaysTrack ==
  Spec => []ConsumersTrack
<1>1. SessionInv /\ TrackInv => ConsumersTrack
  <2> SUFFICES ASSUME SessionInv, TrackInv, ~dropped, NEW s \in Ids PROVE Reflects(s, Seen(s))
    BY DEF ConsumersTrack, Reflects
  <2>1. notifyCh \in Seq(StateChanges) BY DEF SessionInv, TypeOK
  <2>2. Tracked(s) BY DEF TrackInv
  <2>3. CASE (\A i \in DOMAIN notifyCh : ~Mine(s, i)) /\ Reflects(s, view[s])
    <3>1. {i \in DOMAIN notifyCh : notifyCh[i].discr = Config[s].localDiscr} = {}
      BY <2>3 DEF Mine
    <3>2. Seen(s) = view[s] BY <3>1, Zenon DEF Seen
    <3> QED BY <2>3, <3>2
  <2>4. ASSUME NEW i \in DOMAIN notifyCh, Mine(s, i), Reflects(s, notifyCh[i].newState),
               \A k \in DOMAIN notifyCh : Mine(s, k) => k <= i
        PROVE  Reflects(s, Seen(s))
    <3>1. PICK mine : mine = {k \in DOMAIN notifyCh : notifyCh[k].discr = Config[s].localDiscr}
      OBVIOUS
    <3>2. i \in mine /\ \A k \in mine : k <= i /\ k \in Nat
      BY <2>1, <2>4, <3>1 DEF Mine
    <3>3. PICK last : last = CHOOSE k \in mine : \A l \in mine : l <= k OBVIOUS
    <3>4. last \in mine /\ \A l \in mine : l <= last BY <3>2, <3>3, Zenon
    <3>5. last = i BY <3>2, <3>4
    <3>6. mine # {} BY <3>2
    <3>7. Seen(s) = IF mine = {} THEN view[s]
                    ELSE notifyCh[CHOOSE k \in mine : \A l \in mine : l <= k].newState
      BY <3>1 DEF Seen
    <3>8. Seen(s) = notifyCh[last].newState BY <3>3, <3>6, <3>7
    <3> QED BY <2>4, <3>5, <3>8
  <2> QED BY <2>2, <2>3, <2>4 DEF Tracked
<1> QED BY <1>1, RestAndTrack, PTL

(* A handler answers the Poll it took, and no other step does.             *)
LEMMA StepAnswers ==
  ASSUME SessionInv, RestInv, Next, NEW s \in Ids, Len(recvCh'[s]) < Len(recvCh[s])
  PROVE  Cardinality({i \in DOMAIN sent' : sent'[i].final})
           = IF Head(recvCh[s]).authentic /\ Head(recvCh[s]).pkt.poll THEN 1 ELSE 0
<1>0. recvCh \in [Ids -> Seq(RecvItems)] /\ Len(recvCh[s]) \in Nat
  BY LenProperties DEF SessionInv, TypeOK
<1>1. recvCh' # recvCh BY <1>0
<1>2. ~QuietStep
  <2>1. ASSUME QuietStep PROVE FALSE
    <3>1. Len(recvCh'[s]) >= Len(recvCh[s]) BY <2>1 DEF QuietStep
    <3>2. Len(recvCh'[s]) \in Nat
      <4>1. SessionInv' BY NextInv
      <4> QED BY <4>1, LenProperties DEF SessionInv, TypeOK
    <3> QED BY <1>0, <3>1, <3>2
  <2> QED BY <2>1
<1>3. ~Dispatch /\ \A t \in Ids : ~RunEnterLoop(t) BY <1>1 DEF Dispatch, RunEnterLoop
<1>4. PICK t \in Ids : \E poll \in BOOLEAN : \E r : LoopStep(t, poll, r)
  BY <1>2, <1>3, StepKinds
<1>5. PICK poll \in BOOLEAN : \E r : LoopStep(t, poll, r) BY <1>4
<1>6. PICK r : LoopStep(t, poll, r) BY <1>5
<1>7. /\ recvCh' = [recvCh EXCEPT ![t] = Tail(@)]
      /\ poll = (Head(recvCh[t]).authentic /\ Head(recvCh[t]).pkt.poll)
  BY <1>1, <1>6 DEF LoopStep
<1>8. t = s BY <1>0, <1>7
<1>9. sent' = r.out /\ Answers(poll, r) /\ ~r.pendingFinal
  BY <1>6 DEF LoopStep, Handled, Tells
<1>10. PICK finals : finals = {i \in DOMAIN sent' : sent'[i].final} OBVIOUS
<1>11. CASE poll
  <2>1. PICK k \in DOMAIN r.out : \A i \in DOMAIN r.out : r.out[i].final <=> i = k
    BY <1>9, <1>11 DEF Answers
  <2>2. finals = {k} BY <1>9, <1>10, <2>1
  <2>3. Cardinality(finals) = 1 BY <2>2, FS_Singleton
  <2> QED BY <1>7, <1>8, <1>10, <1>11, <2>3
<1>12. CASE ~poll
  <2>1. \A i \in DOMAIN r.out : ~r.out[i].final BY <1>9, <1>12 DEF Answers
  <2>2. finals = {} BY <1>9, <1>10, <2>1
  <2>3. Cardinality(finals) = 0 BY <2>2, FS_EmptySet
  <2> QED BY <1>7, <1>8, <1>10, <1>12, <2>3
<1> QED BY <1>11, <1>12

(* Every valid Poll is answered by exactly one Final, in the step that     *)
(* takes the packet, whatever the side effects of its transition           *)
(* (PollAnswered).                                                         *)
THEOREM PollsAlwaysAnswered ==
  Spec => PollAnswered
<1>1. SessionInv /\ RestInv /\ [Next]_vars =>
        [\A s \in Ids :
           Len(recvCh'[s]) < Len(recvCh[s]) =>
             LET item == Head(recvCh[s])
                 finals == {i \in DOMAIN sent' : sent'[i].final}
             IN  Cardinality(finals) = IF item.authentic /\ item.pkt.poll THEN 1 ELSE 0]_vars
  BY StepAnswers
<1> QED BY <1>1, RestAndTrack, PTL DEF Spec, PollAnswered

(* No step speeds a session up that is not Up.                             *)
LEMMA StepSlow ==
  ASSUME SessionInv, RestInv, Next, NEW s \in Ids, sess'[s].cachedState # "Up"
  PROVE  /\ sess'[s].txTimer > sess[s].txTimer => 4 * sess'[s].txTimer >= 3 * SlowTx
         /\ \A i \in DOMAIN sent' : sent'[i].myDiscr = Config[s].localDiscr =>
              sent'[i].desiredMinTx >= microsecondsFromDuration(SlowTx)
<1>0. sess \in [Ids -> Sessions] /\ sess[s].txTimer \in Int /\ sess'[s].txTimer \in Int
  <2>1. SessionInv' BY NextInv
  <2>2. sess'[s] \in Sessions /\ sess[s] \in Sessions BY <2>1 DEF SessionInv, TypeOK
  <2> QED BY <2>2 DEF SessionInv, TypeOK, Sessions
<1>1. CASE QuietStep
  <2>1. sess'[s].txTimer <= sess[s].txTimer /\ sent' = <<>> BY <1>1 DEF QuietStep
  <2> QED BY <1>0, <2>1
<1>2. CASE Dispatch
  <2>1. sess' = sess /\ sent' = <<>> BY <1>2 DEF Dispatch
  <2> QED BY <1>0, <2>1
<1>3. ASSUME NEW t \in Ids, RunEnterLoop(t)
      PROVE  /\ sess'[s].txTimer > sess[s].txTimer => 4 * sess'[s].txTimer >= 3 * SlowTx
             /\ sent' = <<>>
  <2>1. PICK j \in Jitters : sess' = [sess EXCEPT ![t] = startLoop(Config[t], @, j)]
    BY <1>3 DEF RunEnterLoop
  <2>2. CASE t = s
    <3>1. sess'[s] = startLoop(Config[s], sess[s], j) BY <1>0, <2>1, <2>2
    <3>2. startLoop(Config[s], sess[s], j).cachedState # "Up" =>
            4 * startLoop(Config[s], sess[s], j).txTimer >= 3 * SlowTx
      BY LoopTypes, StartLoopKeeps
    <3>3. sent' = <<>> BY <1>3 DEF RunEnterLoop
    <3> QED BY <3>1, <3>2, <3>3
  <2>3. CASE t # s
    <3>1. sess'[s] = sess[s] BY <1>0, <2>1, <2>3
    <3> QED BY <1>0, <1>3, <3>1 DEF RunEnterLoop
  <2> QED BY <2>2, <2>3
<1>4. ASSUME NEW t \in Ids, NEW poll \in BOOLEAN, NEW r, LoopStep(t, poll, r)
      PROVE  /\ sess'[s].txTimer > sess[s].txTimer => 4 * sess'[s].txTimer >= 3 * SlowTx
             /\ \A i \in DOMAIN sent' : sent'[i].myDiscr = Config[s].localDiscr =>
                  sent'[i].desiredMinTx >= microsecondsFromDuration(SlowTx)
  <2>1. /\ sess' = [sess EXCEPT ![t] = begin(r)] /\ sent' = r.out /\ r \in Sessions
        /\ Slow(r) /\ Paced(sess[t], r)
        /\ \A i \in DOMAIN sent' : sent'[i].myDiscr = Config[t].localDiscr
    BY <1>4 DEF LoopStep, Handled, Tells
  <2>2. begin(r).txTimer = r.txTimer /\ begin(r).cachedState = r.cachedState
    BY <2>1 DEF begin, Sessions
  <2>3. CASE t = s
    <3>1. sess'[s].txTimer = r.txTimer /\ r.cachedState # "Up" BY <1>0, <2>1, <2>2, <2>3
    <3>2. r.txTimer <= sess[s].txTimer \/ 4 * r.txTimer >= 3 * SlowTx BY <2>1, <2>3, <3>1 DEF Paced
    <3>3. \A i \in DOMAIN sent' : sent'[i].desiredMinTx >= microsecondsFromDuration(SlowTx)
      BY <2>1, <3>1 DEF Slow
    <3> QED BY <1>0, <3>1, <3>2, <3>3
  <2>4. CASE t # s
    <3>1. sess'[s] = sess[s] BY <1>0, <2>1, <2>4
    <3>2. Config[t].localDiscr # Config[s].localDiscr BY <2>4, DistinctAssumption
    <3>3. \A i \in DOMAIN sent' : sent'[i].myDiscr # Config[s].localDiscr BY <2>1, <3>2
    <3> QED BY <1>0, <3>1, <3>3
  <2> QED BY <2>3, <2>4
<1>5. sent' = <<>> => \A i \in DOMAIN sent' : FALSE OBVIOUS
<1> QED BY <1>1, <1>2, <1>3, <1>4, <1>5, StepKinds

(* A session that is not Up never transmits faster than the slow rate less *)
(* its jitter, and advertises the slow rate (SlowUnlessUp): no handler and *)
(* no configuration evades the floor.                                      *)
THEOREM AlwaysSlowUnlessUp ==
  Spec => SlowUnlessUp
<1>1. SessionInv /\ RestInv /\ [Next]_vars =>
        [\A s \in Ids :
           LET r == sess'[s]
           IN  r.cachedState # "Up" =>
                 /\ r.txTimer > sess[s].txTimer => 4 * r.txTimer >= 3 * SlowTx
                 /\ \A i \in DOMAIN sent' : sent'[i].myDiscr = Config[s].localDiscr =>
                      sent'[i].desiredMinTx >= microsecondsFromDuration(SlowTx)]_vars
  BY StepSlow
<1> QED BY <1>1, RestAndTrack, PTL DEF Spec, SlowUnlessUp
=============================================================================
