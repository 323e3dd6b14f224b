--------------------------- MODULE HandlerProofs ----------------------------
(***************************************************************************)
(* What the handlers of a session preserve, for every configuration.       *)
(* SessionProofs and LinkProofs lift these lemmas to their steps.          *)
(***************************************************************************)
EXTENDS SessionHandlers, SequenceTheorems, TLAPS

-----------------------------------------------------------------------------
(* Types                                                                   *)

(* An interval on the wire is a natural number.                            *)
LEMMA MicrosecondsType ==
  ASSUME NEW d \in Nat
  PROVE  microsecondsFromDuration(d) \in Nat
<1> DEFINE q == d \div Microsecond
<1>1. q \in Nat
  BY TimeAssumption
<1>2. q % WireModulus \in Nat
  BY <1>1, TimeAssumption
<1> QED
  BY <1>2 DEF microsecondsFromDuration

(* The numbers of a configuration are natural numbers.                     *)
LEMMA ConfigTypes ==
  ASSUME NEW c \in Configs
  PROVE  /\ c.desiredMinTx \in Nat /\ c.requiredMinRx \in Nat
         /\ c.detectMult \in 1..255 /\ c.localDiscr \in Nat \ {0} /\ c.localDiscr \in Discrs
<1>1. MaxWireInterval \in Int
  BY TimeAssumption DEF MaxWireInterval
<1>2. c.desiredMinTx \in 1..MaxWireInterval /\ c.requiredMinRx \in 1..MaxWireInterval
  BY DEF Configs
<1>3. c.desiredMinTx \in Nat /\ c.requiredMinRx \in Nat
  BY <1>1, <1>2
<1>4. c.detectMult \in 1..255 /\ c.localDiscr \in Discrs
  BY DEF Configs
<1> QED
  BY <1>3, <1>4, DiscrAssumption

(* The negotiated intervals are natural numbers.                           *)
LEMMA IntervalTypes ==
  ASSUME NEW c \in Configs, NEW r \in Sessions
  PROVE  /\ floorTx(c, r) \in Nat
         /\ calcTxInterval(c, r) \in Nat
         /\ calcDetectionTime(c, r) \in Nat
<1>1. c.desiredMinTx \in Nat /\ c.requiredMinRx \in Nat /\ c.detectMult \in Nat
  BY ConfigTypes
<1>0. r.remoteMinRx \in Nat /\ r.remoteDesiredMinTx \in Nat /\ r.remoteDetectMult \in 0..255
  BY DEF Sessions
<1>2. floorTx(c, r) \in Nat
  BY <1>1, TimeAssumption DEF floorTx
<1>3. calcTxInterval(c, r) \in Nat
  BY <1>0, <1>2 DEF calcTxInterval, Larger
<1>4. calcDetectionTime(c, r) \in Nat
  BY <1>0, <1>1, <1>3 DEF calcDetectionTime, Larger
<1> QED
  BY <1>2, <1>3, <1>4

(* Arming a timer changes that timer only.                                 *)
LEMMA ResetTypes ==
  ASSUME NEW c \in Configs, NEW r \in Sessions, NEW j \in 0..25
  PROVE  /\ resetTxTimer(c, r, j) \in Sessions
         /\ resetDetectTimer(c, r) \in Sessions
<1>1. applyJitter(calcTxInterval(c, r), j) \in Int
  BY IntervalTypes DEF applyJitter
<1>2. resetTxTimer(c, r, j) \in Sessions
  BY <1>1 DEF resetTxTimer, Sessions
<1>3. calcDetectionTime(c, r) \in Int
  BY IntervalTypes
<1>4. resetDetectTimer(c, r) \in Sessions
  BY <1>3 DEF resetDetectTimer, Sessions
<1> QED
  BY <1>2, <1>4

(* The packet a session builds is well typed.                              *)
LEMMA BuildType ==
  ASSUME NEW c \in Configs, NEW r \in Sessions
  PROVE  buildControlPacket(c, r) \in PacketFields
<1>1. microsecondsFromDuration(floorTx(c, r)) \in Nat
  BY IntervalTypes, MicrosecondsType
<1>3. microsecondsFromDuration(c.requiredMinRx) \in Nat
  BY ConfigTypes, MicrosecondsType
<1>4. c.detectMult \in 0..255 /\ c.localDiscr \in Nat
  BY ConfigTypes
<1> QED
  BY <1>1, <1>3, <1>4 DEF buildControlPacket, PacketFields, Sessions

(* Transmitting changes what is sent and pendingFinal only.                *)
LEMMA SendType ==
  ASSUME NEW c \in Configs, NEW r \in Sessions
  PROVE  sendControl(c, r) \in Sessions
<1>1. Append(r.out, buildControlPacket(c, r)) \in Seq(PacketFields)
  BY BuildType DEF Sessions
<1> QED
  BY <1>1 DEF sendControl, Sessions

-----------------------------------------------------------------------------
(* The invariant of a session record, also in the middle of a handler.  K  *)
(* is a set of discriminators that the session may have learned, and zero. *)

Same(r, t) == /\ t.cachedState = r.cachedState /\ t.remoteState = r.remoteState
              /\ t.remoteDiscr \in {0, r.remoteDiscr}

SafeOut(c, q, K) == \A i \in DOMAIN q : /\ Decodable(q[i])
                                        /\ q[i].myDiscr = c.localDiscr
                                        /\ q[i].yourDiscr \in K

Safe(c, r, K) ==
  /\ r \in Sessions
  /\ r.remoteDiscr \in K
  /\ r.cachedState \in {"Init", "Up"} => r.remoteDiscr # 0
  /\ r.state # r.cachedState => r.state = "AdminDown"
  /\ SafeOut(c, r.out, K)

(* Arming a timer keeps the invariant.                                     *)
LEMMA ResetSafe ==
  ASSUME NEW c \in Configs, NEW K, NEW r, Safe(c, r, K), NEW j \in 0..25
  PROVE  /\ Safe(c, resetTxTimer(c, r, j), K) /\ Same(r, resetTxTimer(c, r, j))
         /\ Safe(c, resetDetectTimer(c, r), K) /\ Same(r, resetDetectTimer(c, r))
<1>0. r \in Sessions
  BY DEF Safe
<1>1. resetTxTimer(c, r, j) \in Sessions /\ resetDetectTimer(c, r) \in Sessions
  BY <1>0, ResetTypes
<1>2. /\ resetTxTimer(c, r, j).remoteDiscr = r.remoteDiscr
      /\ resetTxTimer(c, r, j).cachedState = r.cachedState
      /\ resetTxTimer(c, r, j).remoteState = r.remoteState
      /\ resetTxTimer(c, r, j).state = r.state
      /\ resetTxTimer(c, r, j).out = r.out
  BY <1>0 DEF resetTxTimer, Sessions
<1>3. /\ resetDetectTimer(c, r).remoteDiscr = r.remoteDiscr
      /\ resetDetectTimer(c, r).cachedState = r.cachedState
      /\ resetDetectTimer(c, r).remoteState = r.remoteState
      /\ resetDetectTimer(c, r).state = r.state
      /\ resetDetectTimer(c, r).out = r.out
  BY <1>0 DEF resetDetectTimer, Sessions
<1> QED
  BY <1>1, <1>2, <1>3 DEF Safe, Same

(* Transmitting keeps the invariant: the packet is one the peer can        *)
(* decode and names only a discriminator the session has learned.          *)
LEMMA SendSafe ==
  ASSUME NEW c \in Configs, NEW K, NEW r, Safe(c, r, K)
  PROVE  Safe(c, sendControl(c, r), K) /\ Same(r, sendControl(c, r))
<1>0. r \in Sessions
  BY DEF Safe
<1> DEFINE p == buildControlPacket(c, r)
<1> DEFINE t == sendControl(c, r)
<1>1. t \in Sessions /\ p \in PacketFields
  BY <1>0, SendType, BuildType
<1>2. /\ t.remoteDiscr = r.remoteDiscr /\ t.cachedState = r.cachedState
      /\ t.remoteState = r.remoteState /\ t.state = r.state
      /\ t.out = Append(r.out, p)
  BY <1>0 DEF sendControl, Sessions
<1>3. /\ p.myDiscr = c.localDiscr /\ p.yourDiscr = r.remoteDiscr
      /\ p.state = r.cachedState /\ p.detectMult = c.detectMult
  BY DEF buildControlPacket
<1>4. r.cachedState \in States
  BY <1>0 DEF Sessions
<1>5. Decodable(p) /\ p.yourDiscr \in K
  BY <1>3, <1>4, ConfigTypes DEF Decodable, Safe, States
<1>6. r.out \in Seq(PacketFields)
  BY <1>0 DEF Sessions
<1> HIDE DEF p
<1>7. SafeOut(c, Append(r.out, p), K)
  <2> SUFFICES ASSUME NEW i \in DOMAIN Append(r.out, p)
               PROVE  LET q == Append(r.out, p)
                      IN  /\ Decodable(q[i]) /\ q[i].myDiscr = c.localDiscr
                          /\ q[i].yourDiscr \in K
    BY DEF SafeOut
  <2>1. i \in 1..(Len(r.out) + 1)
    BY <1>6, <1>1
  <2>2. CASE i = Len(r.out) + 1
    BY <2>2, <1>1, <1>6, <1>5, <1>3
  <2>3. CASE i # Len(r.out) + 1
    <3>1. i \in DOMAIN r.out /\ Append(r.out, p)[i] = r.out[i]
      BY <2>1, <2>3, <1>6, <1>1
    <3> QED
      BY <3>1 DEF Safe, SafeOut
  <2> QED
    BY <2>2, <2>3
<1> QED
  BY <1>1, <1>2, <1>7 DEF Safe, Same

(* So does every side effect, provided that NotifyDown, which forgets the  *)
(* peer, is executed only in Down.                                         *)
LEMMA ActionSafe ==
  ASSUME NEW c \in Configs, NEW K, 0 \in K, NEW r, Safe(c, r, K), NEW j \in 0..25,
         NEW a \in Actions, a = "NotifyDown" => r.cachedState = "Down"
  PROVE  Safe(c, executeAction(c, r, a, j), K) /\ Same(r, executeAction(c, r, a, j))
<1> DEFINE forgotten == [r EXCEPT !.remoteDiscr = 0]
<1>0. r \in Sessions
  BY DEF Safe
<1>1. CASE a = "SendControl"
  <2>1. executeAction(c, r, a, j) = resetTxTimer(c, sendControl(c, r), j)
    BY <1>1 DEF executeAction
  <2> QED
    BY <2>1, SendSafe, ResetSafe DEF Same
<1>2. CASE a = "NotifyUp"
  <2>1. executeAction(c, r, a, j) = resetDetectTimer(c, resetTxTimer(c, r, j))
    BY <1>2 DEF executeAction
  <2> DEFINE u == resetTxTimer(c, r, j)
  <2>2. Safe(c, u, K) /\ Same(r, u)
    BY ResetSafe
  <2> HIDE DEF u
  <2>3. Safe(c, resetDetectTimer(c, u), K) /\ Same(u, resetDetectTimer(c, u))
    BY <2>2, ResetSafe
  <2> QED
    BY <2>1, <2>2, <2>3 DEF Same, u
<1>3. CASE a = "NotifyDown"
  <2>1. executeAction(c, r, a, j) = resetDetectTimer(c, resetTxTimer(c, forgotten, j))
    BY <1>3 DEF executeAction
  <2>2. forgotten \in Sessions
    BY <1>0 DEF Sessions
  <2>3. /\ forgotten.remoteDiscr = 0 /\ forgotten.cachedState = r.cachedState
        /\ forgotten.remoteState = r.remoteState /\ forgotten.state = r.state
        /\ forgotten.out = r.out
    BY <1>0 DEF Sessions
  <2> HIDE DEF forgotten
  <2>4. Safe(c, forgotten, K) /\ Same(r, forgotten)
    BY <1>3, <2>2, <2>3 DEF Safe, Same
  <2> DEFINE u == resetTxTimer(c, forgotten, j)
  <2>5. Safe(c, u, K) /\ Same(forgotten, u)
    BY <2>4, ResetSafe
  <2> HIDE DEF u
  <2>6. Safe(c, resetDetectTimer(c, u), K) /\ Same(u, resetDetectTimer(c, u))
    BY <2>5, ResetSafe
  <2> QED
    BY <2>1, <2>4, <2>5, <2>6 DEF Same, u
<1>4. CASE a \in {"SetDiagTimeExpired", "SetDiagNeighborDown", "SetDiagAdminDown"}
  <2>1. PICK d \in Diags : executeAction(c, r, a, j) = [r EXCEPT !.localDiag = d]
    BY <1>4 DEF executeAction, Diags
  <2> DEFINE t == [r EXCEPT !.localDiag = d]
  <2>2. t \in Sessions
    BY <1>0 DEF Sessions
  <2>3. /\ t.remoteDiscr = r.remoteDiscr /\ t.cachedState = r.cachedState
        /\ t.remoteState = r.remoteState /\ t.state = r.state /\ t.out = r.out
    BY <1>0 DEF Sessions
  <2> HIDE DEF t
  <2>4. Safe(c, t, K) /\ Same(r, t)
    BY <2>2, <2>3 DEF Safe, Same
  <2> QED
    BY <2>1, <2>4 DEF t
<1> QED
  BY <1>1, <1>2, <1>3, <1>4 DEF Actions

(* The n-th side effect of a list, or nothing.                             *)
LEMMA NthSafe ==
  ASSUME NEW c \in Configs, NEW K, 0 \in K, NEW r, Safe(c, r, K), NEW j \in 0..25,
         NEW as \in Seq(Actions), NEW n \in Nat,
         n \in DOMAIN as /\ as[n] = "NotifyDown" => r.cachedState = "Down"
  PROVE  Safe(c, executeNth(c, r, as, n, j), K) /\ Same(r, executeNth(c, r, as, n, j))
<1>1. CASE n \in DOMAIN as
  <2>1. as[n] \in Actions
    BY <1>1, ElementOfSeq, LenProperties
  <2>2. executeNth(c, r, as, n, j) = executeAction(c, r, as[n], j)
    BY <1>1 DEF executeNth
  <2>3. as[n] = "NotifyDown" => r.cachedState = "Down"
    BY <1>1
  <2> DEFINE a == as[n]
  <2> HIDE DEF a
  <2>4. a \in Actions /\ (a = "NotifyDown" => r.cachedState = "Down")
    BY <2>1, <2>3 DEF a
  <2>5. Safe(c, executeAction(c, r, a, j), K) /\ Same(r, executeAction(c, r, a, j))
    BY <2>4, ActionSafe
  <2> QED
    BY <2>2, <2>5 DEF a
<1>2. CASE n \notin DOMAIN as
  BY <1>2 DEF executeNth, Same
<1> QED
  BY <1>1, <1>2

(* Entering a state keeps the invariant if the peer is known whenever the  *)
(* new state needs it.                                                     *)
LEMMA EnterSafe ==
  ASSUME NEW c \in Configs, NEW K, NEW r, Safe(c, r, K), NEW s \in States,
         s \in {"Init", "Up"} => r.remoteDiscr # 0
  PROVE  LET t == enterState(c, r, s)
         IN  /\ Safe(c, t, K) /\ t.cachedState = s
             /\ t.remoteState = r.remoteState /\ t.remoteDiscr = r.remoteDiscr
<1>0. r \in Sessions
  BY DEF Safe
<1>1. CASE s = r.cachedState
  BY <1>1 DEF enterState
<1>2. CASE s # r.cachedState
  <2> DEFINE sc == [discr |-> c.localDiscr, oldState |-> r.cachedState,
                    newState |-> s, diag |-> r.localDiag]
  <2> DEFINE e == [r EXCEPT !.notes = Append(@, sc)]
  <2> DEFINE t == [e EXCEPT !.state = s, !.cachedState = s]
  <2>1. enterState(c, r, s) = t
    BY <1>2 DEF enterState, emitNotification
  <2>2. r.notes \in Seq(StateChanges) /\ r.cachedState \in States /\ r.localDiag \in Diags
    BY <1>0 DEF Sessions
  <2>3. sc \in StateChanges
    BY <2>2, ConfigTypes DEF StateChanges
  <2> HIDE DEF sc
  <2>4. Append(r.notes, sc) \in Seq(StateChanges)
    BY <2>2, <2>3
  <2>5. e \in Sessions
    BY <1>0, <2>4 DEF Sessions
  <2>6. /\ e.remoteDiscr = r.remoteDiscr /\ e.remoteState = r.remoteState
        /\ e.out = r.out
    BY <1>0 DEF Sessions
  <2> HIDE DEF e
  <2>7. t \in Sessions
    BY <2>5 DEF Sessions
  <2>8. /\ t.remoteDiscr = e.remoteDiscr /\ t.remoteState = e.remoteState /\ t.out = e.out
        /\ t.cachedState = s /\ t.state = s
    BY <2>5 DEF Sessions
  <2> HIDE DEF t
  <2> QED
    BY <2>1, <2>6, <2>7, <2>8 DEF Safe
<1> QED
  BY <1>1, <1>2

(* r may enter s; t is r after it entered s.                               *)
Enterable(r, s) == s \in {"Init", "Up"} => r.remoteDiscr # 0

Moved(c, K, r, s, t) == /\ Safe(c, t, K) /\ t.cachedState = s
                        /\ t.remoteState = r.remoteState
                        /\ t.remoteDiscr \in {0, r.remoteDiscr}

OnlyDownNotifies(s, as) == s # "Down" => \A n \in DOMAIN as : as[n] # "NotifyDown"

(* executeFSMActions moves the session to the new state and keeps the      *)
(* invariant.                                                              *)
LEMMA ExecuteSafe ==
  ASSUME NEW c \in Configs, NEW K, 0 \in K, NEW r, Safe(c, r, K), NEW j \in 0..25,
         NEW s \in States, NEW as \in Seq(Actions),
         Enterable(r, s), OnlyDownNotifies(s, as)
  PROVE  Moved(c, K, r, s, executeFSMActions(c, r, Into(s, as), j))
<1> DEFINE e == enterState(c, r, s)
<1> DEFINE f == executeNth(c, e, as, 1, j)
<1> DEFINE t == executeNth(c, f, as, 2, j)
<1>1. executeFSMActions(c, r, Into(s, as), j) = t
  BY DEF executeFSMActions, Into
<1>2. /\ Safe(c, e, K) /\ e.cachedState = s
      /\ e.remoteState = r.remoteState /\ e.remoteDiscr = r.remoteDiscr
  BY EnterSafe DEF Enterable
<1> HIDE DEF e
<1>a. 1 \in DOMAIN as /\ as[1] = "NotifyDown" => e.cachedState = "Down"
  BY <1>2 DEF OnlyDownNotifies
<1>3. Safe(c, f, K) /\ Same(e, f)
  BY <1>2, <1>a, NthSafe, 1 \in Nat
<1> HIDE DEF f
<1>b. 2 \in DOMAIN as /\ as[2] = "NotifyDown" => f.cachedState = "Down"
  BY <1>2, <1>3 DEF Same, OnlyDownNotifies
<1>4. Safe(c, t, K) /\ Same(f, t)
  BY <1>3, <1>b, NthSafe, 2 \in Nat
<1> HIDE DEF t
<1> QED
  BY <1>1, <1>2, <1>3, <1>4 DEF Same, Moved

-----------------------------------------------------------------------------
(* The state machine                                                       *)

(* What the table says of a transition: its side effects are known, only a *)
(* transition to Down notifies Down, and Init and Up are entered only on a *)
(* received packet.                                                        *)
LEMMA TableFacts ==
  ASSUME NEW s \in States, NEW e \in Events
  PROVE  LET t == ApplyEvent(s, e)
         IN  /\ t = Into(t.newState, t.actions)
             /\ t.newState \in States
             /\ t.actions \in Seq(Actions)
             /\ OnlyDownNotifies(t.newState, t.actions)
             /\ t.newState \in {"Init", "Up"} /\ t.newState # s =>
                  e \in {"RecvDown", "RecvInit", "RecvUp"}
<1> DEFINE t == ApplyEvent(s, e)
<1> DEFINE quiet == {<<>>, <<"SendControl">>, <<"SendControl", "NotifyUp">>,
                     <<"SetDiagAdminDown">>}
<1> DEFINE down == {<<"SetDiagNeighborDown", "NotifyDown">>,
                    <<"SetDiagTimeExpired", "NotifyDown">>}
<1>1. /\ t = Into(t.newState, t.actions)
      /\ t.newState \in States
      /\ t.actions \in quiet \/ (t.newState = "Down" /\ t.actions \in down)
  BY DEF ApplyEvent, Into, States, Events
<1>2. \A as \in quiet \cup down : as \in Seq(Actions)
  <2>1. \A x, y \in Actions : <<>> \in Seq(Actions) /\ <<x>> \in Seq(Actions)
                              /\ <<x, y>> \in Seq(Actions)
    OBVIOUS
  <2>2. {"SendControl", "NotifyUp", "NotifyDown", "SetDiagTimeExpired",
         "SetDiagNeighborDown", "SetDiagAdminDown"} = Actions
    BY DEF Actions
  <2> QED
    BY <2>1, <2>2
<1>3. \A as \in quiet : \A n \in DOMAIN as : as[n] # "NotifyDown"
  <2>1. \A x, y : /\ DOMAIN <<>> = {} /\ DOMAIN <<x>> = {1} /\ DOMAIN <<x, y>> = {1, 2}
                 /\ <<x>>[1] = x /\ <<x, y>>[1] = x /\ <<x, y>>[2] = y
    OBVIOUS
  <2> SUFFICES ASSUME NEW as \in quiet, NEW n \in DOMAIN as
               PROVE  as[n] # "NotifyDown"
    OBVIOUS
  <2>2. CASE as = <<>>
    BY <2>1, <2>2
  <2>3. CASE as = <<"SendControl">>
    BY <2>1, <2>3
  <2>4. CASE as = <<"SendControl", "NotifyUp">>
    BY <2>1, <2>4
  <2>5. CASE as = <<"SetDiagAdminDown">>
    BY <2>1, <2>5
  <2> QED
    BY <2>2, <2>3, <2>4, <2>5
<1>4. t.newState \in {"Init", "Up"} /\ t.newState # s =>
        e \in {"RecvDown", "RecvInit", "RecvUp"}
  BY DEF ApplyEvent, Into, States, Events
<1> HIDE DEF t, quiet, down
<1> QED
  BY <1>1, <1>2, <1>3, <1>4 DEF t, OnlyDownNotifies

(* The state a received packet leads to agrees with the state it carries.  *)
LEMMA HandshakeTable ==
  ASSUME NEW s \in States, NEW ps \in States
  PROVE  LET t == ApplyEvent(s, RecvStateToEvent(ps)).newState
         IN  /\ t = "Up" => ps \in {"Init", "Up"}
             /\ t = "Init" => ps = "Down"
             /\ s = "AdminDown" => t = "AdminDown"
             /\ RecvStateToEvent(ps) \in Events
BY DEF ApplyEvent, RecvStateToEvent, Into, States, Events

-----------------------------------------------------------------------------
(* The handlers                                                            *)

(* The session and the last packet it accepted agree on the handshake.     *)
Agrees(r) == /\ r.cachedState = "Up" => r.remoteState \in {"Init", "Up"}
             /\ r.cachedState = "Init" => r.remoteState = "Down"

(* What a handler that takes no packet never does: it does not bring a     *)
(* session Up or change the peer of one that is Up, and it does not leave  *)
(* AdminDown.                                                              *)
Steps(r, t) ==
  /\ t.cachedState = "Up" => r.cachedState = "Up" /\ t.remoteDiscr \in {0, r.remoteDiscr}
  /\ r.cachedState = "AdminDown" => t.cachedState = "AdminDown"

(* What a session takes from a packet p it accepts.                        *)
Received(r, p, t) ==
  /\ t.remoteState = p.state /\ t.remoteDiscr \in {0, p.myDiscr}
  /\ r.cachedState = "AdminDown" => t.cachedState = "AdminDown"

(* The start of a handler.                                                 *)
LEMMA BeginSafe ==
  ASSUME NEW c \in Configs, NEW K, NEW r, Safe(c, r, K)
  PROVE  Safe(c, begin(r), K) /\ Same(r, begin(r)) /\ begin(r).remoteDiscr = r.remoteDiscr
<1> DEFINE t == begin(r)
<1>0. r \in Sessions
  BY DEF Safe
<1>a. <<>> \in Seq(PacketFields) /\ <<>> \in Seq(StateChanges)
  OBVIOUS
<1>1. t \in Sessions
  BY <1>0, <1>a DEF begin, Sessions
<1>2. /\ t.remoteDiscr = r.remoteDiscr /\ t.cachedState = r.cachedState
      /\ t.remoteState = r.remoteState /\ t.state = r.state /\ t.out = <<>>
  BY <1>0 DEF begin, Sessions
<1> HIDE DEF t
<1>3. SafeOut(c, t.out, K)
  BY <1>2 DEF SafeOut
<1>4. Safe(c, t, K) /\ Same(r, t)
  BY <1>1, <1>2, <1>3 DEF Safe, Same
<1> QED
  BY <1>2, <1>4 DEF t

(* A record that differs in the timers, the diagnostic or the Final to     *)
(* send only is as safe.                                                   *)
LEMMA OtherFieldsSafe ==
  ASSUME NEW c \in Configs, NEW K, NEW r, Safe(c, r, K), NEW t \in Sessions,
         t.remoteDiscr = r.remoteDiscr, t.cachedState = r.cachedState,
         t.remoteState = r.remoteState, t.state = r.state, t.out = r.out
  PROVE  Safe(c, t, K) /\ Same(r, t)
BY DEF Safe, Same

(* The fresh session of NewSession satisfies the handlers' invariant.      *)
LEMMA NewSessionSafe ==
  ASSUME NEW c \in Configs, NEW K, 0 \in K
  PROVE  Safe(c, NewSession, K) /\ Agrees(NewSession)
<1>1. <<>> \in Seq(PacketFields) /\ <<>> \in Seq(StateChanges)
  OBVIOUS
<1>2. Off \in Int /\ Microsecond \in Nat /\ 0 \in Nat /\ 0 \in 0..255
  BY TimeAssumption DEF Off
<1>3. NewSession \in Sessions
  BY <1>1, <1>2 DEF NewSession, Sessions, States, Diags
<1>4. /\ NewSession.remoteDiscr = 0 /\ NewSession.cachedState = "Down"
      /\ NewSession.state = "Down" /\ NewSession.out = <<>>
  BY DEF NewSession
<1>5. SafeOut(c, <<>>, K)
  BY DEF SafeOut
<1> QED
  BY <1>3, <1>4, <1>5 DEF Safe, Agrees

(* Run enters its loop: cachedState becomes what State() shows.            *)
LEMMA StartLoopSafe ==
  ASSUME NEW c \in Configs, NEW K, NEW r, Safe(c, r, K), Agrees(r), NEW j \in 0..25
  PROVE  Safe(c, startLoop(c, r, j), K) /\ Agrees(startLoop(c, r, j))
<1> DEFINE b == begin(r)
<1> DEFINE m == [b EXCEPT !.cachedState = r.state]
<1> DEFINE u == resetTxTimer(c, m, j)
<1>1. startLoop(c, r, j) = resetDetectTimer(c, u)
  BY DEF startLoop
<1>2. Safe(c, b, K) /\ Same(r, b) /\ b.remoteDiscr = r.remoteDiscr
  BY BeginSafe
<1>3. r \in Sessions /\ b.state = r.state
  BY DEF Safe, begin, Sessions
<1>4. r.state \in States
  BY <1>3 DEF Sessions
<1> HIDE DEF b
<1>5. b \in Sessions
  BY <1>2 DEF Safe
<1>6. m \in Sessions
  BY <1>4, <1>5 DEF Sessions
<1>7. /\ m.remoteDiscr = b.remoteDiscr /\ m.cachedState = r.state
      /\ m.remoteState = b.remoteState /\ m.state = b.state /\ m.out = b.out
  BY <1>5 DEF Sessions
<1> HIDE DEF m
<1>8. Safe(c, m, K) /\ Agrees(m)
  BY <1>2, <1>3, <1>6, <1>7 DEF Safe, Same, Agrees
<1>9. Safe(c, u, K) /\ Same(m, u)
  BY <1>8, ResetSafe
<1> HIDE DEF u
<1>10. Safe(c, resetDetectTimer(c, u), K) /\ Same(u, resetDetectTimer(c, u))
  BY <1>9, ResetSafe, 0 \in 0..25
<1> QED
  BY <1>1, <1>8, <1>9, <1>10 DEF Agrees, Same

(* A packet is accepted: whatever the handler sends or keeps names the     *)
(* sender of the packet, or a discriminator known before, or none.         *)
LEMMA RecvSafe ==
  ASSUME NEW c \in Configs, NEW K, 0 \in K, NEW r, Safe(c, r, K), Agrees(r),
         NEW j \in 0..25, NEW p \in Packets, NEW ok \in BOOLEAN,
         ok => p.myDiscr \in K
  PROVE  LET t == handleRecvPacket(c, r, p, ok, j)
         IN  /\ Safe(c, t, K) /\ Agrees(t)
             /\ IF ok THEN Received(r, p, t) ELSE Same(r, t)
<1> DEFINE b == begin(r)
<1> DEFINE l == learn(b, p)
<1> DEFINE d == resetDetectTimer(c, l)
<1> DEFINE e == RecvStateToEvent(p.state)
<1> DEFINE res == ApplyEvent(d.cachedState, e)
<1> DEFINE x == executeFSMActions(c, d, res, j)
<1> DEFINE y == sendControl(c, x)
<1>1. handleRecvPacket(c, r, p, ok, j) =
        CASE ~ok -> b
          [] ok /\ x.pendingFinal -> resetTxTimer(c, y, j)
          [] ok /\ ~x.pendingFinal -> x
  BY DEF handleRecvPacket, applyFSMEvent
<1>2. Safe(c, b, K) /\ Same(r, b)
  BY BeginSafe
<1>3. Agrees(b)
  BY <1>2 DEF Agrees, Same
<1> HIDE DEF b
<1>4. ASSUME ok
      PROVE  Safe(c, x, K) /\ Agrees(x) /\ Received(r, p, x)
  <2>1. /\ p.myDiscr \in Nat /\ p.myDiscr # 0 /\ p.state \in States
        /\ p.requiredMinRx \in Nat /\ p.desiredMinTx \in Nat
        /\ p.detectMult \in 0..255 /\ p.poll \in BOOLEAN
    BY DEF Packets, PacketFields, Decodable
  <2>2. b \in Sessions
    BY <1>2 DEF Safe
  <2>3. /\ durationFromMicroseconds(p.requiredMinRx) \in Nat
        /\ durationFromMicroseconds(p.desiredMinTx) \in Nat
    BY <2>1, TimeAssumption DEF durationFromMicroseconds
  <2>4. l \in Sessions
    BY <2>1, <2>2, <2>3 DEF learn, Sessions
  <2>5. /\ l.remoteDiscr = p.myDiscr /\ l.cachedState = b.cachedState
        /\ l.remoteState = p.state /\ l.state = b.state /\ l.out = b.out
    BY <2>2 DEF learn, Sessions
  <2> HIDE DEF l
  <2>6. Safe(c, l, K)
    BY <1>2, <1>4, <2>1, <2>4, <2>5 DEF Safe
  <2>7. Safe(c, d, K) /\ Same(l, d)
    BY <2>6, ResetSafe, 0 \in 0..25
  <2>8. d.remoteDiscr = p.myDiscr
    BY <2>4, <2>5 DEF resetDetectTimer, Sessions
  <2> HIDE DEF d
  <2>9. d.cachedState \in States
    BY <2>7 DEF Safe, Sessions
  <2>10. e \in Events /\ (res.newState = "Up" => p.state \in {"Init", "Up"})
                      /\ (res.newState = "Init" => p.state = "Down")
                      /\ (d.cachedState = "AdminDown" => res.newState = "AdminDown")
    BY <2>1, <2>9, HandshakeTable
  <2> HIDE DEF e
  <2>11. /\ res = Into(res.newState, res.actions) /\ res.newState \in States
         /\ res.actions \in Seq(Actions)
         /\ OnlyDownNotifies(res.newState, res.actions)
    BY <2>9, <2>10, TableFacts
  <2> HIDE DEF res
  <2> DEFINE ns == res.newState
  <2> DEFINE as == res.actions
  <2>a. x = executeFSMActions(c, d, Into(ns, as), j)
    BY <2>11
  <2>b. /\ ns \in States /\ as \in Seq(Actions)
        /\ OnlyDownNotifies(ns, as) /\ Enterable(d, ns)
    BY <2>1, <2>8, <2>11 DEF Enterable
  <2> HIDE DEF ns, as, x
  <2>12. Moved(c, K, d, ns, x)
    BY <2>7, <2>a, <2>b, ExecuteSafe
  <2> QED
    BY <1>2, <2>5, <2>7, <2>8, <2>10, <2>12 DEF Agrees, Same, ns, Moved, Received
<1> HIDE DEF x
<1>5. ASSUME ok
      PROVE  /\ Safe(c, resetTxTimer(c, y, j), K) /\ Agrees(resetTxTimer(c, y, j))
             /\ Received(r, p, resetTxTimer(c, y, j))
  <2>1. Safe(c, y, K) /\ Same(x, y)
    BY <1>4, <1>5, SendSafe
  <2> HIDE DEF y
  <2>2. Safe(c, resetTxTimer(c, y, j), K) /\ Same(y, resetTxTimer(c, y, j))
    BY <2>1, ResetSafe
  <2> QED
    BY <1>4, <1>5, <2>1, <2>2 DEF Agrees, Same, Received
<1> HIDE DEF y
<1>6. CASE ~ok
  BY <1>1, <1>2, <1>3, <1>6
<1>7. CASE ok /\ x.pendingFinal
  BY <1>1, <1>5, <1>7
<1>8. CASE ok /\ ~x.pendingFinal
  BY <1>1, <1>4, <1>8
<1> QED
  BY <1>6, <1>7, <1>8

(* The AdminDown command of a drain; the session is not Up afterwards.     *)
LEMMA AdminDownSafe ==
  ASSUME NEW c \in Configs, NEW K, 0 \in K, NEW r, Safe(c, r, K), Agrees(r), NEW j \in 0..25
  PROVE  LET t == handleAdminDown(c, r, j)
         IN  Safe(c, t, K) /\ Agrees(t) /\ Steps(r, t) /\ t.cachedState # "Up"
<1> DEFINE b == begin(r)
<1> DEFINE m == [b EXCEPT !.localDiag = "AdminDown"]
<1> DEFINE res == ApplyEvent(r.cachedState, "AdminDown")
<1> DEFINE diag == <<"SetDiagAdminDown">>
<1> DEFINE as == Append(diag, "SendControl")
<1> DEFINE x == executeFSMActions(c, b, Into("AdminDown", as), j)
<1>1. Safe(c, b, K) /\ Same(r, b)
  BY BeginSafe
<1>2. r.cachedState \in States
  BY DEF Safe, Sessions
<1>3. /\ r.cachedState = "AdminDown" => res.newState = "AdminDown"
      /\ r.cachedState # "AdminDown" => res = Into("AdminDown", <<"SetDiagAdminDown">>)
  BY <1>2 DEF ApplyEvent, Into, States
<1>5. CASE r.cachedState = "AdminDown"
  <2>1. handleAdminDown(c, r, j) = m
    BY <1>3, <1>5 DEF handleAdminDown
  <2> HIDE DEF b
  <2>2. b \in Sessions
    BY <1>1 DEF Safe
  <2>3. m \in Sessions
    BY <2>2 DEF Sessions, Diags
  <2>4. /\ m.remoteDiscr = b.remoteDiscr /\ m.cachedState = b.cachedState
        /\ m.remoteState = b.remoteState /\ m.state = b.state /\ m.out = b.out
    BY <2>2 DEF Sessions
  <2> HIDE DEF m
  <2>5. Safe(c, m, K) /\ Same(b, m)
    BY <1>1, <2>3, <2>4, OtherFieldsSafe
  <2> QED
    BY <1>1, <1>5, <2>1, <2>5 DEF Agrees, Same, Steps
<1>6. CASE r.cachedState # "AdminDown"
  <2>1. handleAdminDown(c, r, j) = x
    BY <1>3, <1>6 DEF handleAdminDown, Into
  <2>1a. diag \in Seq(Actions) /\ "SendControl" \in Actions
    BY DEF Actions
  <2>2. as \in Seq(Actions)
    BY <2>1a, AppendProperties
  <2>3. "AdminDown" \in States /\ Enterable(b, "AdminDown")
    BY DEF Enterable, States
  <2>4. OnlyDownNotifies("AdminDown", as)
    <3> DEFINE Quiet == Actions \ {"NotifyDown"}
    <3>1. diag \in Seq(Quiet) /\ "SendControl" \in Quiet
      BY DEF Actions
    <3> HIDE DEF Quiet, diag
    <3>2. as \in Seq(Quiet)
      BY <3>1, AppendProperties
    <3> HIDE DEF as
    <3>3. \A i \in 1..Len(as) : as[i] \in Quiet
      BY <3>2, ElementOfSeq
    <3>4. DOMAIN as = 1..Len(as)
      BY <3>2, LenProperties
    <3> QED
      BY <3>3, <3>4 DEF OnlyDownNotifies, Quiet
  <2> HIDE DEF b, diag, as
  <2>5. Moved(c, K, b, "AdminDown", x)
    BY <1>1, <2>2, <2>3, <2>4, ExecuteSafe
  <2> HIDE DEF x
  <2> QED
    BY <2>1, <2>5 DEF Moved, Agrees, Steps
<1> QED
  BY <1>5, <1>6

(* The PathDown command of the interface monitor.                          *)
LEMMA PathDownSafe ==
  ASSUME NEW c \in Configs, NEW K, 0 \in K, NEW r, Safe(c, r, K), Agrees(r), NEW j \in 0..25
  PROVE  LET t == handlePathDown(c, r, j)
         IN  Safe(c, t, K) /\ Agrees(t) /\ Steps(r, t)
<1> DEFINE b == begin(r)
<1> DEFINE m == [b EXCEPT !.localDiag = "PathDown"]
<1> DEFINE as == <<"NotifyDown", "SendControl">>
<1> DEFINE x == executeFSMActions(c, m, Into("Down", as), j)
<1>1. Safe(c, b, K) /\ Same(r, b)
  BY BeginSafe
<1>2. handlePathDown(c, r, j) = IF r.cachedState \in {"Down", "AdminDown"} THEN m ELSE x
  BY DEF handlePathDown
<1> HIDE DEF b
<1>3. b \in Sessions
  BY <1>1 DEF Safe
<1>4. m \in Sessions
  BY <1>3 DEF Sessions, Diags
<1>5. /\ m.remoteDiscr = b.remoteDiscr /\ m.cachedState = b.cachedState
      /\ m.remoteState = b.remoteState /\ m.state = b.state /\ m.out = b.out
  BY <1>3 DEF Sessions
<1> HIDE DEF m
<1>6. Safe(c, m, K) /\ Same(b, m)
  BY <1>1, <1>4, <1>5, OtherFieldsSafe
<1>7. as \in Seq(Actions) /\ "Down" \in States /\ Enterable(m, "Down")
      /\ OnlyDownNotifies("Down", as)
  BY DEF Actions, States, Enterable, OnlyDownNotifies
<1> HIDE DEF as
<1>8. Moved(c, K, m, "Down", x)
  BY <1>6, <1>7, ExecuteSafe
<1> HIDE DEF x
<1>9. r.cachedState # "AdminDown" => Safe(c, x, K) /\ Agrees(x) /\ Steps(r, x)
  BY <1>8 DEF Moved, Agrees, Steps
<1>10. Agrees(m) /\ Steps(r, m)
  BY <1>1, <1>6 DEF Agrees, Same, Steps
<1> QED
  BY <1>2, <1>6, <1>9, <1>10

(* The transmission timer fires.                                           *)
LEMMA TxTimerSafe ==
  ASSUME NEW c \in Configs, NEW K, NEW r, Safe(c, r, K), Agrees(r), NEW j \in 0..25
  PROVE  LET t == handleTxTimer(c, r, j)
         IN  Safe(c, t, K) /\ Agrees(t) /\ Steps(r, t)
<1> DEFINE b == begin(r)
<1> DEFINE f == [b EXCEPT !.txTimer = Off]
<1> DEFINE x == maybeSendControl(c, f)
<1>1. Safe(c, b, K) /\ Same(r, b)
  BY BeginSafe
<1>2. handleTxTimer(c, r, j) = resetTxTimer(c, x, j)
  BY DEF handleTxTimer
<1> HIDE DEF b
<1>3. b \in Sessions
  BY <1>1 DEF Safe
<1>off. Off \in Int
  BY DEF Off
<1>4. f \in Sessions
  BY <1>3, <1>off DEF Sessions
<1>5. /\ f.remoteDiscr = b.remoteDiscr /\ f.cachedState = b.cachedState
      /\ f.remoteState = b.remoteState /\ f.state = b.state /\ f.out = b.out
  BY <1>3 DEF Sessions
<1> HIDE DEF f
<1>6. Safe(c, f, K) /\ Same(b, f)
  BY <1>1, <1>4, <1>5, OtherFieldsSafe
<1>7. Safe(c, x, K) /\ Same(f, x)
  BY <1>6, SendSafe DEF maybeSendControl, Same
<1> HIDE DEF x
<1>8. Safe(c, resetTxTimer(c, x, j), K) /\ Same(x, resetTxTimer(c, x, j))
  BY <1>7, ResetSafe
<1> QED
  BY <1>1, <1>2, <1>6, <1>7, <1>8 DEF Agrees, Same, Steps

(* The detection timer fires; the session is not Up afterwards.            *)
LEMMA DetectTimerSafe ==
  ASSUME NEW c \in Configs, NEW K, 0 \in K, NEW r, Safe(c, r, K), Agrees(r), NEW j \in 0..25
  PROVE  LET t == handleDetectTimer(c, r, j)
         IN  Safe(c, t, K) /\ Agrees(t) /\ Steps(r, t) /\ t.cachedState # "Up"
<1> DEFINE b == begin(r)
<1> DEFINE f == [b EXCEPT !.detectTimer = Off]
<1> DEFINE res == ApplyEvent(f.cachedState, "TimerExpired")
<1> DEFINE x == executeFSMActions(c, f, res, j)
<1>1. Safe(c, b, K) /\ Same(r, b)
  BY BeginSafe
<1>2. handleDetectTimer(c, r, j) =
        IF r.cachedState \notin {"Init", "Up"} THEN resetDetectTimer(c, f) ELSE x
  BY DEF handleDetectTimer, applyFSMEvent
<1> HIDE DEF b
<1>3. b \in Sessions
  BY <1>1 DEF Safe
<1>off. Off \in Int
  BY DEF Off
<1>4. f \in Sessions
  BY <1>3, <1>off DEF Sessions
<1>5. /\ f.remoteDiscr = b.remoteDiscr /\ f.cachedState = b.cachedState
      /\ f.remoteState = b.remoteState /\ f.state = b.state /\ f.out = b.out
  BY <1>3 DEF Sessions
<1> HIDE DEF f
<1>6. Safe(c, f, K) /\ Same(b, f)
  BY <1>1, <1>4, <1>5, OtherFieldsSafe
<1>7. Safe(c, resetDetectTimer(c, f), K) /\ Same(f, resetDetectTimer(c, f))
  BY <1>6, ResetSafe, 0 \in 0..25
<1>8. CASE r.cachedState \notin {"Init", "Up"}
  BY <1>1, <1>2, <1>6, <1>7, <1>8 DEF Agrees, Same, Steps
<1>9. CASE r.cachedState \in {"Init", "Up"}
  <2> DEFINE as == <<"SetDiagTimeExpired", "NotifyDown">>
  <2>1. res = Into("Down", as)
    BY <1>1, <1>6, <1>9 DEF ApplyEvent, Same
  <2>2. as \in Seq(Actions) /\ "Down" \in States /\ Enterable(f, "Down")
        /\ OnlyDownNotifies("Down", as)
    BY DEF Actions, States, Enterable, OnlyDownNotifies
  <2> HIDE DEF as, res
  <2>3. Moved(c, K, f, "Down", x)
    BY <1>6, <2>1, <2>2, ExecuteSafe
  <2> HIDE DEF x
  <2> QED
    BY <1>2, <1>9, <2>3 DEF Moved, Agrees, Steps
<1> QED
  BY <1>8, <1>9

(* Time passes.                                                            *)
LEMMA PassTimeSafe ==
  ASSUME NEW c \in Configs, NEW K, NEW r, Safe(c, r, K), Agrees(r)
  PROVE  Safe(c, passTime(r), K) /\ Agrees(passTime(r)) /\ Steps(r, passTime(r))
<1> DEFINE t == passTime(r)
<1>1. r \in Sessions
  BY DEF Safe
<1>2. r.txTimer \in Int /\ r.detectTimer \in Int
  BY <1>1 DEF Sessions
<1>3. elapse(r.txTimer) \in Int /\ elapse(r.detectTimer) \in Int
  BY <1>2 DEF elapse
<1>4. t \in Sessions
  BY <1>1, <1>3 DEF passTime, Sessions
<1>5. /\ t.remoteDiscr = r.remoteDiscr /\ t.cachedState = r.cachedState
      /\ t.remoteState = r.remoteState /\ t.state = r.state /\ t.out = r.out
  BY <1>1 DEF passTime, Sessions
<1> HIDE DEF t
<1>6. Safe(c, t, K) /\ Same(r, t)
  BY <1>4, <1>5, OtherFieldsSafe
<1> QED
  BY <1>6 DEF Agrees, Same, Steps, t

-----------------------------------------------------------------------------
(* What a handler tells: its packets, its notification and its pace        *)

(* A record in the middle of a handler that owes the peer a Final if poll: *)
(* the Final is still to be sent, or exactly one packet carried it.  A     *)
(* packet of a session that is not Up advertises the slow rate.            *)
Answers(poll, r) ==
  \/ r.pendingFinal = poll /\ \A i \in DOMAIN r.out : ~r.out[i].final
  \/ /\ poll /\ ~r.pendingFinal
     /\ \E k \in DOMAIN r.out : \A i \in DOMAIN r.out : r.out[i].final <=> i = k

Slow(r) == r.cachedState # "Up" =>
             \A i \in DOMAIN r.out : r.out[i].desiredMinTx >= microsecondsFromDuration(SlowTx)

(* The notification, if there is one, carries the state the session is in; *)
(* without one the state is that of r0, at the start of the handler.       *)
Notes(c, r0, r) ==
  \/ r.notes = <<>> /\ r.cachedState = r0.cachedState
  \/ \E n \in StateChanges : /\ r.notes = <<n>> /\ n.discr = c.localDiscr
                             /\ n.newState = r.cachedState

(* The transmission timer was not armed since r0, or not with less than    *)
(* three quarters of the slow rate, unless the session is Up.              *)
Paced(r0, r) == \/ r.txTimer <= r0.txTimer
                \/ r.cachedState = "Up"
                \/ 4 * r.txTimer >= 3 * SlowTx

Tells(c, poll, r0, r) ==
  /\ r \in Sessions /\ Answers(poll, r) /\ Slow(r) /\ Notes(c, r0, r) /\ Paced(r0, r)
  /\ \A i \in DOMAIN r.out : r.out[i].myDiscr = c.localDiscr

(* A handler before its transition.                                        *)
Begun(poll, r0, r) ==
  /\ r \in Sessions /\ r.out = <<>> /\ r.notes = <<>>
  /\ r.cachedState = r0.cachedState /\ r.pendingFinal = poll /\ r.txTimer <= r0.txTimer

(* A session that is not Up is floored to the slow rate.                   *)
LEMMA FloorSlow ==
  ASSUME NEW c \in Configs, NEW r \in Sessions, r.cachedState # "Up"
  PROVE  /\ floorTx(c, r) \in Nat /\ floorTx(c, r) >= SlowTx
         /\ microsecondsFromDuration(floorTx(c, r)) >= microsecondsFromDuration(SlowTx)
<1> DEFINE f == floorTx(c, r)
<1>1. SlowTx \in Nat /\ Microsecond \in Nat /\ Microsecond > 0 /\ WireModulus \in Nat /\ WireModulus > 0
  BY TimeAssumption
<1>2. c.desiredMinTx \in Nat /\ c.desiredMinTx <= MaxWireInterval
  <2>1. MaxWireInterval \in Int BY <1>1 DEF MaxWireInterval
  <2>2. c.desiredMinTx \in 1..MaxWireInterval BY DEF Configs
  <2> QED BY <2>1, <2>2
<1>3. f \in Nat /\ f >= SlowTx /\ (f = SlowTx \/ f = c.desiredMinTx)
  BY <1>1, <1>2 DEF floorTx
<1> HIDE DEF f
<1>4. \A a, b \in Nat : a <= b => a \div Microsecond <= b \div Microsecond /\ a \div Microsecond \in Nat
  BY <1>1
<1>5. SlowTx \div Microsecond <= f \div Microsecond /\ SlowTx \div Microsecond \in Nat
  BY <1>1, <1>3, <1>4
<1>6. \A q \in Nat : q < WireModulus => q % WireModulus = q
  BY <1>1
<1>7. f \div Microsecond \in Nat /\ f \div Microsecond < WireModulus
  <2>1. CASE f = SlowTx BY <1>5, <2>1, WireAssumption
  <2>2. CASE f = c.desiredMinTx
    <3>1. f <= (WireModulus - 1) * Microsecond BY <1>2, <2>2 DEF MaxWireInterval
    <3>2. ((WireModulus - 1) * Microsecond) \div Microsecond = WireModulus - 1
      BY <1>1
    <3>3. (WireModulus - 1) * Microsecond \in Nat BY <1>1
    <3> QED BY <1>1, <1>3, <1>4, <3>1, <3>2, <3>3
  <2> QED BY <1>3, <2>1, <2>2
<1>8. microsecondsFromDuration(f) = f \div Microsecond
  BY <1>6, <1>7 DEF microsecondsFromDuration
<1>9. microsecondsFromDuration(SlowTx) = SlowTx \div Microsecond
  BY <1>5, <1>6, WireAssumption DEF microsecondsFromDuration
<1> QED BY <1>3, <1>5, <1>8, <1>9 DEF f

(* Jitter takes at most a quarter of an interval.                          *)
LEMMA JitterQuarter ==
  ASSUME NEW n \in Nat, NEW j \in 0..25
  PROVE  applyJitter(n, j) \in Int /\ 4 * applyJitter(n, j) >= 3 * n
<1> DEFINE m == n * j
<1>1. m \in Nat /\ m <= n * 25
  <2>1. \A k \in 0..25 : n * k \in Nat /\ n * k <= n * 25 OBVIOUS
  <2> QED BY <2>1
<1> HIDE DEF m
<1>2. 4 * (m \div 100) <= n /\ m \div 100 \in Int
  BY <1>1
<1> QED BY <1>2 DEF applyJitter, m

(* So a session that is not Up keeps three quarters of the slow rate.      *)
LEMMA SlowInterval ==
  ASSUME NEW c \in Configs, NEW r \in Sessions, NEW j \in 0..25, r.cachedState # "Up"
  PROVE  4 * applyJitter(calcTxInterval(c, r), j) >= 3 * SlowTx
<1>1. floorTx(c, r) \in Nat /\ floorTx(c, r) >= SlowTx /\ r.remoteMinRx \in Nat
  BY FloorSlow DEF Sessions
<1>2. calcTxInterval(c, r) \in Nat /\ calcTxInterval(c, r) >= SlowTx /\ SlowTx \in Nat
  BY <1>1, TimeAssumption DEF calcTxInterval, Larger
<1> DEFINE n == calcTxInterval(c, r)
<1> HIDE DEF n
<1>3. n \in Nat /\ n >= SlowTx BY <1>2 DEF n
<1>4. applyJitter(n, j) \in Int /\ 4 * applyJitter(n, j) >= 3 * n BY <1>3, JitterQuarter
<1>5. 4 * applyJitter(n, j) >= 3 * SlowTx BY <1>2, <1>3, <1>4
<1> QED BY <1>5 DEF n

(* Arming the timers.                                                      *)
LEMMA ResetTells ==
  ASSUME NEW c \in Configs, NEW poll \in BOOLEAN, NEW r0 \in Sessions, NEW r,
         Tells(c, poll, r0, r), NEW j \in 0..25
  PROVE  /\ Tells(c, poll, r0, resetTxTimer(c, r, j))
         /\ Tells(c, poll, r0, resetDetectTimer(c, r))
<1>0. r \in Sessions BY DEF Tells
<1>1. resetTxTimer(c, r, j) \in Sessions /\ resetDetectTimer(c, r) \in Sessions
  BY <1>0, ResetTypes
<1> DEFINE t == resetTxTimer(c, r, j)
<1> DEFINE d == resetDetectTimer(c, r)
<1>2. /\ t.cachedState = r.cachedState /\ t.pendingFinal = r.pendingFinal
      /\ t.out = r.out /\ t.notes = r.notes
      /\ t.txTimer = applyJitter(calcTxInterval(c, r), j)
  BY <1>0 DEF resetTxTimer, Sessions
<1>3. /\ d.cachedState = r.cachedState /\ d.pendingFinal = r.pendingFinal
      /\ d.out = r.out /\ d.notes = r.notes /\ d.txTimer = r.txTimer
  BY <1>0 DEF resetDetectTimer, Sessions
<1> HIDE DEF t, d
<1>4. Paced(r0, t)
  <2> SUFFICES ASSUME r.cachedState # "Up" PROVE 4 * t.txTimer >= 3 * SlowTx
    BY <1>2 DEF Paced
  <2> QED BY <1>0, <1>2, SlowInterval
<1> QED BY <1>1, <1>2, <1>3, <1>4 DEF Tells, Answers, Slow, Notes, Paced, t, d

(* Transmitting: the Final that is owed goes with the packet.              *)
LEMMA SendTells ==
  ASSUME NEW c \in Configs, NEW poll \in BOOLEAN, NEW r0, NEW r, Tells(c, poll, r0, r)
  PROVE  Tells(c, poll, r0, sendControl(c, r)) /\ ~sendControl(c, r).pendingFinal
<1>0. r \in Sessions BY DEF Tells
<1> DEFINE p == buildControlPacket(c, r)
<1> DEFINE t == sendControl(c, r)
<1>1. t \in Sessions /\ p \in PacketFields BY <1>0, SendType, BuildType
<1>2. /\ t.cachedState = r.cachedState /\ t.pendingFinal = FALSE /\ t.notes = r.notes
      /\ t.txTimer = r.txTimer /\ t.out = Append(r.out, p)
  BY <1>0 DEF sendControl, Sessions
<1>3. /\ p.myDiscr = c.localDiscr /\ p.final = r.pendingFinal
      /\ p.desiredMinTx = microsecondsFromDuration(floorTx(c, r))
  BY DEF buildControlPacket
<1>4. r.out \in Seq(PacketFields) /\ r.pendingFinal \in BOOLEAN BY <1>0 DEF Sessions
<1> HIDE DEF p
<1> DEFINE n == Len(r.out) + 1
<1>5. /\ n \in DOMAIN t.out /\ t.out[n] = p
      /\ \A i \in DOMAIN r.out : i \in DOMAIN t.out /\ t.out[i] = r.out[i] /\ i # n
      /\ \A i \in DOMAIN t.out : i # n => i \in DOMAIN r.out
  BY <1>1, <1>2, <1>4
<1> HIDE DEF n, t
<1>6. \A i \in DOMAIN t.out : t.out[i].myDiscr = c.localDiscr
  BY <1>3, <1>5 DEF Tells
<1>7. Slow(t)
  <2> SUFFICES ASSUME r.cachedState # "Up", NEW i \in DOMAIN t.out
               PROVE  t.out[i].desiredMinTx >= microsecondsFromDuration(SlowTx)
    BY <1>2 DEF Slow
  <2>1. p.desiredMinTx >= microsecondsFromDuration(SlowTx) BY <1>0, <1>3, FloorSlow
  <2>2. \A k \in DOMAIN r.out : r.out[k].desiredMinTx >= microsecondsFromDuration(SlowTx)
    BY DEF Tells, Slow
  <2> QED BY <1>5, <2>1, <2>2
<1>8. Answers(poll, t)
  <2>1. CASE r.pendingFinal = poll /\ \A i \in DOMAIN r.out : ~r.out[i].final
    <3>1. CASE poll
      <4>1. \A i \in DOMAIN t.out : t.out[i].final <=> i = n
        BY <1>3, <1>5, <2>1, <3>1
      <4> QED BY <1>2, <1>5, <3>1, <4>1 DEF Answers
    <3>2. CASE ~poll
      <4>1. \A i \in DOMAIN t.out : ~t.out[i].final BY <1>3, <1>5, <2>1, <3>2
      <4> QED BY <1>2, <3>2, <4>1 DEF Answers
    <3> QED BY <3>1, <3>2
  <2>2. ASSUME poll, ~r.pendingFinal, NEW k \in DOMAIN r.out,
               \A i \in DOMAIN r.out : r.out[i].final <=> i = k
        PROVE  Answers(poll, t)
    <3>1. \A i \in DOMAIN t.out : t.out[i].final <=> i = k BY <1>3, <1>5, <2>2
    <3>2. k \in DOMAIN t.out BY <1>5
    <3> QED BY <1>2, <2>2, <3>1, <3>2 DEF Answers
  <2> QED BY <2>1, <2>2 DEF Tells, Answers
<1> QED BY <1>1, <1>2, <1>6, <1>7, <1>8 DEF Tells, Notes, Paced, t

(* Every side effect.                                                      *)
LEMMA ActionTells ==
  ASSUME NEW c \in Configs, NEW poll \in BOOLEAN, NEW r0 \in Sessions, NEW r,
         Tells(c, poll, r0, r), NEW j \in 0..25, NEW a \in Actions
  PROVE  Tells(c, poll, r0, executeAction(c, r, a, j))
<1>0. r \in Sessions BY DEF Tells
<1>1. CASE a = "SendControl"
  <2>1. executeAction(c, r, a, j) = resetTxTimer(c, sendControl(c, r), j)
    BY <1>1 DEF executeAction
  <2>2. Tells(c, poll, r0, sendControl(c, r)) BY SendTells
  <2> QED BY <2>1, <2>2, ResetTells
<1>2. CASE a = "NotifyUp"
  <2>1. executeAction(c, r, a, j) = resetDetectTimer(c, resetTxTimer(c, r, j))
    BY <1>2 DEF executeAction
  <2>2. Tells(c, poll, r0, resetTxTimer(c, r, j)) BY ResetTells
  <2> QED BY <2>1, <2>2, ResetTells
<1>3. CASE a = "NotifyDown"
  <2> DEFINE f == [r EXCEPT !.remoteDiscr = 0]
  <2>1. executeAction(c, r, a, j) = resetDetectTimer(c, resetTxTimer(c, f, j))
    BY <1>3 DEF executeAction
  <2>2. /\ f \in Sessions /\ f.cachedState = r.cachedState /\ f.pendingFinal = r.pendingFinal
        /\ f.out = r.out /\ f.notes = r.notes /\ f.txTimer = r.txTimer
    BY <1>0 DEF Sessions
  <2> HIDE DEF f
  <2>3. Tells(c, poll, r0, f) BY <2>2 DEF Tells, Answers, Slow, Notes, Paced
  <2>4. Tells(c, poll, r0, resetTxTimer(c, f, j)) BY <2>3, ResetTells
  <2> QED BY <2>1, <2>4, ResetTells
<1>4. CASE a \in {"SetDiagTimeExpired", "SetDiagNeighborDown", "SetDiagAdminDown"}
  <2>1. PICK d \in Diags : executeAction(c, r, a, j) = [r EXCEPT !.localDiag = d]
    BY <1>4 DEF executeAction, Diags
  <2> DEFINE f == [r EXCEPT !.localDiag = d]
  <2>2. /\ f \in Sessions /\ f.cachedState = r.cachedState /\ f.pendingFinal = r.pendingFinal
        /\ f.out = r.out /\ f.notes = r.notes /\ f.txTimer = r.txTimer
    BY <1>0 DEF Sessions
  <2> HIDE DEF f
  <2>3. Tells(c, poll, r0, f) BY <2>2 DEF Tells, Answers, Slow, Notes, Paced
  <2> QED BY <2>1, <2>3 DEF f
<1> QED BY <1>1, <1>2, <1>3, <1>4 DEF Actions

(* The n-th side effect of a list, or nothing.                             *)
LEMMA NthTells ==
  ASSUME NEW c \in Configs, NEW poll \in BOOLEAN, NEW r0 \in Sessions, NEW r,
         Tells(c, poll, r0, r), NEW j \in 0..25, NEW as \in Seq(Actions), NEW n \in Nat
  PROVE  Tells(c, poll, r0, executeNth(c, r, as, n, j))
<1>1. CASE n \in DOMAIN as
  <2>1. as[n] \in Actions BY <1>1, ElementOfSeq, LenProperties
  <2>2. executeNth(c, r, as, n, j) = executeAction(c, r, as[n], j) BY <1>1 DEF executeNth
  <2> QED BY <2>1, <2>2, ActionTells
<1>2. CASE n \notin DOMAIN as BY <1>2 DEF executeNth
<1> QED BY <1>1, <1>2

(* A handler that has begun tells nothing untrue.                          *)
LEMMA BegunTells ==
  ASSUME NEW c \in Configs, NEW poll \in BOOLEAN, NEW r0 \in Sessions, NEW r, Begun(poll, r0, r)
  PROVE  Tells(c, poll, r0, r)
BY DEF Begun, Tells, Answers, Slow, Notes, Paced

(* The transition is notified, before anything is sent.                    *)
LEMMA EnterTells ==
  ASSUME NEW c \in Configs, NEW poll \in BOOLEAN, NEW r0 \in Sessions, NEW r,
         Begun(poll, r0, r), NEW s \in States
  PROVE  Tells(c, poll, r0, enterState(c, r, s))
<1>0. r \in Sessions BY DEF Begun
<1>1. CASE s = r.cachedState
  BY <1>1, BegunTells DEF enterState
<1>2. CASE s # r.cachedState
  <2> DEFINE sc == [discr |-> c.localDiscr, oldState |-> r.cachedState,
                    newState |-> s, diag |-> r.localDiag]
  <2> DEFINE e == [r EXCEPT !.notes = Append(@, sc)]
  <2> DEFINE t == [e EXCEPT !.state = s, !.cachedState = s]
  <2>1. enterState(c, r, s) = t BY <1>2 DEF enterState, emitNotification
  <2>2. r.notes = <<>> /\ r.cachedState \in States /\ r.localDiag \in Diags
    BY <1>0 DEF Begun, Sessions
  <2>3. sc \in StateChanges BY <2>2, ConfigTypes DEF StateChanges
  <2>4. sc.discr = c.localDiscr /\ sc.newState = s OBVIOUS
  <2> HIDE DEF sc
  <2>5. Append(r.notes, sc) = <<sc>> /\ <<sc>> \in Seq(StateChanges) BY <2>2, <2>3
  <2>6. e \in Sessions BY <1>0, <2>5 DEF Sessions
  <2>7. /\ e.notes = <<sc>> /\ e.out = r.out /\ e.pendingFinal = r.pendingFinal
        /\ e.txTimer = r.txTimer
    BY <1>0, <2>5 DEF Sessions
  <2> HIDE DEF e
  <2>8. t \in Sessions BY <2>6 DEF Sessions
  <2>9. /\ t.notes = e.notes /\ t.out = e.out /\ t.pendingFinal = e.pendingFinal
        /\ t.txTimer = e.txTimer /\ t.cachedState = s
    BY <2>6 DEF Sessions
  <2> HIDE DEF t
  <2>10. /\ t.out = <<>> /\ t.pendingFinal = poll /\ t.txTimer <= r0.txTimer
         /\ t.notes = <<sc>>
    BY <2>7, <2>9 DEF Begun
  <2>11. Answers(poll, t) /\ Slow(t) /\ Paced(r0, t) BY <2>10 DEF Answers, Slow, Paced
  <2>12. Notes(c, r0, t) BY <2>3, <2>4, <2>9, <2>10 DEF Notes
  <2>13. \A i \in DOMAIN t.out : t.out[i].myDiscr = c.localDiscr BY <2>10
  <2> QED BY <2>1, <2>8, <2>11, <2>12, <2>13 DEF Tells
<1> QED BY <1>1, <1>2

(* executeFSMActions.                                                      *)
LEMMA ExecuteTells ==
  ASSUME NEW c \in Configs, NEW poll \in BOOLEAN, NEW r0 \in Sessions, NEW r,
         Begun(poll, r0, r), NEW j \in 0..25, NEW s \in States, NEW as \in Seq(Actions)
  PROVE  Tells(c, poll, r0, executeFSMActions(c, r, Into(s, as), j))
<1> DEFINE e == enterState(c, r, s)
<1> DEFINE f == executeNth(c, e, as, 1, j)
<1> DEFINE t == executeNth(c, f, as, 2, j)
<1>1. executeFSMActions(c, r, Into(s, as), j) = t BY DEF executeFSMActions, Into
<1>2. Tells(c, poll, r0, e) BY EnterTells
<1> HIDE DEF e
<1>3. Tells(c, poll, r0, f) BY <1>2, NthTells, 1 \in Nat
<1> HIDE DEF f
<1>4. Tells(c, poll, r0, t) BY <1>3, NthTells, 2 \in Nat
<1> QED BY <1>1, <1>4

(* The start of a handler owes nothing.                                    *)
LEMMA BeginBegun ==
  ASSUME NEW r \in Sessions, ~r.pendingFinal
  PROVE  /\ Begun(FALSE, r, begin(r)) /\ begin(r).txTimer = r.txTimer
         /\ begin(r).cachedState = r.cachedState
<1>1. <<>> \in Seq(PacketFields) /\ <<>> \in Seq(StateChanges) OBVIOUS
<1>2. begin(r) \in Sessions BY <1>1 DEF begin, Sessions
<1>3. /\ begin(r).out = <<>> /\ begin(r).notes = <<>> /\ begin(r).txTimer = r.txTimer
      /\ begin(r).cachedState = r.cachedState /\ begin(r).pendingFinal = r.pendingFinal
  BY DEF begin, Sessions
<1>4. r.txTimer \in Int /\ r.pendingFinal \in BOOLEAN BY DEF Sessions
<1> QED BY <1>2, <1>3, <1>4 DEF Begun

(* A received packet: a Poll that is accepted is answered by one Final.    *)
LEMMA RecvTells ==
  ASSUME NEW c \in Configs, NEW r \in Sessions, ~r.pendingFinal,
         NEW j \in 0..25, NEW p \in Packets, NEW ok \in BOOLEAN
  PROVE  LET t == handleRecvPacket(c, r, p, ok, j)
         IN  Tells(c, ok /\ p.poll, r, t) /\ ~t.pendingFinal
<1> DEFINE b == begin(r)
<1> DEFINE l == learn(b, p)
<1> DEFINE d == resetDetectTimer(c, l)
<1> DEFINE e == RecvStateToEvent(p.state)
<1> DEFINE res == ApplyEvent(d.cachedState, e)
<1> DEFINE x == executeFSMActions(c, d, res, j)
<1> DEFINE y == sendControl(c, x)
<1> DEFINE z == resetTxTimer(c, y, j)
<1>1. handleRecvPacket(c, r, p, ok, j) =
        CASE ~ok -> b
          [] ok /\ x.pendingFinal -> z
          [] ok /\ ~x.pendingFinal -> x
  BY DEF handleRecvPacket, applyFSMEvent
<1>2. Begun(FALSE, r, b) BY BeginBegun
<1>3. b \in Sessions /\ b.pendingFinal = FALSE BY <1>2 DEF Begun
<1>4. Tells(c, FALSE, r, b) BY <1>2, BegunTells
<1> HIDE DEF b
<1>5. /\ p.myDiscr \in Nat /\ p.state \in States
      /\ p.requiredMinRx \in Nat /\ p.desiredMinTx \in Nat
      /\ p.detectMult \in 0..255 /\ p.poll \in BOOLEAN
  BY DEF Packets, PacketFields
<1>6. /\ durationFromMicroseconds(p.requiredMinRx) \in Nat
      /\ durationFromMicroseconds(p.desiredMinTx) \in Nat
  BY <1>5, TimeAssumption DEF durationFromMicroseconds
<1>7. l \in Sessions BY <1>3, <1>5, <1>6 DEF learn, Sessions
<1>8. /\ l.cachedState = b.cachedState /\ l.out = b.out /\ l.notes = b.notes
      /\ l.txTimer = b.txTimer /\ l.pendingFinal = (b.pendingFinal \/ p.poll)
  BY <1>3 DEF learn, Sessions
<1> HIDE DEF l
<1>9. d \in Sessions BY <1>7, ResetTypes, 0 \in 0..25
<1>10. /\ d.cachedState = l.cachedState /\ d.out = l.out /\ d.notes = l.notes
       /\ d.txTimer = l.txTimer /\ d.pendingFinal = l.pendingFinal
  BY <1>7 DEF resetDetectTimer, Sessions
<1> HIDE DEF d
<1>11. d.pendingFinal = p.poll BY <1>3, <1>5, <1>8, <1>10
<1>12. Begun(p.poll, r, d) BY <1>2, <1>8, <1>9, <1>10, <1>11 DEF Begun
<1>13. d.cachedState \in States BY <1>9 DEF Sessions
<1>14. e \in Events BY <1>5, <1>13, HandshakeTable
<1> HIDE DEF e
<1>15. res = Into(res.newState, res.actions) /\ res.newState \in States /\ res.actions \in Seq(Actions)
  BY <1>13, <1>14, TableFacts
<1> HIDE DEF res
<1>16. PICK ns, as : ns = res.newState /\ as = res.actions OBVIOUS
<1>17. x = executeFSMActions(c, d, Into(ns, as), j) /\ ns \in States /\ as \in Seq(Actions)
  BY <1>15, <1>16
<1> HIDE DEF x
<1>18. Tells(c, p.poll, r, x) BY <1>5, <1>12, <1>17, ExecuteTells
<1>19. Tells(c, p.poll, r, y) /\ ~y.pendingFinal BY <1>5, <1>18, SendTells
<1>20. y \in Sessions BY <1>19 DEF Tells
<1> HIDE DEF y
<1>21. Tells(c, p.poll, r, z) BY <1>5, <1>19, ResetTells
<1>22. z.pendingFinal = y.pendingFinal BY <1>20 DEF resetTxTimer, Sessions
<1> HIDE DEF z
<1>23. CASE ~ok BY <1>1, <1>3, <1>4, <1>23
<1>24. CASE ok /\ x.pendingFinal BY <1>1, <1>5, <1>19, <1>21, <1>22, <1>24
<1>25. CASE ok /\ ~x.pendingFinal BY <1>1, <1>5, <1>18, <1>25
<1> QED BY <1>23, <1>24, <1>25

(* Without a Poll no Final is owed.                                        *)
LEMMA NothingOwed ==
  ASSUME NEW c, NEW r0, NEW r, Tells(c, FALSE, r0, r)
  PROVE  ~r.pendingFinal
BY DEF Tells, Answers

(* The AdminDown and PathDown commands.                                    *)
LEMMA CommandTells ==
  ASSUME NEW c \in Configs, NEW r \in Sessions, ~r.pendingFinal, NEW j \in 0..25
  PROVE  /\ Tells(c, FALSE, r, handleAdminDown(c, r, j))
         /\ Tells(c, FALSE, r, handlePathDown(c, r, j))
<1> DEFINE b == begin(r)
<1> DEFINE a == [b EXCEPT !.localDiag = "AdminDown"]
<1> DEFINE m == [b EXCEPT !.localDiag = "PathDown"]
<1> DEFINE res == ApplyEvent(r.cachedState, "AdminDown")
<1> DEFINE diag == <<"SetDiagAdminDown">>
<1> DEFINE as == Append(diag, "SendControl")
<1> DEFINE ms == <<"NotifyDown", "SendControl">>
<1> DEFINE x == executeFSMActions(c, b, Into("AdminDown", as), j)
<1> DEFINE y == executeFSMActions(c, m, Into("Down", ms), j)
<1>1. Begun(FALSE, r, b) BY BeginBegun
<1>2. b \in Sessions BY <1>1 DEF Begun
<1>3. r.cachedState \in States BY DEF Sessions
<1>4. /\ r.cachedState = "AdminDown" => res.newState = "AdminDown"
      /\ r.cachedState # "AdminDown" => res = Into("AdminDown", <<"SetDiagAdminDown">>)
  BY <1>3 DEF ApplyEvent, Into, States
<1>5. /\ r.cachedState = "AdminDown" => handleAdminDown(c, r, j) = a
      /\ r.cachedState # "AdminDown" => handleAdminDown(c, r, j) = x
  <2>1. ASSUME r.cachedState = "AdminDown" PROVE handleAdminDown(c, r, j) = a
    BY <1>4, <2>1 DEF handleAdminDown
  <2>2. ASSUME r.cachedState # "AdminDown" PROVE handleAdminDown(c, r, j) = x
    BY <1>4, <2>2 DEF handleAdminDown, Into
  <2> QED BY <2>1, <2>2
<1>6. handlePathDown(c, r, j) = IF r.cachedState \in {"Down", "AdminDown"} THEN m ELSE y
  BY DEF handlePathDown
<1> HIDE DEF b, res
<1>7. a \in Sessions /\ m \in Sessions BY <1>2 DEF Sessions, Diags
<1>8. /\ a.cachedState = b.cachedState /\ a.out = b.out /\ a.notes = b.notes
      /\ a.txTimer = b.txTimer /\ a.pendingFinal = b.pendingFinal
      /\ m.cachedState = b.cachedState /\ m.out = b.out /\ m.notes = b.notes
      /\ m.txTimer = b.txTimer /\ m.pendingFinal = b.pendingFinal
  BY <1>2 DEF Sessions
<1> HIDE DEF a, m
<1>9. Begun(FALSE, r, a) /\ Begun(FALSE, r, m)
  <2>1. /\ b.cachedState = r.cachedState /\ b.out = <<>> /\ b.notes = <<>>
        /\ b.txTimer <= r.txTimer /\ b.pendingFinal = FALSE
    BY <1>1 DEF Begun
  <2> QED BY <1>7, <1>8, <2>1 DEF Begun
<1>10. Tells(c, FALSE, r, a) /\ Tells(c, FALSE, r, m) BY <1>9, BegunTells
<1>11. diag \in Seq(Actions) /\ "SendControl" \in Actions /\ ms \in Seq(Actions)
  BY DEF Actions
<1>12. as \in Seq(Actions) BY <1>11, AppendProperties
<1>13. "AdminDown" \in States /\ "Down" \in States BY DEF States
<1> HIDE DEF as, ms, diag
<1>14. Tells(c, FALSE, r, x) BY <1>1, <1>12, <1>13, ExecuteTells
<1>15. Tells(c, FALSE, r, y) BY <1>9, <1>11, <1>13, ExecuteTells
<1> HIDE DEF x, y
<1> QED BY <1>5, <1>6, <1>10, <1>14, <1>15

(* The two timers.  The transmission timer has run out.                    *)
LEMMA TimerTells ==
  ASSUME NEW c \in Configs, NEW r \in Sessions, ~r.pendingFinal, NEW j \in 0..25
  PROVE  /\ r.txTimer = 0 => Tells(c, FALSE, r, handleTxTimer(c, r, j))
         /\ Tells(c, FALSE, r, handleDetectTimer(c, r, j))
<1> DEFINE b == begin(r)
<1> DEFINE t == [b EXCEPT !.txTimer = Off]
<1> DEFINE s == maybeSendControl(c, t)
<1> DEFINE f == [b EXCEPT !.detectTimer = Off]
<1> DEFINE res == ApplyEvent(f.cachedState, "TimerExpired")
<1> DEFINE x == executeFSMActions(c, f, res, j)
<1>1. Begun(FALSE, r, b) /\ b.txTimer = r.txTimer BY BeginBegun
<1>2. b \in Sessions BY <1>1 DEF Begun
<1>3. handleTxTimer(c, r, j) = resetTxTimer(c, s, j) BY DEF handleTxTimer
<1>4. handleDetectTimer(c, r, j) =
        IF r.cachedState \notin {"Init", "Up"} THEN resetDetectTimer(c, f) ELSE x
  BY DEF handleDetectTimer, applyFSMEvent
<1> HIDE DEF b
<1>5. Off \in Int /\ Off <= 0 BY DEF Off
<1>6. t \in Sessions /\ f \in Sessions BY <1>2, <1>5 DEF Sessions
<1>7. /\ t.cachedState = b.cachedState /\ t.out = b.out /\ t.notes = b.notes
      /\ t.txTimer = Off /\ t.pendingFinal = b.pendingFinal
      /\ f.cachedState = b.cachedState /\ f.out = b.out /\ f.notes = b.notes
      /\ f.txTimer = b.txTimer /\ f.pendingFinal = b.pendingFinal
  BY <1>2 DEF Sessions
<1> HIDE DEF t, f
<1>8. Begun(FALSE, r, f) BY <1>1, <1>6, <1>7 DEF Begun
<1>9. ASSUME r.txTimer = 0 PROVE Tells(c, FALSE, r, resetTxTimer(c, s, j))
  <2>1. Begun(FALSE, r, t) BY <1>1, <1>5, <1>6, <1>7, <1>9 DEF Begun
  <2>2. Tells(c, FALSE, r, t) BY <2>1, BegunTells
  <2>3. Tells(c, FALSE, r, s) BY <2>2, SendTells DEF maybeSendControl
  <2> HIDE DEF s
  <2> QED BY <2>3, ResetTells
<1>10. Tells(c, FALSE, r, f) BY <1>8, BegunTells
<1>11. Tells(c, FALSE, r, resetDetectTimer(c, f)) BY <1>10, ResetTells, 0 \in 0..25
<1>12. f.cachedState \in States /\ "TimerExpired" \in Events BY <1>6 DEF Sessions, Events
<1>13. res = Into(res.newState, res.actions) /\ res.newState \in States /\ res.actions \in Seq(Actions)
  BY <1>12, TableFacts
<1> HIDE DEF res
<1>14. PICK ns, as : ns = res.newState /\ as = res.actions OBVIOUS
<1>15. x = executeFSMActions(c, f, Into(ns, as), j) /\ ns \in States /\ as \in Seq(Actions)
  BY <1>13, <1>14
<1> HIDE DEF x
<1>16. Tells(c, FALSE, r, x) BY <1>8, <1>15, ExecuteTells
<1> QED BY <1>3, <1>4, <1>9, <1>11, <1>16

(* Run enters its loop with what State() shows and nothing owed.           *)
LEMMA StartLoopKeeps ==
  ASSUME NEW c \in Configs, NEW r \in Sessions, NEW j \in 0..25
  PROVE  /\ startLoop(c, r, j).cachedState = r.state
         /\ startLoop(c, r, j).pendingFinal = r.pendingFinal
         /\ startLoop(c, r, j).cachedState # "Up" => 4 * startLoop(c, r, j).txTimer >= 3 * SlowTx
<1> DEFINE b == begin(r)
<1> DEFINE m == [b EXCEPT !.cachedState = r.state]
<1> DEFINE u == resetTxTimer(c, m, j)
<1>1. startLoop(c, r, j) = resetDetectTimer(c, u) BY DEF startLoop
<1>2. <<>> \in Seq(PacketFields) /\ <<>> \in Seq(StateChanges) OBVIOUS
<1>3. b \in Sessions BY <1>2 DEF begin, Sessions
<1>4. b.pendingFinal = r.pendingFinal /\ r.state \in States BY DEF begin, Sessions
<1> HIDE DEF b
<1>5. m \in Sessions BY <1>3, <1>4 DEF Sessions
<1>6. m.cachedState = r.state /\ m.pendingFinal = b.pendingFinal BY <1>3 DEF Sessions
<1> HIDE DEF m
<1>7. u \in Sessions BY <1>5, ResetTypes
<1>8. /\ u.cachedState = m.cachedState /\ u.pendingFinal = m.pendingFinal
      /\ u.txTimer = applyJitter(calcTxInterval(c, m), j)
  BY <1>5 DEF resetTxTimer, Sessions
<1> HIDE DEF u
<1>9. /\ resetDetectTimer(c, u).cachedState = u.cachedState
      /\ resetDetectTimer(c, u).pendingFinal = u.pendingFinal
      /\ resetDetectTimer(c, u).txTimer = u.txTimer
  BY <1>7 DEF resetDetectTimer, Sessions
<1>10. m.cachedState # "Up" => 4 * applyJitter(calcTxInterval(c, m), j) >= 3 * SlowTx
  BY <1>5, SlowInterval
<1> QED BY <1>1, <1>4, <1>6, <1>8, <1>9, <1>10
-----------------------------------------------------------------------------
(* How long a session waits for its peer                                   *)

(* A session that has just heard its peer waits for the detection time it  *)
(* has agreed with it, whatever state it enters.                           *)
Armed(c, r) == /\ r \in Sessions /\ r.remoteDetectMult # 0
               /\ r.detectTimer = calcDetectionTime(c, r)

(* t waits for the peer exactly as r did.                                  *)
SameWait(r, t) == /\ t.remoteDetectMult = r.remoteDetectMult
                  /\ t.remoteDesiredMinTx = r.remoteDesiredMinTx
                  /\ t.detectTimer = r.detectTimer

(* The other fields do not enter the detection time once the peer has told *)
(* its DetectMult.                                                         *)
LEMMA SameDetection ==
  ASSUME NEW c, NEW r, NEW t, r.remoteDetectMult # 0,
         t.remoteDetectMult = r.remoteDetectMult, t.remoteDesiredMinTx = r.remoteDesiredMinTx
  PROVE  calcDetectionTime(c, t) = calcDetectionTime(c, r)
BY DEF calcDetectionTime

(* So a step that leaves these alone leaves the timer right.               *)
LEMMA ArmedKept ==
  ASSUME NEW c, NEW r, Armed(c, r), NEW t \in Sessions, SameWait(r, t)
  PROVE  Armed(c, t)
BY SameDetection DEF Armed, SameWait

(* Transmitting and pacing do not touch the detection timer; arming it is  *)
(* what makes it right.                                                    *)
LEMMA SendArmed ==
  ASSUME NEW c \in Configs, NEW r, Armed(c, r), NEW j \in 0..25
  PROVE  /\ Armed(c, sendControl(c, r)) /\ Armed(c, resetTxTimer(c, r, j))
         /\ Armed(c, resetDetectTimer(c, r))
<1>0. r \in Sessions BY DEF Armed
<1>1. sendControl(c, r) \in Sessions BY <1>0, SendType
<1>6. SameWait(r, sendControl(c, r)) BY <1>0 DEF sendControl, Sessions, SameWait
<1>2. resetTxTimer(c, r, j) \in Sessions BY <1>0, ResetTypes
<1>3. SameWait(r, resetTxTimer(c, r, j)) BY <1>0 DEF resetTxTimer, Sessions, SameWait
<1>4. resetDetectTimer(c, r) \in Sessions BY <1>0, ResetTypes
<1>5. SameWait(r, resetDetectTimer(c, r))
  BY <1>0 DEF resetDetectTimer, Sessions, SameWait, Armed
<1> QED BY <1>1, <1>6, <1>2, <1>3, <1>4, <1>5, ArmedKept

(* Every side effect.                                                      *)
LEMMA ActionArmed ==
  ASSUME NEW c \in Configs, NEW r, Armed(c, r), NEW j \in 0..25, NEW a \in Actions
  PROVE  Armed(c, executeAction(c, r, a, j))
<1>0. r \in Sessions BY DEF Armed
<1>1. CASE a = "SendControl"
  <2>1. executeAction(c, r, a, j) = resetTxTimer(c, sendControl(c, r), j)
    BY <1>1 DEF executeAction
  <2>2. Armed(c, sendControl(c, r)) BY SendArmed
  <2> QED BY <2>1, <2>2, SendArmed
<1>2. CASE a = "NotifyUp"
  <2>1. executeAction(c, r, a, j) = resetDetectTimer(c, resetTxTimer(c, r, j))
    BY <1>2 DEF executeAction
  <2>2. Armed(c, resetTxTimer(c, r, j)) BY SendArmed
  <2> QED BY <2>1, <2>2, SendArmed
<1>3. CASE a = "NotifyDown"
  <2> DEFINE f == [r EXCEPT !.remoteDiscr = 0]
  <2>1. executeAction(c, r, a, j) = resetDetectTimer(c, resetTxTimer(c, f, j))
    BY <1>3 DEF executeAction
  <2>2. f \in Sessions /\ SameWait(r, f) BY <1>0 DEF Sessions, SameWait
  <2> HIDE DEF f
  <2>3. Armed(c, f) BY <2>2, ArmedKept
  <2>4. Armed(c, resetTxTimer(c, f, j)) BY <2>3, SendArmed
  <2> QED BY <2>1, <2>4, SendArmed
<1>4. CASE a \in {"SetDiagTimeExpired", "SetDiagNeighborDown", "SetDiagAdminDown"}
  <2>1. PICK d \in Diags : executeAction(c, r, a, j) = [r EXCEPT !.localDiag = d]
    BY <1>4 DEF executeAction, Diags
  <2> DEFINE f == [r EXCEPT !.localDiag = d]
  <2>2. f \in Sessions /\ SameWait(r, f) BY <1>0 DEF Sessions, SameWait
  <2> HIDE DEF f
  <2>3. Armed(c, f) BY <2>2, ArmedKept
  <2> QED BY <2>1, <2>3 DEF f
<1> QED BY <1>1, <1>2, <1>3, <1>4 DEF Actions

(* The n-th side effect of a list, or nothing.                             *)
LEMMA NthArmed ==
  ASSUME NEW c \in Configs, NEW r, Armed(c, r), NEW j \in 0..25,
         NEW as \in Seq(Actions), NEW n \in Nat
  PROVE  Armed(c, executeNth(c, r, as, n, j))
<1>1. CASE n \in DOMAIN as
  <2>1. as[n] \in Actions BY <1>1, ElementOfSeq, LenProperties
  <2>2. executeNth(c, r, as, n, j) = executeAction(c, r, as[n], j) BY <1>1 DEF executeNth
  <2> QED BY <2>1, <2>2, ActionArmed
<1>2. CASE n \notin DOMAIN as BY <1>2 DEF executeNth
<1> QED BY <1>1, <1>2

(* The transition itself.                                                  *)
LEMMA EnterArmed ==
  ASSUME NEW c \in Configs, NEW r, Armed(c, r), NEW s \in States
  PROVE  Armed(c, enterState(c, r, s))
<1>0. r \in Sessions BY DEF Armed
<1>1. CASE s = r.cachedState BY <1>1 DEF enterState
<1>2. CASE s # r.cachedState
  <2> DEFINE sc == [discr |-> c.localDiscr, oldState |-> r.cachedState,
                    newState |-> s, diag |-> r.localDiag]
  <2> DEFINE e == [r EXCEPT !.notes = Append(@, sc)]
  <2> DEFINE t == [e EXCEPT !.state = s, !.cachedState = s]
  <2>1. enterState(c, r, s) = t BY <1>2 DEF enterState, emitNotification
  <2>2. r.notes \in Seq(StateChanges) /\ r.cachedState \in States /\ r.localDiag \in Diags
    BY <1>0 DEF Sessions
  <2>3. sc \in StateChanges BY <2>2, ConfigTypes DEF StateChanges
  <2> HIDE DEF sc
  <2>4. Append(r.notes, sc) \in Seq(StateChanges) BY <2>2, <2>3
  <2>5. e \in Sessions BY <1>0, <2>4 DEF Sessions
  <2>6. SameWait(r, e) BY <1>0 DEF Sessions, SameWait
  <2> HIDE DEF e
  <2>7. t \in Sessions /\ SameWait(e, t) BY <2>5 DEF Sessions, SameWait
  <2> HIDE DEF t
  <2>8. Armed(c, e) BY <2>5, <2>6, ArmedKept
  <2> QED BY <2>1, <2>7, <2>8, ArmedKept
<1> QED BY <1>1, <1>2

(* A packet that is accepted leaves the session waiting for exactly the    *)
(* detection time the packet negotiates.                                   *)
LEMMA RecvArmed ==
  ASSUME NEW c \in Configs, NEW r \in Sessions, NEW j \in 0..25, NEW p \in Packets
  PROVE  Armed(c, handleRecvPacket(c, r, p, TRUE, j))
<1> DEFINE b == begin(r)
<1> DEFINE l == learn(b, p)
<1> DEFINE d == resetDetectTimer(c, l)
<1> DEFINE e == RecvStateToEvent(p.state)
<1> DEFINE res == ApplyEvent(d.cachedState, e)
<1> DEFINE x == executeFSMActions(c, d, res, j)
<1>1. handleRecvPacket(c, r, p, TRUE, j) =
        IF x.pendingFinal THEN resetTxTimer(c, sendControl(c, x), j) ELSE x
  BY DEF handleRecvPacket, applyFSMEvent
<1>2. <<>> \in Seq(PacketFields) /\ <<>> \in Seq(StateChanges) OBVIOUS
<1>3. b \in Sessions BY <1>2 DEF begin, Sessions
<1> HIDE DEF b
<1>4. /\ p.myDiscr \in Nat /\ p.state \in States
      /\ p.requiredMinRx \in Nat /\ p.desiredMinTx \in Nat
      /\ p.detectMult \in 0..255 /\ p.detectMult # 0 /\ p.poll \in BOOLEAN
  BY DEF Packets, PacketFields, Decodable
<1>5. /\ durationFromMicroseconds(p.requiredMinRx) \in Nat
      /\ durationFromMicroseconds(p.desiredMinTx) \in Nat
  BY <1>4, TimeAssumption DEF durationFromMicroseconds
<1>6. l \in Sessions BY <1>3, <1>4, <1>5 DEF learn, Sessions
<1>7. l.remoteDetectMult = p.detectMult BY <1>3 DEF learn, Sessions
<1> HIDE DEF l
<1>8. d \in Sessions BY <1>6, ResetTypes, 0 \in 0..25
<1>9. /\ d.remoteDetectMult = l.remoteDetectMult
      /\ d.remoteDesiredMinTx = l.remoteDesiredMinTx
      /\ d.detectTimer = calcDetectionTime(c, l)
  BY <1>6 DEF resetDetectTimer, Sessions
<1> HIDE DEF d
<1>10. Armed(c, d) BY <1>4, <1>7, <1>8, <1>9, SameDetection DEF Armed
<1>11. d.cachedState \in States BY <1>8 DEF Sessions
<1>12. e \in Events BY <1>4, <1>11, HandshakeTable
<1> HIDE DEF e
<1>13. res.newState \in States /\ res.actions \in Seq(Actions)
  BY <1>11, <1>12, TableFacts
<1> DEFINE f == enterState(c, d, res.newState)
<1> DEFINE g == executeNth(c, f, res.actions, 1, j)
<1>14. x = executeNth(c, g, res.actions, 2, j) BY DEF executeFSMActions
<1> HIDE DEF res, x
<1>15. Armed(c, f) BY <1>10, <1>13, EnterArmed
<1> HIDE DEF f
<1>16. Armed(c, g) BY <1>13, <1>15, NthArmed, 1 \in Nat
<1> HIDE DEF g
<1>17. Armed(c, x) BY <1>13, <1>14, <1>16, NthArmed, 2 \in Nat
<1>18. Armed(c, sendControl(c, x)) BY <1>17, SendArmed
<1>19. Armed(c, resetTxTimer(c, sendControl(c, x), j)) BY <1>18, SendArmed
<1> QED BY <1>1, <1>17, <1>19

(* Our own transmissions do not lengthen the wait.                         *)
LEMMA TxTimerWaits ==
  ASSUME NEW c \in Configs, NEW r \in Sessions, NEW j \in 0..25
  PROVE  SameWait(r, handleTxTimer(c, r, j))
<1> DEFINE b == begin(r)
<1> DEFINE t == [b EXCEPT !.txTimer = Off]
<1> DEFINE s == maybeSendControl(c, t)
<1>1. handleTxTimer(c, r, j) = resetTxTimer(c, s, j) BY DEF handleTxTimer
<1>2. <<>> \in Seq(PacketFields) /\ <<>> \in Seq(StateChanges) OBVIOUS
<1>3. b \in Sessions /\ SameWait(r, b) BY <1>2 DEF begin, Sessions, SameWait
<1> HIDE DEF b
<1>4. Off \in Int BY DEF Off
<1>5. t \in Sessions /\ SameWait(b, t) BY <1>3, <1>4 DEF Sessions, SameWait
<1> HIDE DEF t
<1>6. sendControl(c, t) \in Sessions BY <1>5, SendType
<1>7. SameWait(t, sendControl(c, t)) BY <1>5 DEF sendControl, Sessions, SameWait
<1>8. s = t \/ s = sendControl(c, t) BY DEF maybeSendControl
<1> HIDE DEF s
<1>9. s \in Sessions /\ SameWait(t, s) BY <1>5, <1>6, <1>7, <1>8 DEF SameWait
<1>10. SameWait(s, resetTxTimer(c, s, j)) BY <1>9 DEF resetTxTimer, Sessions, SameWait
<1> QED BY <1>1, <1>3, <1>5, <1>9, <1>10 DEF SameWait
=============================================================================
