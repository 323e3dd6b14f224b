--------------------------- MODULE FollowerProofs ---------------------------
(***************************************************************************)
(* Proofs about the two parts of the daemon that act on what the sessions  *)
(* report.                                                                 *)
(*                                                                         *)
(* GoBgp, for any number of sessions and peers, any thresholds and queue   *)
(* size, and with every fault: the BGP peer follows the last report that   *)
(* was neither lost nor suppressed, and dampening bounds how often it is   *)
(* disabled.                                                               *)
(*                                                                         *)
(* MicroBfd, for every set of LAGs and links, every configuration and      *)
(* every capacity of the notification channel: the incremental counter of  *)
(* a group never drifts from its members, and a LAG follows the sessions   *)
(* of its links.                                                           *)
(***************************************************************************)
EXTENDS GoBgp, MicroBfd, FiniteSetTheorems, SequenceTheorems, TLAPS

-----------------------------------------------------------------------------
(* GoBgp: the inductive invariants                                         *)

(* The event i of the queue reports a failure or a recovery of p, ...      *)
Reports(i, p) == events[i].peer = p /\ events[i].newState \in {"Up", "Down"}

(* ... and no later one does.                                              *)
LastReport(i, p) == Reports(i, p) /\ \A j \in DOMAIN events : j > i => ~Reports(j, p)

(* A report the handler acts on: no session fails or recovers twice.       *)
Genuine(sc) ==
  /\ sc.newState = "Down" => sc.oldState \in {"Up", "Init"}
  /\ sc.newState = "Up" => sc.oldState # "Up"

QueueInv == \A i \in DOMAIN events : Genuine(events[i])

(* Unless something became of the last report of p, the peer is as it says *)
(* or the report is the last one of p in the queue.                        *)
Follows(p) ==
  fate[p] = "ok" =>
    \/ ~Unhandled(p) /\ peerEnabled[p] = wanted[p]
    \/ \E i \in DOMAIN events : LastReport(i, p) /\ (wanted[p] <=> events[i].newState = "Up")

FollowInv == QueueInv /\ \A p \in Peers : Follows(p)

(* Without suppression the penalty counts the times the peer was disabled  *)
(* in this half-life, but for one that ended a suppression.  A suppression *)
(* ends in a later half-life than it began.                                *)
Damped(p) ==
  /\ ~suppressed[p] => churn[p] * Down <= penalty[p] + Down /\ penalty[p] < SuppressThreshold
  /\ suppressed[p] =>
       \/ churn[p] = 0
       \/ /\ suppressedFor[p] = 0 /\ penalty[p] >= SuppressThreshold
          /\ churn[p] * Down < SuppressThreshold + Down

ChurnInv == Enabled => \A p \in Peers : Damped(p)

-----------------------------------------------------------------------------
(* Types                                                                   *)

(* fsmTable: a session leaves its state for Down only from GoBgpInit and Up.    *)
LEMMA NewStates ==
  ASSUME NEW state \in States, NEW event \in Events \ {"AdminUp"}, NEW new, NEW p,
         new = ApplyEvent(state, event).newState
  PROVE  /\ new \in States
         /\ new # state => Genuine([peer |-> p, oldState |-> state, newState |-> new])
<1> DEFINE r == ApplyEvent(state, event)
<1>1. \/ r.newState = state
      \/ state \in {"Init", "Up"} /\ r.newState = "Down"
      \/ state \in {"Down", "Init"} /\ r.newState = "Up"
      \/ r.newState \in {"Init", "AdminDown"}
  BY DEF ApplyEvent, Into, States, Events
<1> HIDE DEF r
<1>2. new = r.newState BY DEF r
<1> QED BY <1>1, <1>2 DEF States, Genuine

(* The dampener's record after a Down event, ...                           *)
LEMMA DownTyped ==
  ASSUME GoBgpTypeOK, NEW p \in Peers, NEW result \in BOOLEAN, ShouldSuppress(p, result),
         penalty[p] + Down <= MaxPenalty
  PROVE  /\ penalty' \in [Peers -> 0..MaxPenalty] /\ suppressed' \in [Peers -> BOOLEAN]
         /\ suppressedFor' \in [Peers -> 0..MaxSuppressTime]
<1>1. CASE UNCHANGED damp BY <1>1 DEF GoBgpTypeOK, damp
<1>2. ASSUME NEW n \in 0..MaxPenalty, NEW on \in BOOLEAN, Record(p, n, on)
      PROVE  /\ penalty' \in [Peers -> 0..MaxPenalty] /\ suppressed' \in [Peers -> BOOLEAN]
             /\ suppressedFor' \in [Peers -> 0..MaxSuppressTime]
  BY <1>2, GoBgpAssumption DEF GoBgpTypeOK, Record
<1>3. 0 \in 0..MaxPenalty /\ penalty[p] + Down \in 0..MaxPenalty
  BY GoBgpAssumption DEF GoBgpTypeOK
<1> QED BY <1>1, <1>2, <1>3 DEF ShouldSuppress, unsuppress

(* ... and after an Up event.                                              *)
LEMMA UpTyped ==
  ASSUME GoBgpTypeOK, NEW p \in Peers, NEW result \in BOOLEAN, ShouldSuppressUp(p, result)
  PROVE  /\ penalty' \in [Peers -> 0..MaxPenalty] /\ suppressed' \in [Peers -> BOOLEAN]
         /\ suppressedFor' \in [Peers -> 0..MaxSuppressTime]
<1>1. CASE UNCHANGED damp BY <1>1 DEF GoBgpTypeOK, damp
<1>2. CASE Record(p, 0, FALSE)
  BY <1>2, GoBgpAssumption DEF GoBgpTypeOK, Record
<1> QED BY <1>1, <1>2 DEF ShouldSuppressUp, unsuppress

(* The first event of the queue, and the queue without it.                 *)
LEMMA QueueHead ==
  ASSUME GoBgpTypeOK, events # <<>>
  PROVE  /\ events[1] \in StateChanges /\ Head(events) = events[1]
         /\ Tail(events) \in Seq(StateChanges) /\ Len(Tail(events)) = Len(events) - 1
         /\ Len(events) \in Nat /\ Len(events) > 0
         /\ \A i \in 1..Len(events) - 1 : Tail(events)[i] = events[i + 1]
<1>1. events \in Seq(StateChanges) BY DEF GoBgpTypeOK
<1>2. Len(events) \in Nat /\ Len(events) > 0 /\ DOMAIN events = 1..Len(events) BY <1>1
<1>3. events[1] \in StateChanges BY <1>1, <1>2
<1> QED BY <1>1, <1>2, <1>3

(* handleStateChange leaves one of these behind.                           *)
LEMMA HandledTyped ==
  ASSUME GoBgpTypeOK, handleStateChange
  PROVE  GoBgpTypeOK'
<1> DEFINE p == events[1].peer
<1>1. events[1] \in StateChanges /\ Head(events) = events[1] /\ p \in Peers
  BY QueueHead DEF handleStateChange, StateChanges
<1>2. events' \in Seq(StateChanges) /\ Len(events') <= QueueSize
  BY QueueHead, GoBgpAssumption DEF handleStateChange, GoBgpTypeOK
<1>3. /\ penalty' \in [Peers -> 0..MaxPenalty] /\ suppressed' \in [Peers -> BOOLEAN]
      /\ suppressedFor' \in [Peers -> 0..MaxSuppressTime]
  BY <1>1, DownTyped, UpTyped DEF handleStateChange, handleDown, handleUp, damp, GoBgpTypeOK
<1>4. /\ \/ UNCHANGED peerEnabled
         \/ \E on \in BOOLEAN : peerEnabled' = [peerEnabled EXCEPT ![p] = on]
      /\ \/ UNCHANGED fate
         \/ \E what \in {"lost", "suppressed"} :
              fate' = [fate EXCEPT ![p] = IF Superseded(p) THEN @ ELSE what]
      /\ UNCHANGED churn \/ churn' = [churn EXCEPT ![p] = @ + 1]
  BY <1>1 DEF handleStateChange, handleDown, handleUp, apply, Befalls
<1> HIDE DEF p
<1>5. peerEnabled' \in [Peers -> BOOLEAN] BY <1>4 DEF GoBgpTypeOK
<1>6. fate' \in [Peers -> {"none", "ok", "lost", "suppressed"}] BY <1>4 DEF GoBgpTypeOK
<1>7. churn' \in [Peers -> Nat]
  <2>1. churn \in [Peers -> Nat] /\ p \in Peers BY <1>1 DEF GoBgpTypeOK
  <2>2. churn[p] + 1 \in Nat BY <2>1, SMT
  <2> QED BY <1>4, <2>1, <2>2
<1>8. UNCHANGED <<sessions, wanted>> BY DEF handleStateChange
<1> QED BY <1>2, <1>3, <1>5, <1>6, <1>7, <1>8 DEF GoBgpTypeOK

(* The sessions' own steps.                                                *)
LEMMA EventTyped ==
  ASSUME GoBgpTypeOK, NEW s \in Sessions, NEW event \in Events \ {"AdminUp"}, PeerEvent(s, event)
  PROVE  GoBgpTypeOK'
<1>1. PICK new : new = ApplyEvent(sessions[s], event).newState OBVIOUS
<1>2. PICK p : p = PeerOf[s] OBVIOUS
<1>3. sessions[s] \in States /\ p \in Peers BY <1>2, GoBgpAssumption DEF PeerEvent, GoBgpTypeOK
<1>4. new \in States BY <1>1, <1>3, NewStates
<1>5. PICK sc : sc = [peer |-> p, oldState |-> sessions[s], newState |-> new] OBVIOUS
<1>6. sc \in StateChanges BY <1>3, <1>4, <1>5 DEF StateChanges
<1>7. events' = IF Len(events) < QueueSize THEN Append(events, sc) ELSE events
  BY <1>1, <1>2, <1>5 DEF PeerEvent, broadcastStateChange
<1>8. events' \in Seq(StateChanges) /\ Len(events') <= QueueSize
  BY <1>6, <1>7, GoBgpAssumption DEF GoBgpTypeOK
<1>9. sessions' \in [Sessions -> States \cup {NoSession}]
  BY <1>1, <1>4 DEF PeerEvent, GoBgpTypeOK
<1>10. wanted' \in [Peers -> BOOLEAN]
  BY <1>1, <1>2, <1>3 DEF PeerEvent, GoBgpTypeOK
<1>11. fate' \in [Peers -> {"none", "ok", "lost", "suppressed"}]
  BY <1>1, <1>2, <1>3 DEF PeerEvent, GoBgpTypeOK
<1>12. UNCHANGED <<penalty, suppressed, suppressedFor, peerEnabled, churn>>
  BY DEF PeerEvent, damp
<1> QED BY <1>8, <1>9, <1>10, <1>11, <1>12 DEF GoBgpTypeOK

(* Every step keeps the types.                                             *)
LEMMA TypeStep == GoBgpTypeOK /\ [GoBgpNext]_goBgpVars => GoBgpTypeOK'
<1> SUFFICES ASSUME GoBgpTypeOK, [GoBgpNext]_goBgpVars PROVE GoBgpTypeOK' OBVIOUS
<1>1. ASSUME NEW s \in Sessions, CreateSession(s) \/ DestroyPeerSession(s) PROVE GoBgpTypeOK'
  BY <1>1 DEF CreateSession, DestroyPeerSession, GoBgpTypeOK, damp, history, States
<1>2. ASSUME NEW s \in Sessions, NEW event \in Events \ {"AdminUp"}, PeerEvent(s, event)
      PROVE  GoBgpTypeOK'
  BY <1>2, EventTyped
<1>3. CASE Tick
  <2>1. penalty' \in [Peers -> 0..MaxPenalty] BY <1>3, GoBgpAssumption DEF Tick, GoBgpTypeOK
  <2>2. suppressedFor' \in [Peers -> 0..MaxSuppressTime]
    BY <1>3, GoBgpAssumption DEF Tick, GoBgpTypeOK
  <2>3. churn' \in [Peers -> Nat] BY <1>3 DEF Tick
  <2> QED BY <1>3, <2>1, <2>2, <2>3 DEF Tick, GoBgpTypeOK
<1>4. CASE handleStateChange BY <1>4, HandledTyped
<1>5. CASE Restart BY <1>5, GoBgpAssumption DEF Restart, GoBgpTypeOK
<1>6. CASE UNCHANGED goBgpVars BY <1>6 DEF goBgpVars, GoBgpTypeOK
<1> QED BY <1>1, <1>2, <1>3, <1>4, <1>5, <1>6 DEF GoBgpNext

(* The variables have their types (dampening.go, handler.go).              *)
THEOREM GoBgpTyped == GoBgpSpec => []GoBgpTypeOK
<1>1. GoBgpInit => GoBgpTypeOK BY GoBgpAssumption DEF GoBgpInit, GoBgpTypeOK
<1> QED BY <1>1, TypeStep, PTL DEF GoBgpSpec

-----------------------------------------------------------------------------
(* The peer follows its sessions                                           *)

(* GoBgpInit: no report was made.                                               *)
LEMMA FollowInit == GoBgpInit => FollowInv
BY DEF GoBgpInit, FollowInv, QueueInv, Follows

(* broadcastStateChange: with room, the report becomes the last of its     *)
(* peer; without, the queue stays as it is.                                *)
LEMMA EventFollows ==
  ASSUME GoBgpTypeOK, FollowInv, NEW s \in Sessions, NEW event \in Events \ {"AdminUp"},
         PeerEvent(s, event)
  PROVE  FollowInv'
<1>1. PICK new : new = ApplyEvent(sessions[s], event).newState OBVIOUS
<1>2. PICK p : p = PeerOf[s] OBVIOUS
<1>3. sessions[s] \in States /\ p \in Peers BY <1>2, GoBgpAssumption DEF PeerEvent, GoBgpTypeOK
<1>4. PICK sc : sc = [peer |-> p, oldState |-> sessions[s], newState |-> new] OBVIOUS
<1>5. sc.peer = p /\ sc.newState = new BY <1>4
<1>6. new \in States /\ sc \in StateChanges BY <1>1, <1>3, <1>4, NewStates DEF StateChanges
<1>7. new # sessions[s] BY <1>1 DEF PeerEvent
<1>8. Genuine(sc) BY <1>1, <1>3, <1>4, <1>7, NewStates
<1>9. UNCHANGED peerEnabled BY DEF PeerEvent
<1>10. events \in Seq(StateChanges) /\ Len(events) \in Nat /\ DOMAIN events = 1..Len(events)
  BY DEF GoBgpTypeOK
<1>11. /\ wanted' = [wanted EXCEPT ![p] = IF new \in {"Up", "Down"} THEN new = "Up" ELSE @]
       /\ \A q \in Peers : q # p => fate'[q] = fate[q]
       /\ new \notin {"Up", "Down"} => fate'[p] = fate[p]
       /\ new \in {"Up", "Down"} /\ ~(Len(events) < QueueSize) => fate'[p] = "lost"
  BY <1>1, <1>2, <1>3 DEF PeerEvent, GoBgpTypeOK
<1>12. wanted \in [Peers -> BOOLEAN] BY DEF GoBgpTypeOK
<1>13. /\ \A q \in Peers : q # p => wanted'[q] = wanted[q]
       /\ new \notin {"Up", "Down"} => wanted'[p] = wanted[p]
       /\ new \in {"Up", "Down"} => wanted'[p] = (new = "Up")
  BY <1>3, <1>11, <1>12
<1>14. CASE ~(Len(events) < QueueSize)
  <2>1. UNCHANGED events BY <1>1, <1>2, <1>14 DEF PeerEvent, broadcastStateChange
  <2>2. QueueInv' BY <2>1 DEF FollowInv, QueueInv
  <2>3. ASSUME NEW q \in Peers PROVE Follows(q)'
    <3>1. Follows(q) BY DEF FollowInv
    <3>2. CASE q = p /\ new \in {"Up", "Down"} BY <1>11, <1>14, <3>2 DEF Follows
    <3>3. CASE ~(q = p /\ new \in {"Up", "Down"})
      <4>1. fate'[q] = fate[q] /\ wanted'[q] = wanted[q] BY <1>11, <1>13, <3>3
      <4> QED BY <1>9, <2>1, <3>1, <4>1 DEF Follows, Unhandled, LastReport, Reports
    <3> QED BY <3>2, <3>3
  <2> QED BY <2>2, <2>3 DEF FollowInv
<1>15. CASE Len(events) < QueueSize
  <2>0. PICK n : n = Len(events) + 1 OBVIOUS
  <2>1. events' = Append(events, sc)
    BY <1>1, <1>2, <1>4, <1>15 DEF PeerEvent, broadcastStateChange
  <2>2. /\ DOMAIN events' = 1..n /\ n \in Nat /\ events'[n] = sc
        /\ \A i \in DOMAIN events : events'[i] = events[i]
        /\ DOMAIN events' = DOMAIN events \cup {n}
        /\ \A i \in DOMAIN events : i < n /\ i \in Nat /\ ~(i > n) /\ n > i
        /\ ~(n > n)
    BY <1>6, <1>10, <2>0, <2>1
  <2>3. QueueInv' BY <1>8, <2>2 DEF FollowInv, QueueInv
  <2>4. ASSUME NEW q \in Peers PROVE Follows(q)'
    <3>1. Follows(q) BY DEF FollowInv
    <3>2. CASE q = p /\ new \in {"Up", "Down"}
      <4>1. Reports(n, q)' BY <1>5, <2>2, <3>2 DEF Reports
      <4>2. \A j \in DOMAIN events' : ~(j > n) BY <2>2
      <4>3. LastReport(n, q)' BY <2>2, <4>1, <4>2 DEF LastReport
      <4>4. wanted'[q] <=> events'[n].newState = "Up" BY <1>5, <1>13, <2>2, <3>2
      <4> QED BY <2>2, <4>3, <4>4 DEF Follows
    <3>3. CASE ~(q = p /\ new \in {"Up", "Down"})
      <4>1. fate'[q] = fate[q] /\ wanted'[q] = wanted[q] /\ peerEnabled'[q] = peerEnabled[q]
        BY <1>9, <1>11, <1>13, <3>3
      <4>2. ~Reports(n, q)' BY <1>5, <2>2, <3>3 DEF Reports
      <4>3. \A i \in DOMAIN events : Reports(i, q)' <=> Reports(i, q) BY <2>2 DEF Reports
      <4>4. Unhandled(q)' => Unhandled(q)
        BY <2>2, <4>2, <4>3 DEF Unhandled, Reports
      <4>5. ASSUME NEW i \in DOMAIN events, LastReport(i, q) PROVE LastReport(i, q)'
        BY <2>2, <4>2, <4>3, <4>5 DEF LastReport
      <4>6. \A i \in DOMAIN events : i \in DOMAIN events' /\ events'[i] = events[i] BY <2>2
      <4> QED BY <3>1, <4>1, <4>4, <4>5, <4>6 DEF Follows
    <3> QED BY <3>2, <3>3
  <2> QED BY <2>3, <2>4 DEF FollowInv
<1> QED BY <1>14, <1>15

(* The queue behind its head.                                              *)
LEMMA QueueShift ==
  ASSUME GoBgpTypeOK, events # <<>>, events' = Tail(events)
  PROVE  /\ 1 \in DOMAIN events
         /\ \A i \in DOMAIN events' : i \in Nat /\ i + 1 \in DOMAIN events /\ i + 1 > 1
                                       /\ i + 1 # 1 /\ events'[i] = events[i + 1]
         /\ \A i \in DOMAIN events : i # 1 => i \in Nat /\ i > 1 /\ i - 1 \in DOMAIN events' /\ (i - 1) + 1 = i
         /\ \A i, j \in DOMAIN events' : j > i => j + 1 > i + 1
<1>1. events \in Seq(StateChanges) /\ events' \in Seq(StateChanges)
  BY QueueHead DEF GoBgpTypeOK
<1>2. /\ DOMAIN events = 1..Len(events) /\ DOMAIN events' = 1..Len(events) - 1
      /\ Len(events) \in Nat /\ Len(events) > 0
  BY <1>1, QueueHead
<1>3. \A i \in 1..Len(events) - 1 : events'[i] = events[i + 1] BY QueueHead
<1> QED BY <1>2, <1>3, SMT

(* What handleStateChange does for the peer of the event it takes, when no *)
(* later report of that peer is queued: the peer is as the report says, or *)
(* the report was lost or suppressed.                                      *)
LEMMA HandledLast ==
  ASSUME GoBgpTypeOK, handleStateChange, NEW p \in Peers, p = events[1].peer,
         Genuine(events[1]), events[1].newState \in {"Up", "Down"}, ~Superseded(p)
  PROVE  fate'[p] = "ok" => peerEnabled'[p] = (events[1].newState = "Up")
<1>1. Head(events) = events[1] BY QueueHead DEF handleStateChange
<1>2. peerEnabled \in [Peers -> BOOLEAN] /\ fate \in [Peers -> {"none", "ok", "lost", "suppressed"}]
  BY DEF GoBgpTypeOK
<1>3. ASSUME NEW what \in {"lost", "suppressed"}, Befalls(p, what) PROVE fate'[p] # "ok"
  BY <1>2, <1>3 DEF Befalls
<1>4. ASSUME NEW on \in BOOLEAN, apply(p, on) PROVE fate'[p] = "ok" => peerEnabled'[p] = on
  BY <1>2, <1>3, <1>4 DEF apply
<1>5. CASE events[1].newState = "Down"
  <2>1. handleDown(p)
    BY <1>1, <1>5 DEF handleStateChange, Genuine, isTransitionToDown, isTransitionToUp
  <2> QED BY <1>3, <1>4, <1>5, <2>1 DEF handleDown
<1>6. CASE events[1].newState = "Up"
  <2>1. handleUp(p)
    BY <1>1, <1>6 DEF handleStateChange, Genuine, isTransitionToDown, isTransitionToUp
  <2> QED BY <1>3, <1>4, <1>6, <2>1 DEF handleUp
<1> QED BY <1>5, <1>6

(* For every other peer, and for its own when a later report is queued or  *)
(* the event is no report, the last report stays what it was.              *)
LEMMA HandledOther ==
  ASSUME GoBgpTypeOK, handleStateChange, NEW q \in Peers, ~Reports(1, q)
  PROVE  fate'[q] = fate[q] /\ peerEnabled'[q] = peerEnabled[q]
<1>1. Head(events) = events[1] /\ events[1] \in StateChanges BY QueueHead DEF handleStateChange
<1>2. peerEnabled \in [Peers -> BOOLEAN] /\ fate \in [Peers -> {"none", "ok", "lost", "suppressed"}]
  BY DEF GoBgpTypeOK
<1>3. CASE events[1].newState \notin {"Up", "Down"}
  BY <1>1, <1>3 DEF handleStateChange, isTransitionToDown, isTransitionToUp
<1>4. CASE events[1].peer # q
  BY <1>1, <1>2, <1>4 DEF handleStateChange, handleDown, handleUp, apply, Befalls
<1> QED BY <1>3, <1>4 DEF Reports

(* A superseded report leaves fate alone.                                  *)
LEMMA HandledSuperseded ==
  ASSUME GoBgpTypeOK, handleStateChange, Superseded(events[1].peer)
  PROVE  fate' = fate
<1>1. Head(events) = events[1] BY QueueHead DEF handleStateChange
<1>2. fate \in [Peers -> {"none", "ok", "lost", "suppressed"}] BY DEF GoBgpTypeOK
<1>3. [fate EXCEPT ![events[1].peer] = fate[events[1].peer]] = fate BY <1>2
<1> QED BY <1>1, <1>3 DEF handleStateChange, handleDown, handleUp, apply, Befalls

(* No handling makes a lost or suppressed report good.                     *)
LEMMA HandledFate ==
  ASSUME GoBgpTypeOK, handleStateChange, NEW p \in Peers, p = events[1].peer, fate'[p] = "ok"
  PROVE  fate[p] = "ok"
<1>1. Head(events) = events[1] BY QueueHead DEF handleStateChange
<1>2. fate \in [Peers -> {"none", "ok", "lost", "suppressed"}] BY DEF GoBgpTypeOK
<1>3. ASSUME NEW what \in {"lost", "suppressed"}, Befalls(p, what) PROVE fate[p] = "ok"
  BY <1>2, <1>3 DEF Befalls
<1> QED BY <1>1, <1>3 DEF handleStateChange, handleDown, handleUp, apply

(* handleStateChange keeps the peer following.                             *)
LEMMA HandledFollows ==
  ASSUME GoBgpTypeOK, FollowInv, handleStateChange
  PROVE  FollowInv'
<1>1. events # <<>> /\ events' = Tail(events) /\ UNCHANGED wanted BY DEF handleStateChange
<1>2. QueueInv' BY <1>1, QueueShift DEF FollowInv, QueueInv
<1>3. ASSUME NEW q \in Peers PROVE Follows(q)'
  <2>1. Follows(q) BY DEF FollowInv
  <2>2. \A i \in DOMAIN events' : Reports(i, q)' <=> Reports(i + 1, q)
    BY <1>1, QueueShift DEF Reports
  <2>3. ASSUME NEW i \in DOMAIN events, i # 1, LastReport(i, q) PROVE LastReport(i - 1, q)'
    <3>1. i - 1 \in DOMAIN events' /\ (i - 1) + 1 = i BY <1>1, <2>3, QueueShift
    <3>2. Reports(i - 1, q)' BY <2>2, <2>3, <3>1 DEF LastReport
    <3>3. ASSUME NEW j \in DOMAIN events', j > i - 1 PROVE ~Reports(j, q)'
      <4>1. j + 1 \in DOMAIN events /\ j + 1 > i BY <1>1, <3>1, <3>3, QueueShift
      <4> QED BY <2>2, <2>3, <4>1 DEF LastReport
    <3> QED BY <3>2, <3>3 DEF LastReport
  <2>4. ASSUME NEW i \in DOMAIN events, i # 1, LastReport(i, q), wanted[q] <=> events[i].newState = "Up"
        PROVE  Follows(q)'
    <3>1. i - 1 \in DOMAIN events' /\ events'[i - 1] = events[i] BY <1>1, <2>4, QueueShift
    <3> QED BY <1>1, <2>3, <2>4, <3>1 DEF Follows
  <2>5. CASE ~Reports(1, q)
    <3>1. fate'[q] = fate[q] /\ peerEnabled'[q] = peerEnabled[q] BY <2>5, HandledOther
    <3>2. Unhandled(q)' => Unhandled(q)
      BY <1>1, <2>2, QueueShift DEF Unhandled, Reports
    <3>3. \A i \in DOMAIN events : LastReport(i, q) => i # 1 BY <2>5 DEF LastReport
    <3> QED BY <1>1, <2>1, <2>4, <3>1, <3>2, <3>3 DEF Follows
  <2>6. CASE Reports(1, q) /\ Superseded(q)
    <3>1. fate' = fate BY <2>6, HandledSuperseded DEF Reports
    <3>2. Unhandled(q) BY <1>1, <2>6, QueueShift DEF Unhandled, Reports
    <3>3. \A i \in DOMAIN events : LastReport(i, q) => i # 1
      <4>1. PICK k \in 2..Len(events) : Reports(k, q) BY <2>6 DEF Superseded, Reports
      <4>2. k \in DOMAIN events /\ k > 1 BY <4>1 DEF GoBgpTypeOK
      <4> QED BY <4>1, <4>2 DEF LastReport
    <3>4. CASE fate[q] # "ok" BY <3>1, <3>4 DEF Follows
    <3> QED BY <2>1, <2>4, <3>2, <3>3, <3>4 DEF Follows
  <2>7. CASE Reports(1, q) /\ ~Superseded(q)
    <3>1. 1 \in DOMAIN events /\ Genuine(events[1]) BY <1>1, QueueShift DEF FollowInv, QueueInv
    <3>2. fate'[q] = "ok" => peerEnabled'[q] = (events[1].newState = "Up")
      BY <2>7, <3>1, HandledLast DEF Reports
    <3>3. \A i \in DOMAIN events : Reports(i, q) => i = 1
      BY <2>7 DEF Superseded, Reports, GoBgpTypeOK
    <3>4. ~Unhandled(q)'
      BY <1>1, <2>2, <3>3, QueueShift DEF Unhandled, Reports
    <3>5. Unhandled(q) BY <2>7, <3>1 DEF Unhandled, Reports
    <3>6. fate'[q] = "ok" => fate[q] = "ok"
      BY <2>7, HandledFate DEF Reports
    <3>7. fate[q] = "ok" => (wanted[q] <=> events[1].newState = "Up")
      BY <2>1, <3>3, <3>5 DEF Follows, LastReport
    <3>8. wanted[q] \in BOOLEAN BY DEF GoBgpTypeOK
    <3> QED BY <1>1, <3>2, <3>4, <3>6, <3>7, <3>8 DEF Follows
  <2> QED BY <2>5, <2>6, <2>7
<1> QED BY <1>2, <1>3 DEF FollowInv

(* Every step keeps the peers following.                                   *)
LEMMA FollowStep == GoBgpTypeOK /\ FollowInv /\ [GoBgpNext]_goBgpVars => FollowInv'
<1> SUFFICES ASSUME GoBgpTypeOK, FollowInv, [GoBgpNext]_goBgpVars PROVE FollowInv' OBVIOUS
<1>1. CASE UNCHANGED <<events, peerEnabled, wanted, fate>>
  BY <1>1 DEF FollowInv, QueueInv, Follows, Unhandled, LastReport, Reports
<1>2. CASE Restart BY <1>2 DEF Restart, FollowInv, QueueInv, Follows
<1>3. ASSUME NEW s \in Sessions, NEW event \in Events \ {"AdminUp"}, PeerEvent(s, event)
      PROVE  FollowInv'
  BY <1>3, EventFollows
<1>4. CASE handleStateChange BY <1>4, HandledFollows
<1>5. ASSUME NEW s \in Sessions, CreateSession(s) \/ DestroyPeerSession(s)
      PROVE  UNCHANGED <<events, peerEnabled, wanted, fate>>
  BY <1>5 DEF CreateSession, DestroyPeerSession, history
<1>6. Tick => UNCHANGED <<events, peerEnabled, wanted, fate>> BY DEF Tick
<1>7. UNCHANGED goBgpVars => UNCHANGED <<events, peerEnabled, wanted, fate>> BY DEF goBgpVars
<1> QED BY <1>1, <1>2, <1>3, <1>4, <1>5, <1>6, <1>7 DEF GoBgpNext

(* Dropped events, failed calls, restarts and suppression included, the    *)
(* BGP peer is enabled exactly when the last report that got through was a *)
(* recovery (PeerFollows).                                                 *)
THEOREM PeerAlwaysFollows == GoBgpSpec => []PeerFollows
<1>1. GoBgpInit => GoBgpTypeOK BY GoBgpAssumption DEF GoBgpInit, GoBgpTypeOK
<1>2. FollowInv => PeerFollows
  BY DEF FollowInv, Follows, PeerFollows, Unhandled, LastReport, Reports
<1> QED BY <1>1, <1>2, FollowInit, FollowStep, TypeStep, PTL DEF GoBgpSpec

-----------------------------------------------------------------------------
(* Dampening bounds the churn                                              *)

(* GoBgpInit: nothing was disabled.                                             *)
LEMMA ChurnInit == GoBgpTypeOK /\ GoBgpInit => ChurnInv
<1> SUFFICES ASSUME GoBgpTypeOK, GoBgpInit, NEW p \in Peers, Enabled PROVE Damped(p) BY DEF ChurnInv
<1>1. churn[p] = 0 /\ penalty[p] = 0 /\ suppressed[p] = FALSE BY DEF GoBgpInit
<1>2. SuppressThreshold \in Nat /\ SuppressThreshold > 0 /\ Down \in Nat
  BY GoBgpAssumption
<1> QED BY <1>1, <1>2, SMT DEF Damped

(* The record of a peer nothing was done to.                               *)
LEMMA DampedStays ==
  ASSUME NEW p \in Peers, Damped(p), churn'[p] = churn[p], penalty'[p] = penalty[p],
         suppressed'[p] = suppressed[p], suppressedFor'[p] = suppressedFor[p]
  PROVE  Damped(p)'
BY DEF Damped

(* decayPenalty: a new half-life begins with no churn.                     *)
LEMMA TickDamps == ASSUME GoBgpTypeOK, ChurnInv, Tick PROVE ChurnInv'
<1> SUFFICES ASSUME NEW p \in Peers, Enabled PROVE Damped(p)' BY DEF ChurnInv
<1>1. /\ churn'[p] = 0 /\ penalty'[p] = penalty[p] \div 2 /\ suppressed'[p] = suppressed[p]
  BY DEF Tick
<1>2. penalty[p] \in Nat /\ Down \in Nat /\ SuppressThreshold \in Nat
  BY GoBgpAssumption DEF GoBgpTypeOK
<1>3. ~suppressed[p] => penalty[p] < SuppressThreshold BY DEF ChurnInv, Damped
<1>4. penalty[p] \div 2 \in Nat /\ penalty[p] \div 2 <= penalty[p] BY <1>2, SMT
<1>5. 0 * Down = 0 BY <1>2, SMT
<1> QED BY <1>1, <1>2, <1>3, <1>4, <1>5, SMT DEF Damped

(* ShouldSuppress lets a Down event through or holds it back.              *)
LEMMA DownDamps ==
  ASSUME GoBgpTypeOK, Enabled, MaxSuppressTime > 0, NEW p \in Peers, Damped(p), handleDown(p)
  PROVE  Damped(p)'
<1>1. /\ churn[p] \in Nat /\ penalty[p] \in Nat /\ Down \in Nat /\ Down > 0
      /\ SuppressThreshold \in Nat /\ SuppressThreshold > 0
      /\ suppressedFor[p] \in Nat /\ suppressed[p] \in BOOLEAN
  BY GoBgpAssumption DEF GoBgpTypeOK
<1>2. ASSUME NEW n, NEW on \in BOOLEAN, Record(p, n, on)
      PROVE  /\ penalty'[p] = n /\ suppressed'[p] = on
             /\ suppressedFor'[p] = IF on /\ suppressed[p] THEN suppressedFor[p] ELSE 0
  BY <1>2 DEF Record, GoBgpTypeOK
<1>3. (churn[p] + 1) * Down = churn[p] * Down + Down /\ churn[p] * Down \in Nat
  <2>1. \A c, d \in Nat : (c + 1) * d = c * d + d /\ c * d \in Nat BY SMT
  <2> QED BY <1>1, <2>1
<1>4. CASE ShouldSuppress(p, TRUE) /\ UNCHANGED churn
  <2>1. /\ ~Overdue(p) /\ Record(p, penalty[p] + Down, TRUE)
        /\ suppressed[p] \/ penalty[p] + Down >= SuppressThreshold
    BY <1>4 DEF ShouldSuppress
  <2>2. /\ penalty'[p] = penalty[p] + Down /\ suppressed'[p] = TRUE
        /\ suppressedFor'[p] = IF suppressed[p] THEN suppressedFor[p] ELSE 0
    BY <1>2, <2>1
  <2>3. churn'[p] = churn[p] BY <1>4
  <2>4. CASE suppressed[p]
    <3>1. \/ churn[p] = 0
          \/ /\ suppressedFor[p] = 0 /\ penalty[p] >= SuppressThreshold
             /\ churn[p] * Down < SuppressThreshold + Down
      BY <2>4 DEF Damped
    <3>2. suppressedFor'[p] = suppressedFor[p] BY <2>2, <2>4
    <3>3. penalty[p] >= SuppressThreshold => penalty[p] + Down >= SuppressThreshold BY <1>1, SMT
    <3> QED BY <2>2, <2>3, <3>1, <3>2, <3>3 DEF Damped
  <2>5. CASE ~suppressed[p]
    <3>1. churn[p] * Down <= penalty[p] + Down /\ penalty[p] < SuppressThreshold
      BY <2>5 DEF Damped
    <3>2. churn[p] * Down < SuppressThreshold + Down BY <1>1, <1>3, <3>1, SMT
    <3>3. suppressedFor'[p] = 0 /\ penalty[p] + Down >= SuppressThreshold BY <2>1, <2>2, <2>5
    <3> QED BY <2>2, <2>3, <3>2, <3>3 DEF Damped
  <2> QED BY <2>4, <2>5
<1>5. CASE ShouldSuppress(p, FALSE) /\ churn' = [churn EXCEPT ![p] = @ + 1]
  <2>1. churn'[p] = churn[p] + 1 BY <1>5 DEF GoBgpTypeOK
  <2>2. CASE Overdue(p)
    <3>1. Record(p, 0, FALSE) BY <1>5, <2>2 DEF ShouldSuppress, unsuppress
    <3>2. penalty'[p] = 0 /\ suppressed'[p] = FALSE BY <1>2, <3>1
    <3>3. suppressed[p] /\ suppressedFor[p] # 0
      BY <1>1, <2>2, GoBgpAssumption, SMT DEF Overdue
    <3>4. churn[p] = 0 BY <3>3 DEF Damped
    <3>5. churn'[p] * Down <= penalty'[p] + Down BY <1>1, <2>1, <3>2, <3>4, SMT
    <3> QED BY <1>1, <3>2, <3>5, SMT, SMTT(60) DEF Damped
  <2>3. CASE ~Overdue(p)
    <3>1. ~suppressed[p] /\ ~(penalty[p] + Down >= SuppressThreshold)
          /\ Record(p, penalty[p] + Down, FALSE)
      BY <1>1, <1>5, <2>3 DEF ShouldSuppress
    <3>2. penalty'[p] = penalty[p] + Down /\ suppressed'[p] = FALSE BY <1>2, <3>1
    <3>3. churn[p] * Down <= penalty[p] + Down BY <3>1 DEF Damped
    <3>4. churn'[p] * Down <= penalty'[p] + Down BY <1>1, <1>3, <2>1, <3>2, <3>3, SMT
    <3>5. penalty'[p] < SuppressThreshold BY <1>1, <3>1, <3>2, SMT
    <3> QED BY <3>2, <3>4, <3>5 DEF Damped
  <2> QED BY <2>2, <2>3
<1> QED BY <1>4, <1>5 DEF handleDown

(* ShouldSuppressUp ends a suppression only in a later half-life.          *)
LEMMA UpDamps ==
  ASSUME GoBgpTypeOK, Enabled, MaxSuppressTime > 0, NEW p \in Peers, Damped(p),
         handleUp(p), UNCHANGED churn
  PROVE  Damped(p)'
<1>1. /\ churn[p] \in Nat /\ penalty[p] \in Nat /\ Down \in Nat
      /\ SuppressThreshold \in Nat /\ SuppressThreshold > 0 /\ ReuseThreshold \in Nat
      /\ ReuseThreshold < SuppressThreshold
      /\ suppressedFor[p] \in Nat /\ suppressed[p] \in BOOLEAN
  BY GoBgpAssumption DEF GoBgpTypeOK
<1>2. CASE UNCHANGED damp BY <1>2, DampedStays DEF damp
<1>3. CASE unsuppress(p) /\ suppressed[p] /\ (Overdue(p) \/ penalty[p] < ReuseThreshold)
  <2>1. penalty'[p] = 0 /\ suppressed'[p] = FALSE BY <1>3 DEF unsuppress, Record, GoBgpTypeOK
  <2>2. suppressedFor[p] # 0 \/ penalty[p] < SuppressThreshold
    BY <1>1, <1>3, GoBgpAssumption, SMT DEF Overdue
  <2>3. ~(penalty[p] < SuppressThreshold /\ penalty[p] >= SuppressThreshold) BY <1>1, SMT
  <2>4. churn[p] = 0 BY <1>3, <2>2, <2>3 DEF Damped
  <2>5. churn'[p] * Down <= penalty'[p] + Down BY <1>1, <2>1, <2>4, SMT
  <2> QED BY <1>1, <2>1, <2>5, SMT DEF Damped
<1> QED BY <1>2, <1>3 DEF handleUp, ShouldSuppressUp

(* handleStateChange: the dampener counts for one peer and leaves the      *)
(* records of the others alone.                                            *)
LEMMA HandledDamps ==
  ASSUME GoBgpTypeOK, ChurnInv, MaxSuppressTime > 0, handleStateChange
  PROVE  ChurnInv'
<1> SUFFICES ASSUME NEW q \in Peers, Enabled PROVE Damped(q)' BY DEF ChurnInv
<1>1. Damped(q) BY DEF ChurnInv
<1>2. PICK p : p = Head(events).peer OBVIOUS
<1>3. p \in Peers BY <1>2, QueueHead DEF handleStateChange, StateChanges
<1>4. CASE UNCHANGED <<damp, churn>> BY <1>1, <1>4, DampedStays DEF damp
<1>5. CASE handleDown(p)
  <2>1. CASE q = p BY <1>1, <1>5, <2>1, DownDamps
  <2>2. CASE q # p
    <3>1. /\ churn'[q] = churn[q] /\ penalty'[q] = penalty[q]
          /\ suppressed'[q] = suppressed[q] /\ suppressedFor'[q] = suppressedFor[q]
      BY <1>5, <2>2 DEF handleDown, ShouldSuppress, unsuppress, Record, damp, GoBgpTypeOK
    <3> QED BY <1>1, <3>1, DampedStays
  <2> QED BY <2>1, <2>2
<1>6. CASE handleUp(p) /\ UNCHANGED churn
  <2>1. CASE q = p BY <1>1, <1>6, <2>1, UpDamps
  <2>2. CASE q # p
    <3>1. /\ churn'[q] = churn[q] /\ penalty'[q] = penalty[q]
          /\ suppressed'[q] = suppressed[q] /\ suppressedFor'[q] = suppressedFor[q]
      BY <1>6, <2>2 DEF handleUp, ShouldSuppressUp, unsuppress, Record, damp, GoBgpTypeOK
    <3> QED BY <1>1, <3>1, DampedStays
  <2> QED BY <2>1, <2>2
<1> QED BY <1>2, <1>4, <1>5, <1>6 DEF handleStateChange

(* Every step keeps the dampener's account.                                *)
LEMMA ChurnStep ==
  ASSUME MaxSuppressTime > 0
  PROVE  GoBgpTypeOK /\ ChurnInv /\ [GoBgpNext]_goBgpVars => ChurnInv'
<1> SUFFICES ASSUME GoBgpTypeOK, ChurnInv, [GoBgpNext]_goBgpVars PROVE ChurnInv' OBVIOUS
<1>1. CASE UNCHANGED <<damp, churn>> BY <1>1 DEF ChurnInv, Damped, damp
<1>2. ASSUME NEW s \in Sessions, CreateSession(s) \/ DestroyPeerSession(s)
      PROVE  UNCHANGED <<damp, churn>>
  BY <1>2 DEF CreateSession, DestroyPeerSession, history
<1>3. ASSUME NEW s \in Sessions, NEW event, PeerEvent(s, event)
      PROVE  UNCHANGED <<damp, churn>>
  BY <1>3 DEF PeerEvent
<1>4. CASE Tick BY <1>4, TickDamps
<1>5. CASE handleStateChange BY <1>5, HandledDamps
<1>6. CASE Restart
  <2>1. GoBgpTypeOK' BY TypeStep
  <2> SUFFICES ASSUME NEW p \in Peers, Enabled PROVE Damped(p)' BY DEF ChurnInv
  <2>2. churn'[p] = 0 /\ penalty'[p] = 0 /\ suppressed'[p] = FALSE BY <1>6 DEF Restart
  <2>3. SuppressThreshold \in Nat /\ SuppressThreshold > 0 /\ Down \in Nat
    BY GoBgpAssumption
  <2> QED BY <2>2, <2>3, SMT DEF Damped
<1>7. UNCHANGED goBgpVars => UNCHANGED <<damp, churn>> BY DEF goBgpVars, damp
<1> QED BY <1>1, <1>2, <1>3, <1>4, <1>5, <1>6, <1>7 DEF GoBgpNext

(* However the sessions flap and whatever the thresholds, dampening bounds *)
(* how often a peer is disabled in a half-life (ChurnBounded), if the      *)
(* maximum suppression time is at least one half-life.                     *)
THEOREM ChurnAlwaysBounded ==
  ASSUME MaxSuppressTime > 0
  PROVE  GoBgpSpec => []ChurnBounded
<1>1. GoBgpInit => GoBgpTypeOK BY GoBgpAssumption DEF GoBgpInit, GoBgpTypeOK
<1>2. GoBgpTypeOK /\ ChurnInv => ChurnBounded
  <2> SUFFICES ASSUME GoBgpTypeOK, ChurnInv, Enabled, NEW p \in Peers
               PROVE  (churn[p] - 1) * Down < SuppressThreshold
    BY DEF ChurnBounded
  <2>1. Damped(p) BY DEF ChurnInv
  <2>2. /\ churn[p] \in Nat /\ penalty[p] \in Nat /\ Down \in Nat
        /\ SuppressThreshold \in Nat /\ SuppressThreshold > 0
    BY GoBgpAssumption DEF GoBgpTypeOK
  <2>3. (churn[p] - 1) * Down = churn[p] * Down - Down /\ churn[p] * Down \in Nat
    <3>1. \A c, d \in Nat : (c - 1) * d = c * d - d /\ c * d \in Nat BY SMT
    <3> QED BY <2>2, <3>1
  <2>4. churn[p] = 0 => churn[p] * Down = 0 BY <2>2, SMT
  <2>5. churn[p] * Down < SuppressThreshold + Down
    BY <2>1, <2>2, <2>3, <2>4, SMT DEF Damped
  <2> QED BY <2>2, <2>3, <2>5, SMT
<1>3. GoBgpInit => ChurnInv BY <1>1, ChurnInit
<1> QED BY <1>1, <1>2, <1>3, ChurnStep, TypeStep, PTL DEF GoBgpSpec

-----------------------------------------------------------------------------
(* MicroBfd: the counters of a group                                       *)

UpMembers(g) == {l \in Links : g.members[l] = "Up"}

Counted(g) ==
  /\ g.upCount = Cardinality(UpMembers(g))
  /\ g.aggregateUp = (g.upCount >= g.minActive)

One(state) == IF state = "Up" THEN 1 ELSE 0

(* Setting the state of one member and moving the counter by the           *)
(* difference keeps the group counted: what UpdateMemberState, AddMember   *)
(* and RemoveMember have in common.                                        *)
LEMMA MemberSet ==
  ASSUME NEW g \in Groups, Counted(g), NEW l \in Links, NEW s \in States \cup {Absent},
         NEW n, n = g.upCount + One(s) - One(g.members[l])
  PROVE  /\ WithCount([g EXCEPT !.members[l] = s], n) \in Groups
         /\ Counted(WithCount([g EXCEPT !.members[l] = s], n))
<1> DEFINE m == [g.members EXCEPT ![l] = s]
           h == WithCount([g EXCEPT !.members[l] = s], n)
           U == UpMembers(g)
<1>1. /\ g.members \in [Links -> States \cup {Absent}] /\ g.minActive \in Nat
      /\ g.upCount \in Int /\ g.aggregateUp \in BOOLEAN
  BY DEF Groups
<1>2. n \in Int BY <1>1 DEF One
<1>3. m \in [Links -> States \cup {Absent}] BY <1>1
<1> DEFINE e == [g EXCEPT !.members[l] = s]
<1>e. e = [members |-> m, minActive |-> g.minActive, upCount |-> g.upCount,
           aggregateUp |-> g.aggregateUp]
  BY DEF Groups
<1> DEFINE a == n >= g.minActive
<1> HIDE DEF e, m, a
<1>b. a \in BOOLEAN BY DEF a
<1>w. e.minActive = g.minActive BY <1>e
<1>x. h = [e EXCEPT !.upCount = n, !.aggregateUp = a]
  BY <1>w, Zenon DEF WithCount, e, a
<1> HIDE DEF h
<1>4. h = [members |-> m, minActive |-> g.minActive, upCount |-> n, aggregateUp |-> a]
  BY <1>e, <1>x
<1>5. h \in Groups BY <1>1, <1>2, <1>3, <1>4, <1>b DEF Groups, m
<1>6. IsFiniteSet(U) /\ Cardinality(U) \in Nat
  BY FS_Subset, FS_CardinalityType, MicroAssumption DEF UpMembers
<1>7. /\ Cardinality(U \cup {l}) = IF l \in U THEN Cardinality(U) ELSE Cardinality(U) + 1
      /\ Cardinality(U \ {l}) = IF l \in U THEN Cardinality(U) - 1 ELSE Cardinality(U)
  BY <1>6, FS_AddElement, FS_RemoveElement
<1>8. l \in U <=> g.members[l] = "Up" BY DEF UpMembers
<1>9. UpMembers(h) = IF s = "Up" THEN U \cup {l} ELSE U \ {l}
  BY <1>1, <1>4 DEF UpMembers, m
<1>10. Cardinality(UpMembers(h)) = n
  BY <1>1, <1>6, <1>7, <1>8, <1>9 DEF One, Counted
<1>11. h.upCount = n /\ h.minActive = g.minActive /\ h.aggregateUp = a BY <1>4
<1>12. Counted(h) BY <1>10, <1>11, Zenon DEF Counted, a
<1> QED BY <1>5, <1>12, Zenon DEF h

(* UpdateMemberState keeps a group counted, whatever state it is told.     *)
LEMMA UpdateCounted ==
  ASSUME NEW g \in Groups, Counted(g), NEW l \in Links, NEW s \in States
  PROVE  UpdateMemberState(g, l, s) \in Groups /\ Counted(UpdateMemberState(g, l, s))
<1>1. CASE g.members[l] = s BY <1>1 DEF UpdateMemberState
<1>2. CASE g.members[l] # s
  <2> DEFINE n == CASE s = "Up" -> g.upCount + 1
                    [] s # "Up" /\ g.members[l] = "Up" -> g.upCount - 1
                    [] OTHER -> g.upCount
  <2>1. g.upCount \in Int BY DEF Groups
  <2>2. n = g.upCount + One(s) - One(g.members[l]) BY <1>2, <2>1 DEF One
  <2> HIDE DEF n
  <2>3. /\ WithCount([g EXCEPT !.members[l] = s], n) \in Groups
        /\ Counted(WithCount([g EXCEPT !.members[l] = s], n))
    BY <2>2, MemberSet
  <2> QED BY <1>2, <2>3 DEF UpdateMemberState, n
<1> QED BY <1>1, <1>2

(* A new group is counted: all its members are Down (NewMicroBFDGroup).    *)
LEMMA NewCounted ==
  ASSUME NEW c \in GroupConfig
  PROVE  NewMicroBFDGroup(c) \in Groups /\ Counted(NewMicroBFDGroup(c))
<1> DEFINE g == NewMicroBFDGroup(c)
<1>1. c.minActive \in Nat /\ c.minActive >= 1
  <2>1. c \in [links : SUBSET Links, minActive : Nat] /\ c.minActive \in 1..Cardinality(c.links)
    BY DEF GroupConfig
  <2>2. IsFiniteSet(c.links) BY <2>1, FS_Subset, MicroAssumption
  <2>3. Cardinality(c.links) \in Nat BY <2>2, FS_CardinalityType
  <2> QED BY <2>1, <2>3
<1>2. [l \in Links |-> IF l \in c.links THEN "Down" ELSE Absent] \in [Links -> States \cup {Absent}]
  BY DEF States
<1>3. g \in Groups BY <1>1, <1>2 DEF NewMicroBFDGroup, Groups
<1>4. UpMembers(g) = {}
  BY MicroAssumption DEF UpMembers, NewMicroBFDGroup, States
<1>5. Cardinality(UpMembers(g)) = 0 BY <1>4, FS_EmptySet
<1>6. g.upCount = 0 /\ g.minActive = c.minActive /\ g.aggregateUp = FALSE
  BY DEF NewMicroBFDGroup
<1>7. (0 >= c.minActive) = FALSE BY <1>1
<1> QED BY <1>3, <1>5, <1>6, <1>7 DEF Counted

MicroInv == TypeOK /\ GroupCounts

(* Replacing one group by a counted one, or by none, keeps the invariant.  *)
LEMMA GroupReplaced ==
  ASSUME MicroInv, NEW lag \in Lags, NEW g, g = Absent \/ (g \in Groups /\ Counted(g)),
         groups' = [groups EXCEPT ![lag] = g]
  PROVE  groups' \in [Lags -> Groups \cup {Absent}] /\ GroupCounts'
<1>1. groups \in [Lags -> Groups \cup {Absent}] BY DEF MicroInv, TypeOK
<1>2. groups' \in [Lags -> Groups \cup {Absent}] BY <1>1
<1>3. ASSUME NEW other \in Lags, groups'[other] # Absent PROVE Counted(groups'[other])
  BY <1>1, <1>3 DEF MicroInv, GroupCounts, Counted, UpMembers
<1> QED BY <1>2, <1>3 DEF GroupCounts, Counted, UpMembers

(* The group a LAG has is counted.                                         *)
LEMMA GroupCounted ==
  ASSUME MicroInv, NEW lag \in Lags, groups[lag] # Absent
  PROVE  groups[lag] \in Groups /\ Counted(groups[lag])
BY DEF MicroInv, TypeOK, GroupCounts, Counted, UpMembers

(* A transition ends in a state of the machine (ApplyEvent).               *)
LEMMA NewStateType ==
  ASSUME NEW s \in States, NEW event \in Events
  PROVE  ApplyEvent(s, event).newState \in States
BY DEF ApplyEvent, Into, States, Events

(* Every step keeps the invariant.                                         *)
LEMMA MicroStep == MicroInv /\ [Next]_vars => MicroInv'
<1> SUFFICES ASSUME MicroInv, [Next]_vars PROVE MicroInv'
  OBVIOUS
<1>t. /\ sess \in [Links -> States \cup {Absent}]
      /\ groups \in [Lags -> Groups \cup {Absent}]
      /\ rawNotifyCh \in Seq(Changes) /\ Len(rawNotifyCh) <= NotifyChSize
      /\ bundle \in [Lags -> SUBSET Links]
      /\ config \in [Lags -> GroupConfig \cup {Absent}]
      /\ reload \in {"idle", "groups"}
      /\ clean \in [Links -> BOOLEAN]
  BY DEF MicroInv, TypeOK
<1>f. \A links : Forget(links) \in [Links -> BOOLEAN] BY <1>t DEF Forget
<1>g. ASSUME UNCHANGED groups PROVE GroupCounts' BY <1>g DEF MicroInv, GroupCounts
<1> USE DEF MicroInv
<1>1. ASSUME NEW l \in Links, NEW event \in Events \ {"AdminUp"}, SessionEvent(l, event)
      PROVE  MicroInv'
  <2> DEFINE new == ApplyEvent(sess[l], event).newState
             sc == [link |-> l, oldState |-> sess[l], newState |-> new]
  <2>1. sess[l] \in States BY <1>1, <1>t DEF SessionEvent
  <2>2. new \in States BY <2>1, <1>1, NewStateType
  <2> HIDE DEF new
  <2>3. sc \in Changes BY <2>1, <2>2 DEF Changes
  <2>4. sess' \in [Links -> States \cup {Absent}] BY <1>1, <1>t, <2>2 DEF SessionEvent, new
  <2>5. \/ rawNotifyCh' = Append(rawNotifyCh, sc) /\ Len(rawNotifyCh) < NotifyChSize
        \/ rawNotifyCh' = rawNotifyCh
    BY <1>1 DEF SessionEvent, emitNotification, new
  <2> HIDE DEF sc
  <2>6. rawNotifyCh' \in Seq(Changes) /\ Len(rawNotifyCh') <= NotifyChSize
    BY <1>t, <2>3, <2>5, MicroAssumption
  <2>7. clean' \in [Links -> BOOLEAN] BY <1>1, <1>t, Zenon DEF SessionEvent
  <2> QED BY <1>1, <1>g, <1>t, <2>4, <2>6, <2>7 DEF SessionEvent, TypeOK
<1>2. ASSUME NEW l \in Links, DestroySession(l) PROVE MicroInv'
  BY <1>2, <1>f, <1>g, <1>t DEF DestroySession, TypeOK
<1>3. ASSUME NEW l \in Links, NEW lag \in Lags, AddMember(lag, l) PROVE MicroInv'
  <2> DEFINE g == groups[lag]
             h == [g EXCEPT !.members[l] = "Down"]
  <2>1. g \in Groups /\ Counted(g) /\ g.members[l] = Absent
    BY <1>3, GroupCounted DEF AddMember, Has
  <2>2. g.upCount \in Int /\ g.upCount = g.upCount + One("Down") - One(g.members[l])
    BY <2>1, MicroAssumption DEF Groups, One, States
  <2>3. /\ WithCount(h, g.upCount) \in Groups /\ Counted(WithCount(h, g.upCount))
    BY <2>1, <2>2, MemberSet DEF States
  <2>4. WithCount(h, g.upCount) = h BY <2>1 DEF WithCount, Groups, Counted
  <2>5. groups' = [groups EXCEPT ![lag] = h] BY <1>3 DEF AddMember
  <2>6. groups' \in [Lags -> Groups \cup {Absent}] /\ GroupCounts'
    BY <2>3, <2>4, <2>5, GroupReplaced
  <2> QED BY <1>3, <1>f, <1>t, <2>6 DEF AddMember, TypeOK
<1>4. ASSUME NEW l \in Links, NEW lag \in Lags, RemoveMember(lag, l) PROVE MicroInv'
  <2> DEFINE g == groups[lag]
             n == IF g.members[l] = "Up" THEN g.upCount - 1 ELSE g.upCount
             h == WithCount([g EXCEPT !.members[l] = Absent], n)
  <2>1. g \in Groups /\ Counted(g) BY <1>4, GroupCounted DEF RemoveMember, Has
  <2>2. n = g.upCount + One(Absent) - One(g.members[l])
    BY <2>1, MicroAssumption DEF Groups, One, States
  <2>3. h \in Groups /\ Counted(h) BY <2>1, <2>2, MemberSet
  <2>5. groups' = [groups EXCEPT ![lag] = h] BY <1>4 DEF RemoveMember
  <2>6. groups' \in [Lags -> Groups \cup {Absent}] /\ GroupCounts'
    BY <2>3, <2>5, GroupReplaced
  <2> QED BY <1>4, <1>f, <1>t, <2>6 DEF RemoveMember, TypeOK
<1>5. CASE RunDispatch
  <2> DEFINE sc == Head(rawNotifyCh)
  <2>1. sc \in Changes /\ Tail(rawNotifyCh) \in Seq(Changes)
        /\ Len(Tail(rawNotifyCh)) <= NotifyChSize
    BY <1>5, <1>t, MicroAssumption DEF RunDispatch
  <2>2. sc.link \in Links /\ sc.newState \in States BY <2>1 DEF Changes
  <2>3. rawNotifyCh' = Tail(rawNotifyCh) /\ UNCHANGED <<sess, config, reload>>
    BY <1>5 DEF RunDispatch
  <2> HIDE DEF sc
  <2>4. ASSUME NEW lag \in Lags, Has(lag, sc.link), dispatchMicroBFD(sc, lag) PROVE MicroInv'
    <3> DEFINE h == UpdateMemberState(groups[lag], sc.link, sc.newState)
    <3>1. groups[lag] \in Groups /\ Counted(groups[lag]) BY <2>4, GroupCounted DEF Has
    <3>2. h \in Groups /\ Counted(h) BY <2>2, <3>1, UpdateCounted
    <3>3. groups' = [groups EXCEPT ![lag] = h] BY <2>4 DEF dispatchMicroBFD
    <3> HIDE DEF h
    <3>4. groups' \in [Lags -> Groups \cup {Absent}] /\ GroupCounts'
      BY <3>2, <3>3, GroupReplaced
    <3>5. Actuated(bundle[lag], decision(sc), sc.link) \in SUBSET Links
      BY <1>t, <2>2 DEF Actuated
    <3>6. bundle' \in [Lags -> SUBSET Links]
      BY <1>t, <2>4, <3>5 DEF dispatchMicroBFD
    <3>7. clean' \in [Links -> BOOLEAN] BY <1>t, <2>4, Zenon DEF dispatchMicroBFD
    <3> QED BY <1>t, <2>1, <2>3, <3>4, <3>6, <3>7 DEF TypeOK
  <2>5. CASE UNCHANGED <<groups, bundle, clean>> BY <1>g, <1>t, <2>1, <2>3, <2>5 DEF TypeOK
  <2> QED BY <1>5, <2>4, <2>5 DEF RunDispatch, sc
<1>6. ASSUME NEW c \in GroupConfigs, reconcileMicroBFDGroups(c) PROVE MicroInv'
  BY <1>6, <1>g, <1>t, MicroAssumption DEF reconcileMicroBFDGroups, TypeOK
<1>7. ASSUME NEW lag \in Lags, DestroyMicroBFDGroup(lag) PROVE MicroInv'
  <2>1. groups' \in [Lags -> Groups \cup {Absent}] /\ GroupCounts'
    BY <1>7, GroupReplaced DEF DestroyMicroBFDGroup
  <2> QED BY <1>7, <1>f, <1>t, <2>1 DEF DestroyMicroBFDGroup, TypeOK
<1>8. ASSUME NEW lag \in Lags, CreateMicroBFDGroup(lag) PROVE MicroInv'
  <2>1. config[lag] \in GroupConfig BY <1>8, <1>t DEF CreateMicroBFDGroup
  <2>2. NewMicroBFDGroup(config[lag]) \in Groups /\ Counted(NewMicroBFDGroup(config[lag]))
    BY <2>1, NewCounted
  <2>3. groups' = [groups EXCEPT ![lag] = NewMicroBFDGroup(config[lag])]
    BY <1>8 DEF CreateMicroBFDGroup
  <2>4. groups' \in [Lags -> Groups \cup {Absent}] /\ GroupCounts'
    BY <2>2, <2>3, GroupReplaced
  <2> QED BY <1>8, <1>f, <1>t, <2>4 DEF CreateMicroBFDGroup, TypeOK
<1>9. ASSUME NEW desired \in SUBSET Links, reconcileMicroBFDMemberSessions(desired)
      PROVE  MicroInv'
  <2>1. sess' \in [Links -> States \cup {Absent}]
    BY <1>9, <1>t DEF reconcileMicroBFDMemberSessions, States
  <2>2. clean' \in [Links -> BOOLEAN]
    BY <1>9, <1>f, <1>t DEF reconcileMicroBFDMemberSessions
  <2> QED BY <1>9, <1>g, <1>t, <2>1, <2>2 DEF reconcileMicroBFDMemberSessions, TypeOK
<1>10. CASE UNCHANGED vars BY <1>10, <1>g, <1>t DEF vars, TypeOK
<1> QED BY <1>1, <1>2, <1>3, <1>4, <1>5, <1>6, <1>7, <1>8, <1>9, <1>10 DEF Next, ReconcileMicroBFDGroups

(* A daemon starts without groups.                                         *)
LEMMA MicroInit == Init => MicroInv
<1> SUFFICES ASSUME Init PROVE MicroInv
  OBVIOUS
<1>1. <<>> \in Seq(Changes) /\ Len(<<>>) = 0 OBVIOUS
<1>2. TypeOK BY <1>1, MicroAssumption DEF Init, TypeOK
<1> QED BY <1>2 DEF Init, GroupCounts, MicroInv

(* Groups, links, sessions, the channel and the LAGs keep their types      *)
(* (manager_micro.go, lag_actuator.go), for any LAGs and links.            *)
THEOREM MicroTypeCorrect == Spec => []TypeOK
<1>1. MicroInv => TypeOK BY DEF MicroInv
<1> QED BY <1>1, MicroInit, MicroStep, PTL DEF Spec

(* No sequence of lost, repeated or stale notifications, reloads, session  *)
(* deletions and membership changes makes a group's counter differ from    *)
(* the number of its Up members, or its aggregate from the threshold       *)
(* (UpdateMemberState, RemoveMember): the aggregate never sticks.          *)
THEOREM CountersExact == Spec => []GroupCounts
<1>1. MicroInv => GroupCounts BY DEF MicroInv
<1> QED BY <1>1, MicroInit, MicroStep, PTL DEF Spec

-----------------------------------------------------------------------------
(* The last change of a kind that waits in a queue                         *)

(* The last element of q that is in K is in V.                             *)
EndsIn(q, K, V) ==
  \A i \in 1 .. Len(q) : q[i] \in K /\ (\A j \in i + 1 .. Len(q) : q[j] \notin K) => q[i] \in V

NoneOf(q, K) == \A i \in 1 .. Len(q) : q[i] \notin K

(* A notification enters the channel behind the others (emitNotification). *)
LEMMA EndsAppend ==
  ASSUME NEW S, NEW q \in Seq(S), NEW x \in S, NEW K, NEW V
  PROVE  /\ x \in K /\ x \in V => EndsIn(Append(q, x), K, V)
         /\ x \notin K /\ EndsIn(q, K, V) => EndsIn(Append(q, x), K, V)
         /\ NoneOf(Append(q, x), K) <=> NoneOf(q, K) /\ x \notin K
<1> DEFINE a == Append(q, x)
<1>1. /\ Len(q) \in Nat /\ Len(a) = Len(q) + 1 /\ a[Len(q) + 1] = x
      /\ \A i \in 1 .. Len(q) : a[i] = q[i]
  BY AppendProperties, LenProperties
<1> HIDE DEF a
<1>2. ASSUME x \in K, x \in V PROVE EndsIn(a, K, V)
  <2> SUFFICES ASSUME NEW i \in 1 .. Len(a), \A j \in i + 1 .. Len(a) : a[j] \notin K
               PROVE  a[i] \in V
    BY DEF EndsIn
  <2>1. i = Len(q) + 1 BY <1>1, <1>2
  <2> QED BY <1>1, <1>2, <2>1
<1>3. ASSUME x \notin K, EndsIn(q, K, V) PROVE EndsIn(a, K, V)
  <2> SUFFICES ASSUME NEW i \in 1 .. Len(a), a[i] \in K, \A j \in i + 1 .. Len(a) : a[j] \notin K
               PROVE  a[i] \in V
    BY DEF EndsIn
  <2>1. i \in 1 .. Len(q) /\ q[i] = a[i] BY <1>1, <1>3
  <2>2. \A j \in i + 1 .. Len(q) : q[j] \notin K BY <1>1, <2>1
  <2> QED BY <1>3, <2>1, <2>2 DEF EndsIn
<1>4. NoneOf(a, K) <=> NoneOf(q, K) /\ x \notin K
  BY <1>1 DEF NoneOf
<1> QED BY <1>2, <1>3, <1>4 DEF a

(* The dispatcher takes the first one (RunDispatch).                       *)
LEMMA EndsTail ==
  ASSUME NEW S, NEW q \in Seq(S), q # <<>>, NEW K, NEW V, EndsIn(q, K, V)
  PROVE  /\ EndsIn(Tail(q), K, V)
         /\ NoneOf(Tail(q), K) /\ Head(q) \in K => Head(q) \in V
         /\ NoneOf(Tail(q), K) /\ Head(q) \notin K => NoneOf(q, K)
<1> DEFINE t == Tail(q)
           h == Head(q)
<1>1. Len(q) \in Nat \ {0} BY EmptySeq
<1>2. Len(t) = Len(q) - 1 /\ \A i \in 1 .. Len(t) : t[i] = q[i + 1] BY HeadTailProperties
<1>3. h = q[1] OBVIOUS
<1> HIDE DEF t, h
<1>4. \A j \in 2 .. Len(q) : j - 1 \in 1 .. Len(t) /\ t[j - 1] = q[j] BY <1>1, <1>2
<1>5. EndsIn(t, K, V)
  <2> SUFFICES ASSUME NEW i \in 1 .. Len(t), t[i] \in K, \A j \in i + 1 .. Len(t) : t[j] \notin K
               PROVE  t[i] \in V
    BY DEF EndsIn
  <2>1. i + 1 \in 1 .. Len(q) /\ t[i] = q[i + 1] BY <1>1, <1>2
  <2>2. ASSUME NEW j \in (i + 1) + 1 .. Len(q) PROVE q[j] \notin K
    <3>1. j - 1 \in i + 1 .. Len(t) /\ t[j - 1] = q[j] BY <1>1, <1>2, <1>4
    <3> QED BY <3>1
  <2> QED BY <2>1, <2>2 DEF EndsIn
<1>6. ASSUME NoneOf(t, K), h \in K PROVE h \in V
  <2>1. \A j \in 1 + 1 .. Len(q) : q[j] \notin K BY <1>4, <1>6 DEF NoneOf
  <2>2. 1 \in 1 .. Len(q) BY <1>1
  <2> QED BY <1>3, <1>6, <2>1, <2>2 DEF EndsIn
<1>7. ASSUME NoneOf(t, K), h \notin K PROVE NoneOf(q, K)
  <2> SUFFICES ASSUME NEW j \in 1 .. Len(q) PROVE q[j] \notin K BY DEF NoneOf
  <2>1. CASE j = 1 BY <1>3, <1>7, <2>1
  <2>2. CASE j # 1
    <3>1. j \in 2 .. Len(q) BY <1>1, <2>2
    <3> QED BY <1>4, <1>7, <3>1 DEF NoneOf
  <2> QED BY <2>1, <2>2
<1> QED BY <1>5, <1>6, <1>7 DEF t, h

-----------------------------------------------------------------------------
(* The LAG follows its links                                               *)

Enforced == Mode = "enforce" /\ UpAction = "add-member" /\ DownAction = "remove-member"

(* The changes of link l; of these, the ones that touch the LAG; the ones  *)
(* that agree with state s.                                                *)
About(l) == {sc \in Changes : sc.link = l}
Moves(l) == {sc \in About(l) : sc.newState = "Up" \/ sc.oldState = "Up"}
Leading(s) == {sc \in Changes : sc.newState = s}
UpAs(s) == {sc \in Changes : sc.newState = "Up" <=> s = "Up"}

Clean(l) ==
  /\ sess[l] \in States /\ SoleOwner(l)
  /\ EndsIn(rawNotifyCh, About(l), Leading(sess[l]))
  /\ EndsIn(rawNotifyCh, Moves(l), UpAs(sess[l]))
  /\ \A lag \in Lags : Has(lag, l) =>
       /\ NoneOf(rawNotifyCh, About(l)) => groups[lag].members[l] = sess[l]
       /\ Enforced /\ NoneOf(rawNotifyCh, Moves(l)) => (l \in bundle[lag] <=> sess[l] = "Up")

CleanInv == \A l \in Links : clean[l] => Clean(l)

(* Once the last change of a clean link is dispatched, its group and its   *)
(* LAG show it.                                                            *)
LEMMA CleanFollows == TypeOK /\ CleanInv => LagFollows
<1> SUFFICES ASSUME TypeOK, CleanInv, Enforced, NEW l \in Links, NEW lag \in Lags,
                    clean[l], Has(lag, l), ~Pending(l)
             PROVE  /\ groups[lag].members[l] = sess[l]
                    /\ l \in bundle[lag] <=> sess[l] = "Up"
  BY DEF LagFollows, Enforced
<1>1. \A i \in 1 .. Len(rawNotifyCh) : rawNotifyCh[i].link # l
  BY LenProperties DEF Pending, TypeOK
<1>2. NoneOf(rawNotifyCh, About(l)) /\ NoneOf(rawNotifyCh, Moves(l))
  BY <1>1 DEF NoneOf, About, Moves
<1> QED BY <1>2 DEF CleanInv, Clean

(* What a clean link's invariant depends on.                               *)
LEMMA CleanKept ==
  ASSUME NEW l \in Links, Clean(l), sess'[l] = sess[l], UNCHANGED <<rawNotifyCh, bundle>>,
         \A lag \in Lags : /\ Has(lag, l)' <=> Has(lag, l)
                           /\ Has(lag, l) => groups'[lag].members[l] = groups[lag].members[l]
  PROVE  Clean(l)'
<1>1. SoleOwner(l)' <=> SoleOwner(l)
  <2>1. {other \in Lags : Has(other, l)}' = {other \in Lags : Has(other, l)} OBVIOUS
  <2> QED BY <2>1 DEF SoleOwner
<1> QED BY <1>1 DEF Clean

(* Of a group, UpdateMemberState changes one member's state.               *)
LEMMA UpdateMembers ==
  ASSUME NEW g \in Groups, NEW l \in Links, NEW s \in States
  PROVE  UpdateMemberState(g, l, s).members = [g.members EXCEPT ![l] = s]
<1>1. g.members \in [Links -> States \cup {Absent}] BY DEF Groups
<1>2. CASE g.members[l] = s
  <2>1. [g.members EXCEPT ![l] = s] = g.members BY <1>1, <1>2
  <2> QED BY <1>2, <2>1 DEF UpdateMemberState
<1>3. CASE g.members[l] # s
  <2>1. [g EXCEPT !.members[l] = s].members = [g.members EXCEPT ![l] = s] BY DEF Groups
  <2>2. \A e, n : WithCount(e, n).members = e.members
    BY DEF WithCount
  <2> QED BY <1>3, <2>1, <2>2 DEF UpdateMemberState
<1> QED BY <1>2, <1>3

(* A session's change is queued behind every earlier one, or the link is   *)
(* no longer clean (emitNotification).                                     *)
LEMMA CleanEvent ==
  ASSUME MicroInv, CleanInv, NEW l \in Links, NEW event \in Events, SessionEvent(l, event)
  PROVE  CleanInv'
<1> DEFINE new == ApplyEvent(sess[l], event).newState
           sc == [link |-> l, oldState |-> sess[l], newState |-> new]
           room == Len(rawNotifyCh) < NotifyChSize
<1>t. /\ sess \in [Links -> States \cup {Absent}] /\ rawNotifyCh \in Seq(Changes)
      /\ clean \in [Links -> BOOLEAN]
  BY DEF MicroInv, TypeOK
<1>1. sess[l] \in States BY <1>t DEF SessionEvent
<1>2. new \in States BY <1>1, NewStateType
<1>3. /\ sess' = [sess EXCEPT ![l] = new]
      /\ rawNotifyCh' = IF room THEN Append(rawNotifyCh, sc) ELSE rawNotifyCh
      /\ clean' = [clean EXCEPT ![l] = room /\ (@ \/ (new = "Up" /\ SoleOwner(l)))]
      /\ UNCHANGED <<groups, bundle>>
  BY DEF SessionEvent, emitNotification
<1> HIDE DEF new, room
<1>4. sc \in Changes /\ sc.link = l /\ sc.oldState = sess[l] /\ sc.newState = new
  BY <1>1, <1>2 DEF Changes
<1> HIDE DEF sc
<1>5. sess'[l] = new /\ \A k \in Links \ {l} : sess'[k] = sess[k] /\ clean'[k] = clean[k]
  BY <1>3, <1>t
<1>6. clean'[l] => room /\ (clean[l] \/ (new = "Up" /\ SoleOwner(l))) BY <1>3, <1>t
<1>7. \A lag \in Lags, k \in Links : Has(lag, k)' <=> Has(lag, k) BY <1>3 DEF Has
<1>8. \A k \in Links : SoleOwner(k)' <=> SoleOwner(k)
  <2>1. \A k \in Links : {other \in Lags : Has(other, k)}' = {other \in Lags : Has(other, k)}
    BY <1>7
  <2> QED BY <2>1 DEF SoleOwner
<1>9. ASSUME clean'[l] PROVE Clean(l)'
  <2>1. rawNotifyCh' = Append(rawNotifyCh, sc) BY <1>3, <1>6, <1>9
  <2>2. SoleOwner(l) BY <1>6, <1>9 DEF CleanInv, Clean
  <2>3. sc \in About(l) /\ sc \in Leading(new) BY <1>4 DEF About, Leading
  <2>4. EndsIn(rawNotifyCh', About(l), Leading(new)) BY <1>t, <1>4, <2>1, <2>3, EndsAppend
  <2>5. ~NoneOf(rawNotifyCh', About(l)) BY <1>t, <1>4, <2>1, <2>3, EndsAppend
  <2>6. CASE sc \in Moves(l)
    <3>1. sc \in UpAs(new) BY <1>4 DEF UpAs
    <3>2. EndsIn(rawNotifyCh', Moves(l), UpAs(new)) BY <1>t, <1>4, <2>1, <2>6, <3>1, EndsAppend
    <3>3. ~NoneOf(rawNotifyCh', Moves(l)) BY <1>t, <1>4, <2>1, <2>6, EndsAppend
    <3> QED BY <1>2, <1>5, <1>7, <1>8, <2>2, <2>4, <2>5, <3>2, <3>3 DEF Clean
  <2>7. CASE sc \notin Moves(l)
    <3>1. new # "Up" /\ sess[l] # "Up" BY <1>4, <2>3, <2>7 DEF Moves
    <3>2. clean[l] /\ Clean(l) BY <1>6, <1>9, <3>1 DEF CleanInv
    <3>3. UpAs(new) = UpAs(sess[l]) BY <3>1 DEF UpAs
    <3>4. EndsIn(rawNotifyCh', Moves(l), UpAs(new))
      BY <1>t, <1>4, <2>1, <2>7, <3>2, <3>3, EndsAppend DEF Clean
    <3>5. NoneOf(rawNotifyCh', Moves(l)) => NoneOf(rawNotifyCh, Moves(l))
      BY <1>t, <1>4, <2>1, EndsAppend
    <3>6. \A lag \in Lags : Has(lag, l) /\ Enforced /\ NoneOf(rawNotifyCh', Moves(l))
                              => (l \in bundle'[lag] <=> new = "Up")
      BY <1>3, <3>1, <3>2, <3>5 DEF Clean
    <3> QED BY <1>2, <1>5, <1>7, <1>8, <2>2, <2>4, <2>5, <3>4, <3>6 DEF Clean
  <2> QED BY <2>6, <2>7
<1>10. ASSUME NEW k \in Links \ {l}, clean'[k] PROVE Clean(k)'
  <2>1. Clean(k) BY <1>5, <1>10 DEF CleanInv
  <2>2. CASE rawNotifyCh' = rawNotifyCh
    BY <1>3, <1>5, <1>7, <2>1, <2>2, CleanKept
  <2>3. CASE rawNotifyCh' = Append(rawNotifyCh, sc)
    <3>1. sc \notin About(k) /\ sc \notin Moves(k) BY <1>4, <1>10 DEF About, Moves
    <3>2. /\ EndsIn(rawNotifyCh', About(k), Leading(sess[k]))
          /\ EndsIn(rawNotifyCh', Moves(k), UpAs(sess[k]))
      <4>1. /\ EndsIn(rawNotifyCh, About(k), Leading(sess[k]))
            /\ EndsIn(rawNotifyCh, Moves(k), UpAs(sess[k]))
        BY <2>1 DEF Clean
      <4>2. EndsIn(rawNotifyCh', About(k), Leading(sess[k]))
        BY <1>t, <1>4, <2>3, <3>1, <4>1, EndsAppend
      <4>3. EndsIn(rawNotifyCh', Moves(k), UpAs(sess[k]))
        BY <1>t, <1>4, <2>3, <3>1, <4>1, EndsAppend
      <4> QED BY <4>2, <4>3
    <3>3. /\ NoneOf(rawNotifyCh', About(k)) => NoneOf(rawNotifyCh, About(k))
          /\ NoneOf(rawNotifyCh', Moves(k)) => NoneOf(rawNotifyCh, Moves(k))
      <4>1. \A K : NoneOf(Append(rawNotifyCh, sc), K) => NoneOf(rawNotifyCh, K)
        BY <1>t, <1>4, EndsAppend
      <4> QED BY <2>3, <4>1
    <3> QED BY <1>3, <1>5, <1>7, <1>8, <2>1, <3>2, <3>3 DEF Clean
  <2> QED BY <1>3, <2>2, <2>3
<1> QED BY <1>9, <1>10 DEF CleanInv

(* The dispatcher brings the group and the LAG up to the change it takes,  *)
(* or the link is no longer clean (dispatchMicroBFD).                      *)
LEMMA CleanDispatch ==
  ASSUME MicroInv, CleanInv, RunDispatch
  PROVE  CleanInv'
<1> DEFINE sc == Head(rawNotifyCh)
<1>t. /\ groups \in [Lags -> Groups \cup {Absent}] /\ rawNotifyCh \in Seq(Changes)
      /\ clean \in [Links -> BOOLEAN] /\ bundle \in [Lags -> SUBSET Links]
  BY DEF MicroInv, TypeOK
<1>1. rawNotifyCh # <<>> /\ rawNotifyCh' = Tail(rawNotifyCh) /\ UNCHANGED sess
  BY DEF RunDispatch
<1>3. sc \in Changes BY <1>t, <1>1, HeadTailProperties
<1>l. PICK l \in Links : l = sc.link BY <1>3 DEF Changes
<1>4. l \in Links /\ sc.newState \in States /\ sc.oldState \in States BY <1>3 DEF Changes
<1>2. \/ \E lag \in Lags : Has(lag, l) /\ dispatchMicroBFD(sc, lag)
      \/ (\A lag \in Lags : ~Has(lag, l)) /\ UNCHANGED <<groups, bundle, clean>>
  BY <1>l DEF RunDispatch
<1>5. ASSUME NEW k \in Links, Clean(k)
      PROVE  /\ EndsIn(rawNotifyCh', About(k), Leading(sess[k]))
             /\ EndsIn(rawNotifyCh', Moves(k), UpAs(sess[k]))
             /\ NoneOf(rawNotifyCh', About(k)) =>
                  IF sc \in About(k) THEN sc \in Leading(sess[k]) ELSE NoneOf(rawNotifyCh, About(k))
             /\ NoneOf(rawNotifyCh', Moves(k)) =>
                  IF sc \in Moves(k) THEN sc \in UpAs(sess[k]) ELSE NoneOf(rawNotifyCh, Moves(k))
  BY <1>t, <1>1, <1>5, EndsTail DEF Clean
<1>6. ASSUME NEW k \in Links, Clean(k), k # l,
             \A lag \in Lags : /\ Has(lag, k)' <=> Has(lag, k)
                               /\ Has(lag, k) => groups'[lag].members[k] = groups[lag].members[k]
                               /\ k \in bundle'[lag] <=> k \in bundle[lag]
      PROVE  Clean(k)'
  <2>1. sc \notin About(k) /\ sc \notin Moves(k) BY <1>l, <1>6 DEF About, Moves
  <2>2. {other \in Lags : Has(other, k)}' = {other \in Lags : Has(other, k)} BY <1>6
  <2>3. SoleOwner(k)' BY <1>6, <2>2 DEF SoleOwner, Clean
  <2> HIDE DEF sc
  <2> QED BY <1>1, <1>5, <1>6, <2>1, <2>3 DEF Clean
<1> HIDE DEF sc
<1>7. ASSUME NEW lag \in Lags, Has(lag, l), dispatchMicroBFD(sc, lag) PROVE CleanInv'
  <2> DEFINE g == groups[lag]
             h == UpdateMemberState(g, l, sc.newState)
  <2>1. groups[lag] \in Groups BY <1>t, <1>7 DEF Has
  <2>2. h.members = [g.members EXCEPT ![l] = sc.newState] BY <1>4, <2>1, UpdateMembers
  <2>3. g.members \in [Links -> States \cup {Absent}] BY <2>1 DEF Groups
  <2>4. h # Absent
    <3>1. Counted(g) BY <1>7, GroupCounted DEF Has
    <3>2. h \in Groups BY <1>4, <2>1, <3>1, UpdateCounted
    <3> QED BY <3>2, MicroAssumption
  <2>5. groups' = [groups EXCEPT ![lag] = h] BY <1>l, <1>7 DEF dispatchMicroBFD
  <2>6. g.members[l] # Absent /\ sc.newState # Absent BY <1>4, <1>7, MicroAssumption DEF Has
  <2>7. clean \in [Links -> BOOLEAN] /\ \A k \in Links : clean'[k] => clean[k]
    BY <1>t, <1>4, <1>l, <1>7 DEF dispatchMicroBFD
  <2>8. /\ groups'[lag] = h /\ g = groups[lag] /\ groups[lag] # Absent
        /\ \A x \in Lags \ {lag} : groups'[x] = groups[x]
    BY <1>t, <1>7, <2>5 DEF Has
  <2> HIDE DEF h, g
  <2>9. ASSUME NEW k \in Links, NEW x \in Lags PROVE Has(x, k)' <=> Has(x, k)
    <3>1. CASE x # lag BY <2>8, <3>1 DEF Has
    <3>2. CASE x = lag
      BY <1>4, <2>2, <2>3, <2>4, <2>6, <2>8, <3>2 DEF Has
    <3> QED BY <3>1, <3>2
  <2>10. ASSUME NEW k \in Links \ {l}, clean'[k] PROVE Clean(k)'
    <3>1. Clean(k) BY <2>7, <2>10 DEF CleanInv
    <3>2. ASSUME NEW x \in Lags PROVE k \in bundle'[x] <=> k \in bundle[x]
      BY <1>t, <1>l, <1>7, <2>10 DEF dispatchMicroBFD, Actuated
    <3>3. ASSUME NEW x \in Lags PROVE groups'[x].members[k] = groups[x].members[k]
      BY <2>2, <2>3, <2>8, <2>10
    <3> QED BY <1>6, <2>9, <2>10, <3>1, <3>2, <3>3
  <2>11. ASSUME clean'[l] PROVE Clean(l)'
    <3>1. Clean(l) BY <1>4, <2>7, <2>11 DEF CleanInv
    <3>2. {other \in Lags : Has(other, l)}' = {other \in Lags : Has(other, l)} BY <1>4, <2>9
    <3>3. SoleOwner(l)' BY <3>1, <3>2 DEF SoleOwner, Clean
    <3>4. \A x \in Lags : Has(x, l) => x = lag
      <4>1. PICK z \in Lags : {other \in Lags : Has(other, l)} = {z} BY <3>1 DEF Clean, SoleOwner
      <4>2. \A x \in Lags : Has(x, l) => x = z BY <4>1
      <4> QED BY <1>7, <4>2
    <3>5. sc \in About(l) BY <1>3, <1>l DEF About
    <3>6. NoneOf(rawNotifyCh', About(l)) => groups'[lag].members[l] = sess[l]
      <4>1. NoneOf(rawNotifyCh', About(l)) => sc.newState = sess[l]
        BY <1>4, <1>5, <3>1, <3>5 DEF Leading
      <4>2. groups'[lag].members[l] = sc.newState BY <1>4, <2>2, <2>3, <2>8
      <4> QED BY <4>1, <4>2
    <3>7. ASSUME Enforced, NoneOf(rawNotifyCh', Moves(l))
          PROVE  l \in bundle'[lag] <=> sess[l] = "Up"
      <4>1. CASE sc \in Moves(l)
        <5>1. decision(sc) = IF sc.newState = "Up" THEN "add-member" ELSE "remove-member"
          BY <3>7, <4>1 DEF decision, Enforced, Moves
        <5>2. ~(clean' = [clean EXCEPT ![l] = FALSE]) BY <1>t, <1>4, <2>11
        <5>3. bundle' = [bundle EXCEPT ![lag] = Actuated(@, decision(sc), l)]
          BY <1>l, <1>7, <5>1, <5>2 DEF dispatchMicroBFD
        <5>4. sc.newState = "Up" <=> sess[l] = "Up" BY <1>4, <1>5, <3>1, <3>7, <4>1 DEF UpAs
        <5> QED BY <1>t, <3>7, <5>1, <5>3, <5>4 DEF Actuated, Enforced
      <4>2. CASE sc \notin Moves(l)
        <5>1. decision(sc) = "none" BY <3>5, <3>7, <4>2 DEF decision, Enforced, Moves
        <5>2. bundle'[lag] = bundle[lag] BY <1>t, <1>7, <5>1 DEF dispatchMicroBFD, Actuated
        <5>3. NoneOf(rawNotifyCh, Moves(l)) BY <1>4, <1>5, <3>1, <3>7, <4>2
        <5> QED BY <1>7, <3>1, <3>7, <5>2, <5>3 DEF Clean
      <4> QED BY <4>1, <4>2
    <3> QED BY <1>1, <1>4, <1>5, <2>9, <3>1, <3>3, <3>4, <3>6, <3>7 DEF Clean
  <2> QED BY <1>4, <2>10, <2>11 DEF CleanInv
<1>8. CASE (\A lag \in Lags : ~Has(lag, l)) /\ UNCHANGED <<groups, bundle, clean>>
  <2>1. ASSUME NEW k \in Links, clean'[k] PROVE Clean(k)'
    <3>1. Clean(k) BY <1>8, <2>1 DEF CleanInv
    <3>2. k # l
      <4>1. PICK lag \in Lags : {other \in Lags : Has(other, k)} = {lag}
        BY <3>1 DEF Clean, SoleOwner
      <4> QED BY <1>8, <4>1
    <3> QED BY <1>6, <1>8, <3>1, <3>2 DEF Has
  <2> QED BY <2>1 DEF CleanInv
<1> QED BY <1>2, <1>7, <1>8

(* A change of a group, or of the set of sessions, that a clean link does  *)
(* not see, or that ends its being clean: Forget.                          *)
LEMMA CleanForget ==
  ASSUME CleanInv, NEW links, clean' = Forget(links), UNCHANGED <<rawNotifyCh, bundle>>,
         \A l \in Links \ links : sess'[l] = sess[l],
         \A l \in Links \ links, lag \in Lags :
           /\ Has(lag, l)' <=> Has(lag, l)
           /\ Has(lag, l) => groups'[lag].members[l] = groups[lag].members[l]
  PROVE  CleanInv'
<1> SUFFICES ASSUME NEW l \in Links, clean'[l] PROVE Clean(l)' BY DEF CleanInv
<1>1. l \notin links /\ clean[l] BY DEF Forget
<1>2. Clean(l) BY <1>1 DEF CleanInv
<1>3. sess'[l] = sess[l] BY <1>1
<1>4. \A lag \in Lags : /\ Has(lag, l)' <=> Has(lag, l)
                        /\ Has(lag, l) => groups'[lag].members[l] = groups[lag].members[l]
  BY <1>1
<1> QED BY <1>2, <1>3, <1>4, CleanKept

(* Every step keeps the promise to the clean links.                        *)
LEMMA CleanStep == MicroInv /\ CleanInv /\ [Next]_vars => CleanInv'
<1> SUFFICES ASSUME MicroInv, CleanInv, [Next]_vars PROVE CleanInv' OBVIOUS
<1>t. /\ sess \in [Links -> States \cup {Absent}]
      /\ groups \in [Lags -> Groups \cup {Absent}]
      /\ clean \in [Links -> BOOLEAN]
  BY DEF MicroInv, TypeOK
<1>1. ASSUME NEW l \in Links, NEW event \in Events \ {"AdminUp"}, SessionEvent(l, event)
      PROVE  CleanInv'
  BY <1>1, CleanEvent
<1>2. ASSUME NEW l \in Links, DestroySession(l) PROVE CleanInv'
  <2>1. \A k \in Links \ {l} : sess'[k] = sess[k] BY <1>t, <1>2 DEF DestroySession
  <2>2. clean' = Forget({l}) /\ UNCHANGED <<groups, rawNotifyCh, bundle>>
    BY <1>2 DEF DestroySession
  <2>3. \A k \in Links, lag \in Lags : Has(lag, k)' <=> Has(lag, k) BY <2>2 DEF Has
  <2> QED BY <2>1, <2>2, <2>3, CleanForget
<1>3. ASSUME NEW l \in Links, NEW lag \in Lags, NEW s \in States \cup {Absent}, NEW h \in Groups,
             groups[lag] # Absent, h.members = [groups[lag].members EXCEPT ![l] = s],
             groups' = [groups EXCEPT ![lag] = h], clean' = Forget({l}),
             UNCHANGED <<sess, rawNotifyCh, bundle>>
      PROVE  CleanInv'
  <2>1. groups[lag].members \in [Links -> States \cup {Absent}] BY <1>t, <1>3 DEF Groups
  <2>2. h # Absent BY MicroAssumption
  <2>3. groups'[lag] = h /\ \A x \in Lags \ {lag} : groups'[x] = groups[x] BY <1>t, <1>3
  <2>4. ASSUME NEW k \in Links \ {l}, NEW x \in Lags
        PROVE  /\ Has(x, k)' <=> Has(x, k)
               /\ groups'[x].members[k] = groups[x].members[k]
    <3>1. CASE x # lag BY <2>3, <3>1 DEF Has
    <3>2. CASE x = lag BY <1>3, <2>1, <2>2, <2>3, <3>2 DEF Has
    <3> QED BY <3>1, <3>2
  <2> QED BY <1>3, <2>4, CleanForget
<1>4. ASSUME NEW l \in Links, NEW lag \in Lags, AddMember(lag, l) PROVE CleanInv'
  <2> DEFINE g == groups[lag]
             h == [g EXCEPT !.members[l] = "Down"]
  <2>1. g \in Groups /\ g # Absent BY <1>t, <1>4 DEF AddMember
  <2>2. "Down" \in States \cup {Absent} BY DEF States
  <2>3. h.members = [g.members EXCEPT ![l] = "Down"] BY <2>1 DEF Groups
  <2>4. h \in Groups
    <3>1. [g.members EXCEPT ![l] = "Down"] \in [Links -> States \cup {Absent}]
      BY <2>1, <2>2 DEF Groups
    <3> QED BY <2>1, <2>2, <3>1 DEF Groups
  <2>5. groups' = [groups EXCEPT ![lag] = h] /\ clean' = Forget({l})
        /\ UNCHANGED <<sess, rawNotifyCh, bundle>>
    BY <1>4 DEF AddMember
  <2> HIDE DEF h
  <2> QED BY <1>3, <2>1, <2>2, <2>3, <2>4, <2>5
<1>5. ASSUME NEW l \in Links, NEW lag \in Lags, RemoveMember(lag, l) PROVE CleanInv'
  <2> DEFINE g == groups[lag]
             n == IF g.members[l] = "Up" THEN g.upCount - 1 ELSE g.upCount
             h == WithCount([g EXCEPT !.members[l] = Absent], n)
  <2>1. g \in Groups /\ g # Absent /\ Counted(g)
    BY <1>5, GroupCounted DEF RemoveMember, Has
  <2>2. n = g.upCount + One(Absent) - One(g.members[l])
    BY <2>1, MicroAssumption, SMTT(60) DEF Groups, One, States
  <2>3. h \in Groups BY <2>1, <2>2, MemberSet
  <2>4. [g EXCEPT !.members[l] = Absent].members = [g.members EXCEPT ![l] = Absent]
    BY <2>1 DEF Groups
  <2>5. h.members = [g.members EXCEPT ![l] = Absent] BY <2>4 DEF WithCount
  <2>6. groups' = [groups EXCEPT ![lag] = h] /\ clean' = Forget({l})
        /\ UNCHANGED <<sess, rawNotifyCh, bundle>>
    BY <1>5 DEF RemoveMember
  <2> HIDE DEF h
  <2> QED BY <1>3, <2>1, <2>3, <2>5, <2>6
<1>6. CASE RunDispatch BY <1>6, CleanDispatch
<1>7. ASSUME NEW lag \in Lags, DestroyMicroBFDGroup(lag) \/ CreateMicroBFDGroup(lag) PROVE CleanInv'
  <2>1. clean' = Forget(Links) BY <1>7 DEF DestroyMicroBFDGroup, CreateMicroBFDGroup
  <2> QED BY <2>1 DEF CleanInv, Forget
<1>8. ASSUME NEW desired \in SUBSET Links, reconcileMicroBFDMemberSessions(desired)
      PROVE  CleanInv'
  <2>1. UNCHANGED <<groups, rawNotifyCh, bundle>> BY <1>8 DEF reconcileMicroBFDMemberSessions
  <2>2. \A k \in Links, lag \in Lags : Has(lag, k)' <=> Has(lag, k) BY <2>1 DEF Has
  <2> DEFINE touched == {l \in Links : (sess[l] = Absent) = (l \in desired)}
  <2>3. CASE desired = {}
    <3>1. UNCHANGED <<sess, clean>> BY <1>8, <2>3 DEF reconcileMicroBFDMemberSessions
    <3> QED BY <2>1, <2>2, <3>1, CleanKept DEF CleanInv
  <2>4. CASE desired # {}
    <3>1. clean' = Forget(touched) BY <1>8, <2>4 DEF reconcileMicroBFDMemberSessions
    <3>2. \A k \in Links \ touched : sess'[k] = sess[k]
      BY <1>8, <2>4 DEF reconcileMicroBFDMemberSessions
    <3> HIDE DEF touched
    <3> QED BY <2>1, <2>2, <3>1, <3>2, CleanForget
  <2> QED BY <2>3, <2>4
<1>9. ASSUME UNCHANGED <<sess, groups, rawNotifyCh, bundle, clean>> PROVE CleanInv'
  <2>1. \A k \in Links, lag \in Lags : Has(lag, k)' <=> Has(lag, k) BY <1>9 DEF Has
  <2> QED BY <1>9, <2>1, CleanKept DEF CleanInv
<1>10. ASSUME NEW c \in GroupConfigs, reconcileMicroBFDGroups(c) PROVE CleanInv'
  BY <1>9, <1>10 DEF reconcileMicroBFDGroups
<1>11. CASE UNCHANGED vars BY <1>9, <1>11 DEF vars
<1> QED BY <1>1, <1>2, <1>4, <1>5, <1>6, <1>7, <1>8, <1>10, <1>11 DEF Next, ReconcileMicroBFDGroups

(* With the default actions enforced, for any LAGs, links, configurations  *)
(* and channel capacity: from the moment a link comes Up, and until a      *)
(* change of it is lost or its group or session is touched, the group and  *)
(* the LAG show the state of its session once its last change is           *)
(* dispatched (dispatchMicroBFD, HandleMicroBFDMemberEvent).               *)
THEOREM LagAlwaysFollows == Spec => []LagFollows
<1>1. Init => CleanInv BY DEF Init, CleanInv
<1>2. MicroInv /\ CleanInv /\ [Next]_vars => (MicroInv /\ CleanInv)'
  BY MicroStep, CleanStep
<1>3. MicroInv /\ CleanInv => LagFollows BY CleanFollows DEF MicroInv
<1> QED BY <1>1, <1>2, <1>3, MicroInit, PTL DEF Spec
=============================================================================
