----------------------------- MODULE EchoProofs -----------------------------
(***************************************************************************)
(* Proofs about module Echo, for every set of keys, intervals, detection   *)
(* multiplier, jitter, travel time, set of callers and configuration       *)
(* files: a failed path is noticed in time, a working one is never         *)
(* doubted, no discriminator is lost, and a reconciliation that no other   *)
(* call overlaps converges.                                                *)
(***************************************************************************)
EXTENDS Echo, TLAPS

-----------------------------------------------------------------------------
(* The inductive invariants                                                *)

(* What a call holds: the discriminator of a session it has taken out of   *)
(* the table, or of one it has not put there yet.  No two calls hold one.  *)
OwnInv ==
  /\ \A c \in Callers :
       /\ call[c].step \in {"idle", "working"} => call[c].discr = 0
       /\ call[c].step = "cancelling" =>
            call[c].discr \in Discrs /\ es[call[c].discr].phase = "deleted"
       /\ call[c].step = "registering" =>
            /\ call[c].discr \in Discrs /\ es[call[c].discr].phase = "free"
            /\ call[c].destroy = {}
            /\ \E k \in call[c].create : call[c].have[k] = call[c].discr
  /\ \A b, c \in Callers : b # c /\ call[b].discr = call[c].discr => call[c].discr = 0
  /\ DiscrsReturned

(* While the path is cut nothing on the wire, in a channel or in a timer   *)
(* is younger than the cut.                                                *)
Cut(r, n) == Runs(r) => /\ r.recvCh > 0 => n <= MaxDelay
                        /\ r.state = "Up" => r.detectTimer + n <= DetectionTime(r.key) + MaxDelay

CutInv == path = "cut" => /\ \A p \in wire : cutFor <= p.age
                          /\ \A d \in Discrs : Cut(es[d], cutFor)

(* An Up session will hear an echo before its detection timer fires.       *)
Backed(r, d, W) ==
  /\ r.state = "Up" /\ r.detectTimer > 0
  /\ \/ r.recvCh > 0
     \/ \E p \in W : p.pkt.myDiscr = d /\ r.detectTimer + p.age > MaxDelay
     \/ r.detectTimer > r.txTimer + MaxDelay

(* Where the first echo over a good path is, or that it has returned.      *)
Timely(r, d, W) ==
  r.phase = "running" /\ r.port = "3785" =>
    \/ r.goodFor + r.txTimer <= TxInterval[r.key]
    \/ \E p \in W : p.pkt.myDiscr = d /\ r.goodFor <= TxInterval[r.key] + p.age
    \/ r.recvCh > 0 /\ r.goodFor <= TxInterval[r.key] + MaxDelay
    \/ Backed(r, d, W)

GoodInv == path = "good" => \A d \in Discrs : Timely(es[d], d, wire)

(* What is left to do for a reconciliation that no other call overlaps.    *)
Plan(r) ==
  /\ r.create \subseteq r.want /\ r.destroy \cap r.want = {}
  /\ \A k \in r.want : \/ k \in r.create \/ ~validateEchoConfig(k)
                       \/ \E d \in echoSessions : es[d].key = k
  /\ \A d \in echoSessions : \/ es[d].key \in r.want \cup r.twins
                             \/ es[d].key \in r.destroy /\ r.have[es[d].key] = d
  /\ \A k \in r.destroy : r.have[k] \in echoSessions => es[r.have[k]].key = k

EchoPlanInv ==
  \A c \in Callers : call[c].step # "idle" /\ call[c].alone =>
    /\ \A b \in Callers : b # c => call[b].step = "idle"
    /\ call[c].want # {} => Plan(call[c])

-----------------------------------------------------------------------------
(* What the steps of a session's goroutine, of the receiver and of the     *)
(* clock make of its record                                                *)

(* Jitter never makes an interval longer.                                  *)
LEMMA JitterShorter ==
  ASSUME NEW n \in Nat, NEW j \in Jitters
  PROVE  applyJitter(n, j) \in 0..n
<1>1. j \in 0..25 BY EchoAssumption DEF JitterPercents
<1> DEFINE m == n * j
<1>2. m \in Nat /\ m <= n * 25
  <2>1. \A k \in 0..25 : n * k \in Nat /\ n * k <= n * 25 OBVIOUS
  <2> QED BY <1>1, <2>1
<1> HIDE DEF m
<1>3. m \div 100 <= n /\ m \div 100 \in Nat
  BY <1>2
<1> QED BY <1>3 DEF applyJitter, m

(* A detection time is a number of ticks.                                  *)
LEMMA DetectionNat ==
  ASSUME NEW k \in Keys
  PROVE  DetectionTime(k) \in Nat /\ TxInterval[k] \in Nat
<1>1. DetectMult \in Nat /\ TxInterval[k] \in Nat BY EchoAssumption
<1> QED BY <1>1 DEF DetectionTime

(* sendEcho only re-arms the transmit timer.                               *)
LEMMA SentRecord ==
  ASSUME NEW r \in EchoRecs, Well(r), Runs(r), NEW j \in Jitters,
         NEW s, s = [r EXCEPT !.txTimer = applyJitter(TxInterval[r.key], j)]
  PROVE  /\ s \in EchoRecs /\ Well(s)
         /\ s.phase = r.phase /\ s.key = r.key /\ s.port = r.port /\ s.state = r.state
         /\ s.detectTimer = r.detectTimer /\ s.recvCh = r.recvCh /\ s.goodFor = r.goodFor
<1> DEFINE x == applyJitter(TxInterval[r.key], j)
<1>1. x \in 0..TxInterval[r.key] /\ TxInterval[r.key] \in Nat
  BY JitterShorter, DetectionNat DEF Well
<1> HIDE DEF x
<1>2. s = [r EXCEPT !.txTimer = x] BY DEF x
<1>3. /\ s \in EchoRecs /\ s.txTimer = x
      /\ s.phase = r.phase /\ s.key = r.key /\ s.port = r.port /\ s.state = r.state
      /\ s.detectTimer = r.detectTimer /\ s.recvCh = r.recvCh /\ s.goodFor = r.goodFor
  BY <1>1, <1>2 DEF EchoRecs
<1> QED BY <1>1, <1>3 DEF Well, Runs

(* Arming the detection timer, a step of both handlers.                    *)
LEMMA ArmedRecord ==
  ASSUME NEW t \in EchoRecs, Well(t), Runs(t),
         NEW q, q = [t EXCEPT !.detectTimer = DetectionTime(t.key)]
  PROVE  /\ q \in EchoRecs /\ Well(q) /\ q.state = t.state
         /\ q.phase = t.phase /\ q.key = t.key /\ q.port = t.port
         /\ q.detectTimer = DetectionTime(t.key) /\ q.txTimer = t.txTimer
         /\ q.recvCh = t.recvCh /\ q.goodFor = t.goodFor
<1> DEFINE D == DetectionTime(t.key)
<1>1. D \in Nat /\ TxInterval[t.key] \in Nat BY DetectionNat DEF Well
<1> HIDE DEF D
<1>2. q = [t EXCEPT !.detectTimer = D] BY DEF D
<1>3. /\ q \in EchoRecs /\ q.state = t.state
      /\ q.phase = t.phase /\ q.key = t.key /\ q.port = t.port
      /\ q.detectTimer = D /\ q.txTimer = t.txTimer
      /\ q.recvCh = t.recvCh /\ q.goodFor = t.goodFor
  BY <1>1, <1>2 DEF EchoRecs
<1> QED BY <1>1, <1>3 DEF Well, Runs, D

Moved(q, s, b) ==
  /\ s \in EchoRecs /\ Well(s) /\ s.state = b
  /\ s.phase = q.phase /\ s.key = q.key /\ s.port = q.port
  /\ s.detectTimer = q.detectTimer /\ s.txTimer = q.txTimer
  /\ s.recvCh = q.recvCh /\ s.goodFor = q.goodFor

(* transitionTo changes the state of a session alone.                      *)
LEMMA MovedRecord ==
  ASSUME NEW q \in EchoRecs, Well(q), NEW b \in {"Down", "Up"}, NEW s,
         q.state # b => s = transitionTo(q, b), q.state = b => s = q
  PROVE  Moved(q, s, b)
<1>1. CASE q.state # b
  <2>1. s = [q EXCEPT !.state = b] BY <1>1 DEF transitionTo
  <2>2. /\ s \in EchoRecs /\ s.state = b
        /\ s.phase = q.phase /\ s.key = q.key /\ s.port = q.port
        /\ s.detectTimer = q.detectTimer /\ s.txTimer = q.txTimer
        /\ s.recvCh = q.recvCh /\ s.goodFor = q.goodFor
    BY <2>1 DEF EchoRecs
  <2> QED BY <2>2 DEF Well, Runs, Moved
<1>2. CASE q.state = b BY <1>2 DEF Moved
<1> QED BY <1>1, <1>2

(* handleEchoRecv takes one echo,                                          *)
LEMMA TakenRecord ==
  ASSUME NEW r \in EchoRecs, Well(r), r.recvCh > 0, NEW t, t = [r EXCEPT !.recvCh = @ - 1]
  PROVE  /\ t \in EchoRecs /\ Well(t) /\ t.phase = r.phase /\ t.key = r.key /\ t.port = r.port
         /\ t.txTimer = r.txTimer /\ t.goodFor = r.goodFor
<1>1. PICK n : n = r.recvCh - 1 OBVIOUS
<1>2. n \in 0..echoRecvChSize BY <1>1, EchoAssumption DEF EchoRecs
<1>3. t = [r EXCEPT !.recvCh = n] BY <1>1
<1>4. /\ t \in EchoRecs /\ t.phase = r.phase /\ t.key = r.key /\ t.port = r.port
      /\ t.txTimer = r.txTimer /\ t.detectTimer = r.detectTimer /\ t.goodFor = r.goodFor
  BY <1>2, <1>3 DEF EchoRecs
<1> QED BY <1>4 DEF Well, Runs

Heard(t, s) ==
  /\ s \in EchoRecs /\ Well(s)
  /\ s.phase = t.phase /\ s.key = t.key /\ s.port = t.port /\ s.state = "Up"
  /\ s.detectTimer = DetectionTime(t.key) /\ s.txTimer = t.txTimer /\ s.goodFor = t.goodFor

(* re-arms the detection timer and leaves the session Up.                  *)
LEMMA HeardRecord ==
  ASSUME NEW t \in EchoRecs, Well(t), Runs(t), NEW q, NEW s,
         q = [t EXCEPT !.detectTimer = DetectionTime(t.key)],
         s = IF q.state = "Down" THEN transitionTo(q, "Up") ELSE q
  PROVE  Heard(t, s)
<1>1. /\ q \in EchoRecs /\ Well(q)
      /\ q.phase = t.phase /\ q.key = t.key /\ q.port = t.port
      /\ q.detectTimer = DetectionTime(t.key) /\ q.txTimer = t.txTimer
      /\ q.goodFor = t.goodFor
  BY ArmedRecord
<1>2. /\ s \in EchoRecs /\ Well(s) /\ s.state = "Up"
      /\ s.phase = q.phase /\ s.key = q.key /\ s.port = q.port
      /\ s.detectTimer = q.detectTimer /\ s.txTimer = q.txTimer
      /\ s.goodFor = q.goodFor
  <2>1. q.state \in {"Down", "Up"} BY <1>1 DEF EchoRecs
  <2>2. (q.state # "Up" => s = transitionTo(q, "Up")) /\ (q.state = "Up" => s = q) BY <2>1
  <2>3. "Up" \in {"Down", "Up"} OBVIOUS
  <2>4. Moved(q, s, "Up") BY <1>1, <2>2, <2>3, MovedRecord, Zenon
  <2> QED BY <2>4 DEF Moved
<1> QED BY <1>1, <1>2 DEF Heard

Expired(r, s) ==
  /\ s \in EchoRecs /\ Well(s)
  /\ s.phase = r.phase /\ s.key = r.key /\ s.port = r.port /\ s.state = "Down"
  /\ s.txTimer = r.txTimer /\ s.recvCh = r.recvCh /\ s.goodFor = r.goodFor

(* handleDetectTimeout re-arms the detection timer and leaves the session  *)
(* Down.                                                                   *)
LEMMA ExpiredRecord ==
  ASSUME NEW r \in EchoRecs, Well(r), Runs(r), NEW q, NEW s,
         q = [r EXCEPT !.detectTimer = DetectionTime(r.key)],
         s = IF q.state = "Up" THEN transitionTo(q, "Down") ELSE q
  PROVE  Expired(r, s)
<1>1. /\ q \in EchoRecs /\ Well(q)
      /\ q.phase = r.phase /\ q.key = r.key /\ q.port = r.port
      /\ q.txTimer = r.txTimer /\ q.recvCh = r.recvCh /\ q.goodFor = r.goodFor
  BY ArmedRecord
<1>2. /\ s \in EchoRecs /\ Well(s) /\ s.state = "Down"
      /\ s.phase = q.phase /\ s.key = q.key /\ s.port = q.port
      /\ s.txTimer = q.txTimer /\ s.recvCh = q.recvCh /\ s.goodFor = q.goodFor
  <2>1. q.state \in {"Down", "Up"} BY <1>1 DEF EchoRecs
  <2>2. (q.state # "Down" => s = transitionTo(q, "Down")) /\ (q.state = "Down" => s = q) BY <2>1
  <2>3. "Down" \in {"Down", "Up"} OBVIOUS
  <2>4. Moved(q, s, "Down") BY <1>1, <2>2, <2>3, MovedRecord, Zenon
  <2> QED BY <2>4 DEF Moved
<1> QED BY <1>1, <1>2 DEF Expired

(* RecvEcho leaves an echo in the channel, also when it is full.           *)
LEMMA QueuedRecord ==
  ASSUME NEW r \in EchoRecs, Well(r), NEW s, s = RecvEcho(r)
  PROVE  /\ s \in EchoRecs /\ Well(s) /\ s.recvCh > 0
         /\ s.phase = r.phase /\ s.key = r.key /\ s.port = r.port /\ s.state = r.state
         /\ s.txTimer = r.txTimer /\ s.detectTimer = r.detectTimer /\ s.goodFor = r.goodFor
<1>1. PICK n : n = IF r.recvCh < echoRecvChSize THEN r.recvCh + 1 ELSE r.recvCh OBVIOUS
<1>2. r.recvCh \in 0..echoRecvChSize BY DEF EchoRecs
<1>3. n \in 0..echoRecvChSize /\ n > 0 BY <1>1, <1>2, EchoAssumption
<1>4. s = [r EXCEPT !.recvCh = n] BY <1>1 DEF RecvEcho
<1>5. /\ s \in EchoRecs /\ s.recvCh = n
      /\ s.phase = r.phase /\ s.key = r.key /\ s.port = r.port /\ s.state = r.state
      /\ s.txTimer = r.txTimer /\ s.detectTimer = r.detectTimer /\ s.goodFor = r.goodFor
  BY <1>3, <1>4 DEF EchoRecs
<1> QED BY <1>3, <1>5 DEF Well, Runs

(* When the path changes only the history counter starts again.            *)
LEMMA ResetRecord ==
  ASSUME NEW r \in EchoRecs, Well(r), NEW s, s = [r EXCEPT !.goodFor = 0]
  PROVE  /\ s \in EchoRecs /\ Well(s) /\ s.goodFor = 0 /\ s.recvCh = r.recvCh
         /\ s.phase = r.phase /\ s.key = r.key /\ s.port = r.port /\ s.state = r.state
         /\ s.txTimer = r.txTimer /\ s.detectTimer = r.detectTimer
<1>1. /\ s \in EchoRecs /\ s.goodFor = 0 /\ s.recvCh = r.recvCh
      /\ s.phase = r.phase /\ s.key = r.key /\ s.port = r.port /\ s.state = r.state
      /\ s.txTimer = r.txTimer /\ s.detectTimer = r.detectTimer
  BY DEF EchoRecs
<1> QED BY <1>1 DEF Well, Runs

Ticked(r, s, n) ==
  /\ s \in EchoRecs /\ Well(s) /\ s.goodFor = n /\ s.recvCh = r.recvCh
  /\ s.phase = r.phase /\ s.key = r.key /\ s.port = r.port /\ s.state = r.state
  /\ s.txTimer = r.txTimer - 1 /\ s.detectTimer = r.detectTimer - 1

(* A tick moves both timers of a session whose timers still run.           *)
LEMMA TickedRecord ==
  ASSUME NEW r \in EchoRecs, Well(r), Runs(r), r.txTimer > 0, r.detectTimer > 0,
         NEW n \in {r.goodFor, r.goodFor + 1}, NEW s,
         s = [r EXCEPT !.txTimer = @ - 1, !.detectTimer = @ - 1, !.goodFor = n]
  PROVE  Ticked(r, s, n)
<1>1. r.txTimer \in Int /\ r.detectTimer \in Int /\ r.goodFor \in Nat BY DEF EchoRecs
<1>2. PICK x, y : x = r.txTimer - 1 /\ y = r.detectTimer - 1 OBVIOUS
<1>3. x \in Int /\ y \in Int /\ n \in Nat BY <1>1, <1>2
<1>4. s = [r EXCEPT !.txTimer = x, !.detectTimer = y, !.goodFor = n] BY <1>2
<1>5. /\ s \in EchoRecs /\ s.goodFor = n /\ s.recvCh = r.recvCh
      /\ s.phase = r.phase /\ s.key = r.key /\ s.port = r.port /\ s.state = r.state
      /\ s.txTimer = x /\ s.detectTimer = y
  BY <1>3, <1>4 DEF EchoRecs
<1>6. Runs(r) => DetectionTime(r.key) \in Nat /\ TxInterval[r.key] \in Nat
  BY DetectionNat DEF Well
<1>7. Well(s) BY <1>1, <1>2, <1>5, <1>6 DEF Well, Runs
<1> QED BY <1>2, <1>5, <1>7 DEF Ticked

-----------------------------------------------------------------------------
(* The steps of the goroutines, the receiver, the path and the clock       *)

(* An echo returns before the detection timer can fire: the detection time *)
(* exceeds one interval and the longest travel time.                       *)
EchoReturns ==
  \A k \in Keys : TxInterval[k] > 0 => TxInterval[k] + MaxDelay < DetectionTime(k)

TableSame == /\ UNCHANGED <<call, allocated>>
             /\ \A d \in Discrs : es'[d].phase = es[d].phase /\ es'[d].key = es[d].key

TimeKept == /\ TypeOK' /\ TableSame
            /\ CutInv => CutInv'
            /\ EchoReturns /\ GoodInv => GoodInv'

(* A step of one session, which may put an echo on the wire.               *)
LEMMA OneKept ==
  ASSUME TypeOK, NEW d \in Discrs, NEW s \in EchoRecs, Well(s),
         s.phase = es[d].phase, s.key = es[d].key,
         es' = [es EXCEPT ![d] = s], UNCHANGED <<call, allocated, path, cutFor>>,
         wire' \subseteq Echoes,
         path = "cut" /\ CutInv => (\A p \in wire' : cutFor <= p.age) /\ Cut(s, cutFor),
         path = "good" /\ EchoReturns /\ Timely(es[d], d, wire) => Timely(s, d, wire'),
         \A e \in Discrs : e # d /\ Timely(es[e], e, wire) => Timely(es[e], e, wire')
  PROVE  TimeKept
<1>1. \A e \in Discrs : es'[e] = IF e = d THEN s ELSE es[e] BY DEF TypeOK
<1>2. es' \in [Discrs -> EchoRecs] BY DEF TypeOK
<1>3. \A e \in Discrs : Well(es'[e]) BY <1>1 DEF TypeOK
<1>4. TypeOK'
  <2>1. allocated' \subseteq Discrs /\ call' \in [Callers -> CallRecs] /\ path' \in {"good", "cut"}
        /\ cutFor' \in Nat
    BY DEF TypeOK
  <2> QED BY <1>2, <1>3, <2>1 DEF TypeOK
<1>5. TableSame BY <1>1 DEF TableSame
<1>6. ASSUME CutInv PROVE CutInv'
  <2>1. SUFFICES ASSUME path = "cut" PROVE CutInv' BY DEF CutInv
  <2>2. (\A p \in wire' : cutFor <= p.age) /\ Cut(s, cutFor) BY <1>6, <2>1
  <2>3. \A e \in Discrs : Cut(es[e], cutFor) BY <1>6, <2>1 DEF CutInv
  <2>4. \A e \in Discrs : Cut(es'[e], cutFor) BY <1>1, <2>2, <2>3
  <2> QED BY <2>2, <2>4 DEF CutInv
<1>7. ASSUME EchoReturns, GoodInv PROVE GoodInv'
  <2>1. SUFFICES ASSUME path = "good" PROVE GoodInv' BY DEF GoodInv
  <2>2. \A e \in Discrs : Timely(es[e], e, wire) BY <1>7, <2>1 DEF GoodInv
  <2>3. \A e \in Discrs : Timely(es'[e], e, wire') BY <1>1, <1>7, <2>1, <2>2
  <2> QED BY <2>3 DEF GoodInv
<1> QED BY <1>4, <1>5, <1>6, <1>7 DEF TimeKept

(* More echoes on the wire never hurt.                                     *)
LEMMA WireGrows ==
  ASSUME NEW r, NEW d, NEW W, NEW V, W \subseteq V, Timely(r, d, W)
  PROVE  Timely(r, d, V)
BY DEF Timely, Backed

(* A session that sends.                                                   *)
LEMMA SendKept ==
  ASSUME TypeOK, NEW d \in Discrs, sendEcho(d)
  PROVE  TimeKept
<1>1. PICK j \in Jitters : es' = [es EXCEPT ![d].txTimer = applyJitter(TxInterval[es[d].key], j)]
  BY DEF sendEcho
<1>2. PICK r : r = es[d] OBVIOUS
<1>3. PICK s : s = [r EXCEPT !.txTimer = applyJitter(TxInterval[r.key], j)] OBVIOUS
<1>4. r \in EchoRecs /\ Well(r) BY <1>2 DEF TypeOK
<1>5. Runs(r) /\ r.txTimer = 0 BY <1>2 DEF sendEcho, Running, Runs
<1>6. /\ s \in EchoRecs /\ Well(s)
      /\ s.phase = r.phase /\ s.key = r.key /\ s.port = r.port /\ s.state = r.state
      /\ s.detectTimer = r.detectTimer /\ s.recvCh = r.recvCh /\ s.goodFor = r.goodFor
  BY <1>3, <1>4, <1>5, SentRecord
<1>7. es' = [es EXCEPT ![d] = s] BY <1>1, <1>2, <1>3
<1>8. UNCHANGED <<call, allocated, path, cutFor>> BY DEF sendEcho
<1>9. PICK p : p = [pkt |-> rebuildCachedPacket(d), age |-> 0] OBVIOUS
<1>10. wire' = IF path = "good" /\ r.port = "3785" THEN wire \cup {p} ELSE wire
  BY <1>2, <1>9 DEF sendEcho
<1>11. p \in Echoes /\ p.pkt.myDiscr = d /\ p.age = 0
  <2>1. r.state \in {"Down", "Up"} BY <1>4 DEF EchoRecs
  <2>2. PICK y : y = IF r.state = "Up" THEN d ELSE 0 OBVIOUS
  <2>3. p = [pkt |-> [state |-> r.state, detectMult |-> DetectMult, myDiscr |-> d, yourDiscr |-> y],
             age |-> 0]
    BY <1>2, <1>9, <2>2 DEF rebuildCachedPacket
  <2>4. d # 0 /\ DetectMult # 0 /\ MaxDelay \in Nat /\ y \in Discrs \cup {0}
    BY <2>2, DiscrAssumption, EchoAssumption
  <2>5. y = 0 => r.state = "Down" BY <2>1, <2>2, <2>4
  <2>6. Decodable(p.pkt) BY <2>3, <2>4, <2>5 DEF Decodable
  <2>7. p.age = 0 /\ p.pkt.myDiscr = d BY <2>3
  <2>8. 0 \in 0..MaxDelay BY <2>4
  <2>9. p.pkt \in [state : {"Down", "Up"}, detectMult : {DetectMult}, myDiscr : Discrs,
                   yourDiscr : Discrs \cup {0}]
    BY <2>1, <2>3, <2>4
  <2>10. p \in [pkt : [state : {"Down", "Up"}, detectMult : {DetectMult}, myDiscr : Discrs,
                       yourDiscr : Discrs \cup {0}], age : 0..MaxDelay]
    BY <2>3, <2>8, <2>9
  <2> QED BY <2>6, <2>7, <2>10 DEF Echoes
<1>12. wire' \subseteq Echoes BY <1>10, <1>11 DEF TypeOK
<1>13. ASSUME path = "cut", CutInv
       PROVE  (\A q \in wire' : cutFor <= q.age) /\ Cut(s, cutFor)
  <2>1. wire' = wire BY <1>10, <1>13
  <2>2. (\A q \in wire : cutFor <= q.age) /\ Cut(r, cutFor) BY <1>2, <1>13 DEF CutInv
  <2> QED BY <1>6, <2>1, <2>2 DEF Cut, Runs
<1>14. ASSUME path = "good", Timely(r, d, wire) PROVE Timely(s, d, wire')
  <2>1. SUFFICES ASSUME r.phase = "running", r.port = "3785" PROVE Timely(s, d, wire')
    BY <1>6 DEF Timely
  <2>2. wire \subseteq wire' /\ p \in wire' BY <1>10, <1>14, <2>1
  <2>3. /\ r.goodFor \in Nat /\ r.detectTimer \in Int /\ TxInterval[r.key] \in Nat /\ MaxDelay \in Nat
    BY <1>4, <1>5, DetectionNat, EchoAssumption DEF EchoRecs, Well
  <2>4. CASE r.goodFor + r.txTimer <= TxInterval[r.key]
    <3>1. r.goodFor <= TxInterval[r.key] + p.age BY <1>5, <1>11, <2>3, <2>4
    <3> QED BY <1>6, <1>11, <2>2, <3>1 DEF Timely
  <2>5. CASE \E q \in wire : q.pkt.myDiscr = d /\ r.goodFor <= TxInterval[r.key] + q.age
    BY <1>6, <2>2, <2>5 DEF Timely
  <2>6. CASE r.recvCh > 0 /\ r.goodFor <= TxInterval[r.key] + MaxDelay
    BY <1>6, <2>6 DEF Timely
  <2>7. CASE Backed(r, d, wire)
    <3>1. CASE r.detectTimer > r.txTimer + MaxDelay
      <4>1. r.detectTimer + p.age > MaxDelay BY <1>5, <1>11, <2>3, <3>1
      <4> QED BY <1>6, <1>11, <2>2, <2>7, <4>1 DEF Timely, Backed
    <3>2. CASE r.recvCh > 0 \/ \E q \in wire : q.pkt.myDiscr = d /\ r.detectTimer + q.age > MaxDelay
      BY <1>6, <2>2, <2>7, <3>2 DEF Timely, Backed
    <3> QED BY <2>7, <3>1, <3>2 DEF Backed
  <2> QED BY <1>14, <2>1, <2>4, <2>5, <2>6, <2>7 DEF Timely
<1>15. \A e \in Discrs : e # d /\ Timely(es[e], e, wire) => Timely(es[e], e, wire')
  <2>1. wire \subseteq wire' BY <1>10
  <2> QED BY <2>1, WireGrows
<1> QED BY <1>2, <1>6, <1>7, <1>8, <1>12, <1>13, <1>14, <1>15, OneKept

(* A session that hears an echo.                                           *)
LEMMA HearKept ==
  ASSUME TypeOK, NEW d \in Discrs, handleEchoRecv(d)
  PROVE  TimeKept
<1>1. PICK r : r = es[d] OBVIOUS
<1>2. PICK t : t = [r EXCEPT !.recvCh = @ - 1] OBVIOUS
<1>3. r \in EchoRecs /\ Well(r) BY <1>1 DEF TypeOK
<1>4. Runs(r) /\ r.recvCh > 0 BY <1>1 DEF handleEchoRecv, Running, Runs
<1>5. /\ t \in EchoRecs /\ Well(t) /\ t.phase = r.phase /\ t.key = r.key /\ t.port = r.port
      /\ t.txTimer = r.txTimer /\ t.goodFor = r.goodFor
  BY <1>2, <1>3, <1>4, TakenRecord
<1>6. PICK q : q = [t EXCEPT !.detectTimer = DetectionTime(t.key)] OBVIOUS
<1>7. PICK s : s = IF q.state = "Down" THEN transitionTo(q, "Up") ELSE q OBVIOUS
<1>8. q = [r EXCEPT !.recvCh = @ - 1, !.detectTimer = DetectionTime(r.key)]
  <2>1. t.key = r.key BY <1>5
  <2> QED BY <1>2, <1>6, <2>1, Zenon
<1>9. es' = [es EXCEPT ![d] = s]
  BY <1>1, <1>7, <1>8 DEF handleEchoRecv
<1>10. Runs(t) BY <1>4, <1>5 DEF Runs
<1>11. /\ s \in EchoRecs /\ Well(s)
       /\ s.phase = t.phase /\ s.key = t.key /\ s.port = t.port /\ s.state = "Up"
       /\ s.detectTimer = DetectionTime(t.key) /\ s.txTimer = t.txTimer /\ s.goodFor = t.goodFor
  <2>1. t \in EchoRecs /\ Well(t) BY <1>5
  <2>2. Heard(t, s) BY <1>6, <1>7, <1>10, <2>1, HeardRecord
  <2> QED BY <2>2 DEF Heard
<1>12. UNCHANGED <<call, allocated, path, cutFor, wire>> BY DEF handleEchoRecv
<1>13. wire' \subseteq Echoes BY <1>12 DEF TypeOK
<1>14. r.key \in Keys /\ TxInterval[r.key] > 0 /\ r.txTimer \in 0..TxInterval[r.key]
  BY <1>3, <1>4 DEF Well
<1>15. DetectionTime(r.key) \in Nat /\ TxInterval[r.key] \in Nat /\ MaxDelay \in Nat /\ cutFor \in Nat
  BY <1>14, DetectionNat, EchoAssumption DEF TypeOK
<1>16. ASSUME path = "cut", CutInv
       PROVE  (\A p \in wire' : cutFor <= p.age) /\ Cut(s, cutFor)
  <2>1. \A p \in wire' : cutFor <= p.age BY <1>12, <1>16 DEF CutInv
  <2>2. cutFor <= MaxDelay BY <1>1, <1>4, <1>16 DEF CutInv, Cut
  <2>3. DetectionTime(r.key) + cutFor <= DetectionTime(r.key) + MaxDelay BY <1>15, <2>2
  <2> QED BY <1>5, <1>11, <2>1, <2>2, <2>3 DEF Cut
<1>17. ASSUME EchoReturns PROVE Timely(s, d, wire')
  <2>1. TxInterval[r.key] + MaxDelay < DetectionTime(r.key) BY <1>14, <1>17 DEF EchoReturns
  <2> HIDE DEF EchoReturns
  <2>2. DetectionTime(r.key) > 0 /\ DetectionTime(r.key) > r.txTimer + MaxDelay
    BY <1>14, <1>15, <2>1
  <2>3. Backed(s, d, wire') BY <1>5, <1>11, <2>2 DEF Backed
  <2> QED BY <2>3 DEF Timely
<1>18. \A e \in Discrs : e # d /\ Timely(es[e], e, wire) => Timely(es[e], e, wire') BY <1>12
<1> QED BY <1>1, <1>5, <1>9, <1>11, <1>12, <1>13, <1>16, <1>17, <1>18, OneKept

(* A session whose detection timer fires.                                  *)
LEMMA ExpireKept ==
  ASSUME TypeOK, NEW d \in Discrs, handleDetectTimeout(d)
  PROVE  TimeKept
<1>1. PICK r : r = es[d] OBVIOUS
<1>2. r \in EchoRecs /\ Well(r) BY <1>1 DEF TypeOK
<1>3. Runs(r) /\ r.detectTimer = 0 BY <1>1 DEF handleDetectTimeout, Running, Runs
<1>4. PICK q : q = [r EXCEPT !.detectTimer = DetectionTime(r.key)] OBVIOUS
<1>5. PICK s : s = IF q.state = "Up" THEN transitionTo(q, "Down") ELSE q OBVIOUS
<1>6. es' = [es EXCEPT ![d] = s] BY <1>1, <1>4, <1>5 DEF handleDetectTimeout
<1>7. /\ s \in EchoRecs /\ Well(s)
      /\ s.phase = r.phase /\ s.key = r.key /\ s.port = r.port /\ s.state = "Down"
      /\ s.txTimer = r.txTimer /\ s.recvCh = r.recvCh /\ s.goodFor = r.goodFor
  <2>1. Expired(r, s) BY <1>2, <1>3, <1>4, <1>5, ExpiredRecord
  <2> QED BY <2>1 DEF Expired
<1>8. UNCHANGED <<call, allocated, path, cutFor, wire>> BY DEF handleDetectTimeout
<1>9. wire' \subseteq Echoes BY <1>8 DEF TypeOK
<1>10. ASSUME path = "cut", CutInv
       PROVE  (\A p \in wire' : cutFor <= p.age) /\ Cut(s, cutFor)
  <2>1. \A p \in wire' : cutFor <= p.age BY <1>8, <1>10 DEF CutInv
  <2>2. Cut(r, cutFor) BY <1>1, <1>10 DEF CutInv
  <2> QED BY <1>3, <1>7, <2>1, <2>2 DEF Cut
<1>11. ASSUME Timely(r, d, wire) PROVE Timely(s, d, wire')
  <2>1. ~Backed(r, d, wire) BY <1>3 DEF Backed
  <2> QED BY <1>7, <1>8, <1>11, <2>1 DEF Timely
<1>12. \A e \in Discrs : e # d /\ Timely(es[e], e, wire) => Timely(es[e], e, wire') BY <1>8
<1> QED BY <1>1, <1>6, <1>7, <1>8, <1>9, <1>10, <1>11, <1>12, OneKept

(* Taking an echo off the wire leaves the other sessions alone,            *)
LEMMA WireShrinks ==
  ASSUME NEW r, NEW d, NEW W, NEW p, p.pkt.myDiscr # d, Timely(r, d, W)
  PROVE  Timely(r, d, W \ {p})
<1>1. \A q \in W : q.pkt.myDiscr = d => q \in W \ {p} OBVIOUS
<1> QED BY <1>1 DEF Timely, Backed

(* and its own session has it in the channel.                              *)
LEMMA WireHandsOver ==
  ASSUME NEW r \in EchoRecs, NEW s, NEW d \in Discrs, NEW W, NEW p \in W, p.age \in 0..MaxDelay,
         s.recvCh > 0, TxInterval[r.key] \in Nat,
         s.phase = r.phase, s.key = r.key, s.port = r.port, s.state = r.state,
         s.txTimer = r.txTimer, s.detectTimer = r.detectTimer, s.goodFor = r.goodFor,
         Timely(r, d, W)
  PROVE  Timely(s, d, W \ {p})
<1>1. SUFFICES ASSUME r.phase = "running", r.port = "3785" PROVE Timely(s, d, W \ {p})
  BY DEF Timely
<1>2. MaxDelay \in Nat /\ r.goodFor \in Nat BY EchoAssumption DEF EchoRecs
<1>3. CASE r.goodFor + r.txTimer <= TxInterval[r.key] BY <1>3 DEF Timely
<1>4. ASSUME NEW q \in W, q.pkt.myDiscr = d, r.goodFor <= TxInterval[r.key] + q.age
      PROVE  Timely(s, d, W \ {p})
  <2>1. CASE q = p
    <3>1. r.goodFor <= TxInterval[r.key] + MaxDelay BY <1>2, <1>4, <2>1
    <3> QED BY <3>1 DEF Timely
  <2>2. CASE q # p
    <3>1. q \in W \ {p} BY <2>2
    <3> QED BY <1>4, <3>1 DEF Timely
  <2> QED BY <2>1, <2>2
<1>5. CASE r.recvCh > 0 /\ r.goodFor <= TxInterval[r.key] + MaxDelay BY <1>5 DEF Timely
<1>6. CASE Backed(r, d, W)
  <2>1. Backed(s, d, W \ {p}) BY <1>6 DEF Backed
  <2> QED BY <2>1 DEF Timely
<1> QED BY <1>1, <1>3, <1>4, <1>5, <1>6 DEF Timely

(* The receiver takes an echo.                                             *)
LEMMA ReceiveKept ==
  ASSUME TypeOK, NEW p \in wire, recvOne(p)
  PROVE  TimeKept
<1>1. PICK d : d = p.pkt.myDiscr OBVIOUS
<1>2. p \in Echoes BY DEF TypeOK
<1>3. d \in Discrs /\ p.age \in 0..MaxDelay /\ Decodable(p.pkt) BY <1>1, <1>2 DEF Echoes
<1>4. wire' = wire \ {p} /\ UNCHANGED <<call, allocated, path, cutFor>> BY DEF recvOne
<1>5. wire' \subseteq Echoes BY <1>4 DEF TypeOK
<1>6. es' = IF d \in echoSessions THEN [es EXCEPT ![d] = RecvEcho(es[d])] ELSE es
  <2>1. DemuxEcho(p.pkt.myDiscr) BY <1>3 DEF recvOne
  <2> QED BY <1>1, <2>1 DEF DemuxEcho
<1>7. PICK r : r = es[d] OBVIOUS
<1>8. r \in EchoRecs /\ Well(r) BY <1>3, <1>7 DEF TypeOK
<1>9. \A e \in Discrs : e # d /\ Timely(es[e], e, wire) => Timely(es[e], e, wire')
  <2>1. \A e \in Discrs : e # d => p.pkt.myDiscr # e BY <1>1
  <2> QED BY <1>4, <2>1, WireShrinks
<1>10. MaxDelay \in Nat /\ cutFor \in Nat BY EchoAssumption DEF TypeOK
<1>11. ASSUME path = "cut", CutInv
       PROVE  (\A q \in wire' : cutFor <= q.age) /\ Cut(r, cutFor) /\ cutFor <= MaxDelay
  <2>1. \A q \in wire : cutFor <= q.age BY <1>11 DEF CutInv
  <2>2. Cut(r, cutFor) BY <1>3, <1>7, <1>11 DEF CutInv
  <2>3. cutFor <= p.age /\ p.age \in Int BY <1>3, <2>1
  <2>4. cutFor <= MaxDelay BY <1>3, <1>10, <2>3
  <2> QED BY <1>4, <2>1, <2>2, <2>4
<1>12. CASE d \in echoSessions
  <2>1. PICK s : s = RecvEcho(r) OBVIOUS
  <2>2. /\ s \in EchoRecs /\ Well(s) /\ s.recvCh > 0
        /\ s.phase = r.phase /\ s.key = r.key /\ s.port = r.port /\ s.state = r.state
        /\ s.txTimer = r.txTimer /\ s.detectTimer = r.detectTimer /\ s.goodFor = r.goodFor
    BY <1>8, <2>1, QueuedRecord
  <2>3. es' = [es EXCEPT ![d] = s] BY <1>6, <1>7, <1>12, <2>1
  <2>4. ASSUME path = "cut", CutInv
        PROVE  (\A q \in wire' : cutFor <= q.age) /\ Cut(s, cutFor)
    BY <1>11, <2>2, <2>4 DEF Cut, Runs
  <2>5. Runs(r) BY <1>7, <1>12 DEF echoSessions, Runs
  <2>6. TxInterval[r.key] \in Nat BY <1>8, <2>5, DetectionNat DEF Well
  <2>7. Timely(r, d, wire) => Timely(s, d, wire')
    BY <1>3, <1>4, <1>8, <2>2, <2>6, WireHandsOver
  <2> QED BY <1>3, <1>4, <1>5, <1>7, <1>9, <2>2, <2>3, <2>4, <2>7, OneKept
<1>13. CASE d \notin echoSessions
  <2>1. es' = [es EXCEPT ![d] = r]
    <3>1. es' = es BY <1>6, <1>13
    <3>2. es = [es EXCEPT ![d] = es[d]] BY <1>3 DEF TypeOK
    <3> QED BY <1>7, <3>1, <3>2
  <2>2. Timely(r, d, wire')
    BY <1>3, <1>7, <1>13 DEF echoSessions, Timely
  <2> QED BY <1>3, <1>4, <1>5, <1>7, <1>8, <1>9, <1>11, <2>1, <2>2, OneKept
<1> QED BY <1>12, <1>13

(* The path fails or is repaired.                                          *)
LEMMA PathKept ==
  ASSUME TypeOK, PathChanges
  PROVE  TimeKept
<1>1. UNCHANGED <<call, allocated>> /\ wire' \subseteq wire /\ cutFor' = 0 BY DEF PathChanges
<1>2. es' = [d \in Discrs |-> [es[d] EXCEPT !.goodFor = 0]] BY DEF PathChanges
<1>3. ASSUME NEW d \in Discrs
      PROVE  /\ es'[d] \in EchoRecs /\ Well(es'[d]) /\ es'[d].goodFor = 0
             /\ es'[d].phase = es[d].phase /\ es'[d].key = es[d].key
  <2>1. es'[d] = [es[d] EXCEPT !.goodFor = 0] BY <1>2
  <2>2. es[d] \in EchoRecs /\ Well(es[d]) BY DEF TypeOK
  <2> QED BY <2>1, <2>2, ResetRecord
<1>4. path' \in {"good", "cut"} BY DEF PathChanges
<1>5. TypeOK'
  <2>1. es' \in [Discrs -> EchoRecs] BY <1>2, <1>3
  <2>2. call' \in [Callers -> CallRecs] /\ allocated' \subseteq Discrs BY <1>1 DEF TypeOK
  <2>3. wire' \subseteq Echoes /\ cutFor' \in Nat BY <1>1 DEF TypeOK
  <2>4. \A d \in Discrs : Well(es'[d]) BY <1>3
  <2> QED BY <1>4, <2>1, <2>2, <2>3, <2>4 DEF TypeOK
<1>6. TableSame BY <1>1, <1>3 DEF TableSame
<1>7. MaxDelay \in Nat BY EchoAssumption
<1>8. CutInv'
  <2>1. \A p \in wire' : cutFor' <= p.age
    <3>1. \A p \in wire' : p.age \in 0..MaxDelay BY <1>5 DEF TypeOK, Echoes
    <3> QED BY <1>1, <1>7, <3>1
  <2>2. \A d \in Discrs : Cut(es'[d], 0)
    <3>1. SUFFICES ASSUME NEW d \in Discrs, Runs(es'[d]) PROVE Cut(es'[d], 0) BY DEF Cut
    <3>2. es'[d].key \in Keys /\ es'[d].detectTimer \in 0..DetectionTime(es'[d].key)
      BY <1>3, <3>1 DEF Well
    <3>3. DetectionTime(es'[d].key) \in Nat BY <3>2, DetectionNat
    <3>4. es'[d].detectTimer + 0 <= DetectionTime(es'[d].key) + MaxDelay BY <1>7, <3>2, <3>3
    <3> QED BY <1>7, <3>4 DEF Cut
  <2> QED BY <1>1, <2>1, <2>2 DEF CutInv
<1>9. GoodInv'
  <2>1. SUFFICES ASSUME NEW d \in Discrs, es'[d].phase = "running" PROVE Timely(es'[d], d, wire')
    BY DEF GoodInv, Timely
  <2>2. es'[d].key \in Keys /\ es'[d].txTimer \in 0..TxInterval[es'[d].key]
    BY <1>3, <2>1 DEF Well, Runs
  <2>3. TxInterval[es'[d].key] \in Nat BY <2>2, DetectionNat
  <2>4. es'[d].goodFor + es'[d].txTimer <= TxInterval[es'[d].key] BY <1>3, <2>2, <2>3
  <2> QED BY <2>4 DEF Timely
<1> QED BY <1>5, <1>6, <1>8, <1>9 DEF TimeKept

(* Time passes.                                                            *)
LEMMA TickKept ==
  ASSUME TypeOK, Tick
  PROVE  TimeKept
<1>1. UNCHANGED <<call, allocated, path>> BY DEF Tick
<1>2. MaxDelay \in Nat /\ cutFor \in Nat BY EchoAssumption DEF TypeOK
<1>3. wire' = {[p EXCEPT !.age = @ + 1] : p \in wire} BY DEF Tick
<1>4. ASSUME NEW p \in wire, NEW q, q = [p EXCEPT !.age = @ + 1]
      PROVE  /\ p.age \in Nat /\ p.age < MaxDelay
             /\ q \in Echoes /\ q.age = p.age + 1 /\ q.pkt = p.pkt
  <2>1. PICK n : n = p.age + 1 OBVIOUS
  <2>2. /\ p \in [pkt : [state : {"Down", "Up"}, detectMult : {DetectMult}, myDiscr : Discrs,
                         yourDiscr : Discrs \cup {0}], age : 0..MaxDelay]
        /\ Decodable(p.pkt)
    BY DEF TypeOK, Echoes
  <2>3. p.age \in 0..MaxDelay /\ p.age < MaxDelay BY <2>2 DEF Tick, Quiet
  <2>4. n \in 0..MaxDelay BY <1>2, <2>1, <2>3
  <2>5. q = [p EXCEPT !.age = n] BY <1>4, <2>1
  <2>6. /\ q \in [pkt : [state : {"Down", "Up"}, detectMult : {DetectMult}, myDiscr : Discrs,
                         yourDiscr : Discrs \cup {0}], age : 0..MaxDelay]
        /\ q.age = n /\ q.pkt = p.pkt
    BY <2>2, <2>4, <2>5
  <2>7. q \in Echoes BY <2>2, <2>6 DEF Echoes
  <2> QED BY <1>2, <2>1, <2>3, <2>6, <2>7
<1>5. wire' \subseteq Echoes BY <1>3, <1>4
<1>6. ASSUME NEW d \in Discrs, ~Runs(es[d]) PROVE es'[d] = es[d]
  BY <1>6 DEF Tick, Running, Runs
<1>7. ASSUME NEW d \in Discrs, Runs(es[d])
      PROVE  /\ es'[d] \in EchoRecs /\ Well(es'[d]) /\ es[d].recvCh = 0 /\ es'[d].recvCh = 0
             /\ es[d].txTimer > 0 /\ es[d].detectTimer > 0
             /\ es'[d].goodFor \in {es[d].goodFor, es[d].goodFor + 1}
             /\ es'[d].phase = es[d].phase /\ es'[d].key = es[d].key /\ es'[d].port = es[d].port
             /\ es'[d].state = es[d].state
             /\ es'[d].txTimer = es[d].txTimer - 1 /\ es'[d].detectTimer = es[d].detectTimer - 1
  <2>1. PICK r : r = es[d] OBVIOUS
  <2>2. PICK n : n = IF path = "good" /\ r.goodFor < GoodCap THEN r.goodFor + 1 ELSE r.goodFor
    OBVIOUS
  <2>3. PICK s : s = [r EXCEPT !.txTimer = @ - 1, !.detectTimer = @ - 1, !.goodFor = n] OBVIOUS
  <2>4. r \in EchoRecs /\ Well(r) /\ Runs(r) BY <1>7, <2>1 DEF TypeOK
  <2>5. r.txTimer > 0 /\ r.detectTimer > 0 /\ r.recvCh = 0
    BY <1>7, <2>1 DEF Tick, Quiet, Running, Runs
  <2>6. n \in {r.goodFor, r.goodFor + 1} BY <2>2
  <2>7. /\ s \in EchoRecs /\ Well(s) /\ s.goodFor = n /\ s.recvCh = r.recvCh
        /\ s.phase = r.phase /\ s.key = r.key /\ s.port = r.port /\ s.state = r.state
        /\ s.txTimer = r.txTimer - 1 /\ s.detectTimer = r.detectTimer - 1
    <3>1. Ticked(r, s, n) BY <2>3, <2>4, <2>5, <2>6, TickedRecord
    <3> QED BY <3>1 DEF Ticked
  <2>8. es'[d] = s BY <1>7, <2>1, <2>2, <2>3 DEF Tick, Running, Runs
  <2> QED BY <2>1, <2>5, <2>6, <2>7, <2>8
<1>8. ASSUME NEW d \in Discrs
      PROVE  /\ es'[d] \in EchoRecs /\ Well(es'[d])
             /\ es'[d].phase = es[d].phase /\ es'[d].key = es[d].key
  <2>1. CASE Runs(es[d]) BY <1>7, <2>1
  <2>2. CASE ~Runs(es[d]) BY <1>6, <2>2 DEF TypeOK
  <2> QED BY <2>1, <2>2
<1>9. cutFor' \in Nat /\ cutFor' <= cutFor + 1
  <2>1. cutFor' = cutFor + 1 \/ cutFor' = cutFor BY DEF Tick
  <2> QED BY <1>2, <2>1
<1>10. TypeOK'
  <2>1. DOMAIN es' = Discrs /\ es' = [d \in Discrs |-> es'[d]] BY DEF Tick
  <2>2. es' \in [Discrs -> EchoRecs] BY <1>8, <2>1
  <2>3. call' \in [Callers -> CallRecs] /\ allocated' \subseteq Discrs /\ path' \in {"good", "cut"}
    BY <1>1 DEF TypeOK
  <2>4. \A d \in Discrs : Well(es'[d]) BY <1>8
  <2> QED BY <1>5, <1>9, <2>2, <2>3, <2>4 DEF TypeOK
<1>11. TableSame BY <1>1, <1>8 DEF TableSame
<1>12. ASSUME CutInv PROVE CutInv'
  <2>1. SUFFICES ASSUME path = "cut" PROVE CutInv' BY <1>1 DEF CutInv
  <2>2. \A q \in wire' : cutFor' <= q.age
    <3>1. SUFFICES ASSUME NEW q \in wire' PROVE cutFor' <= q.age OBVIOUS
    <3>2. PICK p \in wire : q = [p EXCEPT !.age = @ + 1] BY <1>3
    <3>3. q.age = p.age + 1 /\ p.age \in Nat BY <1>4, <3>2
    <3>4. cutFor <= p.age BY <1>12, <2>1 DEF CutInv
    <3> QED BY <1>2, <1>9, <3>3, <3>4
  <2>3. ASSUME NEW d \in Discrs PROVE Cut(es'[d], cutFor')
    <3>1. SUFFICES ASSUME Runs(es'[d]) PROVE Cut(es'[d], cutFor') BY DEF Cut
    <3>2. Runs(es[d]) BY <1>8, <3>1 DEF Runs
    <3>3. Cut(es[d], cutFor) BY <1>12, <2>1 DEF CutInv
    <3>4. es[d].key \in Keys /\ es[d].detectTimer \in 0..DetectionTime(es[d].key)
      BY <3>2 DEF TypeOK, Well
    <3>5. DetectionTime(es[d].key) \in Nat BY <3>4, DetectionNat
    <3>6. /\ es'[d].recvCh = 0 /\ es'[d].state = es[d].state /\ es'[d].key = es[d].key
          /\ es'[d].detectTimer = es[d].detectTimer - 1
      BY <1>7, <3>2
    <3>7. ASSUME es[d].state = "Up"
          PROVE  es[d].detectTimer - 1 + cutFor' <= DetectionTime(es[d].key) + MaxDelay
      <4>1. es[d].detectTimer + cutFor <= DetectionTime(es[d].key) + MaxDelay
        BY <3>2, <3>3, <3>7 DEF Cut
      <4> QED BY <1>2, <1>9, <3>4, <3>5, <4>1
    <3> QED BY <3>6, <3>7 DEF Cut
  <2> QED BY <2>2, <2>3 DEF CutInv
<1>13. ASSUME GoodInv PROVE GoodInv'
  <2>1. SUFFICES ASSUME path = "good", NEW d \in Discrs, es'[d].phase = "running",
                        es'[d].port = "3785"
                 PROVE  Timely(es'[d], d, wire')
    BY <1>1 DEF GoodInv, Timely
  <2>2. Runs(es[d]) /\ es[d].phase = "running" BY <1>8, <2>1 DEF Runs
  <2>3. PICK r, s : r = es[d] /\ s = es'[d] OBVIOUS
  <2>4. /\ r.recvCh = 0 /\ r.txTimer > 0 /\ r.detectTimer > 0
        /\ s.goodFor \in {r.goodFor, r.goodFor + 1} /\ s.port = r.port /\ s.state = r.state
        /\ s.txTimer = r.txTimer - 1 /\ s.detectTimer = r.detectTimer - 1 /\ s.key = r.key
    BY <1>7, <2>2, <2>3
  <2>5. r \in EchoRecs /\ r.key \in Keys BY <2>2, <2>3 DEF TypeOK, Well
  <2>6. /\ r.goodFor \in Nat /\ r.txTimer \in Int /\ r.detectTimer \in Int
        /\ TxInterval[r.key] \in Nat
    BY <2>5, DetectionNat DEF EchoRecs
  <2>7. Timely(r, d, wire) BY <1>13, <2>1, <2>3 DEF GoodInv
  <2>8. CASE r.goodFor + r.txTimer <= TxInterval[r.key]
    <3>1. s.goodFor + s.txTimer <= TxInterval[s.key] BY <2>4, <2>6, <2>8
    <3> QED BY <2>3, <3>1 DEF Timely
  <2>9. ASSUME NEW p \in wire, p.pkt.myDiscr = d, r.goodFor <= TxInterval[r.key] + p.age
        PROVE  Timely(es'[d], d, wire')
    <3>1. PICK q : q = [p EXCEPT !.age = @ + 1] OBVIOUS
    <3>2. q \in wire' BY <1>3, <3>1
    <3>3. q.age = p.age + 1 /\ q.pkt = p.pkt /\ p.age \in Nat BY <1>4, <3>1
    <3>4. s.goodFor <= TxInterval[s.key] + q.age BY <2>4, <2>6, <2>9, <3>3
    <3> QED BY <2>3, <2>9, <3>2, <3>3, <3>4 DEF Timely
  <2>10. CASE Backed(r, d, wire)
    <3>1. r.state = "Up" BY <2>10 DEF Backed
    <3>2. CASE r.detectTimer > r.txTimer + MaxDelay
      <4>1. s.detectTimer > 0 /\ s.detectTimer > s.txTimer + MaxDelay BY <1>2, <2>4, <2>6, <3>2
      <4> QED BY <2>3, <2>4, <3>1, <4>1 DEF Timely, Backed
    <3>3. ASSUME NEW p \in wire, p.pkt.myDiscr = d, r.detectTimer + p.age > MaxDelay
          PROVE  Timely(es'[d], d, wire')
      <4>1. PICK q : q = [p EXCEPT !.age = @ + 1] OBVIOUS
      <4>2. q \in wire' BY <1>3, <4>1
      <4>3. q.age = p.age + 1 /\ q.pkt = p.pkt /\ p.age \in Nat /\ p.age < MaxDelay
        BY <1>4, <4>1
      <4>4. s.detectTimer > 0 /\ s.detectTimer + q.age > MaxDelay BY <1>2, <2>4, <2>6, <3>3, <4>3
      <4> QED BY <2>3, <2>4, <3>1, <3>3, <4>2, <4>3, <4>4 DEF Timely, Backed
    <3> QED BY <2>4, <2>10, <3>2, <3>3 DEF Backed
  <2> QED BY <2>1, <2>2, <2>3, <2>4, <2>7, <2>8, <2>9, <2>10, SMTT(60) DEF Timely
<1> QED BY <1>10, <1>11, <1>12, <1>13 DEF TimeKept

-----------------------------------------------------------------------------
(* The calls                                                               *)

(* Steps that leave the calls, the allocator and the table alone, up to    *)
(* sessions whose goroutine ends.                                          *)
TableCalm ==
  /\ UNCHANGED <<call, allocated>>
  /\ \A d \in Discrs : IF es[d].phase = "cancelled" THEN es'[d].phase # "running"
                       ELSE es'[d].phase = es[d].phase /\ es'[d].key = es[d].key

(* A step of the receiver, the path, the clock or a goroutine, which       *)
(* touches neither the calls nor the set of sessions, keeps what the calls *)
(* hold and their plans.                                                   *)
LEMMA TableKept ==
  ASSUME TypeOK, OwnInv, EchoPlanInv, TableCalm
  PROVE  OwnInv' /\ EchoPlanInv'
<1>1. call' = call /\ allocated' = allocated BY DEF TableCalm
<1>2. \A d \in Discrs : es[d].phase # "cancelled" =>
                       es'[d].phase = es[d].phase /\ es'[d].key = es[d].key
  BY DEF TableCalm
<1>3. echoSessions' = echoSessions BY DEF echoSessions, TableCalm
<1>4. DiscrsReturned' BY <1>1, <1>3 DEF OwnInv, DiscrsReturned
<1>5. OwnInv'
  <2>1. ASSUME NEW c \in Callers
        PROVE  /\ call[c].step \in {"idle", "working"} => call[c].discr = 0
               /\ call[c].step = "cancelling" =>
                    call[c].discr \in Discrs /\ es'[call[c].discr].phase = "deleted"
               /\ call[c].step = "registering" =>
                    /\ call[c].discr \in Discrs /\ es'[call[c].discr].phase = "free"
                    /\ call[c].destroy = {}
                    /\ \E k \in call[c].create : call[c].have[k] = call[c].discr
    BY <1>2 DEF OwnInv
  <2>2. \A b, c \in Callers : b # c /\ call[b].discr = call[c].discr => call[c].discr = 0
    BY DEF OwnInv
  <2> QED BY <1>1, <1>4, <2>1, <2>2 DEF OwnInv
<1>6. EchoPlanInv'
  <2>1. \A d \in echoSessions : d \in Discrs /\ es[d].phase # "cancelled" BY DEF echoSessions
  <2>2. ASSUME NEW r, Plan(r) PROVE Plan(r)'
    BY <1>2, <1>3, <2>1, <2>2 DEF Plan, validateEchoConfig
  <2>3. SUFFICES ASSUME NEW c \in Callers, call[c].step # "idle", call[c].alone
                 PROVE  /\ \A b \in Callers : b # c => call[b].step = "idle"
                        /\ call[c].want # {} => Plan(call[c])'
    BY <1>1 DEF EchoPlanInv
  <2>4. PICK r : r = call[c] OBVIOUS
  <2>5. r.want # {} => Plan(r)' BY <2>2, <2>3, <2>4 DEF EchoPlanInv
  <2>6. Plan(r)' => Plan(call[c])' BY <1>1, <2>4 DEF Plan
  <2> QED BY <2>3, <2>4, <2>5, <2>6 DEF EchoPlanInv
<1> QED BY <1>5, <1>6

(* What a call makes of a session: nothing, a session being stopped, a new *)
(* one, or, at the end of its goroutine, none.                             *)
Calm(r, s) ==
  \/ s = r
  \/ s = Free
  \/ Runs(r) /\ \E phase \in {"deleted", "cancelled"} : s = [r EXCEPT !.phase = phase]
  \/ \E k \in Keys, port \in Ports \cup {None}, j \in Jitters :
       validateEchoConfig(k) /\ s = NewEchoSession(k, port, j)

(* A calm change keeps a record well formed and every promise about time.  *)
LEMMA CalmRecord ==
  ASSUME NEW r \in EchoRecs, Well(r), NEW s, Calm(r, s), NEW d, NEW W, NEW n
  PROVE  /\ s \in EchoRecs /\ Well(s)
         /\ Cut(r, n) => Cut(s, n)
         /\ Timely(r, d, W) => Timely(s, d, W)
<1>1. CASE s = r BY <1>1
<1>2. CASE s = Free
  <2>1. /\ s.phase = "free" /\ s.key = None /\ s.port = None /\ s.state = "Down"
        /\ s.txTimer = Off /\ s.detectTimer = Off /\ s.recvCh = 0 /\ s.goodFor = 0
    BY <1>2 DEF Free
  <2>2. s \in EchoRecs BY <1>2, EchoAssumption DEF Free, EchoRecs, Off
  <2> QED BY <2>1, <2>2 DEF Well, Runs, Cut, Timely
<1>3. ASSUME Runs(r), NEW phase \in {"deleted", "cancelled"}, s = [r EXCEPT !.phase = phase]
      PROVE  /\ s \in EchoRecs /\ Well(s) /\ (Cut(r, n) => Cut(s, n)) /\ Timely(s, d, W)
  <2>1. /\ s \in EchoRecs /\ s.phase = phase
        /\ s.key = r.key /\ s.port = r.port /\ s.state = r.state
        /\ s.txTimer = r.txTimer /\ s.detectTimer = r.detectTimer /\ s.recvCh = r.recvCh
    BY <1>3 DEF EchoRecs
  <2>2. Well(s) BY <1>3, <2>1 DEF Well, Runs
  <2>3. Cut(r, n) => Cut(s, n) BY <1>3, <2>1 DEF Cut, Runs
  <2>4. Timely(s, d, W) BY <2>1 DEF Timely
  <2> QED BY <2>1, <2>2, <2>3, <2>4
<1>4. ASSUME NEW k \in Keys, NEW port \in Ports \cup {None}, NEW j \in Jitters,
             validateEchoConfig(k), s = NewEchoSession(k, port, j)
      PROVE  /\ s \in EchoRecs /\ Well(s) /\ Cut(s, n) /\ Timely(s, d, W)
  <2>1. PICK x, y : x = applyJitter(TxInterval[k], j) /\ y = DetectionTime(k) OBVIOUS
  <2>2. y \in Nat /\ TxInterval[k] \in Nat /\ x \in 0..TxInterval[k]
    BY <2>1, DetectionNat, JitterShorter
  <2>3. s = [phase |-> "running", key |-> k, port |-> port, state |-> "Down", txTimer |-> x,
             detectTimer |-> y, recvCh |-> 0, goodFor |-> 0]
    BY <1>4, <2>1 DEF NewEchoSession, Free
  <2>4. s \in EchoRecs BY <2>2, <2>3, EchoAssumption DEF EchoRecs
  <2>5. /\ s.phase = "running" /\ s.key = k /\ s.state = "Down" /\ s.txTimer = x
        /\ s.detectTimer = y /\ s.recvCh = 0 /\ s.goodFor = 0
    BY <2>3
  <2>6. Well(s) BY <1>4, <2>1, <2>2, <2>5, SMTT(60) DEF Well, Runs, validateEchoConfig
  <2>7. Cut(s, n) BY <2>5 DEF Cut
  <2>8. s.goodFor + s.txTimer <= TxInterval[s.key] BY <2>2, <2>5
  <2> QED BY <2>4, <2>6, <2>7, <2>8 DEF Timely
<1> QED BY <1>1, <1>2, <1>3, <1>4 DEF Calm

CallKept == TypeOK' /\ (CutInv => CutInv') /\ (GoodInv => GoodInv')

(* The steps of the calls are calm.                                        *)
LEMMA CalmKept ==
  ASSUME TypeOK, \A d \in Discrs : Calm(es[d], es'[d]), es' = [d \in Discrs |-> es'[d]],
         UNCHANGED <<path, cutFor, wire>>, call' \in [Callers -> CallRecs],
         allocated' \subseteq Discrs
  PROVE  CallKept
<1>1. ASSUME NEW d \in Discrs
      PROVE  /\ es'[d] \in EchoRecs /\ Well(es'[d])
             /\ Cut(es[d], cutFor) => Cut(es'[d], cutFor)
             /\ Timely(es[d], d, wire) => Timely(es'[d], d, wire)
  <2>1. es[d] \in EchoRecs /\ Well(es[d]) /\ Calm(es[d], es'[d]) BY DEF TypeOK
  <2> QED BY <2>1, CalmRecord
<1>2. TypeOK'
  <2>1. es' \in [Discrs -> EchoRecs] BY <1>1
  <2>2. \A d \in Discrs : Well(es'[d]) BY <1>1
  <2>3. path' \in {"good", "cut"} /\ cutFor' \in Nat /\ wire' \subseteq Echoes BY DEF TypeOK
  <2> QED BY <2>1, <2>2, <2>3 DEF TypeOK
<1>3. CutInv => CutInv' BY <1>1 DEF CutInv
<1>4. GoodInv => GoodInv' BY <1>1 DEF GoodInv
<1> QED BY <1>2, <1>3, <1>4 DEF CallKept

(* A discriminator is never zero, so zero is never one of the table.       *)
LEMMA NoZero == 0 \notin Discrs
BY DiscrAssumption

(* A step of one caller keeps what the calls hold apart.                   *)
LEMMA OwnStep ==
  ASSUME OwnInv, NEW c \in Callers, NEW s,
         \A b \in Callers : call'[b] = IF b = c THEN s ELSE call[b],
         s.step \in {"idle", "working"} => s.discr = 0,
         s.step = "cancelling" => s.discr \in Discrs /\ es'[s.discr].phase = "deleted",
         s.step = "registering" => /\ s.discr \in Discrs /\ es'[s.discr].phase = "free"
                                   /\ s.destroy = {}
                                   /\ \E k \in s.create : s.have[k] = s.discr,
         \A b \in Callers : b # c /\ call[b].discr \in Discrs =>
                              es'[call[b].discr].phase = es[call[b].discr].phase,
         \A b \in Callers : b # c /\ call[b].discr = s.discr => s.discr = 0,
         \A e : e \in allocated' <=> /\ e # 0
                                     /\ \/ e \in echoSessions' \/ e = s.discr
                                        \/ \E b \in Callers : b # c /\ e = call[b].discr
  PROVE  OwnInv'
<1>1. ASSUME NEW b \in Callers
      PROVE  /\ call'[b].step \in {"idle", "working"} => call'[b].discr = 0
             /\ call'[b].step = "cancelling" =>
                  call'[b].discr \in Discrs /\ es'[call'[b].discr].phase = "deleted"
             /\ call'[b].step = "registering" =>
                  /\ call'[b].discr \in Discrs /\ es'[call'[b].discr].phase = "free"
                  /\ call'[b].destroy = {}
                  /\ \E k \in call'[b].create : call'[b].have[k] = call'[b].discr
  <2>1. CASE b = c BY <2>1
  <2>2. CASE b # c BY <2>2 DEF OwnInv
  <2> QED BY <2>1, <2>2
<1>2. ASSUME NEW a \in Callers, NEW b \in Callers, a # b, call'[a].discr = call'[b].discr
      PROVE  call'[b].discr = 0
  <2>1. CASE a = c BY <1>2, <2>1
  <2>2. CASE b = c BY <1>2, <2>2
  <2>3. CASE a # c /\ b # c BY <1>2, <2>3 DEF OwnInv
  <2> QED BY <2>1, <2>2, <2>3
<1>3. DiscrsReturned'
  <2>1. \A e : e \in {call'[b].discr : b \in Callers} <=>
                 e = s.discr \/ \E b \in Callers : b # c /\ e = call[b].discr
    OBVIOUS
  <2> QED BY <2>1 DEF DiscrsReturned
<1> QED BY <1>1, <1>2, <1>3 DEF OwnInv

(* And the plan of a reconciliation, if it is one.                         *)
LEMMA PlanStep ==
  ASSUME EchoPlanInv, NEW c \in Callers, call[c].step # "idle", NEW s,
         \A b \in Callers : call'[b] = IF b = c THEN s ELSE call[b],
         s.step # "idle" => s.alone = call[c].alone /\ s.want = call[c].want,
         s.step # "idle" /\ s.alone /\ s.want # {} /\ Plan(call[c]) => Plan(s)'
  PROVE  EchoPlanInv'
<1>1. SUFFICES ASSUME NEW b \in Callers, call'[b].step # "idle", call'[b].alone
               PROVE  /\ \A a \in Callers : a # b => call'[a].step = "idle"
                      /\ call'[b].want # {} => Plan(call[b])'
  BY DEF EchoPlanInv
<1>2. b = c
  <2>1. SUFFICES ASSUME b # c PROVE FALSE OBVIOUS
  <2>2. call[b].step # "idle" /\ call[b].alone BY <1>1, <2>1
  <2> QED BY <2>1, <2>2 DEF EchoPlanInv
<1>3. s.step # "idle" /\ s.alone /\ call'[b] = s BY <1>1, <1>2
<1>4. \A a \in Callers : a # c => call[a].step = "idle" BY <1>3 DEF EchoPlanInv
<1>5. ASSUME s.want # {} PROVE Plan(call[b])'
  <2>1. Plan(call[c]) BY <1>3, <1>5 DEF EchoPlanInv
  <2>2. Plan(s)' BY <1>3, <1>5, <2>1
  <2> QED BY <1>3, <2>2 DEF Plan
<1> QED BY <1>2, <1>3, <1>4, <1>5

(* A caller that is alone.                                                 *)
LEMMA AloneRecord ==
  ASSUME NEW r \in CallRecs, NEW x \in BOOLEAN, NEW s, s = [r EXCEPT !.alone = x]
  PROVE  /\ s \in CallRecs /\ s.alone = x
         /\ s.step = r.step /\ s.want = r.want /\ s.have = r.have /\ s.destroy = r.destroy
         /\ s.create = r.create /\ s.port = r.port /\ s.discr = r.discr /\ s.twins = r.twins
BY DEF CallRecs

(* A call begins.                                                          *)
LEMMA BeginKept ==
  ASSUME TypeOK, OwnInv, EchoPlanInv, NEW c \in Callers, call[c].step = "idle",
         NEW r \in CallRecs, r.step = "working", r.discr = 0, r.want # {} => Plan(r),
         Begin(c, r), UNCHANGED <<es, allocated, path, cutFor, wire>>
  PROVE  CallKept /\ OwnInv' /\ EchoPlanInv'
<1>1. PICK x : x = ~(\E b \in Callers : call[b].step # "idle") OBVIOUS
<1>2. x \in BOOLEAN BY <1>1
<1>3. PICK s : s = [r EXCEPT !.alone = x] OBVIOUS
<1>4. /\ s \in CallRecs /\ s.alone = x
      /\ s.step = r.step /\ s.want = r.want /\ s.have = r.have /\ s.destroy = r.destroy
      /\ s.create = r.create /\ s.port = r.port /\ s.discr = r.discr /\ s.twins = r.twins
  BY <1>2, <1>3, AloneRecord
<1>5. call' = [b \in Callers |-> IF b = c THEN s
                                 ELSE [call[b] EXCEPT !.alone = @ /\ call[b].step = "idle"]]
  BY <1>1, <1>3, Zenon DEF Begin
<1>6. call'[c] = s BY <1>5
<1>7. ASSUME NEW b \in Callers, b # c
      PROVE  /\ call'[b] \in CallRecs /\ call'[b].step = call[b].step
             /\ call'[b].have = call[b].have /\ call'[b].destroy = call[b].destroy
             /\ call'[b].create = call[b].create /\ call'[b].discr = call[b].discr
             /\ call'[b].alone => call'[b].step = "idle"
  <2>1. PICK y : y = (call[b].alone /\ call[b].step = "idle") OBVIOUS
  <2>2. y \in BOOLEAN BY <2>1
  <2>3. call'[b] = [call[b] EXCEPT !.alone = y] BY <1>5, <1>7, <2>1
  <2>4. call[b] \in CallRecs BY DEF TypeOK
  <2>5. /\ call'[b] \in CallRecs /\ call'[b].step = call[b].step /\ call'[b].have = call[b].have
        /\ call'[b].destroy = call[b].destroy
        /\ call'[b].create = call[b].create /\ call'[b].discr = call[b].discr
        /\ call'[b].alone = y
    BY <2>2, <2>3, <2>4, AloneRecord
  <2> QED BY <2>1, <2>5
<1>8. call' \in [Callers -> CallRecs] BY <1>4, <1>5, <1>6, <1>7
<1>9. CallKept
  <2>1. \A d \in Discrs : Calm(es[d], es'[d]) BY DEF Calm
  <2>2. es' = [d \in Discrs |-> es'[d]] BY DEF TypeOK
  <2>3. allocated' \subseteq Discrs BY DEF TypeOK
  <2> QED BY <1>8, <2>1, <2>2, <2>3, CalmKept
<1>10. \A b \in Callers : call'[b].discr = call[b].discr
  <2>1. call[c].discr = 0 BY DEF OwnInv
  <2> QED BY <1>4, <1>6, <1>7, <2>1
<1>11. DiscrsReturned'
  <2>1. {call'[b].discr : b \in Callers} = {call[b].discr : b \in Callers} BY <1>10
  <2>2. echoSessions' = echoSessions BY DEF echoSessions
  <2>3. DiscrsReturned BY DEF OwnInv
  <2> QED BY <2>1, <2>2, <2>3 DEF DiscrsReturned
<1>12. ASSUME NEW b \in Callers
       PROVE  /\ call'[b].step \in {"idle", "working"} => call'[b].discr = 0
              /\ call'[b].step = "cancelling" =>
                   call'[b].discr \in Discrs /\ es'[call'[b].discr].phase = "deleted"
              /\ call'[b].step = "registering" =>
                   /\ call'[b].discr \in Discrs /\ es'[call'[b].discr].phase = "free"
                   /\ call'[b].destroy = {}
                   /\ \E k \in call'[b].create : call'[b].have[k] = call'[b].discr
  <2>1. CASE b = c BY <1>4, <1>6, <2>1
  <2>2. CASE b # c BY <1>7, <2>2, SMTT(60) DEF OwnInv
  <2> QED BY <2>1, <2>2
<1>13. \A a, b \in Callers : a # b /\ call'[a].discr = call'[b].discr => call'[b].discr = 0
  BY <1>10 DEF OwnInv
<1>14. OwnInv' BY <1>11, <1>12, <1>13 DEF OwnInv
<1>15. EchoPlanInv'
  <2>1. SUFFICES ASSUME NEW b \in Callers, call'[b].step # "idle", call'[b].alone
                 PROVE  /\ \A a \in Callers : a # b => call'[a].step = "idle"
                        /\ call'[b].want # {} => Plan(call[b])'
    BY DEF EchoPlanInv
  <2>2. b = c BY <1>7, <2>1
  <2>3. s.alone BY <1>6, <2>1, <2>2
  <2>4. \A a \in Callers : call[a].step = "idle" BY <1>1, <1>4, <2>3
  <2>5. \A a \in Callers : a # b => call'[a].step = "idle" BY <1>7, <2>2, <2>4
  <2>6. ASSUME s.want # {} PROVE Plan(call[b])'
    <3>1. Plan(r) BY <1>4, <2>6
    <3>2. echoSessions' = echoSessions BY DEF echoSessions
    <3>3. call'[b] = s BY <1>6, <2>2
    <3>4. es' = es OBVIOUS
    <3>5. Plan(s) BY <1>4, <3>1, SMTT(60) DEF Plan
    <3>6. Plan(s)' BY <3>2, <3>4, <3>5, SMTT(60) DEF Plan
    <3> QED BY <3>3, <3>6 DEF Plan
  <2> QED BY <1>6, <2>2, <2>5, <2>6
<1> QED BY <1>9, <1>14, <1>15

(* The record of a call that begins is that of an idle one with some       *)
(* fields set.                                                             *)
Yes == TRUE

Job(want, have, port, destroy, create, twins) ==
  [step |-> "working", want |-> want, have |-> have, destroy |-> destroy, create |-> create,
   port |-> port, discr |-> 0, alone |-> Yes, twins |-> twins]

(* A call at work, as AddEchoSession, DeleteEchoSession and                *)
(* ReconcileEchoSessions begin it, is a record of a call.                  *)
LEMMA JobRecord ==
  ASSUME NEW want \in SUBSET Keys, NEW h \in [Keys -> Discrs \cup {0}],
         NEW port \in Ports \cup {None}, NEW destroy \in SUBSET Keys,
         NEW create \in SUBSET Keys, NEW twins \in SUBSET Keys,
         NEW r, r = Job(want, h, port, destroy, create, twins)
  PROVE  /\ r \in CallRecs /\ r.step = "working" /\ r.discr = 0
         /\ r.want = want /\ r.have = h /\ r.destroy = destroy /\ r.create = create
         /\ r.twins = twins
<1>1. Yes \in BOOLEAN BY DEF Yes
<1> QED BY <1>1 DEF CallRecs, Job

NoDiscr == [k \in Keys |-> 0]

(* So is that of a caller with nothing to do, which holds nothing.         *)
LEMMA IdleRecord ==
  /\ Idle = [step |-> "idle", want |-> {}, have |-> NoDiscr, destroy |-> {}, create |-> {},
             port |-> None, discr |-> 0, alone |-> Yes, twins |-> {}]
  /\ Idle \in CallRecs /\ Idle.step = "idle" /\ Idle.discr = 0
<1>1. Idle = [step |-> "idle", want |-> {}, have |-> NoDiscr, destroy |-> {}, create |-> {},
              port |-> None, discr |-> 0, alone |-> Yes, twins |-> {}]
  BY Zenon DEF Idle, NoDiscr, Yes
<1>2. Yes \in BOOLEAN BY DEF Yes
<1>3. NoDiscr \in [Keys -> Discrs \cup {0}] BY DEF NoDiscr
<1>4. Idle \in CallRecs BY <1>1, <1>2, <1>3 DEF CallRecs
<1>5. Idle.step = "idle" /\ Idle.discr = 0 BY <1>1
<1> QED BY <1>1, <1>4, <1>5

(* A call that begins with nothing planned.                                *)
LEMMA JobIdle == [Idle EXCEPT !.step = "working"] = Job({}, NoDiscr, None, {}, {}, {})
<1>1. Idle = [step |-> "idle", want |-> {}, have |-> NoDiscr, destroy |-> {}, create |-> {},
              port |-> None, discr |-> 0, alone |-> Yes, twins |-> {}]
  BY IdleRecord
<1> QED BY <1>1 DEF Job

(* A reconciliation begins with a complete plan.                           *)
LEMMA ReconcileKept ==
  ASSUME TypeOK, OwnInv, EchoPlanInv, NEW c \in Callers, NEW want \in SUBSET Keys,
         ReconcileEchoSessions(c, want)
  PROVE  CallKept /\ OwnInv' /\ EchoPlanInv'
<1> DEFINE twins == {k \in Keys : \E d, e \in echoSessions :
                                    d # e /\ es[d].key = k /\ es[e].key = k}
           mine(k) == {d \in echoSessions : es[d].key = k}
<1>1. PICK T : T = twins OBVIOUS
<1>2. PICK h \in echoSessionKeySet :
        Begin(c, [Idle EXCEPT !.step = "working", !.want = want, !.have = h, !.port = "3785",
                              !.destroy = {k \in Keys \ want : h[k] # 0},
                              !.create = {k \in want : h[k] = 0}, !.twins = T])
  BY <1>1 DEF ReconcileEchoSessions
<1>3. h \in [Keys -> Discrs \cup {0}] BY DEF echoSessionKeySet
<1>4. \A k \in Keys : h[k] \in IF mine(k) = {} THEN {0} ELSE mine(k) BY DEF echoSessionKeySet
<1>5. PICK destroy : destroy = {k \in Keys \ want : h[k] # 0} OBVIOUS
<1>6. PICK create : create = {k \in want : h[k] = 0} OBVIOUS
<1>7. PICK r : r = Job(want, h, "3785", destroy, create, T) OBVIOUS
<1>8. Begin(c, r)
  <2>1. r = [Idle EXCEPT !.step = "working", !.want = want, !.have = h, !.port = "3785",
                         !.destroy = destroy, !.create = create, !.twins = T]
    <3>1. PICK a : a = [Idle EXCEPT !.step = "working"] OBVIOUS
    <3>2. a = Job({}, NoDiscr, None, {}, {}, {}) BY <3>1, JobIdle, Zenon
    <3>3. PICK b : b = [a EXCEPT !.want = want] OBVIOUS
    <3>4. b = Job(want, NoDiscr, None, {}, {}, {}) BY <3>2, <3>3 DEF Job
    <3>5. PICK e : e = [b EXCEPT !.have = h] OBVIOUS
    <3>6. e = Job(want, h, None, {}, {}, {}) BY <3>4, <3>5 DEF Job
    <3>7. PICK f : f = [e EXCEPT !.port = "3785"] OBVIOUS
    <3>8. f = Job(want, h, "3785", {}, {}, {}) BY <3>6, <3>7 DEF Job
    <3>9. PICK g : g = [f EXCEPT !.destroy = destroy] OBVIOUS
    <3>10. g = Job(want, h, "3785", destroy, {}, {}) BY <3>8, <3>9 DEF Job
    <3>11. PICK i : i = [g EXCEPT !.create = create] OBVIOUS
    <3>12. i = Job(want, h, "3785", destroy, create, {}) BY <3>10, <3>11 DEF Job
    <3>13. r = [i EXCEPT !.twins = T] BY <1>7, <3>12 DEF Job
    <3> QED BY <3>1, <3>3, <3>5, <3>7, <3>9, <3>11, <3>13, Zenon
  <2> QED BY <1>2, <1>5, <1>6, <2>1
<1>9. T \in SUBSET Keys /\ destroy \in SUBSET Keys /\ create \in SUBSET Keys
  BY <1>1, <1>5, <1>6
<1>10. /\ r \in CallRecs /\ r.step = "working" /\ r.discr = 0
       /\ r.want = want /\ r.have = h /\ r.destroy = destroy /\ r.create = create /\ r.twins = T
  <2>1. "3785" \in Ports \cup {None} BY DEF Ports
  <2> QED BY <1>3, <1>7, <1>9, <2>1, JobRecord
<1>11. Plan(r)
  <2>1. create \subseteq want /\ destroy \cap want = {} BY <1>5, <1>6
  <2>2. ASSUME NEW k \in want, k \notin create PROVE \E d \in echoSessions : es[d].key = k
    <3>1. h[k] # 0 BY <1>6, <2>2
    <3>2. mine(k) # {} BY <1>4, <3>1
    <3> QED BY <3>2
  <2>3. ASSUME NEW d \in echoSessions, es[d].key \notin want \cup T
        PROVE  es[d].key \in destroy /\ h[es[d].key] = d
    <3>1. PICK k : k = es[d].key OBVIOUS
    <3>2. d \in Discrs /\ es[d].phase = "running" BY DEF echoSessions
    <3>3. k \in Keys BY <3>1, <3>2 DEF TypeOK, Well, Runs
    <3>4. h[k] \in mine(k) BY <1>4, <3>1, <3>3
    <3>5. h[k] = d BY <1>1, <2>3, <3>1, <3>3, <3>4
    <3>6. h[k] # 0 BY <3>2, <3>5, NoZero
    <3> QED BY <1>5, <2>3, <3>1, <3>3, <3>5, <3>6
  <2>4. ASSUME NEW k \in destroy PROVE es[h[k]].key = k
    <3>1. k \in Keys /\ h[k] # 0 BY <1>5
    <3>2. h[k] \in mine(k) BY <1>4, <3>1
    <3> QED BY <3>2
  <2> HIDE DEF twins, mine
  <2> QED BY <1>10, <2>1, <2>2, <2>3, <2>4 DEF Plan
<1>12. call[c].step = "idle" /\ UNCHANGED <<es, allocated, path, cutFor, wire>>
  BY DEF ReconcileEchoSessions
<1> HIDE DEF twins, mine
<1> QED BY <1>8, <1>10, <1>11, <1>12, BeginKept

(* AddEchoSession begins.                                                  *)
LEMMA AddKept ==
  ASSUME TypeOK, OwnInv, EchoPlanInv, NEW c \in Callers, NEW k \in Keys, AddEchoSession(c, k)
  PROVE  CallKept /\ OwnInv' /\ EchoPlanInv'
<1>2. PICK r : r = Job({}, NoDiscr, "3784", {}, {k}, {}) OBVIOUS
<1>3. Begin(c, r)
  <2>1. r = [Idle EXCEPT !.step = "working", !.create = {k}, !.port = "3784"]
    <3>1. PICK a : a = [Idle EXCEPT !.step = "working"] OBVIOUS
    <3>2. a = Job({}, NoDiscr, None, {}, {}, {}) BY <3>1, JobIdle, Zenon
    <3>3. PICK b : b = [a EXCEPT !.create = {k}] OBVIOUS
    <3>4. b = Job({}, NoDiscr, None, {}, {k}, {}) BY <3>2, <3>3 DEF Job
    <3>5. r = [b EXCEPT !.port = "3784"] BY <1>2, <3>4 DEF Job
    <3> QED BY <3>1, <3>3, <3>5, Zenon
  <2> QED BY <2>1 DEF AddEchoSession
<1>4. r \in CallRecs /\ r.step = "working" /\ r.discr = 0 /\ r.want = {}
  <2>1. "3784" \in Ports \cup {None} /\ NoDiscr \in [Keys -> Discrs \cup {0}] BY DEF Ports, NoDiscr
  <2>2. {k} \in SUBSET Keys /\ {} \in SUBSET Keys OBVIOUS
  <2> QED BY <1>2, <2>1, <2>2, JobRecord
<1>5. call[c].step = "idle" /\ UNCHANGED <<es, allocated, path, cutFor, wire>>
  BY DEF AddEchoSession
<1> QED BY <1>3, <1>4, <1>5, BeginKept

(* DeleteEchoSession begins.                                               *)
LEMMA DeleteKept ==
  ASSUME TypeOK, OwnInv, EchoPlanInv, NEW c \in Callers, NEW d \in Discrs,
         DeleteEchoSession(c, d)
  PROVE  CallKept /\ OwnInv' /\ EchoPlanInv'
<1>1. PICK k : k = es[d].key OBVIOUS
<1>2. k \in Keys
  <2>1. Runs(es[d]) BY DEF DeleteEchoSession, echoSessions, Runs
  <2> QED BY <1>1, <2>1 DEF TypeOK, Well
<1>3. PICK h : h = [NoDiscr EXCEPT ![k] = d] OBVIOUS
<1>4. PICK r : r = Job({}, h, None, {k}, {}, {}) OBVIOUS
<1>5. Begin(c, r)
  <2>1. r = [Idle EXCEPT !.step = "working", !.have[k] = d, !.destroy = {k}]
    <3>1. PICK a : a = [Idle EXCEPT !.step = "working"] OBVIOUS
    <3>2. a = Job({}, NoDiscr, None, {}, {}, {}) BY <3>1, JobIdle, Zenon
    <3>3. a.have = NoDiscr BY <3>2 DEF Job
    <3>4. PICK b : b = [a EXCEPT !.have = h] OBVIOUS
    <3>5. b = Job({}, h, None, {}, {}, {}) BY <3>2, <3>4 DEF Job
    <3>6. r = [b EXCEPT !.destroy = {k}] BY <1>4, <3>5 DEF Job
    <3>7. b = [a EXCEPT !.have = [a.have EXCEPT ![k] = d]] BY <1>3, <3>3, <3>4
    <3> QED BY <3>1, <3>6, <3>7, Zenon
  <2> QED BY <1>1, <2>1 DEF DeleteEchoSession
<1>6. r \in CallRecs /\ r.step = "working" /\ r.discr = 0 /\ r.want = {}
  <2>1. None \in Ports \cup {None} /\ h \in [Keys -> Discrs \cup {0}] BY <1>2, <1>3 DEF NoDiscr
  <2>2. {k} \in SUBSET Keys /\ {} \in SUBSET Keys BY <1>2
  <2> QED BY <1>4, <2>1, <2>2, JobRecord
<1>7. call[c].step = "idle" /\ UNCHANGED <<es, allocated, path, cutFor, wire>>
  BY DEF DeleteEchoSession
<1> QED BY <1>5, <1>6, <1>7, BeginKept

(* The record of a call after a step: what the steps may change of it.     *)
After(r, step, discr, have, destroy, create) ==
  [step |-> step, want |-> r.want, have |-> have, destroy |-> destroy, create |-> create,
   port |-> r.port, discr |-> discr, alone |-> r.alone, twins |-> r.twins]

CallAfter(r, s, step, discr, have, destroy, create) ==
  /\ s \in CallRecs /\ s.step = step /\ s.discr = discr /\ s.have = have
  /\ s.destroy = destroy /\ s.create = create
  /\ s.want = r.want /\ s.alone = r.alone /\ s.twins = r.twins

(* A step of a call keeps what it wants and whether it is alone.           *)
LEMMA AfterRecord ==
  ASSUME NEW r \in CallRecs, NEW step \in {"idle", "working", "cancelling", "registering"},
         NEW discr \in Discrs \cup {0}, NEW have \in [Keys -> Discrs \cup {0}],
         NEW destroy \in SUBSET Keys, NEW create \in SUBSET Keys,
         NEW s, s = After(r, step, discr, have, destroy, create)
  PROVE  CallAfter(r, s, step, discr, have, destroy, create)
<1>1. r.want \in SUBSET Keys /\ r.port \in Ports \cup {None} /\ r.twins \in SUBSET Keys
  BY DEF CallRecs
<1>2. r.alone \in BOOLEAN BY DEF CallRecs
<1>3. PICK a : a = r.alone OBVIOUS
<1>4. s = [step |-> step, want |-> r.want, have |-> have, destroy |-> destroy, create |-> create,
           port |-> r.port, discr |-> discr, alone |-> a, twins |-> r.twins]
  BY <1>3, Zenon DEF After
<1>5. a \in BOOLEAN BY <1>2, <1>3
<1>6. /\ s \in CallRecs /\ s.step = step /\ s.discr = discr /\ s.have = have
      /\ s.destroy = destroy /\ s.create = create /\ s.want = r.want /\ s.twins = r.twins
  BY <1>1, <1>4, <1>5 DEF CallRecs
<1>7. s.alone = a BY <1>4
<1> QED BY <1>3, <1>6, <1>7 DEF CallAfter

(* Every record of a call is its own continuation.                         *)
LEMMA BeforeRecord ==
  ASSUME NEW r \in CallRecs
  PROVE  r = After(r, r.step, r.discr, r.have, r.destroy, r.create)
BY DEF CallRecs, After

(* Setting the record of one caller.                                       *)
LEMMA CallSet ==
  ASSUME TypeOK, NEW c \in Callers, NEW s \in CallRecs, call' = [call EXCEPT ![c] = s]
  PROVE  /\ call' \in [Callers -> CallRecs]
         /\ \A b \in Callers : call'[b] = IF b = c THEN s ELSE call[b]
BY DEF TypeOK

(* cancelAndRelease: the session's context is cancelled and its            *)
(* discriminator given back.                                               *)
LEMMA CancelKept ==
  ASSUME TypeOK, OwnInv, EchoPlanInv, NEW c \in Callers, cancelAndRelease(c)
  PROVE  CallKept /\ OwnInv' /\ EchoPlanInv'
<1>1. PICK r, d : r = call[c] /\ d = r.discr OBVIOUS
<1>2. r \in CallRecs BY <1>1 DEF TypeOK
<1>3. r.step = "cancelling" BY <1>1 DEF cancelAndRelease
<1>4. d \in Discrs /\ es[d].phase = "deleted" BY <1>1, <1>3 DEF OwnInv
<1>5. PICK s : s = After(r, "working", 0, r.have, r.destroy, r.create) OBVIOUS
<1>6. /\ s \in CallRecs /\ s.step = "working" /\ s.discr = 0 /\ s.have = r.have
      /\ s.destroy = r.destroy /\ s.create = r.create
      /\ s.want = r.want /\ s.alone = r.alone /\ s.twins = r.twins
  <2>1. r.have \in [Keys -> Discrs \cup {0}] /\ r.destroy \in SUBSET Keys /\ r.create \in SUBSET Keys
    BY <1>2 DEF CallRecs
  <2> QED BY <1>2, <1>5, <2>1, AfterRecord DEF CallAfter
<1>7. call' = [call EXCEPT ![c] = s]
  <2>1. PICK a : a = [r EXCEPT !.step = "working"] OBVIOUS
  <2>2. a = After(r, "working", r.discr, r.have, r.destroy, r.create)
    BY <1>2, <2>1, BeforeRecord DEF After
  <2>3. s = [a EXCEPT !.discr = 0] BY <1>5, <2>2 DEF After
  <2>4. s = [r EXCEPT !.step = "working", !.discr = 0] BY <2>1, <2>3, Zenon
  <2>5. call' = [call EXCEPT ![c] = [call[c] EXCEPT !.step = "working", !.discr = 0]]
    BY DEF cancelAndRelease, TypeOK
  <2> QED BY <1>1, <2>4, <2>5, Zenon
<1>8. /\ \A b \in Callers : call'[b] = IF b = c THEN s ELSE call[b]
      /\ call' \in [Callers -> CallRecs]
  BY <1>6, <1>7, CallSet
<1>9. PICK q : q = [es[d] EXCEPT !.phase = "cancelled"] OBVIOUS
<1>10. es' = [es EXCEPT ![d] = q] BY <1>1, <1>9 DEF cancelAndRelease
<1>11. /\ \A e \in Discrs : es'[e] = IF e = d THEN q ELSE es[e]
       /\ es' = [e \in Discrs |-> es'[e]]
  BY <1>10 DEF TypeOK
<1>12. allocated' = allocated \ {d} /\ UNCHANGED <<path, cutFor, wire>>
  BY <1>1 DEF cancelAndRelease
<1>13. CallKept
  <2>1. Calm(es[d], q) BY <1>4, <1>9 DEF Calm, Runs
  <2>2. \A e \in Discrs : Calm(es[e], es'[e])
    <3>1. \A e \in Discrs : Calm(es[e], es[e]) BY DEF Calm
    <3> QED BY <1>11, <2>1, <3>1
  <2>3. allocated' \subseteq Discrs BY <1>12 DEF TypeOK
  <2> QED BY <1>8, <1>11, <1>12, <2>2, <2>3, CalmKept
<1>14. q.phase = "cancelled" BY <1>4, <1>9 DEF TypeOK, EchoRecs
<1>15. echoSessions' = echoSessions BY <1>4, <1>11, <1>14 DEF echoSessions
<1>16. \A b \in Callers : b # c => call[b].discr # d
  BY <1>1, <1>4, NoZero DEF OwnInv
<1>17. OwnInv'
  <2>1. \A e : e \in allocated <=> e # 0 /\ (e \in echoSessions \/ \E b \in Callers : e = call[b].discr)
    BY DEF OwnInv, DiscrsReturned
  <2>2. d \notin echoSessions BY <1>4 DEF echoSessions
  <2>3. \A e : e \in allocated' <=> /\ e # 0
                                    /\ \/ e \in echoSessions' \/ e = s.discr
                                       \/ \E b \in Callers : b # c /\ e = call[b].discr
    BY <1>1, <1>6, <1>12, <1>15, <1>16, <2>1, <2>2
  <2>4. \A b \in Callers : b # c /\ call[b].discr \in Discrs =>
                             es'[call[b].discr].phase = es[call[b].discr].phase
    BY <1>11, <1>16
  <2>5. \A b \in Callers : b # c /\ call[b].discr = s.discr => s.discr = 0 BY <1>6
  <2> QED BY <1>6, <1>8, <2>3, <2>4, <2>5, OwnStep
<1>18. EchoPlanInv'
  <2>1. \A e \in echoSessions : es'[e].key = es[e].key
    BY <1>4, <1>11 DEF echoSessions
  <2>2. ASSUME Plan(r) PROVE Plan(s)'
    <3>1. /\ s.create \subseteq s.want /\ s.destroy \cap s.want = {}
          /\ \A k \in s.want : \/ k \in s.create \/ ~validateEchoConfig(k)
                               \/ \E e \in echoSessions' : es'[e].key = k
      BY <1>6, <1>15, <2>1, <2>2, SMTT(60) DEF Plan
    <3>2. /\ \A e \in echoSessions' : \/ es'[e].key \in s.want \cup s.twins
                                      \/ es'[e].key \in s.destroy /\ s.have[es'[e].key] = e
          /\ \A k \in s.destroy : s.have[k] \in echoSessions' => es'[s.have[k]].key = k
      BY <1>6, <1>15, <2>1, <2>2 DEF Plan
    <3> QED BY <3>1, <3>2 DEF Plan, validateEchoConfig
  <2>3. r.step # "idle" BY <1>3
  <2> QED BY <1>1, <1>6, <1>8, <2>2, <2>3, PlanStep
<1> QED BY <1>13, <1>17, <1>18

(* What every call holds is not in the table.                              *)
LEMMA HeldApart ==
  ASSUME TypeOK, OwnInv, NEW b \in Callers, call[b].discr # 0
  PROVE  call[b].discr \in Discrs /\ es[call[b].discr].phase \in {"free", "deleted"}
<1>1. call[b] \in CallRecs BY DEF TypeOK
<1>2. call[b].step \in {"idle", "working", "cancelling", "registering"} BY <1>1 DEF CallRecs
<1> QED BY <1>2 DEF OwnInv

(* return: the call is done.                                               *)
LEMMA ReturnKept ==
  ASSUME TypeOK, OwnInv, EchoPlanInv, NEW c \in Callers, return(c)
  PROVE  CallKept /\ OwnInv' /\ EchoPlanInv'
<1>1. PICK s : s = Idle OBVIOUS
<1>2. s \in CallRecs /\ s.step = "idle" /\ s.discr = 0 BY <1>1, IdleRecord
<1>3. call' = [call EXCEPT ![c] = s] BY <1>1 DEF return
<1>4. call[c].step = "working" /\ UNCHANGED <<es, allocated, path, cutFor, wire>> BY DEF return
<1>5. /\ call' \in [Callers -> CallRecs]
      /\ \A b \in Callers : call'[b] = IF b = c THEN s ELSE call[b]
  BY <1>2, <1>3, CallSet
<1>6. CallKept
  <2>1. \A d \in Discrs : Calm(es[d], es'[d]) BY <1>4 DEF Calm
  <2>2. es' = [d \in Discrs |-> es'[d]] BY <1>4 DEF TypeOK
  <2>3. allocated' \subseteq Discrs BY <1>4 DEF TypeOK
  <2> QED BY <1>4, <1>5, <2>1, <2>2, <2>3, CalmKept
<1>7. OwnInv'
  <2>1. \A e : e \in allocated <=> e # 0 /\ (e \in echoSessions \/ \E b \in Callers : e = call[b].discr)
    BY DEF OwnInv, DiscrsReturned
  <2>2. call[c].discr = 0 BY <1>4 DEF OwnInv
  <2>3. echoSessions' = echoSessions BY <1>4 DEF echoSessions
  <2>4. \A e : e \in allocated' <=> /\ e # 0
                                    /\ \/ e \in echoSessions' \/ e = s.discr
                                       \/ \E b \in Callers : b # c /\ e = call[b].discr
    BY <1>2, <1>4, <2>1, <2>2, <2>3
  <2> QED BY <1>2, <1>4, <1>5, <2>4, OwnStep
<1>8. EchoPlanInv' BY <1>2, <1>4, <1>5, PlanStep
<1> QED BY <1>6, <1>7, <1>8

(* The goroutine of a cancelled session ends.                              *)
LEMMA StopKept ==
  ASSUME TypeOK, OwnInv, EchoPlanInv, NEW d \in Discrs, echoStop(d)
  PROVE  CallKept /\ OwnInv' /\ EchoPlanInv'
<1>1. /\ es' = [es EXCEPT ![d] = Free] /\ es[d].phase = "cancelled"
      /\ UNCHANGED <<allocated, call, path, cutFor, wire>>
  BY DEF echoStop
<1>2. /\ \A e \in Discrs : es'[e] = IF e = d THEN Free ELSE es[e]
      /\ es' = [e \in Discrs |-> es'[e]]
  BY <1>1 DEF TypeOK
<1>3. CallKept
  <2>1. \A e \in Discrs : Calm(es[e], es'[e]) BY <1>2 DEF Calm
  <2>2. call' \in [Callers -> CallRecs] /\ allocated' \subseteq Discrs BY <1>1 DEF TypeOK
  <2> QED BY <1>1, <1>2, <2>1, <2>2, CalmKept
<1>4. Free.phase = "free" BY DEF Free
<1>5. TableCalm BY <1>1, <1>2, <1>4 DEF TableCalm
<1> QED BY <1>3, <1>5, TableKept

(* CreateEchoSession draws a discriminator.                                *)
LEMMA AllocateKept ==
  ASSUME TypeOK, OwnInv, EchoPlanInv, NEW c \in Callers, NEW k \in Keys, NEW d \in Discrs,
         allocateNext(c, k, d)
  PROVE  CallKept /\ OwnInv' /\ EchoPlanInv'
<1>1. PICK r : r = call[c] OBVIOUS
<1>2. r \in CallRecs BY <1>1 DEF TypeOK
<1>3. r.step = "working" /\ r.destroy = {} /\ k \in r.create BY <1>1 DEF allocateNext
<1>4. PICK h : h = [r.have EXCEPT ![k] = d] OBVIOUS
<1>5. h \in [Keys -> Discrs \cup {0}] /\ h[k] = d BY <1>2, <1>4 DEF CallRecs
<1>6. PICK s : s = After(r, "registering", d, h, r.destroy, r.create) OBVIOUS
<1>7. /\ s \in CallRecs /\ s.step = "registering" /\ s.discr = d /\ s.have = h
      /\ s.destroy = r.destroy /\ s.create = r.create
      /\ s.want = r.want /\ s.alone = r.alone /\ s.twins = r.twins
  <2>1. r.destroy \in SUBSET Keys /\ r.create \in SUBSET Keys BY <1>2 DEF CallRecs
  <2> QED BY <1>2, <1>5, <1>6, <2>1, AfterRecord DEF CallAfter
<1>8. call' = [call EXCEPT ![c] = s]
  <2>1. PICK a : a = [r EXCEPT !.step = "registering"] OBVIOUS
  <2>2. a = After(r, "registering", r.discr, r.have, r.destroy, r.create)
    BY <1>2, <2>1, BeforeRecord DEF After
  <2>3. PICK b : b = [a EXCEPT !.discr = d] OBVIOUS
  <2>4. b = After(r, "registering", d, r.have, r.destroy, r.create) BY <2>2, <2>3 DEF After
  <2>5. b.have = r.have BY <2>4 DEF After
  <2>6. s = [b EXCEPT !.have = h] BY <1>6, <2>4 DEF After
  <2>7. s = [b EXCEPT !.have = [b.have EXCEPT ![k] = d]] BY <1>4, <2>5, <2>6
  <2>8. s = [r EXCEPT !.step = "registering", !.discr = d, !.have[k] = d]
    BY <2>1, <2>3, <2>7, Zenon
  <2>9. call' = [call EXCEPT ![c] = [call[c] EXCEPT !.step = "registering", !.discr = d,
                                                    !.have[k] = d]]
    BY DEF allocateNext, TypeOK
  <2> QED BY <1>1, <2>8, <2>9, Zenon
<1>9. /\ call' \in [Callers -> CallRecs]
      /\ \A b \in Callers : call'[b] = IF b = c THEN s ELSE call[b]
  BY <1>7, <1>8, CallSet
<1>10. /\ allocated' = allocated \cup {d} /\ UNCHANGED <<es, path, cutFor, wire>>
       /\ es[d].phase = "free" /\ \A b \in Callers : d # call[b].discr
  BY DEF allocateNext, Fresh
<1>11. CallKept
  <2>1. \A e \in Discrs : Calm(es[e], es'[e]) BY <1>10 DEF Calm
  <2>2. es' = [e \in Discrs |-> es'[e]] BY <1>10 DEF TypeOK
  <2>3. allocated' \subseteq Discrs BY <1>10 DEF TypeOK
  <2> QED BY <1>9, <1>10, <2>1, <2>2, <2>3, CalmKept
<1>12. echoSessions' = echoSessions BY <1>10 DEF echoSessions
<1>13. OwnInv'
  <2>1. \A e : e \in allocated <=> e # 0 /\ (e \in echoSessions \/ \E b \in Callers : e = call[b].discr)
    BY DEF OwnInv, DiscrsReturned
  <2>2. call[c].discr = 0 BY <1>1, <1>3 DEF OwnInv
  <2>3. \A e : e \in allocated' <=> /\ e # 0
                                    /\ \/ e \in echoSessions' \/ e = s.discr
                                       \/ \E b \in Callers : b # c /\ e = call[b].discr
    BY <1>7, <1>10, <1>12, <2>1, <2>2, NoZero, SMTT(60)
  <2>4. es'[s.discr].phase = "free" BY <1>7, <1>10
  <2>5. s.destroy = {} /\ \E x \in s.create : s.have[x] = s.discr BY <1>3, <1>5, <1>7
  <2>6. \A b \in Callers : call[b].discr # s.discr BY <1>7, <1>10
  <2> QED BY <1>7, <1>9, <1>10, <2>3, <2>4, <2>5, <2>6, OwnStep, SMTT(60)
<1>14. EchoPlanInv'
  <2>1. ASSUME Plan(r) PROVE Plan(s)'
    <3>1. /\ s.create \subseteq s.want /\ s.destroy \cap s.want = {}
          /\ \A x \in s.want : \/ x \in s.create \/ ~validateEchoConfig(x)
                               \/ \E e \in echoSessions' : es'[e].key = x
      BY <1>7, <1>10, <1>12, <2>1 DEF Plan
    <3>2. \A e \in echoSessions' : es'[e].key \in s.want \cup s.twins
      BY <1>3, <1>7, <1>10, <1>12, <2>1 DEF Plan
    <3>3. s.destroy = {} BY <1>3, <1>7
    <3> QED BY <3>1, <3>2, <3>3 DEF Plan, validateEchoConfig
  <2> QED BY <1>1, <1>3, <1>7, <1>9, <2>1, PlanStep
<1> QED BY <1>11, <1>13, <1>14

(* DestroyEchoSession takes the session out of the table, if it is there.  *)
LEMMA DestroyKept ==
  ASSUME TypeOK, OwnInv, EchoPlanInv, NEW c \in Callers, NEW k \in Keys, destroyNext(c, k)
  PROVE  CallKept /\ OwnInv' /\ EchoPlanInv'
<1>1. PICK r, d, D : r = call[c] /\ d = r.have[k] /\ D = r.destroy \ {k} OBVIOUS
<1>2. r \in CallRecs BY <1>1 DEF TypeOK
<1>3. r.step = "working" /\ k \in r.destroy BY <1>1 DEF destroyNext
<1>4. /\ r.have \in [Keys -> Discrs \cup {0}] /\ D \in SUBSET Keys /\ r.create \in SUBSET Keys
      /\ d \in Discrs \cup {0} /\ r.discr \in Discrs \cup {0}
  BY <1>1, <1>2 DEF CallRecs
<1>5. r.discr = 0 BY <1>1, <1>3 DEF OwnInv
<1>6. UNCHANGED <<allocated, path, cutFor, wire>> BY DEF destroyNext
<1>7. allocated' \subseteq Discrs BY <1>6 DEF TypeOK
<1>8. \A e : e \in allocated <=> e # 0 /\ (e \in echoSessions \/ \E b \in Callers : e = call[b].discr)
  BY DEF OwnInv, DiscrsReturned
<1>9. PICK a : a = [r EXCEPT !.destroy = D] OBVIOUS
<1>10. a = After(r, "working", r.discr, r.have, D, r.create)
  <2>1. a = After(r, r.step, r.discr, r.have, D, r.create)
    BY <1>2, <1>9, BeforeRecord DEF After
  <2> QED BY <1>3, <2>1
<1>11. CASE d \in echoSessions
  <2>1. PICK s : s = After(r, "cancelling", d, r.have, D, r.create) OBVIOUS
  <2>2. /\ s \in CallRecs /\ s.step = "cancelling" /\ s.discr = d /\ s.have = r.have
        /\ s.destroy = D /\ s.create = r.create
        /\ s.want = r.want /\ s.alone = r.alone /\ s.twins = r.twins
    <3>1. "cancelling" \in {"idle", "working", "cancelling", "registering"} OBVIOUS
    <3>2. CallAfter(r, s, "cancelling", d, r.have, D, r.create)
      BY <1>2, <1>4, <2>1, <3>1, AfterRecord, Zenon
    <3> QED BY <3>2 DEF CallAfter
  <2>3. call' = [call EXCEPT ![c] = s]
    <3>1. PICK b : b = [a EXCEPT !.discr = d] OBVIOUS
    <3>2. b = After(r, "working", d, r.have, D, r.create) BY <1>10, <3>1 DEF After
    <3>3. s = [b EXCEPT !.step = "cancelling"] BY <2>1, <3>2 DEF After
    <3>4. s = [r EXCEPT !.destroy = D, !.discr = d, !.step = "cancelling"]
      BY <1>9, <3>1, <3>3, Zenon
    <3>5. call' = [call EXCEPT ![c].destroy = @ \ {k}, ![c].discr = d, ![c].step = "cancelling"]
      BY <1>1, <1>11 DEF destroyNext
    <3>6. call' = [call EXCEPT ![c] = [call[c] EXCEPT !.destroy = @ \ {k}, !.discr = d,
                                                      !.step = "cancelling"]]
      BY <3>5 DEF TypeOK
    <3> QED BY <1>1, <3>4, <3>6, Zenon
  <2>4. /\ call' \in [Callers -> CallRecs]
        /\ \A b \in Callers : call'[b] = IF b = c THEN s ELSE call[b]
    BY <2>2, <2>3, CallSet
  <2>5. d \in Discrs /\ es[d].phase = "running" BY <1>11 DEF echoSessions
  <2>6. PICK q : q = [es[d] EXCEPT !.phase = "deleted"] OBVIOUS
  <2>7. es' = [es EXCEPT ![d] = q] BY <1>1, <1>11, <2>6 DEF destroyNext
  <2>8. /\ \A e \in Discrs : es'[e] = IF e = d THEN q ELSE es[e]
        /\ es' = [e \in Discrs |-> es'[e]]
    BY <2>7 DEF TypeOK
  <2>9. CallKept
    <3>1. Calm(es[d], q) BY <2>5, <2>6 DEF Calm, Runs
    <3>2. \A e \in Discrs : Calm(es[e], es'[e])
      <4>1. \A e \in Discrs : Calm(es[e], es[e]) BY DEF Calm
      <4> QED BY <2>8, <3>1, <4>1
    <3> QED BY <1>6, <1>7, <2>4, <2>8, <3>2, CalmKept
  <2>10. q.phase = "deleted" BY <2>5, <2>6 DEF TypeOK, EchoRecs
  <2>11. echoSessions' = echoSessions \ {d} BY <2>5, <2>8, <2>10 DEF echoSessions
  <2>12. \A b \in Callers : call[b].discr # d
    <3>1. d # 0 BY <2>5, NoZero
    <3> QED BY <2>5, <3>1, HeldApart
  <2>13. OwnInv'
    <3>1. \A e : e \in allocated' <=> /\ e # 0
                                      /\ \/ e \in echoSessions' \/ e = s.discr
                                         \/ \E b \in Callers : b # c /\ e = call[b].discr
      BY <1>1, <1>5, <1>6, <1>8, <1>11, <2>2, <2>5, <2>11, NoZero, SMTT(60)
    <3>2. \A b \in Callers : b # c /\ call[b].discr \in Discrs =>
                               es'[call[b].discr].phase = es[call[b].discr].phase
      BY <2>8, <2>12
    <3>3. s.discr \in Discrs /\ es'[s.discr].phase = "deleted" BY <2>2, <2>5, <2>8, <2>10
    <3>4. \A b \in Callers : call[b].discr # s.discr BY <2>2, <2>12
    <3> QED BY <2>2, <2>4, <3>1, <3>2, <3>3, <3>4, OwnStep, SMTT(60)
  <2>14. EchoPlanInv'
    <3>1. ASSUME Plan(r) PROVE Plan(s)'
      <4>1. es[d].key = k /\ k \notin r.want BY <1>1, <1>3, <1>11, <3>1 DEF Plan
      <4>2. \A e \in echoSessions' : e \in echoSessions /\ e # d /\ es'[e] = es[e]
        BY <2>8, <2>11 DEF echoSessions
      <4>3. /\ s.create \subseteq s.want /\ s.destroy \cap s.want = {}
        BY <1>1, <2>2, <3>1 DEF Plan
      <4>4. \A x \in s.want : \/ x \in s.create \/ ~validateEchoConfig(x)
                              \/ \E e \in echoSessions' : es'[e].key = x
        <5>1. SUFFICES ASSUME NEW x \in r.want, x \notin r.create, validateEchoConfig(x)
                       PROVE  \E e \in echoSessions' : es'[e].key = x
          BY <2>2
        <5>2. PICK e \in echoSessions : es[e].key = x BY <3>1, <5>1 DEF Plan
        <5>3. e # d BY <4>1, <5>1, <5>2
        <5>4. e \in echoSessions' BY <2>11, <5>2, <5>3
        <5> QED BY <4>2, <5>2, <5>4
      <4>5. \A e \in echoSessions' : \/ es'[e].key \in s.want \cup s.twins
                                     \/ es'[e].key \in s.destroy /\ s.have[es'[e].key] = e
        <5>1. SUFFICES ASSUME NEW e \in echoSessions', es[e].key \notin r.want \cup r.twins
                       PROVE  es[e].key \in D /\ r.have[es[e].key] = e
          BY <2>2, <4>2
        <5>2. e \in echoSessions /\ e # d BY <4>2
        <5>3. es[e].key \in r.destroy /\ r.have[es[e].key] = e BY <3>1, <5>1, <5>2 DEF Plan
        <5>4. es[e].key # k BY <1>1, <5>2, <5>3
        <5> QED BY <1>1, <5>3, <5>4
      <4>6. \A x \in s.destroy : s.have[x] \in echoSessions' => es'[s.have[x]].key = x
        BY <1>1, <2>2, <3>1, <4>2, SMTT(60) DEF Plan
      <4> QED BY <4>3, <4>4, <4>5, <4>6 DEF Plan, validateEchoConfig
    <3>2. r.step # "idle" BY <1>3
    <3> QED BY <1>1, <2>2, <2>4, <3>1, <3>2, PlanStep
  <2> QED BY <2>9, <2>13, <2>14
<1>12. CASE d \notin echoSessions
  <2>1. PICK s : s = After(r, "working", r.discr, r.have, D, r.create) OBVIOUS
  <2>2. /\ s \in CallRecs /\ s.step = "working" /\ s.discr = 0 /\ s.have = r.have
        /\ s.destroy = D /\ s.create = r.create
        /\ s.want = r.want /\ s.alone = r.alone /\ s.twins = r.twins
    <3>1. "working" \in {"idle", "working", "cancelling", "registering"} OBVIOUS
    <3>2. CallAfter(r, s, "working", r.discr, r.have, D, r.create)
      BY <1>2, <1>4, <2>1, <3>1, AfterRecord, Zenon
    <3> QED BY <1>5, <3>2 DEF CallAfter
  <2>3. call' = [call EXCEPT ![c] = s]
    <3>1. call' = [call EXCEPT ![c].destroy = @ \ {k}] BY <1>1, <1>12 DEF destroyNext
    <3>2. call' = [call EXCEPT ![c] = [r EXCEPT !.destroy = D]] BY <1>1, <3>1
    <3>3. s = [r EXCEPT !.destroy = D] BY <1>9, <1>10, <2>1
    <3> QED BY <3>2, <3>3
  <2>4. /\ call' \in [Callers -> CallRecs]
        /\ \A b \in Callers : call'[b] = IF b = c THEN s ELSE call[b]
    BY <2>2, <2>3, CallSet
  <2>5. es' = es BY <1>1, <1>12 DEF destroyNext
  <2>6. CallKept
    <3>1. \A e \in Discrs : Calm(es[e], es'[e]) BY <2>5 DEF Calm
    <3>2. es' = [e \in Discrs |-> es'[e]] BY <2>5 DEF TypeOK
    <3> QED BY <1>6, <1>7, <2>4, <3>1, <3>2, CalmKept
  <2>7. echoSessions' = echoSessions BY <2>5 DEF echoSessions
  <2>8. OwnInv'
    <3>1. \A e : e \in allocated' <=> /\ e # 0
                                      /\ \/ e \in echoSessions' \/ e = s.discr
                                         \/ \E b \in Callers : b # c /\ e = call[b].discr
      BY <1>1, <1>5, <1>6, <1>8, <2>2, <2>7
    <3> QED BY <2>2, <2>4, <2>5, <3>1, OwnStep
  <2>9. EchoPlanInv'
    <3>1. ASSUME Plan(r) PROVE Plan(s)'
      <4>1. /\ s.create \subseteq s.want /\ s.destroy \cap s.want = {}
            /\ \A x \in s.want : \/ x \in s.create \/ ~validateEchoConfig(x)
                                 \/ \E e \in echoSessions' : es'[e].key = x
            /\ \A x \in s.destroy : s.have[x] \in echoSessions' => es'[s.have[x]].key = x
        BY <1>1, <2>2, <2>5, <2>7, <3>1, SMTT(60) DEF Plan
      <4>2. \A e \in echoSessions' : \/ es'[e].key \in s.want \cup s.twins
                                     \/ es'[e].key \in s.destroy /\ s.have[es'[e].key] = e
        <5>1. SUFFICES ASSUME NEW e \in echoSessions, es[e].key \notin r.want \cup r.twins
                       PROVE  es[e].key \in D /\ r.have[es[e].key] = e
          BY <2>2, <2>5, <2>7
        <5>2. es[e].key \in r.destroy /\ r.have[es[e].key] = e BY <3>1, <5>1 DEF Plan
        <5>3. es[e].key # k BY <1>1, <1>12, <5>2
        <5> QED BY <1>1, <5>2, <5>3
      <4> QED BY <4>1, <4>2 DEF Plan, validateEchoConfig
    <3>2. r.step # "idle" BY <1>3
    <3> QED BY <1>1, <2>2, <2>4, <3>1, <3>2, PlanStep
  <2> QED BY <2>6, <2>8, <2>9
<1> QED BY <1>11, <1>12

(* NewEchoSession and the registration, or the return of the discriminator *)
(* of a refused configuration.                                             *)
LEMMA RegisterKept ==
  ASSUME TypeOK, OwnInv, EchoPlanInv, NEW c \in Callers, register(c)
  PROVE  CallKept /\ OwnInv' /\ EchoPlanInv'
<1>1. PICK r, d, k : r = call[c] /\ d = r.discr /\ k = Registering(c) OBVIOUS
<1>2. r \in CallRecs /\ r.step = "registering" BY <1>1 DEF TypeOK, register
<1>3. /\ d \in Discrs /\ es[d].phase = "free" /\ r.destroy = {}
      /\ \E x \in r.create : r.have[x] = d
  BY <1>1, <1>2 DEF OwnInv
<1>4. k \in r.create /\ r.have[k] = d BY <1>1, <1>3 DEF Registering
<1>5. PICK C, h : C = r.create \ {k} /\ h = [r.have EXCEPT ![k] = 0] OBVIOUS
<1>6. /\ r.have \in [Keys -> Discrs \cup {0}] /\ r.create \in SUBSET Keys /\ k \in Keys
      /\ r.port \in Ports \cup {None}
  BY <1>2, <1>4 DEF CallRecs
<1>7. h \in [Keys -> Discrs \cup {0}] /\ C \in SUBSET Keys /\ {} \in SUBSET Keys
  BY <1>5, <1>6
<1>8. PICK s : s = After(r, "working", 0, h, {}, C) OBVIOUS
<1>9. /\ s \in CallRecs /\ s.step = "working" /\ s.discr = 0 /\ s.have = h
      /\ s.destroy = {} /\ s.create = C
      /\ s.want = r.want /\ s.alone = r.alone /\ s.twins = r.twins
  <2>1. "working" \in {"idle", "working", "cancelling", "registering"} /\ 0 \in Discrs \cup {0}
    OBVIOUS
  <2>2. CallAfter(r, s, "working", 0, h, {}, C) BY <1>2, <1>7, <1>8, <2>1, AfterRecord, Zenon
  <2> QED BY <2>2 DEF CallAfter
<1>10. call' = [call EXCEPT ![c] = s]
  <2>1. PICK a : a = [r EXCEPT !.step = "working"] OBVIOUS
  <2>2. a = After(r, "working", r.discr, r.have, {}, r.create)
    <3>1. a = After(r, "working", r.discr, r.have, r.destroy, r.create)
      BY <1>2, <2>1, BeforeRecord DEF After
    <3> QED BY <1>3, <3>1
  <2>3. PICK b : b = [a EXCEPT !.discr = 0] OBVIOUS
  <2>4. b = After(r, "working", 0, r.have, {}, r.create) BY <2>2, <2>3 DEF After
  <2>5. b.have = r.have BY <2>4 DEF After
  <2>6. PICK e : e = [b EXCEPT !.have = h] OBVIOUS
  <2>7. e = After(r, "working", 0, h, {}, r.create) BY <2>4, <2>6 DEF After
  <2>8. e = [b EXCEPT !.have = [b.have EXCEPT ![k] = 0]] BY <1>5, <2>5, <2>6
  <2>9. e.create = r.create BY <2>7 DEF After
  <2>10. s = [e EXCEPT !.create = C] BY <1>8, <2>7 DEF After
  <2>11. s = [e EXCEPT !.create = e.create \ {k}] BY <1>5, <2>9, <2>10
  <2>12. s = [r EXCEPT !.step = "working", !.discr = 0, !.have[k] = 0, !.create = @ \ {k}]
    BY <2>1, <2>3, <2>8, <2>11, Zenon
  <2>13. call' = [call EXCEPT ![c].step = "working", ![c].discr = 0, ![c].have[k] = 0,
                              ![c].create = @ \ {k}]
    BY <1>1 DEF register
  <2>14. call' = [call EXCEPT ![c] = [call[c] EXCEPT !.step = "working", !.discr = 0,
                                                     !.have[k] = 0, !.create = @ \ {k}]]
    BY <2>13 DEF TypeOK
  <2> QED BY <1>1, <2>12, <2>14, Zenon
<1>11. /\ call' \in [Callers -> CallRecs]
       /\ \A b \in Callers : call'[b] = IF b = c THEN s ELSE call[b]
  BY <1>9, <1>10, CallSet
<1>12. PICK j \in Jitters :
         es' = IF validateEchoConfig(k) THEN [es EXCEPT ![d] = NewEchoSession(k, r.port, j)] ELSE es
  BY <1>1 DEF register
<1>13. /\ allocated' = IF validateEchoConfig(k) THEN allocated ELSE allocated \ {d}
       /\ UNCHANGED <<path, cutFor, wire>>
  BY <1>1 DEF register
<1>14. allocated' \subseteq Discrs BY <1>13 DEF TypeOK
<1>15. \A e : e \in allocated <=> e # 0 /\ (e \in echoSessions \/ \E b \in Callers : e = call[b].discr)
  BY DEF OwnInv, DiscrsReturned
<1>16. \A b \in Callers : b # c => call[b].discr # d
  BY <1>1, <1>3, NoZero DEF OwnInv
<1>17. d \notin echoSessions /\ d # 0 BY <1>3, NoZero DEF echoSessions
<1>18. CASE validateEchoConfig(k)
  <2>1. PICK q : q = NewEchoSession(k, r.port, j) OBVIOUS
  <2>2. es' = [es EXCEPT ![d] = q] BY <1>12, <1>18, <2>1
  <2>3. /\ \A e \in Discrs : es'[e] = IF e = d THEN q ELSE es[e]
        /\ es' = [e \in Discrs |-> es'[e]]
    BY <2>2 DEF TypeOK
  <2>4. CallKept
    <3>1. Calm(es[d], q) BY <1>6, <1>18, <2>1, Zenon DEF Calm
    <3>2. \A e \in Discrs : Calm(es[e], es'[e])
      <4>1. \A e \in Discrs : Calm(es[e], es[e]) BY DEF Calm
      <4> QED BY <2>3, <3>1, <4>1
    <3> QED BY <1>11, <1>13, <1>14, <2>3, <3>2, CalmKept
  <2>5. q.phase = "running" /\ q.key = k BY <2>1 DEF NewEchoSession, Free
  <2>6. echoSessions' = echoSessions \cup {d} BY <1>3, <2>3, <2>5 DEF echoSessions
  <2>7. OwnInv'
    <3>1. \A e : e \in allocated' <=> /\ e # 0
                                      /\ \/ e \in echoSessions' \/ e = s.discr
                                         \/ \E b \in Callers : b # c /\ e = call[b].discr
      BY <1>1, <1>9, <1>13, <1>15, <1>17, <1>18, <2>6
    <3>2. \A b \in Callers : b # c /\ call[b].discr \in Discrs =>
                               es'[call[b].discr].phase = es[call[b].discr].phase
      BY <1>16, <2>3
    <3> QED BY <1>9, <1>11, <3>1, <3>2, OwnStep
  <2>8. EchoPlanInv'
    <3>1. ASSUME Plan(r) PROVE Plan(s)'
      <4>1. r.create \subseteq r.want BY <3>1 DEF Plan
      <4>2. \A e \in echoSessions : e # d /\ es'[e] = es[e]
        BY <1>17, <2>3 DEF echoSessions
      <4>3. es'[d].key = k BY <1>3, <2>3, <2>5
      <4>4. s.create \subseteq s.want BY <1>5, <1>9, <4>1
      <4>5. \A x \in s.want : \/ x \in s.create \/ ~validateEchoConfig(x)
                              \/ \E e \in echoSessions' : es'[e].key = x
        <5>1. SUFFICES ASSUME NEW x \in r.want, x \notin C, validateEchoConfig(x)
                       PROVE  \E e \in echoSessions' : es'[e].key = x
          BY <1>9
        <5>2. CASE x = k BY <2>6, <4>3, <5>2
        <5>3. CASE x # k
          <6>1. x \notin r.create BY <1>5, <5>1, <5>3
          <6>2. PICK e \in echoSessions : es[e].key = x BY <3>1, <5>1, <6>1 DEF Plan
          <6> QED BY <2>6, <4>2, <6>2
        <5> QED BY <5>2, <5>3
      <4>6. \A e \in echoSessions' : es'[e].key \in s.want \cup s.twins
        <5>1. \A e \in echoSessions : es[e].key \in r.want \cup r.twins
          BY <1>3, <3>1 DEF Plan
        <5>2. es'[d].key \in r.want BY <1>4, <4>1, <4>3
        <5> QED BY <1>9, <2>6, <4>2, <5>1, <5>2
      <4> QED BY <1>9, <4>4, <4>5, <4>6 DEF Plan, validateEchoConfig
    <3>2. r.step # "idle" BY <1>2
    <3> QED BY <1>1, <1>9, <1>11, <3>1, <3>2, PlanStep
  <2> QED BY <2>4, <2>7, <2>8
<1>19. CASE ~validateEchoConfig(k)
  <2>1. es' = es BY <1>12, <1>19
  <2>2. CallKept
    <3>1. \A e \in Discrs : Calm(es[e], es'[e]) BY <2>1 DEF Calm
    <3>2. es' = [e \in Discrs |-> es'[e]] BY <2>1 DEF TypeOK
    <3> QED BY <1>11, <1>13, <1>14, <3>1, <3>2, CalmKept
  <2>3. echoSessions' = echoSessions BY <2>1 DEF echoSessions
  <2>4. OwnInv'
    <3>1. \A e : e \in allocated' <=> /\ e # 0
                                      /\ \/ e \in echoSessions' \/ e = s.discr
                                         \/ \E b \in Callers : b # c /\ e = call[b].discr
      BY <1>1, <1>9, <1>13, <1>15, <1>16, <1>17, <1>19, <2>3
    <3> QED BY <1>9, <1>11, <2>1, <3>1, OwnStep
  <2>5. EchoPlanInv'
    <3>1. ASSUME Plan(r) PROVE Plan(s)'
      <4>1. s.create \subseteq s.want BY <1>5, <1>9, <3>1 DEF Plan
      <4>2. \A x \in s.want : \/ x \in s.create \/ ~validateEchoConfig(x)
                              \/ \E e \in echoSessions' : es'[e].key = x
        BY <1>5, <1>9, <1>19, <2>1, <2>3, <3>1 DEF Plan
      <4>3. \A e \in echoSessions' : es'[e].key \in s.want \cup s.twins
        BY <1>3, <1>9, <2>1, <2>3, <3>1 DEF Plan
      <4> QED BY <1>9, <4>1, <4>2, <4>3 DEF Plan, validateEchoConfig
    <3>2. r.step # "idle" BY <1>2
    <3> QED BY <1>1, <1>9, <1>11, <3>1, <3>2, PlanStep
  <2> QED BY <2>2, <2>4, <2>5
<1> QED BY <1>18, <1>19

-----------------------------------------------------------------------------
(* The theorems                                                            *)

EchoInv == TypeOK /\ OwnInv /\ EchoPlanInv

(* Every step keeps the shapes, the ownership and the plans; the cut       *)
(* invariant; and, when echoes return in time, the good one.               *)
LEMMA EchoStep ==
  ASSUME EchoInv, [Next]_vars
  PROVE  /\ EchoInv' /\ (CutInv => CutInv')
         /\ EchoReturns /\ GoodInv => GoodInv'
<1> USE DEF EchoInv
<1>1. ASSUME TimeKept
      PROVE  EchoInv' /\ (CutInv => CutInv') /\ (EchoReturns /\ GoodInv => GoodInv')
  <2>1. TableCalm
    <3>1. TableSame BY <1>1 DEF TimeKept
    <3> QED BY <3>1 DEF TableSame, TableCalm
  <2>2. OwnInv' /\ EchoPlanInv' BY <2>1, TableKept
  <2> QED BY <1>1, <2>2 DEF TimeKept
<1>2. ASSUME CallKept, OwnInv', EchoPlanInv'
      PROVE  EchoInv' /\ (CutInv => CutInv') /\ (EchoReturns /\ GoodInv => GoodInv')
  BY <1>2 DEF CallKept
<1> HIDE DEF EchoInv
<1>3. TypeOK /\ OwnInv /\ EchoPlanInv BY DEF EchoInv
<1>4. ASSUME NEW d \in Discrs,
             sendEcho(d) \/ handleEchoRecv(d) \/ handleDetectTimeout(d) \/ echoStop(d)
      PROVE  EchoInv' /\ (CutInv => CutInv') /\ (EchoReturns /\ GoodInv => GoodInv')
  BY <1>1, <1>2, <1>3, <1>4, SendKept, HearKept, ExpireKept, StopKept
<1>5. ASSUME NEW p \in wire, recvOne(p)
      PROVE  EchoInv' /\ (CutInv => CutInv') /\ (EchoReturns /\ GoodInv => GoodInv')
  BY <1>1, <1>3, <1>5, ReceiveKept
<1>6. ASSUME NEW c \in Callers, Calls(c)
      PROVE  EchoInv' /\ (CutInv => CutInv') /\ (EchoReturns /\ GoodInv => GoodInv')
  <2>1. ASSUME NEW want \in Declared, ReconcileEchoSessions(c, want)
        PROVE  CallKept /\ OwnInv' /\ EchoPlanInv'
    <3>1. want \in SUBSET Keys BY EchoAssumption
    <3> QED BY <1>3, <2>1, <3>1, ReconcileKept
  <2>2. ASSUME NEW k \in Keys, AddEchoSession(c, k) \/ destroyNext(c, k)
        PROVE  CallKept /\ OwnInv' /\ EchoPlanInv'
    BY <1>3, <2>2, AddKept, DestroyKept
  <2>3. ASSUME NEW d \in Discrs, DeleteEchoSession(c, d) PROVE CallKept /\ OwnInv' /\ EchoPlanInv'
    BY <1>3, <2>3, DeleteKept
  <2>4. ASSUME NEW k \in Keys, NEW d \in Discrs, allocateNext(c, k, d)
        PROVE  CallKept /\ OwnInv' /\ EchoPlanInv'
    BY <1>3, <2>4, AllocateKept
  <2>5. ASSUME cancelAndRelease(c) \/ register(c) \/ return(c)
        PROVE  CallKept /\ OwnInv' /\ EchoPlanInv'
    BY <1>3, <2>5, CancelKept, RegisterKept, ReturnKept
  <2>6. CallKept /\ OwnInv' /\ EchoPlanInv' BY <1>6, <2>1, <2>2, <2>3, <2>4, <2>5 DEF Calls
  <2> QED BY <1>2, <2>6
<1>7. CASE PathChanges BY <1>1, <1>3, <1>7, PathKept
<1>8. CASE Tick BY <1>1, <1>3, <1>8, TickKept
<1>9. CASE UNCHANGED vars
  <2>1. UNCHANGED <<es, allocated, call, path, cutFor, wire>> BY <1>9 DEF vars
  <2>2. TypeOK' BY <1>3, <2>1 DEF TypeOK
  <2>3. TableSame BY <2>1 DEF TableSame
  <2>4. CutInv => CutInv' BY <2>1 DEF CutInv
  <2>5. GoodInv => GoodInv' BY <2>1 DEF GoodInv
  <2>6. TimeKept BY <2>2, <2>3, <2>4, <2>5 DEF TimeKept
  <2> QED BY <1>1, <2>6
<1> QED BY <1>4, <1>5, <1>6, <1>7, <1>8, <1>9 DEF Next

(* Nothing runs at the start.                                              *)
LEMMA EchoStart == Init => EchoInv /\ CutInv /\ GoodInv
<1> SUFFICES ASSUME Init PROVE EchoInv /\ CutInv /\ GoodInv OBVIOUS
<1>1. /\ es = [d \in Discrs |-> Free] /\ allocated = {} /\ call = [c \in Callers |-> Idle]
      /\ path = "good" /\ cutFor = 0 /\ wire = {}
  BY DEF Init
<1>2. Free \in EchoRecs /\ Free.phase = "free" BY EchoAssumption, SMTT(60) DEF Free, EchoRecs, Off
<1>3. \A d \in Discrs : es[d] = Free BY <1>1
<1>4. \A c \in Callers : call[c] = Idle BY <1>1
<1>5. Idle \in CallRecs /\ Idle.step = "idle" /\ Idle.discr = 0 BY IdleRecord
<1>6. TypeOK BY <1>1, <1>2, <1>5 DEF TypeOK, Well, Runs
<1>7. echoSessions = {} BY <1>2, <1>3 DEF echoSessions
<1>8. DiscrsReturned
  <2>1. \A c \in Callers : call[c].discr = 0 BY <1>4, <1>5
  <2> QED BY <1>1, <1>7, <2>1 DEF DiscrsReturned
<1>9. OwnInv BY <1>4, <1>5, <1>8 DEF OwnInv
<1>10. EchoPlanInv BY <1>4, <1>5 DEF EchoPlanInv
<1>11. CutInv BY <1>1 DEF CutInv
<1>12. GoodInv BY <1>2, <1>3 DEF GoodInv, Timely
<1> QED BY <1>6, <1>9, <1>10, <1>11, <1>12 DEF EchoInv

(* For any keys, intervals, jitter and callers, every variable keeps its   *)
(* type: recvCh stays within its capacity (RecvEcho), the timers of a      *)
(* running session within the intervals they were armed with (sendEcho,    *)
(* handleEchoRecv, handleDetectTimeout), and the receiver can decode every *)
(* echo on the wire.                                                       *)
THEOREM EchoTypeCorrect == Spec => []TypeOK
<1>1. EchoInv => TypeOK BY DEF EchoInv
<1>2. EchoInv /\ [Next]_vars => EchoInv' BY EchoStep
<1> QED BY <1>1, <1>2, EchoStart, PTL DEF Spec

(* For any keys, intervals, jitter and callers, discriminators are neither *)
(* lost nor shared by CreateEchoSession and DestroyEchoSession, whatever   *)
(* calls overlap and whichever configurations are refused.                 *)
THEOREM DiscrsAlwaysReturned == Spec => []DiscrsReturned
<1>1. EchoInv => DiscrsReturned BY DEF EchoInv, OwnInv
<1>2. EchoInv /\ [Next]_vars => EchoInv' BY EchoStep
<1> QED BY <1>1, <1>2, EchoStart, PTL DEF Spec

(* A failed path is noticed in time, wherever the timers stood and         *)
(* whatever was on the wire or in a channel when it failed                 *)
(* (handleDetectTimeout, handleEchoRecv).                                  *)
THEOREM CutAlwaysNoticed == Spec => []DownWhenCut
<1>1. ASSUME EchoInv, CutInv PROVE DownWhenCut
  <2>1. SUFFICES ASSUME path = "cut", NEW d \in echoSessions,
                        cutFor > DetectionTime(es[d].key) + MaxDelay, es[d].state # "Down"
                 PROVE  FALSE
    BY DEF DownWhenCut
  <2>2. d \in Discrs /\ Runs(es[d]) BY DEF echoSessions, Runs
  <2>3. es[d] \in EchoRecs /\ Well(es[d]) /\ cutFor \in Nat BY <1>1, <2>2 DEF EchoInv, TypeOK
  <2>4. es[d].state = "Up" BY <2>1, <2>3 DEF EchoRecs
  <2>5. es[d].detectTimer + cutFor <= DetectionTime(es[d].key) + MaxDelay
    BY <1>1, <2>1, <2>2, <2>4 DEF CutInv, Cut
  <2>6. es[d].key \in Keys /\ es[d].detectTimer \in 0..DetectionTime(es[d].key)
    BY <2>2, <2>3 DEF Well
  <2>7. DetectionTime(es[d].key) \in Nat /\ MaxDelay \in Nat BY <2>6, DetectionNat, EchoAssumption
  <2> QED BY <2>1, <2>3, <2>5, <2>6, <2>7
<1>2. EchoInv /\ CutInv /\ [Next]_vars => EchoInv' /\ CutInv' BY EchoStep
<1> QED BY <1>1, <1>2, EchoStart, PTL DEF Spec

(* A working path is noticed in time and never doubted, provided that an   *)
(* echo returns before the detection timer can fire: where the detection   *)
(* time exceeds one interval and the longest travel time (sendEcho,        *)
(* RecvEcho, handleEchoRecv).                                              *)
THEOREM GoodAlwaysNoticed == ASSUME EchoReturns PROVE Spec => []UpWhenGood
<1>1. ASSUME EchoInv, GoodInv PROVE UpWhenGood
  <2>1. SUFFICES ASSUME path = "good", NEW d \in echoSessions, es[d].port = "3785",
                        es[d].goodFor > TxInterval[es[d].key] + MaxDelay
                 PROVE  es[d].state = "Up"
    BY DEF UpWhenGood
  <2>2. d \in Discrs /\ es[d].phase = "running" /\ Runs(es[d]) BY DEF echoSessions, Runs
  <2>3. es[d] \in EchoRecs /\ Well(es[d]) /\ wire \subseteq Echoes
    BY <1>1, <2>2 DEF EchoInv, TypeOK
  <2>4. es[d].key \in Keys /\ es[d].txTimer \in 0..TxInterval[es[d].key] BY <2>2, <2>3 DEF Well
  <2>5. /\ TxInterval[es[d].key] \in Nat /\ MaxDelay \in Nat /\ es[d].goodFor \in Nat
    BY <2>3, <2>4, DetectionNat, EchoAssumption DEF EchoRecs
  <2>6. \A p \in wire : p.age \in 0..MaxDelay BY <2>3 DEF Echoes
  <2>7. ~(es[d].goodFor + es[d].txTimer <= TxInterval[es[d].key]) BY <2>1, <2>4, <2>5
  <2>8. \A p \in wire : ~(es[d].goodFor <= TxInterval[es[d].key] + p.age) BY <2>1, <2>5, <2>6
  <2>9. ~(es[d].goodFor <= TxInterval[es[d].key] + MaxDelay) BY <2>1, <2>5
  <2>10. Timely(es[d], d, wire) BY <1>1, <2>1, <2>2 DEF GoodInv
  <2>11. Backed(es[d], d, wire) BY <2>1, <2>2, <2>7, <2>8, <2>9, <2>10 DEF Timely
  <2> QED BY <2>11 DEF Backed
<1>2. EchoInv /\ GoodInv /\ [Next]_vars => EchoInv' /\ GoodInv' BY EchoStep
<1> QED BY <1>1, <1>2, EchoStart, PTL DEF Spec

(* A call comes to its end only through return.                            *)
LEMMA OnlyReturn ==
  ASSUME EchoInv, Next, NEW c \in Callers, call[c].step # "idle", call'[c].step = "idle"
  PROVE  return(c)
<1> USE DEF EchoInv
<1>1. TypeOK /\ call \in [Callers -> CallRecs] BY DEF TypeOK
<1> HIDE DEF EchoInv
<1>2. call' # call OBVIOUS
<1>3. PICK b \in Callers : Calls(b)
  BY <1>2 DEF Next, sendEcho, handleEchoRecv, handleDetectTimeout, echoStop, recvOne, PathChanges,
              Tick
<1>4. ASSUME NEW r, Begin(b, r), call[b].step = "idle" PROVE FALSE
  <2>1. c # b BY <1>4
  <2>2. call'[c] = [call[c] EXCEPT !.alone = @ /\ call[c].step = "idle"] BY <1>4, <2>1 DEF Begin
  <2>3. call'[c].step = call[c].step BY <1>1, <2>2 DEF CallRecs
  <2> QED BY <2>3
<1>5. ASSUME NEW want \in Declared, ReconcileEchoSessions(b, want) PROVE FALSE
  BY <1>4, <1>5 DEF ReconcileEchoSessions
<1>6. ASSUME NEW k \in Keys, AddEchoSession(b, k) PROVE FALSE BY <1>4, <1>6 DEF AddEchoSession
<1>7. ASSUME NEW d \in Discrs, DeleteEchoSession(b, d) PROVE FALSE
  BY <1>4, <1>7 DEF DeleteEchoSession
<1>8. ASSUME NEW k \in Keys, destroyNext(b, k) PROVE FALSE
  BY <1>1, <1>8 DEF destroyNext, CallRecs
<1>9. ASSUME NEW k \in Keys, NEW d \in Discrs, allocateNext(b, k, d) PROVE FALSE
  BY <1>1, <1>9 DEF allocateNext, CallRecs
<1>10. ASSUME cancelAndRelease(b) PROVE FALSE
  BY <1>1, <1>10 DEF cancelAndRelease, CallRecs
<1>11. ASSUME register(b) PROVE FALSE BY <1>1, <1>11 DEF register, CallRecs
<1>12. return(b) BY <1>3, <1>5, <1>6, <1>7, <1>8, <1>9, <1>10, <1>11 DEF Calls
<1>13. b = c BY <1>1, <1>12 DEF return
<1> QED BY <1>12, <1>13

(* Reconciliation converges, for any keys, files and callers: whatever a   *)
(* reconciliation that no other call overlapped found, when it returns     *)
(* (ReconcileEchoSessions) the sessions are those the file declares, up to *)
(* refused configurations and the second session of a duplicated key.      *)
THEOREM EchoAlwaysConverges == Spec => ReconcileConverges
<1>1. ASSUME EchoInv, Next, NEW c \in Callers, call[c].step # "idle", call'[c].step = "idle",
             call[c].want # {}, call[c].alone, NEW k \in Keys
      PROVE  IF k \in call[c].want
             THEN validateEchoConfig(k) => \E d \in echoSessions : es[d].key = k
             ELSE k \notin call[c].twins => ~\E d \in echoSessions : es[d].key = k
  <2>1. call[c].destroy = {} /\ call[c].create = {} BY <1>1, OnlyReturn DEF return
  <2>2. Plan(call[c]) BY <1>1 DEF EchoInv, EchoPlanInv
  <2> QED BY <2>1, <2>2, SMTT(60) DEF Plan
<1>2. EchoInv /\ [Next]_vars =>
        [\A c \in Callers :
           /\ call[c].step # "idle" /\ call'[c].step = "idle"
           /\ call[c].want # {} /\ call[c].alone
           => \A k \in Keys :
                LET present == \E d \in echoSessions : es[d].key = k
                IN  IF k \in call[c].want THEN validateEchoConfig(k) => present
                    ELSE k \notin call[c].twins => ~present]_vars
  BY <1>1
<1>3. EchoInv /\ [Next]_vars => EchoInv' BY EchoStep
<1> QED BY <1>2, <1>3, EchoStart, PTL DEF Spec, ReconcileConverges
=============================================================================
