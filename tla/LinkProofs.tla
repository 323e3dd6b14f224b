----------------------------- MODULE LinkProofs -----------------------------
(***************************************************************************)
(* Theorems about Link, for any configurations, any delay, any number of   *)
(* packets under way, any faults and any restarts.                         *)
(***************************************************************************)
EXTENDS Link, HandlerProofs

(* The discriminators the running session of n has heard from, and zero.   *)
Known(n) == {0} \cup {d \in Nat : <<discr[n], d>> \in heard[n]}

(* The frames a node that has heard H may have put on the path: what they  *)
(* say it has heard, it has heard.                                         *)
FrameSet(H) ==
  {f \in [pkt : PacketFields, left : 0..MaxDelay] :
     /\ Decodable(f.pkt)
     /\ f.pkt.myDiscr \in Discrs
     /\ f.pkt.yourDiscr # 0 => <<f.pkt.myDiscr, f.pkt.yourDiscr>> \in H}

TwoWay(n) ==
  sess[n].cachedState = "Up" =>
    \E m \in Nodes \ {n} : <<sess[n].remoteDiscr, discr[n]>> \in heard[m]

NodeOK(n) == Safe(cfg(n), sess[n], Known(n)) /\ Agrees(sess[n]) /\ TwoWay(n)

NetOK == \A m \in Nodes : net[m] \in Seq(FrameSet(heard[m]))

LinkInv ==
  /\ TypeOK
  /\ \A n \in Nodes : NodeOK(n)
  /\ NetOK

(* A node's configuration with any discriminator it draws.                 *)
LEMMA NodeTypes ==
  ASSUME NEW n \in Nodes, NEW d \in Discrs
  PROVE  /\ [NodeConfig[n] EXCEPT !.localDiscr = d] \in Configs
         /\ [NodeConfig[n] EXCEPT !.localDiscr = d].localDiscr = d
         /\ \A j \in Jitters : j \in 0..25
<1>1. NodeConfig[n] \in Configs
  BY NodeAssumption
<1>2. /\ [NodeConfig[n] EXCEPT !.localDiscr = d] \in Configs
      /\ [NodeConfig[n] EXCEPT !.localDiscr = d].localDiscr = d
  BY <1>1 DEF Configs
<1>3. \A j \in Jitters : j \in JitterPercents(NodeConfig[n])
  BY LinkJitterAssumption
<1>4. \A j \in JitterPercents(NodeConfig[n]) : j \in 0..25
  BY DEF JitterPercents
<1> QED
  BY <1>2, <1>3, <1>4

(* The configuration of a node's session.                                  *)
LEMMA CfgTypes ==
  ASSUME TypeOK, NEW n \in Nodes
  PROVE  cfg(n) \in Configs /\ cfg(n).localDiscr = discr[n] /\ discr[n] \in Discrs
         /\ \A j \in Jitters : j \in 0..25
<1>1. discr[n] \in Discrs
  BY DEF TypeOK
<1> QED
  BY <1>1, NodeTypes DEF cfg

(* A session that is safe for what it has heard stays safe when it has     *)
(* heard more.                                                             *)
LEMMA SafeGrows ==
  ASSUME NEW c, NEW r, NEW K, NEW L, K \subseteq L, Safe(c, r, K)
  PROVE  Safe(c, r, L)
BY DEF Safe, SafeOut

(* The daemons start with nothing on the path.                             *)
LEMMA LinkInitInv ==
  Init => LinkInv
<1> SUFFICES ASSUME Init PROVE LinkInv
  OBVIOUS
<1>1. discr \in [Nodes -> Discrs]
  BY NodeAssumption DEF Init, Configs
<1>2. ASSUME NEW n \in Nodes
      PROVE  NodeOK(n) /\ NewSession \in Sessions
  <2>1. cfg(n) \in Configs /\ 0 \in Known(n)
    BY <1>1, NodeTypes DEF cfg, Known
  <2>2. Safe(cfg(n), NewSession, Known(n)) /\ Agrees(NewSession)
    BY <2>1, NewSessionSafe
  <2>3. sess[n] = NewSession /\ NewSession.cachedState = "Down"
    BY DEF Init, NewSession
  <2> QED
    BY <2>2, <2>3 DEF NodeOK, TwoWay, Safe
<1>3. sess \in [Nodes -> Sessions]
  BY <1>2 DEF Init
<1>4. <<>> \in Seq([pkt : PacketFields, left : 0..MaxDelay])
  OBVIOUS
<1>5. TypeOK
  BY <1>1, <1>3, <1>4 DEF Init, TypeOK
<1>6. NetOK
  <2>1. \A H : <<>> \in Seq(FrameSet(H))
    OBVIOUS
  <2> QED
    BY <2>1 DEF Init, NetOK
<1> QED
  BY <1>2, <1>5, <1>6 DEF LinkInv

-----------------------------------------------------------------------------
(* The path                                                                *)

(* What a node may have sent only grows with what it has heard.            *)
LEMMA FramesGrow ==
  ASSUME NEW G, NEW H, G \subseteq H, NEW q \in Seq(FrameSet(G))
  PROVE  q \in Seq(FrameSet(H))
<1>1. FrameSet(G) \subseteq FrameSet(H)
  BY DEF FrameSet
<1>2. q \in [1..Len(q) -> FrameSet(G)] /\ Len(q) \in Nat
  BY LenProperties
<1>3. q \in [1..Len(q) -> FrameSet(H)]
  BY <1>1, <1>2
<1> QED
  BY <1>2, <1>3, SeqDef

(* Removing a frame.                                                       *)
LEMMA WithoutType ==
  ASSUME NEW S, NEW q \in Seq(S), NEW k \in DOMAIN q
  PROVE  Without(q, k) \in Seq(S)
<1>1. q \in [1..Len(q) -> S] /\ Len(q) \in Nat /\ DOMAIN q = 1..Len(q)
  BY LenProperties
<1>2. Len(q) - 1 \in Nat /\ k \in 1..Len(q)
  BY <1>1
<1>3. \A i \in 1..(Len(q) - 1) : i \in 1..Len(q) /\ i + 1 \in 1..Len(q)
  BY <1>1
<1>4. Without(q, k) \in [1..(Len(q) - 1) -> S]
  BY <1>1, <1>3 DEF Without
<1> QED
  BY <1>2, <1>4, SeqDef

(* The packets a handler sent join the frames under way.                   *)
LEMMA PushType ==
  ASSUME NEW H, NEW q \in Seq(FrameSet(H)), NEW pkts \in Seq(PacketFields),
         NEW c \in Configs,
         SafeOut(c, pkts, {0} \cup {d \in Nat : <<c.localDiscr, d>> \in H})
  PROVE  Push(q, pkts) \in Seq(FrameSet(H))
<1> DEFINE frames == [i \in DOMAIN pkts |-> [pkt |-> pkts[i], left |-> MaxDelay]]
<1>1. pkts \in [1..Len(pkts) -> PacketFields] /\ Len(pkts) \in Nat
      /\ DOMAIN pkts = 1..Len(pkts)
  BY LenProperties
<1>2. MaxDelay \in 0..MaxDelay
  BY PathAssumption
<1>3. c.localDiscr \in Discrs
  BY DEF Configs
<1>4. ASSUME NEW i \in DOMAIN pkts
      PROVE  [pkt |-> pkts[i], left |-> MaxDelay] \in FrameSet(H)
  <2> DEFINE p == pkts[i]
  <2>1. p \in PacketFields /\ Decodable(p) /\ p.myDiscr = c.localDiscr
        /\ p.yourDiscr \in {0} \cup {d \in Nat : <<c.localDiscr, d>> \in H}
    BY <1>1, <1>4 DEF SafeOut
  <2> HIDE DEF p
  <2>2. p.yourDiscr # 0 => <<p.myDiscr, p.yourDiscr>> \in H
    BY <2>1
  <2>3. [pkt |-> p, left |-> MaxDelay] \in FrameSet(H)
    BY <1>2, <1>3, <2>1, <2>2 DEF FrameSet
  <2> QED
    BY <2>3 DEF p
<1>5. frames \in [1..Len(pkts) -> FrameSet(H)]
  BY <1>1, <1>4
<1>6. frames \in Seq(FrameSet(H))
  BY <1>1, <1>5, SeqDef
<1>7. Push(q, pkts) = q \o frames \/ Push(q, pkts) = q
  BY DEF Push
<1> HIDE DEF frames
<1> QED
  BY <1>6, <1>7, ConcatProperties

(* A tick brings every frame closer to its arrival.                        *)
LEMMA FramesMove ==
  ASSUME NEW H, NEW q \in Seq(FrameSet(H)), \A k \in DOMAIN q : q[k].left > 0
  PROVE  [k \in DOMAIN q |-> [q[k] EXCEPT !.left = @ - 1]] \in Seq(FrameSet(H))
<1>1. q \in [1..Len(q) -> FrameSet(H)] /\ Len(q) \in Nat /\ DOMAIN q = 1..Len(q)
  BY LenProperties
<1>2. ASSUME NEW f \in FrameSet(H), f.left > 0
      PROVE  [f EXCEPT !.left = @ - 1] \in FrameSet(H)
  <2>1. f \in [pkt : PacketFields, left : 0..MaxDelay] /\ f.left - 1 \in 0..MaxDelay
    BY <1>2, PathAssumption DEF FrameSet
  <2> DEFINE g == [f EXCEPT !.left = @ - 1]
  <2>2. g \in [pkt : PacketFields, left : 0..MaxDelay] /\ g.pkt = f.pkt
    BY <2>1
  <2> HIDE DEF g
  <2>3. g \in FrameSet(H)
    BY <2>2 DEF FrameSet
  <2> QED
    BY <2>3 DEF g
<1>3. \A k \in DOMAIN q : [q[k] EXCEPT !.left = @ - 1] \in FrameSet(H)
  BY <1>1, <1>2
<1>4. [k \in DOMAIN q |-> [q[k] EXCEPT !.left = @ - 1]] \in [1..Len(q) -> FrameSet(H)]
  BY <1>1, <1>3
<1> QED
  BY <1>1, <1>4, SeqDef

-----------------------------------------------------------------------------
(* The steps                                                               *)

(* A node that a step leaves alone, while others may have heard more.      *)
LEMMA NodeLeftAlone ==
  ASSUME LinkInv, NEW l \in Nodes, sess'[l] = sess[l], discr'[l] = discr[l],
         \A m \in Nodes : heard[m] \subseteq heard'[m]
  PROVE  NodeOK(l)'
<1>1. Safe(cfg(l), sess[l], Known(l)) /\ Agrees(sess[l]) /\ TwoWay(l)
  BY DEF LinkInv, NodeOK
<1>2. cfg(l)' = cfg(l) /\ Known(l) \subseteq Known(l)'
  BY DEF cfg, Known
<1>3. Safe(cfg(l), sess[l], Known(l)')
  BY <1>1, <1>2, SafeGrows
<1>4. TwoWay(l)'
  BY <1>1 DEF TwoWay
<1> QED
  BY <1>1, <1>2, <1>3, <1>4 DEF NodeOK

(* The frames carry what TypeOK asks of them.                              *)
LEMMA NetType ==
  ASSUME NEW H, NEW q \in Seq(FrameSet(H))
  PROVE  q \in Seq([pkt : PacketFields, left : 0..MaxDelay])
<1>1. q \in [1..Len(q) -> FrameSet(H)] /\ Len(q) \in Nat
  BY LenProperties
<1> DEFINE F == [pkt : PacketFields, left : 0..MaxDelay]
<1>2. FrameSet(H) \subseteq F
  BY DEF FrameSet
<1> HIDE DEF F
<1>3. q \in [1..Len(q) -> F]
  BY <1>1, <1>2
<1>4. q \in Seq(F)
  BY <1>1, <1>3, SeqDef
<1> QED
  BY <1>4 DEF F

(* A handler that takes no packet ends with r.                             *)
LEMMA LinkHandledInv ==
  ASSUME LinkInv, NEW n \in Nodes, NEW r, Handled(n, r),
         Safe(cfg(n), r, Known(n)), Agrees(r), Steps(sess[n], r)
  PROVE  LinkInv'
<1> DEFINE b == begin(r)
<1>1. cfg(n) \in Configs /\ cfg(n).localDiscr = discr[n]
  BY CfgTypes DEF LinkInv
<1>2. /\ Safe(cfg(n), b, Known(n)) /\ Same(r, b) /\ b.remoteDiscr = r.remoteDiscr
      /\ r \in Sessions /\ b \in Sessions
  BY <1>1, BeginSafe DEF Safe
<1>3. /\ sess' = [sess EXCEPT ![n] = b] /\ sess \in [Nodes -> Sessions]
      /\ net' = [net EXCEPT ![n] = Push(@, r.out)]
      /\ net \in [Nodes -> Seq([pkt : PacketFields, left : 0..MaxDelay])]
      /\ alive' = alive /\ discr' = discr /\ used' = used /\ path' = path
      /\ heard' = heard /\ missed' = missed
  BY DEF Handled, LinkInv, TypeOK
<1> HIDE DEF b
<1>4. ASSUME NEW l \in Nodes PROVE NodeOK(l)'
  <2>1. CASE l # n
    BY <1>3, <2>1, NodeLeftAlone
  <2>2. CASE l = n
    <3>1. Safe(cfg(n), b, Known(n))' /\ Agrees(b)
      BY <1>2, <1>3 DEF cfg, Known, Agrees, Same
    <3>2. b.cachedState = "Up" => /\ sess[n].cachedState = "Up"
                                  /\ b.remoteDiscr = sess[n].remoteDiscr
      BY <1>2 DEF Same, Steps, Safe
    <3>3. TwoWay(n)
      BY DEF LinkInv, NodeOK
    <3>4. sess'[n] = b
      BY <1>3
    <3>5. TwoWay(n)'
      BY <1>3, <3>2, <3>3, <3>4 DEF TwoWay
    <3> QED
      BY <1>3, <2>2, <3>1, <3>4, <3>5 DEF NodeOK, cfg, Known
  <2> QED
    BY <2>1, <2>2
<1>5. Push(net[n], r.out) \in Seq(FrameSet(heard[n]))
  <2>1. net[n] \in Seq(FrameSet(heard[n])) /\ r.out \in Seq(PacketFields)
    BY <1>2 DEF LinkInv, NetOK, Sessions
  <2>2. SafeOut(cfg(n), r.out, {0} \cup {d \in Nat : <<cfg(n).localDiscr, d>> \in heard[n]})
    BY <1>1 DEF Safe, Known
  <2> QED
    BY <1>1, <2>1, <2>2, PushType
<1>6. NetOK'
  BY <1>3, <1>5 DEF NetOK, LinkInv
<1>7. net' \in [Nodes -> Seq([pkt : PacketFields, left : 0..MaxDelay])]
  BY <1>3, <1>5, NetType
<1>8. steady' \in [Nodes -> BOOLEAN] /\ quiet' \in [Nodes -> Nat]
  BY DEF Handled, Unsteady, LinkInv, TypeOK
<1>9. sess' \in [Nodes -> Sessions]
  BY <1>2, <1>3
<1>10. TypeOK'
  BY <1>3, <1>7, <1>8, <1>9 DEF LinkInv, TypeOK
<1> QED
  BY <1>4, <1>6, <1>10 DEF LinkInv

(* The timers and a drain.                                                 *)
LEMMA LinkTimersInv ==
  ASSUME LinkInv, NEW n \in Nodes, TxTimer(n) \/ DetectTimer(n) \/ Drain(n)
  PROVE  LinkInv'
<1>1. PICK j \in Jitters : \/ Handled(n, handleTxTimer(cfg(n), sess[n], j))
                           \/ Handled(n, handleDetectTimer(cfg(n), sess[n], j))
                           \/ Handled(n, handleAdminDown(cfg(n), sess[n], j))
  BY DEF TxTimer, DetectTimer, Drain
<1>2. cfg(n) \in Configs /\ j \in 0..25
  BY CfgTypes DEF LinkInv
<1>3. Safe(cfg(n), sess[n], Known(n)) /\ Agrees(sess[n]) /\ 0 \in Known(n)
  BY DEF LinkInv, NodeOK, Known
<1> DEFINE tx == handleTxTimer(cfg(n), sess[n], j)
<1> DEFINE detect == handleDetectTimer(cfg(n), sess[n], j)
<1> DEFINE admin == handleAdminDown(cfg(n), sess[n], j)
<1>4. Safe(cfg(n), tx, Known(n)) /\ Agrees(tx) /\ Steps(sess[n], tx)
  BY <1>2, <1>3, TxTimerSafe
<1>5. Safe(cfg(n), detect, Known(n)) /\ Agrees(detect) /\ Steps(sess[n], detect)
  BY <1>2, <1>3, DetectTimerSafe
<1>6. Safe(cfg(n), admin, Known(n)) /\ Agrees(admin) /\ Steps(sess[n], admin)
  BY <1>2, <1>3, AdminDownSafe
<1>7. Handled(n, tx) \/ Handled(n, detect) \/ Handled(n, admin)
  BY <1>1
<1> HIDE DEF tx, detect, admin
<1> QED
  BY <1>4, <1>5, <1>6, <1>7, LinkHandledInv

(* n accepts the packet of a frame m sent.  If it makes n Up, its Your     *)
(* Discriminator names n's session, which m has therefore heard.           *)
LEMMA DeliverInv ==
  ASSUME LinkInv, NEW n \in Nodes, NEW m \in Nodes \ {n}, NEW k \in DOMAIN net[m],
         Deliver(n, m, k)
  PROVE  LinkInv'
<1> DEFINE p == net[m][k].pkt
<1>1. PICK j \in Jitters :
      \E rest \in {Without(net[m], k)} \cup Duplicated(net[m]) :
        /\ sess' = [sess EXCEPT ![n] = begin(handleRecvPacket(cfg(n), sess[n], p, TRUE, j))]
        /\ net' = [net EXCEPT ![m] = rest,
                   ![n] = Push(@, handleRecvPacket(cfg(n), sess[n], p, TRUE, j).out)]
        /\ steady' = [Unsteady(n, Failed(handleRecvPacket(cfg(n), sess[n], p, TRUE, j)))
                        EXCEPT ![n] = Up(m)]
  BY DEF Deliver
<1> DEFINE r == handleRecvPacket(cfg(n), sess[n], p, TRUE, j)
<1> DEFINE b == begin(r)
<1>2. PICK rest \in {Without(net[m], k)} \cup Duplicated(net[m]) :
        /\ sess' = [sess EXCEPT ![n] = b]
        /\ net' = [net EXCEPT ![m] = rest, ![n] = Push(@, r.out)]
        /\ steady' = [Unsteady(n, Failed(r)) EXCEPT ![n] = Up(m)]
  BY <1>1
<1>3. /\ heard' = [heard EXCEPT ![n] = @ \cup {<<discr[n], p.myDiscr>>}]
      /\ missed' = [missed EXCEPT ![n] = 0] /\ quiet' = [quiet EXCEPT ![n] = 0]
      /\ alive' = alive /\ discr' = discr /\ used' = used /\ path' = path
      /\ p.yourDiscr \in {0, discr[n]}
  BY DEF Deliver, Demux
<1>4. /\ sess \in [Nodes -> Sessions]
      /\ net \in [Nodes -> Seq([pkt : PacketFields, left : 0..MaxDelay])]
      /\ heard \in [Nodes -> SUBSET (Discrs \X Discrs)]
  BY DEF LinkInv, TypeOK
<1>5. cfg(n) \in Configs /\ cfg(n).localDiscr = discr[n] /\ discr[n] \in Discrs /\ j \in 0..25
  BY CfgTypes DEF LinkInv
<1>6. net[m] \in Seq(FrameSet(heard[m])) /\ net[n] \in Seq(FrameSet(heard[n]))
  BY DEF LinkInv, NetOK
<1>7. net[m][k] \in FrameSet(heard[m])
  BY <1>6, LenProperties, ElementOfSeq
<1>8. /\ p \in Packets /\ p.myDiscr \in Discrs /\ p.myDiscr \in Nat
      /\ p.yourDiscr # 0 => <<p.myDiscr, p.yourDiscr>> \in heard[m]
      /\ p.yourDiscr = 0 => p.state \in {"Down", "AdminDown"}
  BY <1>7, DiscrAssumption DEF FrameSet, Packets, Decodable
<1> HIDE DEF p
<1>9. \A l \in Nodes : heard[l] \subseteq heard'[l]
  BY <1>3, <1>4
<1>10. Known(n)' = {0} \cup {d \in Nat : <<discr[n], d>> \in heard'[n]}
       /\ Known(n) \subseteq Known(n)' /\ p.myDiscr \in Known(n)' /\ 0 \in Known(n)'
  BY <1>3, <1>4, <1>8, <1>9 DEF Known
<1> DEFINE K == Known(n)'
<1>11. Safe(cfg(n), sess[n], K) /\ Agrees(sess[n])
  BY <1>10, SafeGrows DEF LinkInv, NodeOK
<1>12. 0 \in K /\ p.myDiscr \in K
  BY <1>10
<1> HIDE DEF K
<1>13. Safe(cfg(n), r, K) /\ Agrees(r) /\ Received(sess[n], p, r)
  BY <1>5, <1>8, <1>11, <1>12, RecvSafe
<1> HIDE DEF r
<1>14. /\ Safe(cfg(n), b, K) /\ Same(r, b) /\ b.remoteDiscr = r.remoteDiscr
       /\ b \in Sessions /\ r \in Sessions
  BY <1>5, <1>13, BeginSafe DEF Safe
<1> HIDE DEF b
<1>15. sess'[n] = b /\ sess' \in [Nodes -> Sessions]
  BY <1>2, <1>4, <1>14
<1>16. ASSUME NEW l \in Nodes PROVE NodeOK(l)'
  <2>1. CASE l # n
    BY <1>2, <1>3, <1>4, <1>9, <2>1, NodeLeftAlone
  <2>2. CASE l = n
    <3>1. b.cachedState = "Up" => <<b.remoteDiscr, discr[n]>> \in heard[m]
      <4> SUFFICES ASSUME b.cachedState = "Up"
                   PROVE  <<b.remoteDiscr, discr[n]>> \in heard[m]
        OBVIOUS
      <4>1. r.cachedState = "Up" /\ b.remoteDiscr # 0
        BY <1>14 DEF Same, Safe
      <4>2. p.state \in {"Init", "Up"} /\ b.remoteDiscr = p.myDiscr
        BY <1>13, <1>14, <4>1 DEF Received, Agrees
      <4> QED
        BY <1>3, <1>8, <4>2
    <3>2. TwoWay(n)'
      BY <1>3, <1>9, <1>15, <3>1 DEF TwoWay
    <3>3. Agrees(b) /\ cfg(n)' = cfg(n)
      BY <1>3, <1>13, <1>14 DEF Agrees, Same, cfg
    <3> QED
      BY <1>14, <1>15, <2>2, <3>2, <3>3 DEF NodeOK, K
  <2> QED
    BY <2>1, <2>2
<1>17. rest \in Seq(FrameSet(heard[m]))
  BY <1>6, WithoutType DEF Duplicated
<1>18. Push(net[n], r.out) \in Seq(FrameSet(heard'[n]))
  <2>1. net[n] \in Seq(FrameSet(heard'[n])) /\ r.out \in Seq(PacketFields)
    BY <1>6, <1>9, <1>14, FramesGrow DEF Sessions
  <2>2. SafeOut(cfg(n), r.out, {0} \cup {d \in Nat : <<cfg(n).localDiscr, d>> \in heard'[n]})
    BY <1>5, <1>10, <1>13 DEF Safe, K
  <2> QED
    BY <1>5, <2>1, <2>2, PushType
<1>19. m # n /\ m \in Nodes
  OBVIOUS
<1>20. net'[m] = rest /\ net'[n] = Push(net[n], r.out)
       /\ \A l \in Nodes \ {m, n} : net'[l] = net[l]
  BY <1>2, <1>4, <1>19
<1>21. heard'[m] = heard[m] /\ \A l \in Nodes \ {n} : heard'[l] = heard[l]
  BY <1>3, <1>4, <1>19
<1>22. NetOK'
  BY <1>17, <1>18, <1>20, <1>21 DEF NetOK, LinkInv
<1>23. net' \in [Nodes -> Seq([pkt : PacketFields, left : 0..MaxDelay])]
  BY <1>2, <1>4, <1>17, <1>18, NetType
<1>24. heard' \in [Nodes -> SUBSET (Discrs \X Discrs)]
  BY <1>3, <1>4, <1>5, <1>8
<1>25. missed' \in [Nodes -> Nat] /\ quiet' \in [Nodes -> Nat]
  BY <1>3 DEF LinkInv, TypeOK
<1>26. steady' \in [Nodes -> BOOLEAN]
  BY <1>2 DEF LinkInv, TypeOK, Unsteady, Up
<1>27. TypeOK'
  BY <1>3, <1>15, <1>23, <1>24, <1>25, <1>26 DEF LinkInv, TypeOK
<1> QED
  BY <1>16, <1>22, <1>27 DEF LinkInv

(* A daemon starts with a fresh session and a fresh discriminator.         *)
LEMMA StartInv ==
  ASSUME LinkInv, NEW n \in Nodes, Start(n)
  PROVE  LinkInv'
<1>1. PICK d \in Discrs \ used[n], j \in Jitters :
        /\ discr' = [discr EXCEPT ![n] = d]
        /\ used' = [used EXCEPT ![n] = @ \cup {d}]
        /\ sess' = [sess EXCEPT ![n] =
                      startLoop([NodeConfig[n] EXCEPT !.localDiscr = d], NewSession, j)]
  BY DEF Start
<1> DEFINE c == [NodeConfig[n] EXCEPT !.localDiscr = d]
<1> DEFINE r == startLoop(c, NewSession, j)
<1>2. /\ alive' = [alive EXCEPT ![n] = TRUE] /\ quiet' = [quiet EXCEPT ![n] = 0]
      /\ missed' = [missed EXCEPT ![n] = 0]
      /\ net' = net /\ path' = path /\ heard' = heard /\ steady' = steady
  BY DEF Start
<1>3. sess \in [Nodes -> Sessions] /\ discr \in [Nodes -> Discrs]
  BY DEF LinkInv, TypeOK
<1>4. c \in Configs /\ j \in 0..25 /\ cfg(n)' = c /\ 0 \in Known(n)'
  BY <1>1, <1>3, NodeTypes DEF cfg, Known
<1> DEFINE K == Known(n)'
<1> HIDE DEF c, K
<1>5. Safe(c, NewSession, K) /\ Agrees(NewSession)
  BY <1>4, NewSessionSafe DEF K
<1>6. Safe(c, r, K) /\ Agrees(r)
  BY <1>4, <1>5, StartLoopSafe
<1>7. r.cachedState = "Down"
  BY DEF startLoop, begin, NewSession, resetTxTimer, resetDetectTimer
<1>8. r \in Sessions /\ sess' = [sess EXCEPT ![n] = r]
  BY <1>1, <1>6 DEF Safe, c
<1> HIDE DEF r
<1>9. sess'[n] = r /\ sess' \in [Nodes -> Sessions]
  BY <1>3, <1>8
<1>10. ASSUME NEW l \in Nodes PROVE NodeOK(l)'
  <2>1. CASE l # n
    BY <1>1, <1>2, <1>3, <1>8, <2>1, NodeLeftAlone
  <2>2. CASE l = n
    BY <1>4, <1>6, <1>7, <1>9, <2>2 DEF NodeOK, TwoWay, K
  <2> QED
    BY <2>1, <2>2
<1>11. discr' \in [Nodes -> Discrs] /\ used' \in [Nodes -> SUBSET Discrs]
  BY <1>1 DEF LinkInv, TypeOK
<1>12. TypeOK'
  BY <1>2, <1>9, <1>11 DEF LinkInv, TypeOK
<1> QED
  BY <1>2, <1>10, <1>12 DEF LinkInv, NetOK

(* Steps that leave the sessions and what they have heard alone.           *)
LEMMA PathInv ==
  ASSUME LinkInv, sess' = sess, discr' = discr, used' = used, heard' = heard,
         NetOK', TypeOK'
  PROVE  LinkInv'
<1>1. ASSUME NEW l \in Nodes PROVE NodeOK(l)'
  BY NodeLeftAlone
<1> QED
  BY <1>1 DEF LinkInv

(* A frame is lost, or refused by the demultiplexer.                       *)
LEMMA GoneInv ==
  ASSUME LinkInv, NEW n \in Nodes, NEW m \in Nodes, NEW k \in DOMAIN net[m],
         Discard(n, m, k) \/ Lose(n, m, k)
  PROVE  LinkInv'
<1>1. /\ net' = [net EXCEPT ![m] = Without(@, k)] /\ sess' = sess /\ discr' = discr
      /\ used' = used /\ heard' = heard /\ alive' = alive /\ path' = path
      /\ steady' = steady /\ quiet' = quiet
  BY DEF Discard, Lose
<1>2. net \in [Nodes -> Seq([pkt : PacketFields, left : 0..MaxDelay])]
      /\ net[m] \in Seq(FrameSet(heard[m]))
  BY DEF LinkInv, TypeOK, NetOK
<1>3. Without(net[m], k) \in Seq(FrameSet(heard[m]))
  BY <1>2, WithoutType
<1>4. NetOK'
  BY <1>1, <1>2, <1>3 DEF NetOK, LinkInv
<1>5. net' \in [Nodes -> Seq([pkt : PacketFields, left : 0..MaxDelay])]
  BY <1>1, <1>2, <1>3, NetType
<1>6. missed' \in [Nodes -> Nat]
  <2>1. missed \in [Nodes -> Nat] /\ \A i \in Nat : i + 1 \in Nat
    BY DEF LinkInv, TypeOK
  <2>2. CASE Discard(n, m, k)
    BY <2>1, <2>2 DEF Discard
  <2>3. CASE Lose(n, m, k)
    <3>1. missed' = [missed EXCEPT ![n] = missed[n] + 1] \/ missed' = missed
      BY <2>1, <2>3 DEF Lose
    <3> QED
      BY <2>1, <3>1
  <2> QED
    BY <2>2, <2>3
<1>7. TypeOK'
  BY <1>1, <1>5, <1>6 DEF LinkInv, TypeOK
<1> QED
  BY <1>1, <1>4, <1>7, PathInv

(* A tick of the clock.                                                    *)
LEMMA LinkTickInv ==
  ASSUME LinkInv, Tick
  PROVE  LinkInv'
<1>1. /\ discr' = discr /\ used' = used /\ heard' = heard /\ alive' = alive
      /\ path' = path /\ missed' = missed /\ steady' = steady
  BY DEF Tick
<1>2. ASSUME NEW n \in Nodes PROVE NodeOK(n)' /\ sess'[n] \in Sessions
  <2>1. /\ Safe(cfg(n), sess[n], Known(n)) /\ Agrees(sess[n]) /\ TwoWay(n)
        /\ cfg(n) \in Configs
    BY CfgTypes DEF LinkInv, NodeOK
  <2> DEFINE t == passTime(sess[n])
  <2>2. Safe(cfg(n), t, Known(n)) /\ Agrees(t) /\ Steps(sess[n], t)
    BY <2>1, PassTimeSafe
  <2>3. sess'[n] = t \/ sess'[n] = sess[n]
    BY DEF Tick
  <2> HIDE DEF t
  <2>4. CASE sess'[n] = t
    <3>1. t.cachedState = "Up" => /\ sess[n].cachedState = "Up"
                                  /\ t.remoteDiscr = sess[n].remoteDiscr
      BY <2>2 DEF Steps, Safe
    <3>2. TwoWay(n)'
      BY <1>1, <2>1, <2>4, <3>1 DEF TwoWay
    <3> QED
      BY <1>1, <2>2, <2>4, <3>2 DEF NodeOK, cfg, Known, Safe
  <2>5. CASE sess'[n] = sess[n]
    BY <1>1, <2>1, <2>5, NodeLeftAlone DEF Safe
  <2> QED
    BY <2>3, <2>4, <2>5
<1>3. sess' \in [Nodes -> Sessions]
  BY <1>2 DEF Tick
<1>4. ASSUME NEW m \in Nodes PROVE net'[m] \in Seq(FrameSet(heard[m]))
  <2>1. net[m] \in Seq(FrameSet(heard[m])) /\ \A k \in DOMAIN net[m] : net[m][k].left > 0
    BY DEF LinkInv, NetOK, Tick
  <2>2. net'[m] = [k \in DOMAIN net[m] |-> [net[m][k] EXCEPT !.left = @ - 1]]
    BY DEF Tick
  <2> QED
    BY <2>1, <2>2, FramesMove
<1>5. NetOK'
  BY <1>1, <1>4 DEF NetOK
<1>6. \A m \in Nodes : net'[m] \in Seq([pkt : PacketFields, left : 0..MaxDelay])
  BY <1>4, NetType
<1>7. net' \in [Nodes -> Seq([pkt : PacketFields, left : 0..MaxDelay])]
  BY <1>6 DEF Tick
<1>8. quiet' \in [Nodes -> Nat]
  BY DEF Tick, LinkInv, TypeOK
<1>9. TypeOK'
  BY <1>1, <1>3, <1>7, <1>8 DEF LinkInv, TypeOK
<1> QED
  BY <1>2, <1>5, <1>9 DEF LinkInv

(* Every step of the link keeps LinkInv.                                   *)
LEMMA LinkNextInv ==
  LinkInv /\ [Next]_vars => LinkInv'
<1> SUFFICES ASSUME LinkInv, [Next]_vars PROVE LinkInv'
  OBVIOUS
<1>1. ASSUME NEW n \in Nodes, Start(n) \/ TxTimer(n) \/ DetectTimer(n) \/ Drain(n)
      PROVE  LinkInv'
  BY <1>1, StartInv, LinkTimersInv
<1>2. ASSUME NEW n \in Nodes, Die(n) PROVE LinkInv'
  <2>1. NetOK' /\ TypeOK'
    BY <1>2 DEF Die, Unsteady, LinkInv, TypeOK, NetOK
  <2> QED
    BY <1>2, <2>1, PathInv DEF Die
<1>3. ASSUME NEW n \in Nodes, NEW m \in Nodes \ {n}, NEW k \in DOMAIN net[m],
             Deliver(n, m, k) \/ Discard(n, m, k) \/ Lose(n, m, k)
      PROVE  LinkInv'
  BY <1>3, DeliverInv, GoneInv
<1>4. CASE ChangePath
  <2>1. NetOK' /\ TypeOK'
    BY <1>4 DEF ChangePath, LinkInv, TypeOK, NetOK
  <2> QED
    BY <1>4, <2>1, PathInv DEF ChangePath
<1>5. CASE Tick
  BY <1>5, LinkTickInv
<1>6. CASE UNCHANGED vars
  <2>1. NetOK' /\ TypeOK'
    BY <1>6 DEF vars, LinkInv, TypeOK, NetOK
  <2> QED
    BY <1>6, <2>1, PathInv DEF vars
<1> QED
  BY <1>1, <1>2, <1>3, <1>4, <1>5, <1>6 DEF Next

(* LinkInv holds in every state of the link.                               *)
THEOREM LinkInvariant ==
  Spec => []LinkInv
<1> QED
  BY LinkInitInv, LinkNextInv, PTL DEF Spec

(* Every session field, frame and history of the link is well typed.       *)
THEOREM LinkTypeCorrect ==
  Spec => []TypeOK
<1>1. LinkInv => TypeOK
  BY DEF LinkInv
<1> QED
  BY <1>1, LinkInvariant, PTL

(* The three-way handshake is sound: a session is Up only towards a peer   *)
(* that has heard this very session, whatever the path loses, duplicates   *)
(* or reorders and however often daemons restart.                          *)
THEOREM HandshakeSound ==
  Spec => []UpIsTwoWay
<1>1. LinkInv => UpIsTwoWay
  BY DEF LinkInv, NodeOK, TwoWay, UpIsTwoWay, Up
<1> QED
  BY <1>1, LinkInvariant, PTL

-----------------------------------------------------------------------------
(* The detection time                                                      *)

(* The time a node that is Up has been without a packet, and the time its  *)
(* detection timer still leaves it, make no more than the detection time.  *)
Timed(n) ==
  Up(n) => /\ sess[n].remoteDetectMult # 0
           /\ sess[n].detectTimer >= 0
           /\ quiet[n] + sess[n].detectTimer <= calcDetectionTime(cfg(n), sess[n])

TimedInv == \A n \in Nodes : Timed(n)

(* A node that a step leaves alone, or that dies.                          *)
LEMMA TimedAlone ==
  ASSUME NEW l \in Nodes, Timed(l), sess'[l] = sess[l], discr'[l] = discr[l],
         quiet'[l] = quiet[l], alive'[l] => alive[l]
  PROVE  Timed(l)'
<1>1. cfg(l)' = cfg(l) BY DEF cfg
<1> QED BY <1>1 DEF Timed, Up

(* A handler that takes no packet: a session that stays Up waits on.       *)
LEMMA HandledTimed ==
  ASSUME LinkInv, TimedInv, NEW n \in Nodes, NEW r \in Sessions, Handled(n, r),
         r.cachedState = "Up" => sess[n].cachedState = "Up" /\ SameWait(sess[n], r)
  PROVE  TimedInv'
<1>1. /\ sess' = [sess EXCEPT ![n] = begin(r)] /\ alive' = alive /\ discr' = discr
      /\ quiet' = [quiet EXCEPT ![n] = IF r.cachedState = "Up" THEN @ ELSE 0]
  BY DEF Handled
<1>2. sess \in [Nodes -> Sessions] /\ quiet \in [Nodes -> Nat] BY DEF LinkInv, TypeOK
<1> SUFFICES ASSUME NEW l \in Nodes PROVE Timed(l)' BY DEF TimedInv
<1>3. Timed(l) BY DEF TimedInv
<1>4. CASE l # n
  <2>1. sess'[l] = sess[l] /\ quiet'[l] = quiet[l] BY <1>1, <1>2, <1>4
  <2> QED BY <1>1, <1>3, <2>1, TimedAlone
<1>5. CASE l = n
  <2> DEFINE b == begin(r)
  <2>1. sess'[n] = b BY <1>1, <1>2
  <2>2. b.cachedState = r.cachedState /\ SameWait(r, b) BY DEF begin, Sessions, SameWait
  <2> HIDE DEF b
  <2> SUFFICES ASSUME Up(n)'
               PROVE  /\ b.remoteDetectMult # 0 /\ b.detectTimer >= 0
                      /\ quiet'[n] + b.detectTimer <= calcDetectionTime(cfg(n)', b)
    BY <1>5, <2>1 DEF Timed
  <2>3. r.cachedState = "Up" /\ alive[n] BY <1>1, <2>1, <2>2 DEF Up
  <2>4. Up(n) /\ SameWait(sess[n], b) BY <2>2, <2>3 DEF Up, SameWait
  <2>5. quiet'[n] = quiet[n] /\ cfg(n)' = cfg(n) BY <1>1, <1>2, <2>3 DEF cfg
  <2>6. /\ sess[n].remoteDetectMult # 0 /\ sess[n].detectTimer >= 0
        /\ quiet[n] + sess[n].detectTimer <= calcDetectionTime(cfg(n), sess[n])
    BY <1>3, <1>5, <2>4 DEF Timed
  <2>7. calcDetectionTime(cfg(n), b) = calcDetectionTime(cfg(n), sess[n])
    BY <2>4, <2>6, SameDetection DEF SameWait
  <2> QED BY <2>4, <2>5, <2>6, <2>7 DEF SameWait
<1> QED BY <1>4, <1>5

(* The timers and a drain: our own transmissions do not lengthen the wait, *)
(* the others leave the session not Up.                                    *)
LEMMA TimersTimed ==
  ASSUME LinkInv, TimedInv, NEW n \in Nodes, TxTimer(n) \/ DetectTimer(n) \/ Drain(n)
  PROVE  TimedInv'
<1>1. PICK j \in Jitters : \/ Handled(n, handleTxTimer(cfg(n), sess[n], j))
                           \/ Handled(n, handleDetectTimer(cfg(n), sess[n], j))
                           \/ Handled(n, handleAdminDown(cfg(n), sess[n], j))
  BY DEF TxTimer, DetectTimer, Drain
<1>2. cfg(n) \in Configs /\ j \in 0..25 BY CfgTypes DEF LinkInv
<1>3. /\ Safe(cfg(n), sess[n], Known(n)) /\ Agrees(sess[n]) /\ 0 \in Known(n)
      /\ sess[n] \in Sessions
  BY DEF LinkInv, NodeOK, Known, Safe
<1> DEFINE tx == handleTxTimer(cfg(n), sess[n], j)
<1> DEFINE detect == handleDetectTimer(cfg(n), sess[n], j)
<1> DEFINE admin == handleAdminDown(cfg(n), sess[n], j)
<1>4. tx \in Sessions /\ Steps(sess[n], tx) BY <1>2, <1>3, TxTimerSafe DEF Safe
<1>5. SameWait(sess[n], tx) BY <1>2, <1>3, TxTimerWaits
<1>6. detect \in Sessions /\ detect.cachedState # "Up"
  BY <1>2, <1>3, DetectTimerSafe DEF Safe
<1>7. admin \in Sessions /\ admin.cachedState # "Up"
  BY <1>2, <1>3, AdminDownSafe DEF Safe
<1>8. Handled(n, tx) \/ Handled(n, detect) \/ Handled(n, admin) BY <1>1
<1> HIDE DEF tx, detect, admin
<1>9. CASE Handled(n, tx) BY <1>4, <1>5, <1>9, HandledTimed DEF Steps
<1>10. CASE Handled(n, detect) BY <1>6, <1>10, HandledTimed
<1>11. CASE Handled(n, admin) BY <1>7, <1>11, HandledTimed
<1> QED BY <1>8, <1>9, <1>10, <1>11

(* A packet that is accepted starts the wait anew, with the detection time *)
(* it has just negotiated.                                                 *)
LEMMA DeliverTimed ==
  ASSUME LinkInv, TimedInv, NEW n \in Nodes, NEW m \in Nodes \ {n}, NEW k \in DOMAIN net[m],
         Deliver(n, m, k)
  PROVE  TimedInv'
<1> DEFINE p == net[m][k].pkt
<1>1. PICK j \in Jitters :
        sess' = [sess EXCEPT ![n] = begin(handleRecvPacket(cfg(n), sess[n], p, TRUE, j))]
  BY DEF Deliver
<1>2. quiet' = [quiet EXCEPT ![n] = 0] /\ alive' = alive /\ discr' = discr BY DEF Deliver
<1>3. /\ sess \in [Nodes -> Sessions] /\ quiet \in [Nodes -> Nat] /\ sess[n] \in Sessions
      /\ net[m] \in Seq(FrameSet(heard[m]))
  BY DEF LinkInv, TypeOK, NetOK
<1>4. net[m][k] \in FrameSet(heard[m]) BY <1>3, LenProperties, ElementOfSeq
<1>5. p \in Packets BY <1>4 DEF FrameSet, Packets
<1>6. cfg(n) \in Configs /\ j \in 0..25 BY CfgTypes DEF LinkInv
<1> HIDE DEF p
<1> DEFINE r == handleRecvPacket(cfg(n), sess[n], p, TRUE, j)
<1> DEFINE b == begin(r)
<1>7. Armed(cfg(n), r) BY <1>3, <1>5, <1>6, RecvArmed
<1>8. sess' = [sess EXCEPT ![n] = b] BY <1>1
<1> HIDE DEF r
<1>9. r \in Sessions BY <1>7 DEF Armed
<1>10. <<>> \in Seq(PacketFields) /\ <<>> \in Seq(StateChanges) OBVIOUS
<1>11. b \in Sessions /\ SameWait(r, b) BY <1>9, <1>10 DEF begin, Sessions, SameWait
<1>12. Armed(cfg(n), b) BY <1>7, <1>11, ArmedKept
<1> HIDE DEF b
<1> SUFFICES ASSUME NEW l \in Nodes PROVE Timed(l)' BY DEF TimedInv
<1>13. CASE l # n
  <2>1. sess'[l] = sess[l] /\ quiet'[l] = quiet[l] BY <1>2, <1>3, <1>8, <1>13
  <2> QED BY <1>2, <2>1, TimedAlone DEF TimedInv
<1>14. CASE l = n
  <2>1. sess'[n] = b /\ quiet'[n] = 0 /\ cfg(n)' = cfg(n) BY <1>2, <1>3, <1>8 DEF cfg
  <2>2. calcDetectionTime(cfg(n), b) \in Nat BY <1>6, <1>11, IntervalTypes
  <2>3. b.remoteDetectMult # 0 /\ b.detectTimer = calcDetectionTime(cfg(n), b)
    BY <1>12 DEF Armed
  <2>4. b.detectTimer >= 0 /\ 0 + b.detectTimer <= calcDetectionTime(cfg(n), b)
    BY <2>2, <2>3
  <2> QED BY <1>14, <2>1, <2>3, <2>4 DEF Timed
<1> QED BY <1>13, <1>14

(* A session starts Down.                                                  *)
LEMMA StartTimed ==
  ASSUME LinkInv, TimedInv, NEW n \in Nodes, Start(n)
  PROVE  TimedInv'
<1>1. PICK d \in Discrs \ used[n], j \in Jitters :
        /\ discr' = [discr EXCEPT ![n] = d]
        /\ sess' = [sess EXCEPT ![n] =
                      startLoop([NodeConfig[n] EXCEPT !.localDiscr = d], NewSession, j)]
  BY DEF Start
<1>2. /\ alive' = [alive EXCEPT ![n] = TRUE] /\ quiet' = [quiet EXCEPT ![n] = 0]
      /\ sess \in [Nodes -> Sessions] /\ quiet \in [Nodes -> Nat]
      /\ discr \in [Nodes -> Discrs] /\ alive \in [Nodes -> BOOLEAN]
  BY DEF Start, LinkInv, TypeOK
<1> DEFINE r == startLoop([NodeConfig[n] EXCEPT !.localDiscr = d], NewSession, j)
<1>3. r.cachedState = "Down"
  BY DEF startLoop, begin, NewSession, resetTxTimer, resetDetectTimer
<1>4. sess'[n] = r BY <1>1, <1>2
<1> HIDE DEF r
<1> SUFFICES ASSUME NEW l \in Nodes PROVE Timed(l)' BY DEF TimedInv
<1>5. CASE l = n BY <1>3, <1>4, <1>5 DEF Timed, Up
<1>6. CASE l # n
  <2>1. /\ sess'[l] = sess[l] /\ quiet'[l] = quiet[l]
        /\ discr'[l] = discr[l] /\ alive'[l] = alive[l]
    BY <1>1, <1>2, <1>6
  <2> QED BY <2>1, TimedAlone DEF TimedInv
<1> QED BY <1>5, <1>6

(* A tick takes from the timer what it adds to the silence; a timer that   *)
(* has run out is served before the next tick.                             *)
LEMMA TickTimed ==
  ASSUME LinkInv, TimedInv, Tick
  PROVE  TimedInv'
<1> SUFFICES ASSUME NEW l \in Nodes, Up(l)' PROVE Timed(l)' BY DEF TimedInv, Timed
<1>1. /\ alive' = alive /\ discr' = discr /\ ~Due(l)
      /\ sess' = [n \in Nodes |-> IF alive[n] THEN passTime(sess[n]) ELSE sess[n]]
      /\ quiet' = [n \in Nodes |-> IF Up(n) /\ quiet[n] <= calcDetectionTime(cfg(n), sess[n])
                                   THEN quiet[n] + 1 ELSE quiet[n]]
  BY DEF Tick
<1>2. sess[l] \in Sessions /\ quiet[l] \in Nat BY DEF LinkInv, TypeOK
<1>3. alive[l] BY <1>1 DEF Up
<1> DEFINE t == passTime(sess[l])
<1>4. sess'[l] = t BY <1>1, <1>3
<1>5. /\ t.cachedState = sess[l].cachedState /\ t.remoteDetectMult = sess[l].remoteDetectMult
      /\ t.remoteDesiredMinTx = sess[l].remoteDesiredMinTx
      /\ t.detectTimer = elapse(sess[l].detectTimer)
  BY <1>2 DEF passTime, Sessions
<1> HIDE DEF t
<1>6. Up(l) BY <1>3, <1>4, <1>5 DEF Up
<1>7. /\ sess[l].remoteDetectMult # 0 /\ sess[l].detectTimer >= 0
      /\ quiet[l] + sess[l].detectTimer <= calcDetectionTime(cfg(l), sess[l])
  BY <1>6 DEF TimedInv, Timed
<1>8. sess[l].detectTimer # 0 BY <1>1, <1>3 DEF Due
<1>9. cfg(l)' = cfg(l) BY <1>1 DEF cfg
<1>10. calcDetectionTime(cfg(l), t) = calcDetectionTime(cfg(l), sess[l])
  BY <1>5, <1>7, SameDetection
<1>11. sess[l].detectTimer \in Int BY <1>2 DEF Sessions
<1>12. t.detectTimer = sess[l].detectTimer - 1 BY <1>5, <1>7, <1>8, <1>11 DEF elapse
<1>13. quiet'[l] \in {quiet[l], quiet[l] + 1} BY <1>1
<1>14. cfg(l) \in Configs BY CfgTypes DEF LinkInv
<1>15. calcDetectionTime(cfg(l), sess[l]) \in Nat BY <1>2, <1>14, IntervalTypes
<1>16. t.detectTimer >= 0 /\ quiet'[l] + t.detectTimer <= calcDetectionTime(cfg(l), t)
  BY <1>2, <1>7, <1>8, <1>10, <1>11, <1>12, <1>13, <1>15, SMTT(60)
<1> QED BY <1>4, <1>5, <1>7, <1>9, <1>16 DEF Timed

(* Every step keeps the wait within the detection time.                    *)
LEMMA TimedStep ==
  LinkInv /\ TimedInv /\ [Next]_vars => TimedInv'
<1> SUFFICES ASSUME LinkInv, TimedInv, [Next]_vars PROVE TimedInv'
  OBVIOUS
<1>1. ASSUME NEW n \in Nodes, Start(n) \/ TxTimer(n) \/ DetectTimer(n) \/ Drain(n)
      PROVE  TimedInv'
  BY <1>1, StartTimed, TimersTimed
<1>2. ASSUME sess' = sess, discr' = discr, quiet' = quiet,
             \A l \in Nodes : alive'[l] => alive[l]
      PROVE  TimedInv'
  BY <1>2, TimedAlone DEF TimedInv
<1>3. ASSUME NEW n \in Nodes, Die(n) PROVE TimedInv'
  <2>1. \A l \in Nodes : alive'[l] => alive[l] BY <1>3 DEF Die, LinkInv, TypeOK
  <2> QED BY <1>2, <1>3, <2>1 DEF Die
<1>4. ASSUME NEW n \in Nodes, NEW m \in Nodes \ {n}, NEW k \in DOMAIN net[m],
             Deliver(n, m, k) \/ Discard(n, m, k) \/ Lose(n, m, k)
      PROVE  TimedInv'
  <2>1. CASE Deliver(n, m, k) BY <2>1, DeliverTimed
  <2>2. CASE Discard(n, m, k) BY <1>2, <2>2 DEF Discard
  <2>3. CASE Lose(n, m, k) BY <1>2, <2>3 DEF Lose
  <2> QED BY <1>4, <2>1, <2>2, <2>3
<1>5. CASE ChangePath BY <1>2, <1>5 DEF ChangePath
<1>6. CASE Tick BY <1>6, TickTimed
<1>7. CASE UNCHANGED vars BY <1>2, <1>7 DEF vars
<1> QED
  BY <1>1, <1>3, <1>4, <1>5, <1>6, <1>7 DEF Next

(* A session is Up for no longer than the negotiated detection time after  *)
(* the last packet it accepted, for every configuration and however the    *)
(* peer's intervals and DetectMult change while it is Up.                  *)
THEOREM DetectionAlwaysBounded ==
  Spec => []DetectionBound
<1>1. Init => TimedInv
  BY DEF Init, TimedInv, Timed, Up
<1>2. LinkInv /\ TimedInv => DetectionBound
  <2> SUFFICES ASSUME LinkInv, TimedInv, NEW n \in Nodes, Up(n)
               PROVE  quiet[n] <= calcDetectionTime(cfg(n), sess[n])
    BY DEF DetectionBound
  <2>1. sess[n] \in Sessions /\ quiet[n] \in Nat /\ cfg(n) \in Configs
    BY CfgTypes DEF LinkInv, TypeOK
  <2>2. sess[n].detectTimer \in Int /\ calcDetectionTime(cfg(n), sess[n]) \in Nat
    BY <2>1, IntervalTypes DEF Sessions
  <2>3. /\ sess[n].detectTimer >= 0
        /\ quiet[n] + sess[n].detectTimer <= calcDetectionTime(cfg(n), sess[n])
    BY DEF TimedInv, Timed
  <2> QED BY <2>1, <2>2, <2>3
<1> QED
  BY <1>1, <1>2, TimedStep, LinkInvariant, PTL DEF Spec
=============================================================================
