-------------------------------- MODULE Link --------------------------------
(***************************************************************************)
(* Two daemons that run one BFD session with each other over a path.  Each *)
(* end is a session of SessionHandlers behind the two-tier demultiplexer   *)
(* of the manager; the path may lose, duplicate, delay and reorder         *)
(* packets; a daemon may be drained, may die and come back with a new      *)
(* session and a new discriminator.                                        *)
(*                                                                         *)
(* Time is discrete.  A timer that is due and a packet that is due are     *)
(* handled before the next tick: the goroutines are prompt compared to a   *)
(* tick.  recvCh and its drops are part of the path here; Session has the  *)
(* queue itself.                                                           *)
(***************************************************************************)
EXTENDS SessionHandlers, FiniteSets

CONSTANTS Nodes,       \* the two ends
          NodeConfig,  \* their configurations; the discriminator is drawn later
          Jitters,     \* the jitter percentages the runs draw from
          MaxDelay,    \* the longest a packet is under way, in ticks
          MaxInFlight, \* the most packets under way in one direction
          Faults,      \* what the path may do: "loss", "duplication", "cut"
          Mortal,      \* the ends that may die
          Drainable    \* the ends that may be drained

ASSUME NodeAssumption == NodeConfig \in [Nodes -> Configs]
ASSUME LinkJitterAssumption == \A n \in Nodes : Jitters \subseteq JitterPercents(NodeConfig[n])
ASSUME PathAssumption == MaxDelay \in Nat /\ MaxInFlight \in Nat

VARIABLES sess,    \* the session of each node, see SessionHandlers
          alive,   \* whether the node's session goroutine runs
          discr,   \* the local discriminator of the node's session
          used,    \* history: the discriminators the node has drawn
          net,     \* the frames each node has sent that are under way
          path,    \* "good", "lossy" or "cut"
          heard,   \* history: <<local, remote>> for each packet a node accepted
          missed,  \* history: packets lost on the way to a node since it last heard
          steady,  \* history: the peer has been Up or drained since a node last heard
          quiet    \* history: ticks since a node that is Up last heard

vars == <<sess, alive, discr, used, net, path, heard, missed, steady, quiet>>

cfg(n) == [NodeConfig[n] EXCEPT !.localDiscr = discr[n]]

Up(n) == alive[n] /\ sess[n].cachedState = "Up"

(* The path takes the packets pkts after the frames q.                     *)
Push(q, pkts) ==
  LET frames == [i \in DOMAIN pkts |-> [pkt |-> pkts[i], left |-> MaxDelay]]
  IN  IF Len(q) + Len(pkts) <= MaxInFlight THEN q \o frames ELSE q

Without(q, k) == [i \in 1..(Len(q) - 1) |-> IF i < k THEN q[i] ELSE q[i + 1]]

(* The nodes other than n are not steady any more when n has failed.       *)
Unsteady(n, failed) == [m \in Nodes |-> steady[m] /\ (m = n \/ ~failed)]

Failed(r) == r.cachedState \in {"Down", "Init"}

Init ==
  /\ sess = [n \in Nodes |-> NewSession]
  /\ alive = [n \in Nodes |-> FALSE]
  /\ discr = [n \in Nodes |-> NodeConfig[n].localDiscr]
  /\ used = [n \in Nodes |-> {}]
  /\ net = [n \in Nodes |-> <<>>]
  /\ path = "good"
  /\ heard = [n \in Nodes |-> {}]
  /\ missed = [n \in Nodes |-> 0]
  /\ steady = [n \in Nodes |-> FALSE]
  /\ quiet = [n \in Nodes |-> 0]

-----------------------------------------------------------------------------
(* The daemons                                                             *)

(* The manager draws a discriminator, creates the session and starts its   *)
(* goroutine.  The draws of a node are taken to differ: it draws from 2^32 *)
(* values.                                                                 *)
Start(n) ==
  /\ ~alive[n]
  /\ \E d \in Discrs \ used[n], j \in Jitters :
       /\ discr' = [discr EXCEPT ![n] = d]
       /\ used' = [used EXCEPT ![n] = @ \cup {d}]
       /\ sess' = [sess EXCEPT ![n] =
                     startLoop([NodeConfig[n] EXCEPT !.localDiscr = d], NewSession, j)]
  /\ alive' = [alive EXCEPT ![n] = TRUE]
  /\ quiet' = [quiet EXCEPT ![n] = 0]
  /\ missed' = [missed EXCEPT ![n] = 0]
  /\ UNCHANGED <<net, path, heard, steady>>

(* The session is gone without a word to the peer.                         *)
Die(n) ==
  /\ n \in Mortal /\ alive[n]
  /\ alive' = [alive EXCEPT ![n] = FALSE]
  /\ steady' = Unsteady(n, TRUE)
  /\ UNCHANGED <<sess, discr, used, net, path, heard, missed, quiet>>

(* A handler of n that takes no packet ends with r.                        *)
Handled(n, r) ==
  /\ sess' = [sess EXCEPT ![n] = begin(r)]
  /\ net' = [net EXCEPT ![n] = Push(@, r.out)]
  /\ steady' = Unsteady(n, Failed(r))
  /\ quiet' = [quiet EXCEPT ![n] = IF r.cachedState = "Up" THEN @ ELSE 0]
  /\ UNCHANGED <<alive, discr, used, path, heard, missed>>

TxTimer(n) ==
  /\ alive[n] /\ sess[n].txTimer = 0
  /\ \E j \in Jitters : \E r \in {handleTxTimer(cfg(n), sess[n], j)} : Handled(n, r)

DetectTimer(n) ==
  /\ alive[n] /\ sess[n].detectTimer = 0
  /\ \E j \in Jitters : \E r \in {handleDetectTimer(cfg(n), sess[n], j)} : Handled(n, r)

Drain(n) ==
  /\ n \in Drainable /\ alive[n] /\ sess[n].cachedState # "AdminDown"
  /\ \E j \in Jitters : \E r \in {handleAdminDown(cfg(n), sess[n], j)} : Handled(n, r)

(* Your Discriminator not looked at.                                       *)
MutDemux(n, p) == alive[n]

(* Demux: by Your Discriminator, and by the peer's address when it is 0.   *)
Demux(n, p) == alive[n] /\ p.yourDiscr \in {0, discr[n]}

Duplicated(q) == IF path = "lossy" /\ "duplication" \in Faults THEN {q} ELSE {}

(* n takes the k-th frame m sent off the path, or a duplicate of it.  A    *)
(* good path neither reorders nor duplicates.                              *)
Deliver(n, m, k) ==
  LET p == net[m][k].pkt
  IN  /\ path = "lossy" \/ (path = "good" /\ k = 1)
      /\ Demux(n, p)
      /\ \E j \in Jitters :
         \E rest \in {Without(net[m], k)} \cup Duplicated(net[m]) :
         \E r \in {handleRecvPacket(cfg(n), sess[n], p, TRUE, j)} :
           /\ sess' = [sess EXCEPT ![n] = begin(r)]
           /\ net' = [net EXCEPT ![m] = rest, ![n] = Push(@, r.out)]
           /\ steady' = [Unsteady(n, Failed(r)) EXCEPT ![n] = Up(m)]
      /\ heard' = [heard EXCEPT ![n] = @ \cup {<<discr[n], p.myDiscr>>}]
      /\ missed' = [missed EXCEPT ![n] = 0]
      /\ quiet' = [quiet EXCEPT ![n] = 0]
      /\ UNCHANGED <<alive, discr, used, path>>

(* No session of n matches the packet.                                     *)
Discard(n, m, k) ==
  /\ ~Demux(n, net[m][k].pkt)
  /\ net' = [net EXCEPT ![m] = Without(@, k)]
  /\ UNCHANGED <<sess, alive, discr, used, path, heard, missed, steady, quiet>>

-----------------------------------------------------------------------------
(* The path and the clock                                                  *)

(* Losses are counted up to the detect multiplier of the sender.           *)
Lose(n, m, k) ==
  /\ path # "good"
  /\ net' = [net EXCEPT ![m] = Without(@, k)]
  /\ missed' = [missed EXCEPT ![n] = IF @ < NodeConfig[m].detectMult THEN @ + 1 ELSE @]
  /\ UNCHANGED <<sess, alive, discr, used, path, heard, steady, quiet>>

ChangePath ==
  /\ path' \in {"good"} \cup (IF "loss" \in Faults THEN {"lossy"} ELSE {})
                        \cup (IF "cut" \in Faults THEN {"cut"} ELSE {})
  /\ path' # path
  /\ UNCHANGED <<sess, alive, discr, used, net, heard, missed, steady, quiet>>

Due(n) == alive[n] /\ (sess[n].txTimer = 0 \/ sess[n].detectTimer = 0)

(* quiet is counted until just past the detection time.                    *)
Tick ==
  /\ \A n \in Nodes : ~Due(n) /\ \A k \in DOMAIN net[n] : net[n][k].left > 0
  /\ sess' = [n \in Nodes |-> IF alive[n] THEN passTime(sess[n]) ELSE sess[n]]
  /\ net' = [n \in Nodes |->
               [k \in DOMAIN net[n] |-> [net[n][k] EXCEPT !.left = @ - 1]]]
  /\ quiet' = [n \in Nodes |-> IF Up(n) /\ quiet[n] <= calcDetectionTime(cfg(n), sess[n])
                               THEN quiet[n] + 1 ELSE quiet[n]]
  /\ UNCHANGED <<alive, discr, used, path, heard, missed, steady>>

Next ==
  \/ \E n \in Nodes : \/ Start(n) \/ Die(n)
                      \/ TxTimer(n) \/ DetectTimer(n) \/ Drain(n)
                      \/ \E m \in Nodes \ {n} : \E k \in DOMAIN net[m] :
                           Deliver(n, m, k) \/ Discard(n, m, k) \/ Lose(n, m, k)
  \/ ChangePath
  \/ Tick

Spec == Init /\ [][Next]_vars

(* Time goes on, and with it everything that is due happens; a daemon that *)
(* is not running is started, as its service manager does.                 *)
FairSpec ==
  /\ Spec
  /\ []<><<Tick>>_vars
  /\ \A n \in Nodes : WF_vars(Start(n))

-----------------------------------------------------------------------------
(* Properties                                                              *)

(* Every field holds a value of its Go type, every frame is well formed.   *)
TypeOK ==
  /\ sess \in [Nodes -> Sessions]
  /\ alive \in [Nodes -> BOOLEAN]
  /\ discr \in [Nodes -> Discrs]
  /\ used \in [Nodes -> SUBSET Discrs]
  /\ net \in [Nodes -> Seq([pkt : PacketFields, left : 0..MaxDelay])]
  /\ path \in {"good", "lossy", "cut"}
  /\ heard \in [Nodes -> SUBSET (Discrs \X Discrs)]
  /\ missed \in [Nodes -> Nat]
  /\ steady \in [Nodes -> BOOLEAN]
  /\ quiet \in [Nodes -> Nat]

(* Up means that the path works in both directions: the session's peer,    *)
(* the very incarnation the session talks to, has accepted a packet of     *)
(* this very incarnation of the session.  Loss, duplication, reordering,   *)
(* restarts and packets of earlier incarnations do not break it.           *)
UpIsTwoWay ==
  \A n \in Nodes : Up(n) =>
    \E m \in Nodes \ {n} : <<sess[n].remoteDiscr, discr[n]>> \in heard[m]

(* A session is Up for no longer than the negotiated detection time after  *)
(* the last packet it accepted, however the intervals changed meanwhile.   *)
DetectionBound ==
  \A n \in Nodes : Up(n) => quiet[n] <= calcDetectionTime(cfg(n), sess[n])

(* A detection timer that expires while the session is Up is no false      *)
(* alarm: the peer went down itself since it was last heard, or at least   *)
(* DetectMult - 1 of its packets were lost in a row.  A drained peer slows *)
(* down to one packet a second, yet is not taken for a failed one unless   *)
(* the packet that announces it is lost.                                   *)
NoFalseAlarm ==
  [][\A n \in Nodes : \A m \in Nodes \ {n} :
       DetectTimer(n) /\ Up(n) /\ steady[n] =>
         missed[n] >= IF Up(m) THEN NodeConfig[m].detectMult - 1 ELSE 1]_vars

(* When the path stays good and both daemons stay, both sessions come Up   *)
(* and stay Up.                                                            *)
Converges ==
  <>[](path = "good" /\ \A n \in Nodes : alive[n]) => <>[](\A n \in Nodes : Up(n))

(* When the path stays cut, no session stays Up.                           *)
CutIsDetected ==
  <>[](path = "cut") => <>[](\A n \in Nodes : ~Up(n))
=============================================================================
