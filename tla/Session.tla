------------------------------- MODULE Session ------------------------------
(***************************************************************************)
(* The goroutine of a BFD session and the goroutines around it             *)
(* (internal/bfd/session.go and session_loop.go):                          *)
(*   - Run and its select loop, one handler per iteration;                 *)
(*   - receivers, which offer packets to the bounded recvCh;               *)
(*   - the interface monitor, which offers path-down commands to ctrlCh;   *)
(*   - the draining goroutine inside SetAdminDown, which loads running and *)
(*     then either offers a command to ctrlCh or stores into the atomics   *)
(*     localDiag and state directly; each atomic operation is a step;      *)
(*   - the dispatcher, which takes state changes off notifyCh.             *)
(* A channel send with a default branch never blocks: on a full channel    *)
(* the value is dropped.                                                   *)
(***************************************************************************)
EXTENDS SessionHandlers, FiniteSets

CONSTANTS Config,         \* the configuration of each session
          Inputs,         \* recvItems: what the receivers may deliver
          Jitters,        \* the jitter percentages the runs draw from
          RecvChSize, CtrlChSize, NotifyChSize

Ids == DOMAIN Config

RecvItems == [pkt : Packets, authentic : BOOLEAN]

ASSUME ConfigAssumption == Config \in [Ids -> Configs]
ASSUME DistinctAssumption ==   \* DiscriminatorAllocator
         \A s, t \in Ids : Config[s].localDiscr = Config[t].localDiscr => s = t
ASSUME InputAssumption == Inputs \subseteq RecvItems
ASSUME JitterAssumption == \A s \in Ids : Jitters \subseteq JitterPercents(Config[s])
ASSUME ChannelAssumption == /\ RecvChSize \in Nat \ {0}
                            /\ CtrlChSize \in Nat \ {0}
                            /\ NotifyChSize \in Nat   \* 0: notifyCh is nil

VARIABLES sess,       \* the fields of each session, see SessionHandlers
          phase,      \* how far Run is; running is TRUE in starting and looping
          recvCh, ctrlCh, notifyCh,
          adminCall,  \* where the draining goroutine is in SetAdminDown
          sent,       \* the packets the last step passed to SendPacket
          view,       \* the state the consumers of notifyCh last saw
          dropped     \* history: a state change found notifyCh full

vars == <<sess, phase, recvCh, ctrlCh, notifyCh, adminCall, sent, view, dropped>>

Commands == {"PathDown", "AdminDown"}

running(s) == phase[s] \in {"starting", "looping"}

Init ==
  /\ sess = [s \in Ids |-> NewSession]
  /\ phase = [s \in Ids |-> "created"]
  /\ recvCh = [s \in Ids |-> <<>>]
  /\ ctrlCh = [s \in Ids |-> <<>>]
  /\ notifyCh = <<>>
  /\ adminCall = [s \in Ids |-> "idle"]
  /\ sent = <<>>
  /\ view = [s \in Ids |-> "Down"]
  /\ dropped = FALSE

-----------------------------------------------------------------------------
(* The session goroutine                                                   *)

RunStart(s) ==
  /\ phase[s] = "created"
  /\ phase' = [phase EXCEPT ![s] = "starting"]
  /\ sent' = <<>>
  /\ UNCHANGED <<sess, recvCh, ctrlCh, notifyCh, adminCall, view, dropped>>

RunEnterLoop(s) ==
  /\ phase[s] = "starting"
  /\ \E j \in Jitters : sess' = [sess EXCEPT ![s] = startLoop(Config[s], @, j)]
  /\ phase' = [phase EXCEPT ![s] = "looping"]
  /\ sent' = <<>>
  /\ UNCHANGED <<recvCh, ctrlCh, notifyCh, adminCall, view, dropped>>

(* The context is cancelled and the select takes that case.                *)
RunStop(s) ==
  /\ phase[s] = "looping"
  /\ phase' = [phase EXCEPT ![s] = "stopped"]
  /\ sent' = <<>>
  /\ UNCHANGED <<sess, recvCh, ctrlCh, notifyCh, adminCall, view, dropped>>

(* The outcome r of a handler of s: its packets go to the sender, its      *)
(* notification to notifyCh if there is room.                              *)
Handled(s, r) ==
  LET room == Len(notifyCh) + Len(r.notes) <= NotifyChSize
  IN  /\ sess' = [sess EXCEPT ![s] = begin(r)]
      /\ sent' = r.out
      /\ notifyCh' = IF room THEN notifyCh \o r.notes ELSE notifyCh
      /\ dropped' = (dropped \/ ~room)

LoopRecv(s) ==
  /\ phase[s] = "looping" /\ recvCh[s] # <<>>
  /\ LET item == Head(recvCh[s])
     IN  \E j \in Jitters :
           Handled(s, handleRecvPacket(Config[s], sess[s], item.pkt, item.authentic, j))
  /\ recvCh' = [recvCh EXCEPT ![s] = Tail(@)]
  /\ UNCHANGED <<phase, ctrlCh, adminCall, view>>

ControlReady(s) == phase[s] = "looping" /\ ctrlCh[s] # <<>>

LoopControl(s) ==
  /\ ControlReady(s)
  /\ \E j \in Jitters :
       Handled(s, IF Head(ctrlCh[s]) = "PathDown"
                  THEN handlePathDown(Config[s], sess[s], j)
                  ELSE handleAdminDown(Config[s], sess[s], j))
  /\ ctrlCh' = [ctrlCh EXCEPT ![s] = Tail(@)]
  /\ UNCHANGED <<phase, recvCh, adminCall, view>>

LoopTx(s) ==
  /\ phase[s] = "looping" /\ sess[s].txTimer = 0
  /\ \E j \in Jitters : Handled(s, handleTxTimer(Config[s], sess[s], j))
  /\ UNCHANGED <<phase, recvCh, ctrlCh, adminCall, view>>

LoopDetect(s) ==
  /\ phase[s] = "looping" /\ sess[s].detectTimer = 0
  /\ \E j \in Jitters : Handled(s, handleDetectTimer(Config[s], sess[s], j))
  /\ UNCHANGED <<phase, recvCh, ctrlCh, adminCall, view>>

-----------------------------------------------------------------------------
(* The callers.  On a full channel RecvPacket and SetPathDown drop their   *)
(* argument, which changes nothing.                                        *)

RecvPacket(s, item) ==
  /\ Len(recvCh[s]) < RecvChSize
  /\ recvCh' = [recvCh EXCEPT ![s] = Append(@, item)]
  /\ sent' = <<>>
  /\ UNCHANGED <<sess, phase, ctrlCh, notifyCh, adminCall, view, dropped>>

SetPathDown(s) ==
  /\ Len(ctrlCh[s]) < CtrlChSize
  /\ ctrlCh' = [ctrlCh EXCEPT ![s] = Append(@, "PathDown")]
  /\ sent' = <<>>
  /\ UNCHANGED <<sess, phase, recvCh, notifyCh, adminCall, view, dropped>>

(* DrainAllSessions calls SetAdminDown for one session after the other.    *)
SetAdminDownLoad(s) ==
  /\ \A t \in Ids : adminCall[t] \in {"idle", "returned"}
  /\ adminCall[s] = "idle"
  /\ adminCall' = [adminCall EXCEPT ![s] = IF running(s) THEN "offering" ELSE "direct"]
  /\ sent' = <<>>
  /\ UNCHANGED <<sess, phase, recvCh, ctrlCh, notifyCh, view, dropped>>

SetAdminDownOffer(s) ==
  /\ adminCall[s] = "offering"
  /\ \/ /\ Len(ctrlCh[s]) < CtrlChSize
        /\ ctrlCh' = [ctrlCh EXCEPT ![s] = Append(@, "AdminDown")]
        /\ adminCall' = [adminCall EXCEPT ![s] = "returned"]
     \/ /\ Len(ctrlCh[s]) = CtrlChSize
        /\ adminCall' = [adminCall EXCEPT ![s] = "direct"]
        /\ UNCHANGED ctrlCh
  /\ sent' = <<>>
  /\ UNCHANGED <<sess, phase, recvCh, notifyCh, view, dropped>>

SetAdminDownStoreDiag(s) ==
  /\ adminCall[s] = "direct"
  /\ sess' = [sess EXCEPT ![s].localDiag = "AdminDown"]
  /\ adminCall' = [adminCall EXCEPT ![s] = "diagStored"]
  /\ sent' = <<>>
  /\ UNCHANGED <<phase, recvCh, ctrlCh, notifyCh, view, dropped>>

SetAdminDownStoreState(s) ==
  /\ adminCall[s] = "diagStored"
  /\ sess' = [sess EXCEPT ![s].state = "AdminDown"]
  /\ adminCall' = [adminCall EXCEPT ![s] = "returned"]
  /\ sent' = <<>>
  /\ UNCHANGED <<phase, recvCh, ctrlCh, notifyCh, view, dropped>>

SetAdminDown(s) ==
  \/ SetAdminDownLoad(s)
  \/ SetAdminDownOffer(s)
  \/ SetAdminDownStoreDiag(s)
  \/ SetAdminDownStoreState(s)

(* RunDispatch hands a state change to the consumers.                      *)
Dispatch ==
  /\ notifyCh # <<>>
  /\ LET sc == Head(notifyCh)
     IN  view' = [s \in Ids |-> IF Config[s].localDiscr = sc.discr
                                THEN sc.newState ELSE view[s]]
  /\ notifyCh' = Tail(notifyCh)
  /\ sent' = <<>>
  /\ UNCHANGED <<sess, phase, recvCh, ctrlCh, adminCall, dropped>>

(* A tick of the clock.                                                    *)
Tick ==
  /\ \E s \in Ids : sess[s].txTimer > 0 \/ sess[s].detectTimer > 0
  /\ sess' = [s \in Ids |-> passTime(sess[s])]
  /\ sent' = <<>>
  /\ UNCHANGED <<phase, recvCh, ctrlCh, notifyCh, adminCall, view, dropped>>

Loop(s) == \/ RunStart(s) \/ RunEnterLoop(s)
           \/ LoopRecv(s) \/ LoopControl(s) \/ LoopTx(s) \/ LoopDetect(s)

Next ==
  \/ \E s \in Ids : \/ Loop(s) \/ RunStop(s) \/ SetPathDown(s) \/ SetAdminDown(s)
                    \/ \E item \in Inputs : RecvPacket(s, item)
  \/ Dispatch
  \/ Tick

Spec == Init /\ [][Next]_vars

(* The Go scheduler runs every goroutine that can run, and select picks    *)
(* among the ready cases at random, so a case that stays ready is taken.   *)
(* Nothing forces a cancellation, a packet or a caller to come.  The last  *)
(* conjunct is WF_vars(LoopControl(s)): ControlReady(s) is its ENABLED.    *)
FairSpec ==
  /\ Spec
  /\ \A s \in Ids :
       /\ WF_vars(RunStart(s))
       /\ WF_vars(RunEnterLoop(s))
       /\ WF_vars(SetAdminDownOffer(s))
       /\ ([]<>~ControlReady(s)) \/ ([]<><<LoopControl(s)>>_vars)

-----------------------------------------------------------------------------
(* Properties                                                              *)

(* Every field holds a value of its Go type and no channel exceeds its     *)
(* capacity.                                                               *)
TypeOK ==
  /\ sess \in [Ids -> Sessions]
  /\ phase \in [Ids -> {"created", "starting", "looping", "stopped"}]
  /\ recvCh \in [Ids -> Seq(RecvItems)] /\ \A s \in Ids : Len(recvCh[s]) <= RecvChSize
  /\ ctrlCh \in [Ids -> Seq(Commands)] /\ \A s \in Ids : Len(ctrlCh[s]) <= CtrlChSize
  /\ notifyCh \in Seq(StateChanges) /\ Len(notifyCh) <= NotifyChSize
  /\ adminCall \in [Ids -> {"idle", "offering", "direct", "diagStored", "returned"}]
  /\ sent \in Seq(PacketFields)
  /\ view \in [Ids -> States]
  /\ dropped \in BOOLEAN

(* A session that is Init or Up knows its peer: remoteDiscr is the nonzero *)
(* discriminator of a packet it accepted.  NotifyDown clears remoteDiscr,  *)
(* also in the middle of a handler that goes on to transmit.               *)
PeerKnown ==
  \A s \in Ids : sess[s].cachedState \in {"Init", "Up"} => sess[s].remoteDiscr # 0

(* Every packet a handler transmits passes the peer's                      *)
(* UnmarshalControlPacket, which refuses a zero YourDiscriminator unless   *)
(* the sender is Down or AdminDown.                                        *)
SentDecodable ==
  \A i \in DOMAIN sent : Decodable(sent[i])

(* The state a reader of State() sees differs from the one the goroutine   *)
(* works with only after SetAdminDown stored AdminDown directly.           *)
MirrorLag ==
  \A s \in Ids : sess[s].state # sess[s].cachedState => sess[s].state = "AdminDown"

(* A session reports itself Up only while the last packet it accepted      *)
(* showed the peer Init or Up, and waits in Init only for a peer that is   *)
(* Down: the three-way handshake.                                          *)
HandshakeAgrees ==
  \A s \in Ids : /\ sess[s].cachedState = "Up" => sess[s].remoteState \in {"Init", "Up"}
                 /\ sess[s].cachedState = "Init" => sess[s].remoteState = "Down"

(* A session that is not Up does not transmit faster than the slow rate:   *)
(* whenever a step arms the transmission timer of such a session, it arms  *)
(* it with at least three quarters of the one-second floor, and every      *)
(* packet advertises at least that floor.                                  *)
SlowUnlessUp ==
  [][\A s \in Ids :
       LET r == sess'[s]
       IN  r.cachedState # "Up" =>
             /\ r.txTimer > sess[s].txTimer => 4 * r.txTimer >= 3 * SlowTx
             /\ \A i \in DOMAIN sent' : sent'[i].myDiscr = Config[s].localDiscr =>
                  sent'[i].desiredMinTx >= microsecondsFromDuration(SlowTx)]_vars

(* The step that takes a packet off recvCh answers a valid Poll with       *)
(* exactly one Final and sends no Final otherwise, whether the packet also *)
(* changes the state or not.                                               *)
PollAnswered ==
  [][\A s \in Ids :
       Len(recvCh'[s]) < Len(recvCh[s]) =>
         LET item == Head(recvCh[s])
             finals == {i \in DOMAIN sent' : sent'[i].final}
         IN  Cardinality(finals) = IF item.authentic /\ item.pkt.poll THEN 1 ELSE 0]_vars

(* A session whose goroutine is in AdminDown stays there: no packet, timer *)
(* or command brings it back, and State() keeps saying so.                 *)
AdminDownStays ==
  [][\A s \in Ids :
       phase[s] = "looping" /\ sess[s].cachedState = "AdminDown" =>
         sess'[s].cachedState = "AdminDown" /\ sess'[s].state = "AdminDown"]_vars

(* What the consumers will have seen of s when notifyCh is drained.        *)
Seen(s) ==
  LET mine == {i \in DOMAIN notifyCh : notifyCh[i].discr = Config[s].localDiscr}
  IN  IF mine = {} THEN view[s]
      ELSE notifyCh[CHOOSE i \in mine : \A k \in mine : k <= i].newState

(* As long as notifyCh never overflowed, the consumers of state changes    *)
(* end up with the state the session is in.  The exception is a session    *)
(* set AdminDown before its goroutine started, for which no state change   *)
(* is emitted.                                                             *)
ConsumersTrack ==
  ~dropped => \A s \in Ids : \/ Seen(s) = sess[s].cachedState
                             \/ Seen(s) = "Down" /\ sess[s].cachedState = "AdminDown"

(* An AdminDown command in ctrlCh of a running session is eventually       *)
(* announced to the peer, unless the session is stopped first.             *)
AdminDownAnnounced ==
  \A s \in Ids :
    (phase[s] # "stopped" /\ \E i \in DOMAIN ctrlCh[s] : ctrlCh[s][i] = "AdminDown")
      ~> (\/ phase[s] = "stopped"
          \/ \E i \in DOMAIN sent : /\ sent[i].myDiscr = Config[s].localDiscr
                                    /\ sent[i].state = "AdminDown")

=============================================================================
