-------------------------------- MODULE Echo --------------------------------
(***************************************************************************)
(* RFC 9747 echo sessions: internal/bfd/echo.go (the session goroutine),   *)
(* manager_echo.go (the table of sessions and its reconciliation),         *)
(* netio/echo_receiver.go and server/echo.go (the RPCs).  A session sends  *)
(* echoes that the peer's forwarding plane loops back; it is Up while they *)
(* return.                                                                 *)
(*                                                                         *)
(* The goroutines and the calls are fast compared to a tick of the clock:  *)
(* no tick passes while one of them has something to do.  A discriminator  *)
(* is a random 32-bit number: Fresh assumes that one which a goroutine, a  *)
(* call or the wire still remembers is not drawn again.  The state changes *)
(* a transition emits are taken up by module Events.                       *)
(***************************************************************************)
EXTENDS SessionHandlers, FiniteSets

CONSTANTS Keys,            \* peer, local address and interface of a session
          TxInterval,      \* the interval of each key, 0 when none is configured
          DetectMult,
          Jitters,         \* the jitter percentages drawn from
          echoRecvChSize,
          MaxDelay,        \* ticks an echo travels at most
          Reloaders,       \* goroutines that reconcile: start-up and SIGHUP
          Clients,         \* RPC handlers
          Declared,        \* the echo peers of the files a reload may read
          MaxAdds          \* bound on AddEchoSession calls

ASSUME EchoAssumption == /\ TxInterval \in [Keys -> Nat]
                         /\ DetectMult \in 1..255
                         /\ Jitters \subseteq JitterPercents([detectMult |-> DetectMult])
                         /\ echoRecvChSize \in Nat \ {0}
                         /\ MaxDelay \in Nat
                         /\ Declared \subseteq (SUBSET Keys) \ {{}}

VARIABLES es,          \* the session of each discriminator
          allocated,   \* DiscriminatorAllocator
          call,        \* where each caller is
          adds,        \* AddEchoSession calls so far
          path,        \* whether the peer is reached and loops back
          cutFor,      \* history: ticks cutFor the path was cut, capped
          wire         \* echoes on their way

vars == <<es, allocated, call, adds, path, cutFor, wire>>

None == "none"
Ports == {"3784", "3785"}

DetectionTime(k) == DetectMult * TxInterval[k]

(* The longest interval and the caps of the two history counters.          *)
MaxTx == CHOOSE t \in {TxInterval[k] : k \in Keys} : \A k \in Keys : TxInterval[k] <= t
CutCap == DetectMult * MaxTx + MaxDelay + 1
GoodCap == MaxTx + MaxDelay + 1

Free == [phase |-> "free", key |-> None, port |-> None, state |-> "Down",
         txTimer |-> Off, detectTimer |-> Off, recvCh |-> 0, goodFor |-> 0]

Runs(r) == r.phase \in {"running", "deleted", "cancelled"}

Running(d) == Runs(es[d])

echoSessions == {d \in Discrs : es[d].phase = "running"}

Callers == Reloaders \cup Clients

Idle == [step |-> "idle", want |-> {}, have |-> [k \in Keys |-> 0], destroy |-> {},
         create |-> {}, port |-> None, discr |-> 0, alone |-> TRUE, twins |-> {}]

Init ==
  /\ es = [d \in Discrs |-> Free]
  /\ allocated = {}
  /\ call = [c \in Callers |-> Idle]
  /\ adds = 0
  /\ path = "good"
  /\ cutFor = 0
  /\ wire = {}

-----------------------------------------------------------------------------
(* The session goroutine                                                   *)

(* The echo is always built with YourDiscriminator zero.                   *)
MutRebuildCachedPacket(d) ==
  [state |-> es[d].state, detectMult |-> DetectMult, myDiscr |-> d, yourDiscr |-> 0]

rebuildCachedPacket(d) ==
  [state |-> es[d].state, detectMult |-> DetectMult, myDiscr |-> d,
   yourDiscr |-> IF es[d].state = "Up" THEN d ELSE 0]

(* sendEcho and the reset of txTimer.  Only an echo sent to port 3785 is   *)
(* looped back.                                                            *)
sendEcho(d) ==
  /\ Running(d) /\ es[d].txTimer = 0
  /\ \E j \in Jitters :
       es' = [es EXCEPT ![d].txTimer = applyJitter(TxInterval[es[d].key], j)]
  /\ wire' = IF path = "good" /\ es[d].port = "3785"
             THEN wire \cup {[pkt |-> rebuildCachedPacket(d), age |-> 0]}
             ELSE wire
  /\ UNCHANGED <<allocated, call, adds, path, cutFor>>

(* The diagnostic and the counters are left out.                           *)
transitionTo(r, state) == [r EXCEPT !.state = state]

handleEchoRecv(d) ==
  /\ Running(d) /\ es[d].recvCh > 0
  /\ LET r == [es[d] EXCEPT !.recvCh = @ - 1, !.detectTimer = DetectionTime(es[d].key)]
     IN  es' = [es EXCEPT ![d] = IF r.state = "Down" THEN transitionTo(r, "Up") ELSE r]
  /\ UNCHANGED <<allocated, call, adds, path, cutFor, wire>>

(* The timer is restarted and the state left Up.                           *)
MutHandleDetectTimeout(d) ==
  /\ Running(d) /\ es[d].detectTimer = 0
  /\ es' = [es EXCEPT ![d].detectTimer = DetectionTime(es[d].key)]
  /\ UNCHANGED <<allocated, call, adds, path, cutFor, wire>>

handleDetectTimeout(d) ==
  /\ Running(d) /\ es[d].detectTimer = 0
  /\ LET r == [es[d] EXCEPT !.detectTimer = DetectionTime(es[d].key)]
     IN  es' = [es EXCEPT ![d] = IF r.state = "Up" THEN transitionTo(r, "Down")
                                 ELSE r]
  /\ UNCHANGED <<allocated, call, adds, path, cutFor, wire>>

(* ctx.Done is taken; until then the select may take another case.         *)
echoStop(d) ==
  /\ es[d].phase = "cancelled"
  /\ es' = [es EXCEPT ![d] = Free]
  /\ UNCHANGED <<allocated, call, adds, path, cutFor, wire>>

-----------------------------------------------------------------------------
(* The receiver and the path                                               *)

RecvEcho(r) == [r EXCEPT !.recvCh = IF @ < echoRecvChSize THEN @ + 1 ELSE @]

(* An echo that returns for a destroyed session has no entry.              *)
DemuxEcho(myDiscr) ==
  es' = IF myDiscr \in echoSessions THEN [es EXCEPT ![myDiscr] = RecvEcho(@)] ELSE es

(* What UnmarshalControlPacket refuses is dropped.                         *)
recvOne(p) ==
  /\ p \in wire
  /\ wire' = wire \ {p}
  /\ IF Decodable(p.pkt) THEN DemuxEcho(p.pkt.myDiscr) ELSE UNCHANGED es
  /\ UNCHANGED <<allocated, call, adds, path, cutFor>>

(* The path fails, losing any of the echoes on it, or is repaired.         *)
PathChanges ==
  /\ path' = IF path = "good" THEN "cut" ELSE "good"
  /\ wire' \in SUBSET wire
  /\ cutFor' = 0
  /\ es' = [d \in Discrs |-> [es[d] EXCEPT !.goodFor = 0]]
  /\ UNCHANGED <<allocated, call, adds>>

Quiet ==
  /\ \A d \in Discrs : Running(d) => /\ es[d].txTimer > 0 /\ es[d].detectTimer > 0
                                     /\ es[d].recvCh = 0
                                     /\ es[d].phase # "cancelled"
  /\ \A p \in wire : p.age < MaxDelay
  /\ \A c \in Callers : call[c].step = "idle"

Tick ==
  /\ Quiet
  /\ es' = [d \in Discrs |->
              IF Running(d)
              THEN [es[d] EXCEPT !.txTimer = @ - 1, !.detectTimer = @ - 1,
                                 !.goodFor = IF path = "good" /\ @ < GoodCap THEN @ + 1
                                             ELSE @]
              ELSE es[d]]
  /\ wire' = {[p EXCEPT !.age = @ + 1] : p \in wire}
  /\ cutFor' = IF path = "cut" /\ cutFor < CutCap THEN cutFor + 1 ELSE cutFor
  /\ UNCHANGED <<allocated, call, adds, path>>

-----------------------------------------------------------------------------
(* The manager's calls                                                     *)

Fresh(d) == /\ d \notin allocated /\ es[d].phase = "free"
            /\ \A p \in wire : p.pkt.myDiscr # d
            /\ \A c \in Callers : d # call[c].discr /\ \A k \in Keys : d # call[c].have[k]

(* A caller begins: no call that is under way is alone any more.           *)
Begin(c, r) ==
  LET busy == \E b \in Callers : call[b].step # "idle"
  IN  call' = [b \in Callers |-> IF b = c THEN [r EXCEPT !.alone = ~busy]
                                 ELSE [call[b] EXCEPT !.alone = @ /\ call[b].step = "idle"]]

(* echoSessionKeySet keeps one discriminator per key.                      *)
echoSessionKeySet ==
  {h \in [Keys -> Discrs \cup {0}] :
     \A k \in Keys : LET mine == {d \in echoSessions : es[d].key = k}
                     IN  h[k] \in IF mine = {} THEN {0} ELSE mine}

(* Sessions the file no longer names are kept.                             *)
MutReconcileEchoSessions(c, want) ==
  /\ call[c].step = "idle"
  /\ \E h \in echoSessionKeySet :
       Begin(c, [Idle EXCEPT !.step = "working", !.want = want, !.have = h, !.port = "3785",
                             !.destroy = {}, !.create = {k \in want : h[k] = 0}])
  /\ UNCHANGED <<es, allocated, adds, path, cutFor, wire>>

(* twins: the keys that have more than one session, which only             *)
(* AddEchoSession makes.                                                   *)
ReconcileEchoSessions(c, want) ==
  /\ call[c].step = "idle"
  /\ \E h \in echoSessionKeySet :
       Begin(c, [Idle EXCEPT !.step = "working", !.want = want, !.have = h, !.port = "3785",
                             !.destroy = {k \in Keys \ want : h[k] # 0},
                             !.create = {k \in want : h[k] = 0},
                             !.twins = {k \in Keys : \E d, e \in echoSessions :
                                          d # e /\ es[d].key = k /\ es[e].key = k}])
  /\ UNCHANGED <<es, allocated, adds, path, cutFor, wire>>

(* The RPC builds its sender without a destination port, so with 3784.     *)
AddEchoSession(c, k) ==
  /\ call[c].step = "idle" /\ adds < MaxAdds
  /\ Begin(c, [Idle EXCEPT !.step = "working", !.create = {k}, !.port = "3784"])
  /\ adds' = adds + 1
  /\ UNCHANGED <<es, allocated, path, cutFor, wire>>

DeleteEchoSession(c, d) ==
  /\ call[c].step = "idle" /\ d \in echoSessions
  /\ Begin(c, [Idle EXCEPT !.step = "working", !.have[es[d].key] = d, !.destroy = {es[d].key}])
  /\ UNCHANGED <<es, allocated, adds, path, cutFor, wire>>

(* DestroyEchoSession under the lock: ErrEchoSessionNotFound is only       *)
(* reported.                                                               *)
destroyNext(c, k) ==
  /\ call[c].step = "working" /\ k \in call[c].destroy
  /\ LET d == call[c].have[k]
     IN  IF d \in echoSessions
         THEN /\ es' = [es EXCEPT ![d].phase = "deleted"]
              /\ call' = [call EXCEPT ![c].destroy = @ \ {k}, ![c].discr = d,
                                      ![c].step = "cancelling"]
         ELSE /\ call' = [call EXCEPT ![c].destroy = @ \ {k}]
              /\ UNCHANGED es
  /\ UNCHANGED <<allocated, adds, path, cutFor, wire>>

cancelAndRelease(c) ==
  /\ call[c].step = "cancelling"
  /\ es' = [es EXCEPT ![call[c].discr].phase = "cancelled"]
  /\ allocated' = allocated \ {call[c].discr}
  /\ call' = [call EXCEPT ![c].step = "working", ![c].discr = 0]
  /\ UNCHANGED <<adds, path, cutFor, wire>>

(* CreateEchoSession up to the draw of the discriminator.                  *)
allocateNext(c, k, d) ==
  /\ call[c].step = "working" /\ call[c].destroy = {} /\ k \in call[c].create
  /\ Fresh(d)
  /\ allocated' = allocated \cup {d}
  /\ call' = [call EXCEPT ![c].step = "registering", ![c].discr = d, ![c].have[k] = d]
  /\ UNCHANGED <<es, adds, path, cutFor, wire>>

(* What validateEchoConfig accepts of a key.                               *)
validateEchoConfig(k) == TxInterval[k] > 0

NewEchoSession(k, port, j) ==
  [Free EXCEPT !.phase = "running", !.key = k, !.port = port,
               !.txTimer = applyJitter(TxInterval[k], j), !.detectTimer = DetectionTime(k)]

Registering(c) ==
  CHOOSE k \in call[c].create : call[c].have[k] = call[c].discr

(* A refused configuration keeps its discriminator.                        *)
MutRegister(c) ==
  /\ call[c].step = "registering"
  /\ LET k == Registering(c)  d == call[c].discr
     IN  /\ \E j \in Jitters :
              es' = IF validateEchoConfig(k)
                    THEN [es EXCEPT ![d] = NewEchoSession(k, call[c].port, j)] ELSE es
         /\ call' = [call EXCEPT ![c].step = "working", ![c].discr = 0, ![c].have[k] = 0,
                                 ![c].create = @ \ {k}]
  /\ UNCHANGED <<allocated, adds, path, cutFor, wire>>

(* NewEchoSession and, when it accepts the configuration, the registration *)
(* and the start of the goroutine.                                         *)
register(c) ==
  /\ call[c].step = "registering"
  /\ LET k == Registering(c)  d == call[c].discr
     IN  /\ \E j \in Jitters :
              es' = IF validateEchoConfig(k)
                    THEN [es EXCEPT ![d] = NewEchoSession(k, call[c].port, j)] ELSE es
         /\ allocated' = IF validateEchoConfig(k) THEN allocated ELSE allocated \ {d}
         /\ call' = [call EXCEPT ![c].step = "working", ![c].discr = 0, ![c].have[k] = 0,
                                 ![c].create = @ \ {k}]
  /\ UNCHANGED <<adds, path, cutFor, wire>>

return(c) ==
  /\ call[c].step = "working" /\ call[c].destroy = {} /\ call[c].create = {}
  /\ call' = [call EXCEPT ![c] = Idle]
  /\ UNCHANGED <<es, allocated, adds, path, cutFor, wire>>

Calls(c) ==
  \/ c \in Reloaders /\ \E want \in Declared : ReconcileEchoSessions(c, want)
  \/ c \in Clients /\ \/ \E k \in Keys : AddEchoSession(c, k)
                      \/ \E d \in Discrs : DeleteEchoSession(c, d)
  \/ \E k \in Keys : destroyNext(c, k) \/ \E d \in Discrs : allocateNext(c, k, d)
  \/ cancelAndRelease(c) \/ register(c) \/ return(c)

Next ==
  \/ \E d \in Discrs : sendEcho(d) \/ handleEchoRecv(d) \/ handleDetectTimeout(d) \/ echoStop(d)
  \/ \E p \in wire : recvOne(p)
  \/ \E c \in Callers : Calls(c)
  \/ PathChanges
  \/ Tick

Spec == Init /\ [][Next]_vars

-----------------------------------------------------------------------------
(* Properties                                                              *)

EchoRecs == [phase : {"free", "running", "deleted", "cancelled"},
             key : Keys \cup {None}, port : Ports \cup {None}, state : {"Down", "Up"},
             txTimer : Int, detectTimer : Int, recvCh : 0..echoRecvChSize, goodFor : Nat]

(* A goroutine's session has a valid configuration and timers within it.   *)
Well(r) == Runs(r) => /\ r.key \in Keys /\ TxInterval[r.key] > 0
                      /\ r.txTimer \in 0..TxInterval[r.key]
                      /\ r.detectTimer \in 0..DetectionTime(r.key)

CallRecs == [step : {"idle", "working", "cancelling", "registering"}, want : SUBSET Keys,
             have : [Keys -> Discrs \cup {0}], destroy : SUBSET Keys, create : SUBSET Keys,
             port : Ports \cup {None}, discr : Discrs \cup {0}, alone : BOOLEAN,
             twins : SUBSET Keys]

Echoes == {p \in [pkt : [state : {"Down", "Up"}, detectMult : {DetectMult}, myDiscr : Discrs,
                         yourDiscr : Discrs \cup {0}],
                  age : 0..MaxDelay] : Decodable(p.pkt)}

(* Every field holds a value of its type; recvCh never exceeds its         *)
(* capacity, nor a timer of a running session the interval it was armed    *)
(* with; every echo on the wire is one the receiver decodes, and no older  *)
(* than MaxDelay.                                                          *)
TypeOK ==
  /\ es \in [Discrs -> EchoRecs] /\ \A d \in Discrs : Well(es[d])
  /\ allocated \subseteq Discrs /\ call \in [Callers -> CallRecs]
  /\ path \in {"good", "cut"} /\ cutFor \in Nat /\ wire \subseteq Echoes

(* A failed path is noticed in time: once it has been cut for the          *)
(* detection time and the longest travel time of an echo, no session is    *)
(* Up, wherever its timers stood and whatever was on the wire when it      *)
(* failed (handleDetectTimeout and the re-arming in handleEchoRecv).       *)
DownWhenCut ==
  path = "cut" => \A d \in echoSessions :
                    cutFor > DetectionTime(es[d].key) + MaxDelay => es[d].state = "Down"

(* A working path is noticed in time and never doubted: a session that     *)
(* sends to the echo port is Up as soon as it has run over a good path for *)
(* one interval and one travel time, and from then on stays Up while the   *)
(* path is good.  This needs each of its own echoes to pass                *)
(* UnmarshalControlPacket on the way back, in every state.                 *)
UpWhenGood ==
  path = "good" => \A d \in echoSessions :
                     /\ es[d].port = "3785"
                     /\ es[d].goodFor > TxInterval[es[d].key] + MaxDelay
                     => es[d].state = "Up"

(* Discriminators are neither lost nor shared: what is allocated belongs   *)
(* to a registered session, to a session that a call is destroying, or to  *)
(* a session that a call is creating; a refused creation gives its         *)
(* discriminator back.                                                     *)
DiscrsReturned ==
  allocated = (echoSessions \cup {call[c].discr : c \in Callers}) \ {0}

(* Reconciliation converges: when ReconcileEchoSessions returns and no     *)
(* other call overlapped it, every declared peer with a valid              *)
(* configuration has a session and no other key has one, except for the    *)
(* second session of a key that AddEchoSession duplicated: the key set     *)
(* holds one discriminator per key.                                        *)
ReconcileConverges ==
  [][\A c \in Callers :
       /\ call[c].step # "idle" /\ call'[c].step = "idle"
       /\ call[c].want # {} /\ call[c].alone
       => \A k \in Keys :
            LET present == \E d \in echoSessions : es[d].key = k
            IN  IF k \in call[c].want THEN validateEchoConfig(k) => present
                ELSE k \notin call[c].twins => ~present]_vars

=============================================================================
