------------------------------- MODULE GoBgp --------------------------------
(***************************************************************************)
(* The GoBGP integration (internal/gobgp): a handler goroutine takes the   *)
(* state changes of the sessions from its subscription, in order, filters  *)
(* them through the flap dampener and disables or enables the BGP peer.    *)
(* The way of a state change from the session to the subscription          *)
(* (rawNotifyCh, RunDispatch, SubscribeStateChanges) is one bounded queue  *)
(* that drops what does not fit.  Time is counted in half-lives of the     *)
(* dampening penalty, and the penalty in fractions of one Down event.      *)
(***************************************************************************)
EXTENDS BfdFsm, Integers

CONSTANTS Sessions, Peers,
          PeerOf,              \* the peer address of a session
          Enabled,             \* DampeningConfig
          SuppressThreshold, ReuseThreshold,
          MaxSuppressTime,     \* in half-lives
          Down,                \* the penalty of one Down event
          MaxPenalty,          \* bound: no Down is handled beyond it
          QueueSize,
          Faults,              \* subset of {"drop", "fail", "restart"}
          NoSession

VARIABLES sessions,      \* state of each session, NoSession without one
          events,        \* the handler's subscription
          penalty, suppressed, suppressedFor,   \* Dampener.peers
          peerEnabled,   \* GoBGP: the administrative state of the BGP peer
          wanted,        \* history: the peer's last failure or recovery
          fate,          \* history: what became of it
          churn          \* history: peers disabled in this half-life

damp == <<penalty, suppressed, suppressedFor>>
history == <<wanted, fate, churn>>
goBgpVars == <<sessions, events, penalty, suppressed, suppressedFor, peerEnabled, wanted, fate, churn>>

ASSUME GoBgpAssumption ==
  /\ PeerOf \in [Sessions -> Peers]
  /\ Enabled \in BOOLEAN
  /\ {SuppressThreshold, ReuseThreshold, MaxSuppressTime, Down, MaxPenalty, QueueSize} \subseteq Nat
  /\ Down > 0 /\ ReuseThreshold < SuppressThreshold
  /\ NoSession \notin States

GoBgpInit ==
  /\ sessions = [s \in Sessions |-> NoSession]
  /\ events = <<>>
  /\ penalty = [p \in Peers |-> 0]
  /\ suppressed = [p \in Peers |-> FALSE]
  /\ suppressedFor = [p \in Peers |-> 0]
  /\ peerEnabled = [p \in Peers |-> TRUE]
  /\ wanted = [p \in Peers |-> TRUE]
  /\ fate = [p \in Peers |-> "none"]
  /\ churn = [p \in Peers |-> 0]

-----------------------------------------------------------------------------
(* Sessions: what the handler can see of them                              *)

CreateSession(s) ==
  /\ sessions[s] = NoSession
  /\ sessions' = [sessions EXCEPT ![s] = "Down"]
  /\ UNCHANGED <<events, damp, peerEnabled, history>>

(* A session is deleted without a state change.                            *)
DestroyPeerSession(s) ==
  /\ sessions[s] # NoSession
  /\ sessions' = [sessions EXCEPT ![s] = NoSession]
  /\ UNCHANGED <<events, damp, peerEnabled, history>>

(* A non-blocking send: what does not fit is dropped.                      *)
broadcastStateChange(sc) ==
  events' = IF Len(events) < QueueSize THEN Append(events, sc) ELSE events

PeerEvent(s, event) ==
  /\ sessions[s] # NoSession
  /\ LET new == ApplyEvent(sessions[s], event).newState
         p == PeerOf[s]
         room == Len(events) < QueueSize
     IN  /\ new # sessions[s]
         /\ room \/ "drop" \in Faults
         /\ sessions' = [sessions EXCEPT ![s] = new]
         /\ broadcastStateChange([peer |-> p, oldState |-> sessions[s], newState |-> new])
         /\ wanted' = [wanted EXCEPT ![p] = IF new \in {"Up", "Down"} THEN new = "Up" ELSE @]
         /\ fate' = [fate EXCEPT ![p] = CASE new \notin {"Up", "Down"} -> @
                                          [] new \in {"Up", "Down"} /\ room -> "ok"
                                          [] OTHER -> "lost"]
  /\ UNCHANGED <<damp, peerEnabled, churn>>

-----------------------------------------------------------------------------
(* The dampener                                                            *)

(* decayPenalty: a half-life passes.  The code decays when it next looks   *)
(* at the peer, with the same result.                                      *)
Tick ==
  /\ penalty' = [p \in Peers |-> penalty[p] \div 2]
  /\ suppressedFor' = [p \in Peers |-> IF suppressed[p] /\ suppressedFor[p] < MaxSuppressTime
                                       THEN suppressedFor[p] + 1 ELSE suppressedFor[p]]
  /\ churn' = [p \in Peers |-> 0]
  /\ UNCHANGED <<sessions, events, suppressed, peerEnabled, wanted, fate>>

Overdue(p) == suppressed[p] /\ suppressedFor[p] >= MaxSuppressTime

(* The dampener's record of p becomes: penalty n, suppressed or not.       *)
Record(p, n, on) ==
  /\ penalty' = [penalty EXCEPT ![p] = n]
  /\ suppressed' = [suppressed EXCEPT ![p] = on]
  /\ suppressedFor' = [suppressedFor EXCEPT ![p] = IF on /\ suppressed[p] THEN @ ELSE 0]

unsuppress(p) == Record(p, 0, FALSE)

(* Mutant: the penalty is compared before the event is counted.            *)
MutShouldSuppress(p, result) ==
  \/ ~Enabled /\ ~result /\ UNCHANGED damp
  \/ Enabled /\ Overdue(p) /\ ~result /\ Record(p, 0, FALSE)
  \/ /\ Enabled /\ ~Overdue(p)
     /\ result = (suppressed[p] \/ penalty[p] >= SuppressThreshold)
     /\ Record(p, penalty[p] + Down, result)

(* A Down event: it is counted first, also while suppressed.               *)
ShouldSuppress(p, result) ==
  \/ ~Enabled /\ ~result /\ UNCHANGED damp
  \/ Enabled /\ Overdue(p) /\ ~result /\ unsuppress(p)
  \/ /\ Enabled /\ ~Overdue(p)
     /\ result = (suppressed[p] \/ penalty[p] + Down >= SuppressThreshold)
     /\ Record(p, penalty[p] + Down, result)

(* An Up event.                                                            *)
ShouldSuppressUp(p, result) ==
  \/ ~Enabled /\ ~result /\ UNCHANGED damp
  \/ /\ Enabled /\ suppressed[p] /\ (Overdue(p) \/ penalty[p] < ReuseThreshold)
     /\ ~result /\ unsuppress(p)
  \/ /\ Enabled /\ ~(suppressed[p] /\ (Overdue(p) \/ penalty[p] < ReuseThreshold))
     /\ result = suppressed[p] /\ UNCHANGED damp

-----------------------------------------------------------------------------
(* The handler                                                             *)

(* Mutant: a session that fails in Init is not a failure.                  *)
MutIsTransitionToDown(sc) == sc.newState = "Down" /\ sc.oldState = "Up"

(* AdminDown is no failure.                                                *)
isTransitionToDown(sc) == sc.newState = "Down" /\ sc.oldState \in {"Up", "Init"}

isTransitionToUp(sc) == sc.newState = "Up" /\ sc.oldState # "Up"

(* A later failure or recovery of the peer is still to be handled.         *)
Superseded(p) == \E i \in 2..Len(events) :
                   events[i].peer = p /\ events[i].newState \in {"Up", "Down"}

Befalls(p, what) == fate' = [fate EXCEPT ![p] = IF Superseded(p) THEN @ ELSE what]

(* applyDownAction and applyUpAction: one call, bounded by a timeout and   *)
(* not repeated.  A call that failed may have taken effect.                *)
apply(p, on) ==
  \/ /\ peerEnabled' = [peerEnabled EXCEPT ![p] = on]
     /\ UNCHANGED fate
  \/ /\ "fail" \in Faults
     /\ \/ peerEnabled' = [peerEnabled EXCEPT ![p] = on]
        \/ UNCHANGED peerEnabled
     /\ Befalls(p, "lost")

handleDown(p) ==
  \/ /\ ShouldSuppress(p, TRUE)
     /\ Befalls(p, "suppressed")
     /\ UNCHANGED <<peerEnabled, churn>>
  \/ /\ ShouldSuppress(p, FALSE)
     /\ apply(p, FALSE)
     /\ churn' = [churn EXCEPT ![p] = @ + 1]

handleUp(p) ==
  \/ /\ ShouldSuppressUp(p, TRUE)
     /\ Befalls(p, "suppressed")
     /\ UNCHANGED peerEnabled
  \/ /\ ShouldSuppressUp(p, FALSE)
     /\ apply(p, TRUE)

handleStateChange ==
  /\ events # <<>>
  /\ LET sc == Head(events)
     IN  \/ /\ isTransitionToDown(sc) /\ penalty[sc.peer] + Down <= MaxPenalty
            /\ handleDown(sc.peer)
         \/ /\ ~isTransitionToDown(sc) /\ isTransitionToUp(sc)
            /\ handleUp(sc.peer) /\ UNCHANGED churn
         \/ /\ ~isTransitionToDown(sc) /\ ~isTransitionToUp(sc)
            /\ UNCHANGED <<damp, peerEnabled, fate, churn>>
  /\ events' = Tail(events)
  /\ UNCHANGED <<sessions, wanted>>

(* The daemon stops and starts again; GoBGP keeps its peers as they are.   *)
Restart ==
  /\ "restart" \in Faults
  /\ sessions' = [s \in Sessions |-> NoSession]
  /\ events' = <<>>
  /\ penalty' = [p \in Peers |-> 0]
  /\ suppressed' = [p \in Peers |-> FALSE]
  /\ suppressedFor' = [p \in Peers |-> 0]
  /\ fate' = [p \in Peers |-> "none"]
  /\ churn' = [p \in Peers |-> 0]
  /\ UNCHANGED <<peerEnabled, wanted>>

GoBgpNext ==
  \/ \E s \in Sessions : \/ CreateSession(s) \/ DestroyPeerSession(s)
                         \/ \E event \in Events \ {"AdminUp"} : PeerEvent(s, event)
  \/ Tick
  \/ handleStateChange
  \/ Restart

GoBgpSpec == GoBgpInit /\ [][GoBgpNext]_goBgpVars

(* The handler goroutine is scheduled and time passes.                     *)
GoBgpFairSpec == GoBgpSpec /\ WF_goBgpVars(handleStateChange) /\ WF_goBgpVars(Tick)

-----------------------------------------------------------------------------
(* Properties                                                              *)

StateChanges == [peer : Peers, oldState : States, newState : States]

(* Every variable has the shape of the Go value it stands for.             *)
GoBgpTypeOK ==
  /\ sessions \in [Sessions -> States \cup {NoSession}]
  /\ events \in Seq(StateChanges) /\ Len(events) <= QueueSize
  /\ penalty \in [Peers -> 0..MaxPenalty]
  /\ suppressed \in [Peers -> BOOLEAN]
  /\ suppressedFor \in [Peers -> 0..MaxSuppressTime]
  /\ peerEnabled \in [Peers -> BOOLEAN]
  /\ wanted \in [Peers -> BOOLEAN]
  /\ fate \in [Peers -> {"none", "ok", "lost", "suppressed"}]
  /\ churn \in [Peers -> Nat]

Unhandled(p) == \E i \in DOMAIN events : events[i].peer = p /\ events[i].newState \in {"Up", "Down"}

(* The BGP peer is enabled exactly when the last thing its BFD sessions    *)
(* reported was a recovery, provided that report was not dropped, failed   *)
(* or suppressed, and once it is handled: no earlier report, of the same   *)
(* or of another session of the peer, overtakes it (handleStateChange).    *)
PeerFollows ==
  \A p \in Peers : fate[p] = "ok" /\ ~Unhandled(p) => peerEnabled[p] = wanted[p]

(* What dampening is for: within one half-life a peer is disabled at most  *)
(* SuppressThreshold times, however its sessions flap, also across the end *)
(* of a suppression (ShouldSuppress, ShouldSuppressUp).                    *)
ChurnBounded ==
  Enabled => \A p \in Peers : (churn[p] - 1) * Down < SuppressThreshold

(* What the manual says of recovery, "BFD Up --> Enable BGP peer", and of  *)
(* suppression, that it has a "Maximum suppression duration": a session    *)
(* that stays Up, and whose recovery was neither dropped nor refused by    *)
(* GoBGP, has its BGP peer enabled in the end.                             *)
UpRestores ==
  \A s \in Sessions :
    <>[](sessions[s] = "Up" /\ fate[PeerOf[s]] # "lost") => <>[]peerEnabled[PeerOf[s]]
=============================================================================
