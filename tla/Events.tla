------------------------------- MODULE Events -------------------------------
(***************************************************************************)
(* The way of a state change from the session to the programs that watch   *)
(* the daemon: emitNotification (session_packet.go, echo.go), RunDispatch  *)
(* and the subscribers (manager.go, manager_session.go), the RPC           *)
(* WatchSessionEvents (server.go) and its clients, the HAProxy agent and   *)
(* the ExaBGP bridge; and the interface monitor (netio/ifmon_linux.go),    *)
(* which is one cause of state changes.                                    *)
(*                                                                         *)
(* There is one session.  A state change is the state it leads to; what    *)
(* else a StateChange carries is left out.  A stream is the channel of the *)
(* subscription, the handler that empties it, and the connection net.      *)
(***************************************************************************)
EXTENDS Naturals, Sequences

CONSTANTS NotifyChSize,   \* capacity of rawNotifyCh and of a subscription
          EventsSize,     \* capacity of the monitor's channel
          StreamSize,     \* events a connection holds before Send blocks
          MaxChanges,     \* bound on changes of the session and the link
          MaxBreaks       \* bound on connections that break

ASSUME EventsAssumption == /\ NotifyChSize \in Nat \ {0} /\ EventsSize \in Nat \ {0}
                           /\ StreamSize \in Nat \ {0}

VARIABLES sess,          \* state of the session
          changes,       \* changes of the session and the link so far
          rawNotifyCh,
          rawLost,       \* history: the last change did not get into rawNotifyCh
          link,          \* whether the interface of the session is up
          events,        \* channel of the monitor
          eventLost,     \* history: the event of the last change was lost
          cancelled,     \* the context of the daemon
          closed,        \* Manager.Close has run
          atClose,       \* history: the streams that it found
          stream,        \* the stream of each client
          states,        \* stateMap of the agent, for the one peer
          announced,     \* local variable of the bridge
          route,         \* what the bridge told ExaBGP
          agreed,        \* history: announced was right about route
          breaks         \* connections that broke so far

sessVars == <<sess, rawNotifyCh, rawLost>>
linkVars == <<link, events, eventLost>>
mgrVars == <<cancelled, closed, atClose>>
appVars == <<states, announced, route, agreed>>
vars == <<sessVars, linkVars, mgrVars, stream, appVars, changes, breaks>>

Clients == {"agent", "bridge"}
States == {"AdminDown", "Down", "Init", "Up"}
Unknown == "unknown"

(* client: what the program does; phase: where the handler is; chan: the   *)
(* channel; registered: the entry in the map of subscribers; end: what the *)
(* client finds behind the last event, and why Send fails; lost, history:  *)
(* the last change broadcast did not get in.                               *)
NoStream(client) ==
  [client |-> client, phase |-> "none", snap |-> Unknown, chan |-> "none", ch |-> <<>>,
   registered |-> FALSE, net |-> <<>>, end |-> "open", lost |-> FALSE]

Init ==
  /\ sess = "Down" /\ changes = 0 /\ rawNotifyCh = <<>> /\ rawLost = FALSE
  /\ link = "up" /\ events = <<>> /\ eventLost = FALSE
  /\ cancelled = FALSE /\ closed = FALSE /\ atClose = {}
  /\ stream = [c \in Clients |-> NoStream("dial")]
  /\ states = Unknown /\ announced = FALSE /\ route = FALSE /\ agreed = TRUE
  /\ breaks = 0

-----------------------------------------------------------------------------
(* The session                                                             *)

(* A snapshot taken from now on shows the change: after holds the clients  *)
(* whose snapshot does not.                                                *)
emitNotification(state) ==
  LET sc == [state |-> state,
             after |-> {c \in Clients : stream[c].phase \in {"opened", "snapped", "watching"}}]
  IN  /\ sess' = state
      /\ IF Len(rawNotifyCh) < NotifyChSize
         THEN rawNotifyCh' = Append(rawNotifyCh, sc) /\ rawLost' = FALSE
         ELSE rawLost' = TRUE /\ UNCHANGED rawNotifyCh

(* Packets and timers; with the link down no packet arrives.  After Close  *)
(* there is no session.                                                    *)
StateChanges ==
  /\ changes < MaxChanges /\ ~closed
  /\ changes' = changes + 1
  /\ \/ sess = "Down" /\ link = "up" /\ \E s \in {"Init", "Up"} : emitNotification(s)
     \/ sess = "Init" /\ link = "up" /\ emitNotification("Up")
     \/ sess \in {"Init", "Up"} /\ emitNotification("Down")
     \/ cancelled /\ sess # "AdminDown" /\ emitNotification("AdminDown")
  /\ UNCHANGED <<linkVars, mgrVars, stream, appVars, breaks>>

-----------------------------------------------------------------------------
(* The interface monitor                                                   *)

(* Run and handleNetlinkBuffer: one event for each change of the link; it  *)
(* is lost when the channel or the socket's buffer is full.                *)
LinkChanges ==
  /\ changes < MaxChanges /\ ~cancelled
  /\ changes' = changes + 1
  /\ link' = IF link = "up" THEN "down" ELSE "up"
  /\ \/ Len(events) < EventsSize /\ events' = Append(events, link') /\ eventLost' = FALSE
     \/ eventLost' = TRUE /\ UNCHANGED events
  /\ UNCHANGED <<sessVars, mgrVars, stream, appVars, breaks>>

(* Sessions that are not Up are passed over.                               *)
MutHandleInterfaceEvent(up) ==
  IF ~up /\ sess = "Up" /\ ~closed THEN emitNotification("Down") ELSE UNCHANGED sessVars

(* A down event takes the session down, also when the link has come back   *)
(* since.  The way through ctrlCh is in module Session.                    *)
HandleInterfaceEvent(up) ==
  IF ~up /\ sess \in {"Init", "Up"} /\ ~closed
  THEN emitNotification("Down")
  ELSE UNCHANGED sessVars

startInterfaceMonitor ==
  /\ events # <<>>
  /\ events' = Tail(events)
  /\ HandleInterfaceEvent(Head(events) = "up")
  /\ UNCHANGED <<link, eventLost, mgrVars, stream, appVars, changes, breaks>>

-----------------------------------------------------------------------------
(* The manager                                                             *)

(* A stream that has not subscribed yet misses the change; one whose       *)
(* snapshot was taken later does not need it.                              *)
broadcastStateChange(sc) ==
  [c \in Clients |->
     IF ~stream[c].registered
     THEN [stream[c] EXCEPT !.lost = @ \/ c \in sc.after]
     ELSE IF Len(stream[c].ch) < NotifyChSize
     THEN [stream[c] EXCEPT !.ch = Append(@, sc.state), !.lost = FALSE]
     ELSE [stream[c] EXCEPT !.lost = TRUE]]

(* Once the context is cancelled, select may still take a few.             *)
RunDispatch ==
  /\ rawNotifyCh # <<>>
  /\ rawNotifyCh' = Tail(rawNotifyCh)
  /\ stream' = broadcastStateChange(Head(rawNotifyCh))
  /\ UNCHANGED <<sess, rawLost, linkVars, mgrVars, appVars, changes, breaks>>

Cancel ==
  /\ ~cancelled
  /\ cancelled' = TRUE
  /\ UNCHANGED <<sessVars, linkVars, closed, atClose, stream, appVars, changes, breaks>>

(* A second close of a channel panics.                                     *)
closeChan(s) == [s EXCEPT !.chan = IF @ = "open" THEN "closed" ELSE "panic",
                          !.registered = FALSE]

Watching == {c \in Clients : stream[c].registered /\ stream[c].phase = "watching"}

(* The subscribers are forgotten and their channels left open.             *)
MutClose ==
  /\ cancelled /\ ~closed
  /\ closed' = TRUE
  /\ atClose' = Watching
  /\ stream' = [c \in Clients |-> [stream[c] EXCEPT !.registered = FALSE]]
  /\ UNCHANGED <<sessVars, linkVars, cancelled, appVars, changes, breaks>>

Close ==
  /\ cancelled /\ ~closed
  /\ closed' = TRUE
  /\ atClose' = Watching
  /\ stream' = [c \in Clients |-> IF stream[c].registered THEN closeChan(stream[c])
                                  ELSE stream[c]]
  /\ UNCHANGED <<sessVars, linkVars, cancelled, appVars, changes, breaks>>

-----------------------------------------------------------------------------
(* The RPC WatchSessionEvents                                              *)

(* A client asks for the events, with the current sessions first: the      *)
(* handler takes the snapshot.                                             *)
Watch(c) ==
  /\ stream[c].client = "dial" /\ stream[c].phase = "none"
  /\ stream' = [stream EXCEPT ![c] =
       [NoStream("streaming") EXCEPT !.phase = "opened",
                                     !.snap = IF closed THEN Unknown ELSE sess]]
  /\ rawNotifyCh' = [i \in DOMAIN rawNotifyCh |-> [rawNotifyCh[i] EXCEPT !.after = @ \ {c}]]
  /\ IF c = "bridge" THEN announced' = FALSE /\ agreed' = ~route
     ELSE UNCHANGED <<announced, agreed>>
  /\ atClose' = atClose \ {c}
  /\ UNCHANGED <<sess, rawLost, linkVars, cancelled, closed, states, route, changes, breaks>>

handlerVars == <<sessVars, linkVars, mgrVars, appVars, changes, breaks>>

sendCurrent(c) ==
  /\ stream[c].phase = "opened"
  /\ \/ /\ stream[c].end = "open" /\ Len(stream[c].net) < StreamSize
        /\ stream' = [stream EXCEPT ![c].phase = "snapped", ![c].snap = Unknown,
             ![c].net = IF stream[c].snap = Unknown THEN @ ELSE Append(@, stream[c].snap)]
     \/ /\ stream[c].end # "open"
        /\ stream' = [stream EXCEPT ![c].phase = "none", ![c].snap = Unknown, ![c].lost = FALSE]
  /\ UNCHANGED handlerVars

SubscribeStateChanges(c) ==
  /\ stream[c].phase = "snapped"
  /\ stream' = [stream EXCEPT ![c].phase = "watching", ![c].chan = "open",
                              ![c].registered = TRUE]
  /\ UNCHANGED handlerVars

(* One round of the loop; with a broken connection the context is done, or *)
(* Send fails.                                                             *)
forward(c) ==
  /\ stream[c].phase = "watching"
  /\ \/ /\ stream[c].ch # <<>> /\ stream[c].end = "open" /\ Len(stream[c].net) < StreamSize
        /\ stream' = [stream EXCEPT ![c].ch = Tail(@),
                                    ![c].net = Append(@, Head(stream[c].ch))]
     \/ /\ stream[c].ch = <<>> /\ stream[c].chan = "closed" /\ stream[c].end = "open"
        /\ stream' = [stream EXCEPT ![c].phase = "returned", ![c].end = "eof"]
     \/ stream[c].end # "open" /\ stream' = [stream EXCEPT ![c].phase = "returned"]
  /\ UNCHANGED handlerVars

(* The channel is closed whether or not Close was there first.             *)
MutUnsubscribe(c) ==
  /\ stream[c].phase = "returned"
  /\ stream' = [stream EXCEPT ![c] = [closeChan(stream[c]) EXCEPT
                                             !.phase = "none", !.ch = <<>>, !.lost = FALSE]]
  /\ UNCHANGED handlerVars

(* The goroutine of SubscribeStateChanges, when the handler's context ends.*)
unsubscribe(c) ==
  /\ stream[c].phase = "returned"
  /\ stream' = [stream EXCEPT ![c] =
       [IF @.registered THEN closeChan(@) ELSE @ EXCEPT
                                             !.phase = "none", !.ch = <<>>, !.lost = FALSE]]
  /\ UNCHANGED handlerVars

(* The connection breaks and loses what it held.  External.                *)
Break(c) ==
  /\ breaks < MaxBreaks
  /\ stream[c].client = "streaming" /\ stream[c].end = "open"
  /\ breaks' = breaks + 1
  /\ stream' = [stream EXCEPT ![c].end = "error", ![c].net = <<>>]
  /\ UNCHANGED <<sessVars, linkVars, mgrVars, appVars, changes>>

-----------------------------------------------------------------------------
(* The clients                                                             *)

clientVars == <<sessVars, linkVars, mgrVars, changes, breaks>>

(* The error group of the agent: a stream that breaks ends the program;    *)
(* after one that ends, it goes on answering from the map.                 *)
run(end) == IF end = "eof" THEN "answering" ELSE "exited"

(* Init is passed over, as the bridge does.                                *)
MutWatchEvents ==
  /\ stream["agent"].client = "streaming"
  /\ \/ /\ stream["agent"].net # <<>>
        /\ stream' = [stream EXCEPT !["agent"].net = Tail(@)]
        /\ states' = IF Head(stream["agent"].net) = "Init" THEN states
                     ELSE Head(stream["agent"].net)
     \/ /\ stream["agent"].net = <<>> /\ stream["agent"].end # "open"
        /\ stream' = [stream EXCEPT !["agent"].client = run(stream["agent"].end)]
        /\ UNCHANGED states
  /\ UNCHANGED <<clientVars, announced, route, agreed>>

watchEvents ==
  /\ stream["agent"].client = "streaming"
  /\ \/ /\ stream["agent"].net # <<>>
        /\ stream' = [stream EXCEPT !["agent"].net = Tail(@)]
        /\ states' = Head(stream["agent"].net)
     \/ /\ stream["agent"].net = <<>> /\ stream["agent"].end # "open"
        /\ stream' = [stream EXCEPT !["agent"].client = run(stream["agent"].end)]
        /\ UNCHANGED states
  /\ UNCHANGED <<clientVars, announced, route, agreed>>

handleAgentCheck == IF states = "Up" THEN "up ready" ELSE "down"

(* AdminDown is taken for a transient state.                               *)
MutHandleStateChange(state) ==
  IF state = "Up" /\ ~announced
  THEN announced' = TRUE /\ route' = TRUE /\ agreed' = TRUE
  ELSE IF state = "Down" /\ announced
  THEN announced' = FALSE /\ route' = FALSE /\ UNCHANGED agreed
  ELSE UNCHANGED <<announced, route, agreed>>

handleStateChange(state) ==
  IF state = "Up" /\ ~announced
  THEN announced' = TRUE /\ route' = TRUE /\ agreed' = TRUE
  ELSE IF state \in {"Down", "AdminDown"} /\ announced
  THEN announced' = FALSE /\ route' = FALSE /\ UNCHANGED agreed
  ELSE UNCHANGED <<announced, route, agreed>>

streamEvents ==
  /\ stream["bridge"].client = "streaming" /\ stream["bridge"].net # <<>>
  /\ stream' = [stream EXCEPT !["bridge"].net = Tail(@)]
  /\ handleStateChange(Head(stream["bridge"].net))
  /\ UNCHANGED <<clientVars, states>>

(* The bridge: a stream that ends, ends the program; after one that breaks *)
(* it connects again, after a while.                                       *)
watchAndAnnounce ==
  /\ stream["bridge"].client = "streaming"
  /\ stream["bridge"].net = <<>> /\ stream["bridge"].end # "open"
  /\ stream' = [stream EXCEPT !["bridge"].client =
                   IF stream["bridge"].end = "eof" THEN "exited" ELSE "dial"]
  /\ UNCHANGED <<clientVars, appVars>>

-----------------------------------------------------------------------------
Environment == StateChanges \/ LinkChanges \/ Cancel \/ \E c \in Clients : Watch(c) \/ Break(c)

System ==
  \/ startInterfaceMonitor \/ RunDispatch \/ Close
  \/ watchEvents \/ streamEvents \/ watchAndAnnounce
  \/ \E c \in Clients : \/ sendCurrent(c) \/ SubscribeStateChanges(c)
                         \/ forward(c) \/ unsubscribe(c)

Next == System \/ Environment

Spec == Init /\ [][Next]_vars

(* The daemon and the clients keep running.  The bounds make what the      *)
(* environment does finite.                                                *)
FairSpec == Spec /\ WF_vars(System)

-----------------------------------------------------------------------------
(* Properties                                                              *)

(* The capacities hold and every variable has its type.                    *)
TypeOK ==
  /\ sess \in States /\ changes \in 0 .. MaxChanges
  /\ Len(rawNotifyCh) <= NotifyChSize
  /\ \A i \in DOMAIN rawNotifyCh : /\ rawNotifyCh[i].state \in States
                                   /\ rawNotifyCh[i].after \subseteq Clients
  /\ link \in {"up", "down"}
  /\ Len(events) <= EventsSize /\ \A i \in DOMAIN events : events[i] \in {"up", "down"}
  /\ {rawLost, eventLost, cancelled, closed, announced, route, agreed} \subseteq BOOLEAN
  /\ atClose \subseteq Clients /\ breaks \in 0 .. MaxBreaks
  /\ states \in States \union {Unknown}
  /\ \A c \in Clients :
       /\ stream[c].client \in {"dial", "streaming", "answering", "exited"}
       /\ stream[c].phase \in {"none", "opened", "snapped", "watching", "returned"}
       /\ stream[c].snap \in States \union {Unknown}
       /\ Len(stream[c].ch) <= NotifyChSize /\ Len(stream[c].net) <= StreamSize
       /\ stream[c].end \in {"open", "eof", "error"}
       /\ {stream[c].registered, stream[c].lost} \subseteq BOOLEAN

(* What a client has, what is on the way to it, and what still waits for   *)
(* the dispatcher.                                                         *)
Pipeline(c) ==
  stream[c].net \o stream[c].ch \o [i \in DOMAIN rawNotifyCh |-> rawNotifyCh[i].state]

Following(c) ==
  /\ stream[c].client = "streaming" /\ stream[c].phase = "watching"
  /\ stream[c].end = "open" /\ ~stream[c].lost /\ ~rawLost /\ ~closed

(* The agent's map follows the session through the snapshot, the           *)
(* subscription and three queues: the last of all that is under way, or    *)
(* what the map already holds, is the state of the session.  The only      *)
(* exceptions are a last change that found the agent's own queue or        *)
(* rawNotifyCh full, and one that fell between the snapshot and the        *)
(* subscription of WatchSessionEvents; a slow client harms only itself.    *)
ViewFollows ==
  Following("agent") =>
    LET all == <<states>> \o Pipeline("agent") IN all[Len(all)] = sess

(* When the queues are empty, what the agent answers HAProxy and the route *)
(* the bridge gave ExaBGP agree with the session, under the same           *)
(* exceptions; for the bridge also a stream that began, after a break,     *)
(* with the route still announced, until the session next comes Up.        *)
RouteFollows ==
  /\ Following("agent") /\ Pipeline("agent") = <<>>
       => (handleAgentCheck = "up ready" <=> sess = "Up")
  /\ Following("bridge") /\ Pipeline("bridge") = <<>> /\ agreed /\ sess # "Init"
       => (route <=> sess = "Up")

(* Close, the goroutine of each subscription and the broadcast never close *)
(* a channel twice nor send on a closed one.                               *)
NoPanic ==
  \A c \in Clients : /\ stream[c].chan # "panic"
                     /\ stream[c].registered => stream[c].chan = "open"

(* Once its events are handled, a link that is down has no session in Init *)
(* or Up, unless the event that says so was dropped at the monitor's full  *)
(* channel or socket buffer.                                               *)
PathDownApplied ==
  link = "down" /\ events = <<>> /\ ~eventLost /\ ~closed => sess \in {"Down", "AdminDown"}

(* Close ends every stream that it finds, so that Shutdown need not wait   *)
(* for the clients.                                                        *)
CloseEndsStreams ==
  \A c \in Clients : (c \in atClose /\ stream[c].phase = "watching")
                       ~> (stream[c].phase # "watching")

=============================================================================
