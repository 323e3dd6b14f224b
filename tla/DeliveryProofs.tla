--------------------------- MODULE DeliveryProofs ---------------------------
(***************************************************************************)
(* Proofs about what reaches its receiver.                                 *)
(*                                                                         *)
(* Events, for all capacities and bounds: the channels of the              *)
(* subscriptions are closed once and never used afterwards, however the    *)
(* end of a stream, Close and the broadcast meet; a link that goes down    *)
(* takes its session down; the clients follow the session through all of   *)
(* their queues.                                                           *)
(*                                                                         *)
(* Auth, for every modulus, multiplier, set of intervals, type and travel  *)
(* time: nothing is accepted out of order, nothing fresh is refused, and a *)
(* receiver does not stay deaf to a sender that has restarted.             *)
(***************************************************************************)
EXTENDS Events, Auth, SequenceTheorems, TLAPS

(* The channel and the entry in the map of subscribers, given where the    *)
(* handler is: only a stream that has subscribed has either.               *)
ChanOK(s) ==
  /\ s.chan \in {"none", "open", "closed"}
  /\ s.registered \in BOOLEAN
  /\ s.registered => s.chan = "open" /\ s.phase \in {"watching", "returned"}
  /\ s.chan = "open" => s.registered

(* What the handlers of the streams need of a stream's record.             *)
StreamShape ==
  [client : {"dial", "streaming", "answering", "exited"},
   phase : {"none", "opened", "snapped", "watching", "returned"},
   snap : States \cup {Unknown}, chan : {"none", "open", "closed", "panic"},
   ch : Seq(States), registered : BOOLEAN, net : Seq(States),
   end : {"open", "eof", "error"}, lost : BOOLEAN]

ChangeShape == [state : States, after : SUBSET Clients]

StreamInv ==
  /\ sess \in States
  /\ rawNotifyCh \in Seq(ChangeShape)
  /\ stream \in [Clients -> StreamShape]
  /\ \A c \in Clients : ChanOK(stream[c])

(* No channel of a subscription is closed twice or sent to after it was    *)
(* closed (SubscribeStateChanges, broadcastStateChange, Manager.Close).    *)
LEMMA NoPanicFollows == StreamInv => NoPanic
BY DEF StreamInv, ChanOK, NoPanic

(* The daemon starts without streams.                                      *)
LEMMA StreamInit == Init => StreamInv
<1> SUFFICES ASSUME Init PROVE StreamInv OBVIOUS
<1>1. <<>> \in Seq(States) /\ <<>> \in Seq(ChangeShape) OBVIOUS
<1>2. NoStream("dial") \in StreamShape /\ ChanOK(NoStream("dial"))
  BY <1>1 DEF NoStream, StreamShape, ChanOK, Unknown
<1> QED BY <1>1, <1>2 DEF Init, StreamInv, States

(* A change of the session touches no stream (emitNotification).           *)
LEMMA EmitShape ==
  ASSUME StreamInv, NEW s \in States, emitNotification(s)
  PROVE  sess' \in States /\ rawNotifyCh' \in Seq(ChangeShape)
<1> DEFINE sc == [state |-> s,
                  after |-> {c \in Clients : stream[c].phase \in {"opened", "snapped", "watching"}}]
<1>1. sc \in ChangeShape BY DEF ChangeShape
<1>2. sess' = s /\ (rawNotifyCh' = Append(rawNotifyCh, sc) \/ rawNotifyCh' = rawNotifyCh)
  BY DEF emitNotification
<1> HIDE DEF sc
<1> QED BY <1>1, <1>2, AppendProperties DEF StreamInv

(* A step that replaces the record of one stream by a sound one.           *)
LEMMA OneStream ==
  ASSUME StreamInv, NEW c \in Clients, NEW s \in StreamShape, ChanOK(s),
         stream' = [stream EXCEPT ![c] = s], UNCHANGED sess, rawNotifyCh' \in Seq(ChangeShape)
  PROVE  StreamInv'
<1>1. \A d \in Clients : stream'[d] = IF d = c THEN s ELSE stream[d] BY DEF StreamInv
<1> QED BY <1>1 DEF StreamInv

(* broadcastStateChange and Close, stream by stream.                       *)
LEMMA BroadcastShape ==
  ASSUME NEW s \in StreamShape, ChanOK(s), NEW state \in States, NEW l \in BOOLEAN
  PROVE  /\ [s EXCEPT !.lost = l] \in StreamShape /\ ChanOK([s EXCEPT !.lost = l])
         /\ [s EXCEPT !.ch = Append(@, state), !.lost = FALSE] \in StreamShape
         /\ ChanOK([s EXCEPT !.ch = Append(@, state), !.lost = FALSE])
         /\ s.registered => closeChan(s) \in StreamShape /\ ChanOK(closeChan(s))
<1>1. Append(s.ch, state) \in Seq(States) BY AppendProperties DEF StreamShape
<1> QED BY <1>1 DEF StreamShape, ChanOK, closeChan

(* What the handler does to the record of its stream: sendCurrent,         *)
(* forward and the goroutine of the subscription.                          *)
LEMMA HandlerShape ==
  ASSUME NEW s \in StreamShape, ChanOK(s), NEW r,
         \/ /\ s.phase = "opened"
            /\ \/ r = [s EXCEPT !.phase = "snapped", !.snap = Unknown]
               \/ /\ s.snap # Unknown
                  /\ r = [s EXCEPT !.phase = "snapped", !.snap = Unknown,
                                   !.net = Append(s.net, s.snap)]
               \/ r = [s EXCEPT !.phase = "none", !.snap = Unknown, !.lost = FALSE]
         \/ /\ s.phase = "watching"
            /\ \/ s.ch # <<>> /\ r = [s EXCEPT !.ch = Tail(s.ch), !.net = Append(s.net, Head(s.ch))]
               \/ r = [s EXCEPT !.phase = "returned", !.end = "eof"]
               \/ r = [s EXCEPT !.phase = "returned"]
         \/ /\ s.registered
            /\ r = [closeChan(s) EXCEPT !.phase = "none", !.ch = <<>>, !.lost = FALSE]
         \/ ~s.registered /\ r = [s EXCEPT !.phase = "none", !.ch = <<>>, !.lost = FALSE]
  PROVE  r \in StreamShape /\ ChanOK(r)
<1>1. <<>> \in Seq(States) OBVIOUS
<1>2. s.net \in Seq(States) /\ s.ch \in Seq(States) BY DEF StreamShape
<1>3. CASE s.phase = "opened" /\ r = [s EXCEPT !.phase = "snapped", !.snap = Unknown]
  BY <1>3 DEF StreamShape, ChanOK
<1>4. CASE /\ s.phase = "opened" /\ s.snap # Unknown
           /\ r = [s EXCEPT !.phase = "snapped", !.snap = Unknown, !.net = Append(s.net, s.snap)]
  <2>1. Append(s.net, s.snap) \in Seq(States) BY <1>2, <1>4, AppendProperties DEF StreamShape
  <2> QED BY <1>4, <2>1 DEF StreamShape, ChanOK
<1>5. CASE s.phase = "opened" /\ r = [s EXCEPT !.phase = "none", !.snap = Unknown, !.lost = FALSE]
  BY <1>5 DEF StreamShape, ChanOK
<1>6. CASE /\ s.phase = "watching" /\ s.ch # <<>>
           /\ r = [s EXCEPT !.ch = Tail(s.ch), !.net = Append(s.net, Head(s.ch))]
  <2>1. Tail(s.ch) \in Seq(States) /\ Append(s.net, Head(s.ch)) \in Seq(States)
    BY <1>2, <1>6, AppendProperties, HeadTailProperties
  <2> QED BY <1>6, <2>1 DEF StreamShape, ChanOK
<1>7. CASE s.phase = "watching" /\ r = [s EXCEPT !.phase = "returned", !.end = "eof"]
  BY <1>7 DEF StreamShape, ChanOK
<1>8. CASE s.phase = "watching" /\ r = [s EXCEPT !.phase = "returned"]
  BY <1>8 DEF StreamShape, ChanOK
<1>9. CASE s.registered /\ r = [closeChan(s) EXCEPT !.phase = "none", !.ch = <<>>, !.lost = FALSE]
  BY <1>1, <1>9 DEF StreamShape, ChanOK, closeChan
<1>10. CASE ~s.registered /\ r = [s EXCEPT !.phase = "none", !.ch = <<>>, !.lost = FALSE]
  BY <1>1, <1>10 DEF StreamShape, ChanOK
<1> QED BY <1>3, <1>4, <1>5, <1>6, <1>7, <1>8, <1>9, <1>10

(* What the programs that watch do to it: watchEvents, streamEvents and    *)
(* watchAndAnnounce.                                                       *)
LEMMA ClientShape ==
  ASSUME NEW s \in StreamShape, ChanOK(s), NEW r,
         \/ s.net # <<>> /\ r = [s EXCEPT !.net = Tail(s.net)]
         \/ \E x \in {"dial", "answering", "exited"} : r = [s EXCEPT !.client = x]
  PROVE  r \in StreamShape /\ ChanOK(r)
<1>1. CASE s.net # <<>> /\ r = [s EXCEPT !.net = Tail(s.net)]
  <2>1. s.net \in Seq(States) BY DEF StreamShape
  <2>2. Tail(s.net) \in Seq(States) BY <1>1, <2>1, HeadTailProperties
  <2> QED BY <1>1, <2>2 DEF StreamShape, ChanOK
<1>2. CASE \E x \in {"dial", "answering", "exited"} : r = [s EXCEPT !.client = x]
  BY <1>2 DEF StreamShape, ChanOK
<1> QED BY <1>1, <1>2

(* A new stream, and what its snapshot does to the changes under way       *)
(* (WatchSessionEvents).                                                   *)
LEMMA WatchShape ==
  ASSUME NEW x \in States \cup {Unknown}, NEW c, NEW q \in ChangeShape
  PROVE  LET s == [NoStream("streaming") EXCEPT !.phase = "opened", !.snap = x]
         IN  /\ s \in StreamShape /\ ChanOK(s)
             /\ [q EXCEPT !.after = @ \ {c}] \in ChangeShape
<1> DEFINE s == [NoStream("streaming") EXCEPT !.phase = "opened", !.snap = x]
<1>1. <<>> \in Seq(States) OBVIOUS
<1>2. NoStream("streaming") \in StreamShape /\ NoStream("streaming").chan = "none"
      /\ NoStream("streaming").registered = FALSE
  BY <1>1 DEF NoStream, StreamShape, Unknown
<1>3. [q EXCEPT !.after = @ \ {c}] \in ChangeShape BY DEF ChangeShape
<1>4. s \in StreamShape /\ ChanOK(s) BY <1>2 DEF StreamShape, ChanOK
<1> QED BY <1>3, <1>4

(* Every step keeps the streams sound.                                     *)
LEMMA StreamStep == StreamInv /\ [Next]_vars => StreamInv'
<1> SUFFICES ASSUME StreamInv, [Next]_vars PROVE StreamInv' OBVIOUS
<1> USE DEF StreamInv
<1>0. \A c \in Clients : stream[c] \in StreamShape /\ ChanOK(stream[c]) OBVIOUS
<1>s. "Init" \in States /\ "Up" \in States /\ "Down" \in States /\ "AdminDown" \in States
  BY DEF States
<1>1. CASE UNCHANGED vars BY <1>1 DEF vars, sessVars
<1>2. CASE StateChanges
  <2>1. PICK s \in States : emitNotification(s) BY <1>2, <1>s DEF StateChanges
  <2> QED BY <1>2, <2>1, EmitShape DEF StateChanges
<1>3. CASE LinkChanges \/ Cancel
  BY <1>3 DEF LinkChanges, Cancel, sessVars
<1>4. CASE startInterfaceMonitor
  <2>1. CASE UNCHANGED sessVars BY <1>4, <2>1 DEF startInterfaceMonitor, sessVars
  <2>2. CASE emitNotification("Down")
    BY <1>4, <2>2, <1>s, EmitShape DEF startInterfaceMonitor
  <2> QED BY <1>4, <2>1, <2>2 DEF startInterfaceMonitor, HandleInterfaceEvent
<1>5. CASE RunDispatch
  <2> DEFINE sc == Head(rawNotifyCh)
  <2>1. sc \in ChangeShape /\ rawNotifyCh' \in Seq(ChangeShape) /\ UNCHANGED sess
    BY <1>5, HeadTailProperties DEF RunDispatch
  <2>2. sc.state \in States BY <2>1 DEF ChangeShape
  <2>3. stream' = broadcastStateChange(sc) BY <1>5 DEF RunDispatch
  <2> HIDE DEF sc
  <2>4. ASSUME NEW c \in Clients PROVE stream'[c] \in StreamShape /\ ChanOK(stream'[c])
    <3>1. (stream[c].lost \/ c \in sc.after) \in BOOLEAN OBVIOUS
    <3>2. \/ stream'[c] = [stream[c] EXCEPT !.lost = stream[c].lost \/ c \in sc.after]
          \/ stream'[c] = [stream[c] EXCEPT !.ch = Append(@, sc.state), !.lost = FALSE]
          \/ stream'[c] = [stream[c] EXCEPT !.lost = TRUE]
      BY <2>3 DEF broadcastStateChange
    <3>3. stream[c] \in StreamShape /\ ChanOK(stream[c]) BY <1>0
    <3>4. CASE stream'[c] = [stream[c] EXCEPT !.lost = stream[c].lost \/ c \in sc.after]
      BY <2>2, <3>1, <3>3, <3>4, BroadcastShape
    <3>5. CASE stream'[c] = [stream[c] EXCEPT !.ch = Append(@, sc.state), !.lost = FALSE]
      BY <2>2, <3>3, <3>5, BroadcastShape
    <3>6. CASE stream'[c] = [stream[c] EXCEPT !.lost = TRUE]
      BY <2>2, <3>3, <3>6, BroadcastShape
    <3> QED BY <3>2, <3>4, <3>5, <3>6
  <2>5. stream' = [c \in Clients |-> stream'[c]] BY <2>3 DEF broadcastStateChange
  <2> QED BY <2>1, <2>4, <2>5
<1>6. CASE Close
  <2>1. stream' = [c \in Clients |-> IF stream[c].registered THEN closeChan(stream[c])
                                     ELSE stream[c]]
        /\ UNCHANGED <<sess, rawNotifyCh>>
    BY <1>6 DEF Close, sessVars
  <2>2. \A c \in Clients : stream'[c] \in StreamShape /\ ChanOK(stream'[c])
    BY <1>0, <1>s, <2>1, BroadcastShape
  <2> QED BY <2>1, <2>2
<1>7. ASSUME NEW c \in Clients, Watch(c) PROVE StreamInv'
  <2> DEFINE s == [NoStream("streaming") EXCEPT !.phase = "opened",
                                     !.snap = IF closed THEN Unknown ELSE sess]
  <2>0. (IF closed THEN Unknown ELSE sess) \in States \cup {Unknown} OBVIOUS
  <2>1. s \in StreamShape /\ ChanOK(s)
    <3>1. [state |-> "Up", after |-> {}] \in ChangeShape BY <1>s DEF ChangeShape
    <3> QED BY <2>0, <3>1, WatchShape
  <2>2. rawNotifyCh' \in Seq(ChangeShape)
    <3>1. rawNotifyCh' = [i \in 1 .. Len(rawNotifyCh) |->
                            [rawNotifyCh[i] EXCEPT !.after = @ \ {c}]]
      BY <1>7 DEF Watch
    <3>2. \A i \in 1 .. Len(rawNotifyCh) : rawNotifyCh[i] \in ChangeShape
      BY ElementOfSeq
    <3>3. \A i \in 1 .. Len(rawNotifyCh) :
            [rawNotifyCh[i] EXCEPT !.after = @ \ {c}] \in ChangeShape
      BY <2>0, <3>2, WatchShape
    <3> QED BY <3>1, <3>3, IsASeq, LenProperties
  <2> QED BY <1>7, <2>1, <2>2, OneStream DEF Watch
<1>8. ASSUME NEW c \in Clients, \/ sendCurrent(c) \/ SubscribeStateChanges(c)
                                 \/ forward(c) \/ unsubscribe(c) \/ Break(c)
      PROVE  StreamInv'
  <2> DEFINE s == stream'[c]
  <2>1. stream' = [stream EXCEPT ![c] = s]
    BY <1>8 DEF sendCurrent, SubscribeStateChanges, forward, unsubscribe, Break
  <2>3. s \in StreamShape /\ ChanOK(s)
    <3>1. stream[c] \in StreamShape /\ ChanOK(stream[c]) BY <1>0
    <3>4. CASE sendCurrent(c)
      <4>1. \/ s = [stream[c] EXCEPT !.phase = "snapped", !.snap = Unknown]
            \/ stream[c].snap # Unknown
               /\ s = [stream[c] EXCEPT !.phase = "snapped", !.snap = Unknown,
                                        !.net = Append(stream[c].net, stream[c].snap)]
            \/ s = [stream[c] EXCEPT !.phase = "none", !.snap = Unknown, !.lost = FALSE]
        <5>1. CASE stream[c].end # "open" BY <5>1, <3>4 DEF sendCurrent
        <5>2. CASE stream[c].end = "open" /\ stream[c].snap # Unknown
          BY <5>2, <3>4 DEF sendCurrent
        <5>3. CASE stream[c].end = "open" /\ stream[c].snap = Unknown
          <6> DEFINE r == stream[c]
          <6>1. s = [r EXCEPT !.phase = "snapped", !.snap = Unknown, !.net = r.net]
            BY <5>3, <3>4 DEF sendCurrent
          <6>2. r \in StreamShape BY <3>1
          <6> HIDE DEF r, s
          <6>3. [r EXCEPT !.phase = "snapped", !.snap = Unknown, !.net = r.net]
                  = [r EXCEPT !.phase = "snapped", !.snap = Unknown]
            BY <6>2 DEF StreamShape
          <6> QED BY <6>1, <6>3 DEF r
        <5> QED BY <5>1, <5>2, <5>3
      <4>2. stream[c].phase = "opened" BY <3>4 DEF sendCurrent
      <4> HIDE DEF s
      <4> QED BY <4>1, <4>2, <3>1, HandlerShape
    <3>5. CASE SubscribeStateChanges(c)
      <4>1. s = [stream[c] EXCEPT !.phase = "watching", !.chan = "open", !.registered = TRUE]
        BY <3>5 DEF SubscribeStateChanges
      <4> QED BY <4>1, <3>1 DEF StreamShape, ChanOK
    <3>6. CASE forward(c)
      <4>1. \/ stream[c].ch # <<>>
               /\ s = [stream[c] EXCEPT !.ch = Tail(stream[c].ch),
                                        !.net = Append(stream[c].net, Head(stream[c].ch))]
            \/ s = [stream[c] EXCEPT !.phase = "returned", !.end = "eof"]
            \/ s = [stream[c] EXCEPT !.phase = "returned"]
        BY <3>6 DEF forward
      <4>2. stream[c].phase = "watching" BY <3>6 DEF forward
      <4> HIDE DEF s
      <4> QED BY <4>1, <4>2, <3>1, HandlerShape
    <3>7. CASE unsubscribe(c)
      <4>1. \/ stream[c].registered
               /\ s = [closeChan(stream[c]) EXCEPT !.phase = "none", !.ch = <<>>, !.lost = FALSE]
            \/ ~stream[c].registered
               /\ s = [stream[c] EXCEPT !.phase = "none", !.ch = <<>>, !.lost = FALSE]
        BY <3>7 DEF unsubscribe
      <4> HIDE DEF s
      <4> QED BY <4>1, <3>1, HandlerShape
    <3>8. CASE Break(c)
      <4>1. s = [stream[c] EXCEPT !.end = "error", !.net = <<>>] BY <3>8 DEF Break
      <4>2. <<>> \in Seq(States) OBVIOUS
      <4> HIDE DEF s
      <4> QED BY <4>1, <4>2, <3>1 DEF StreamShape, ChanOK
    <3> QED BY <1>8, <3>4, <3>5, <3>6, <3>7, <3>8
  <2>2. UNCHANGED <<sess, rawNotifyCh>>
    BY <1>8 DEF sendCurrent, SubscribeStateChanges, forward, unsubscribe, Break, handlerVars, sessVars
  <2> HIDE DEF s
  <2> QED BY <2>1, <2>2, <2>3, OneStream
<1>9. CASE watchEvents \/ streamEvents \/ watchAndAnnounce
  <2>1. "agent" \in Clients /\ "bridge" \in Clients BY DEF Clients
  <2>2. UNCHANGED <<sess, rawNotifyCh>>
    BY <1>9 DEF watchEvents, streamEvents, watchAndAnnounce, clientVars, sessVars
  <2>3. ASSUME NEW c \in Clients,
               \/ stream[c].net # <<>> /\ stream' = [stream EXCEPT ![c].net = Tail(@)]
               \/ \E x \in {"dial", "answering", "exited"} :
                    stream' = [stream EXCEPT ![c].client = x]
        PROVE  StreamInv'
    <3> DEFINE s == stream'[c]
    <3>2. stream' = [stream EXCEPT ![c] = s] BY <2>3
    <3>3. \/ stream[c].net # <<>> /\ s = [stream[c] EXCEPT !.net = Tail(stream[c].net)]
          \/ \E x \in {"dial", "answering", "exited"} : s = [stream[c] EXCEPT !.client = x]
      BY <2>3
    <3> HIDE DEF s
    <3>4. s \in StreamShape /\ ChanOK(s)
      BY <3>3, <1>0, ClientShape
    <3> QED BY <3>2, <3>4, <2>2, OneStream
  <2> QED BY <1>9, <2>1, <2>3 DEF watchEvents, streamEvents, watchAndAnnounce, run
<1> QED BY <1>1, <1>2, <1>3, <1>4, <1>5, <1>6, <1>7, <1>8, <1>9 DEF Next, System, Environment

(* However the end of a stream, Close and the broadcast interleave, no     *)
(* channel of a subscription is closed twice or used after it was closed   *)
(* (SubscribeStateChanges, broadcastStateChange, Manager.Close), for all   *)
(* capacities and any number of changes, streams and breaks.               *)
THEOREM ChannelsSound == Spec => []NoPanic
<1>1. Spec => []StreamInv BY StreamInit, StreamStep, PTL DEF Spec
<1> QED BY <1>1, NoPanicFollows, PTL

-----------------------------------------------------------------------------
(* The last element of a queue                                             *)

Last(q) == q[Len(q)]

(* A channel that takes one more value ends with it.                       *)
LEMMA LastOfAppend ==
  ASSUME NEW S, NEW q \in Seq(S), NEW x \in S
  PROVE  Append(q, x) # <<>> /\ Last(Append(q, x)) = x
BY DEF Last

(* A channel that gives one up keeps its last value, unless that was it.   *)
LEMMA LastOfTail ==
  ASSUME NEW S, NEW q \in Seq(S), q # <<>>
  PROVE  /\ Tail(q) # <<>> => Last(Tail(q)) = Last(q)
         /\ Tail(q) = <<>> => Last(q) = Head(q)
<1>1. Len(q) \in Nat /\ Len(q) >= 1 /\ Len(Tail(q)) = Len(q) - 1
  BY EmptySeq, LenProperties, HeadTailProperties
<1>2. Tail(q) \in Seq(S) /\ \A i \in 1 .. Len(Tail(q)) : Tail(q)[i] = q[i + 1]
  BY HeadTailProperties
<1>3. Tail(q) # <<>> => Len(Tail(q)) >= 1 BY <1>1, <1>2, EmptySeq
<1>4. Tail(q) = <<>> => Len(q) = 1
  <2>1. Len(<<>>) = 0 OBVIOUS
  <2>2. Tail(q) = <<>> => Len(Tail(q)) = 0 BY <2>1, Zenon
  <2> QED BY <1>1, <2>2
<1>5. Head(q) = q[1] OBVIOUS
<1> QED BY <1>1, <1>2, <1>3, <1>4, <1>5 DEF Last

-----------------------------------------------------------------------------
(* The interface monitor                                                   *)

LinkInv ==
  /\ sess \in States
  /\ link \in {"up", "down"} /\ events \in Seq({"up", "down"})
  /\ ~eventLost /\ events # <<>> => Last(events) = link
  /\ PathDownApplied

(* The interface is up at first and the session Down.                      *)
LEMMA LinkInit == Init => LinkInv
<1>1. <<>> \in Seq({"up", "down"}) OBVIOUS
<1> QED BY <1>1 DEF Init, LinkInv, PathDownApplied, States

(* The last event in the channel tells the link's state, unless it was     *)
(* lost, so the last one handled does (LinkChanges, HandleInterfaceEvent). *)
LEMMA LinkStep == LinkInv /\ [Next]_vars => LinkInv'
<1> SUFFICES ASSUME LinkInv, [Next]_vars PROVE LinkInv' OBVIOUS
<1> USE DEF LinkInv
<1>1. ASSUME UNCHANGED <<sess, linkVars>>, closed => closed' PROVE LinkInv'
  BY <1>1 DEF linkVars, PathDownApplied
<1>2. CASE StateChanges
  <2>1. UNCHANGED <<link, events, eventLost, closed>>
    BY <1>2 DEF StateChanges, linkVars, mgrVars
  <2>2. sess' \in States BY <1>2 DEF StateChanges, emitNotification, States
  <2>3. sess' \in {"Down", "AdminDown"} \/ link = "up"
    BY <1>2 DEF StateChanges, emitNotification
  <2> QED BY <2>1, <2>2, <2>3 DEF PathDownApplied
<1>3. CASE LinkChanges
  <2>1. link' \in {"up", "down"} /\ UNCHANGED sess BY <1>3 DEF LinkChanges, sessVars
  <2>2. CASE events' = Append(events, link') /\ eventLost' = FALSE
    BY <2>1, <2>2, LastOfAppend, AppendProperties DEF PathDownApplied
  <2>3. CASE eventLost' = TRUE /\ UNCHANGED events
    BY <2>1, <2>3 DEF PathDownApplied
  <2> QED BY <1>3, <2>2, <2>3 DEF LinkChanges
<1>4. CASE startInterfaceMonitor
  <2>1. /\ events # <<>> /\ events' = Tail(events) /\ UNCHANGED <<link, eventLost, closed>>
        /\ HandleInterfaceEvent(Head(events) = "up")
    BY <1>4 DEF startInterfaceMonitor, mgrVars
  <2>2. events' \in Seq({"up", "down"}) /\ Head(events) \in {"up", "down"}
    BY <2>1, HeadTailProperties
  <2>3. ~eventLost' /\ events' # <<>> => Last(events') = link'
    BY <2>1, LastOfTail
  <2>4. ~eventLost /\ events' = <<>> => Head(events) = link
    BY <2>1, LastOfTail
  <2>5. /\ sess' \in States
        /\ Head(events) = "down" /\ ~closed => sess' \in {"Down", "AdminDown"}
    BY <2>1, <2>2 DEF HandleInterfaceEvent, emitNotification, sessVars, States
  <2> QED BY <2>1, <2>2, <2>3, <2>4, <2>5 DEF PathDownApplied
<1>5. CASE UNCHANGED vars BY <1>1, <1>5 DEF vars, sessVars, mgrVars
<1>6. CASE RunDispatch \/ Cancel \/ Close \/ watchEvents \/ streamEvents \/ watchAndAnnounce
  BY <1>1, <1>6 DEF RunDispatch, Cancel, Close, watchEvents, streamEvents, watchAndAnnounce,
                    sessVars, mgrVars, clientVars
<1>7. ASSUME NEW c \in Clients,
             \/ Watch(c) \/ Break(c) \/ sendCurrent(c) \/ SubscribeStateChanges(c)
             \/ forward(c) \/ unsubscribe(c)
      PROVE  LinkInv'
  BY <1>1, <1>7 DEF Watch, Break, sendCurrent, SubscribeStateChanges, forward, unsubscribe,
                    sessVars, mgrVars, handlerVars
<1> QED BY <1>2, <1>3, <1>4, <1>5, <1>6, <1>7 DEF Next, System, Environment

(* A link that is down leaves no session Init or Up once its events are    *)
(* handled, unless one was lost (HandleInterfaceEvent), however many       *)
(* changes the channel holds and whatever the session did meanwhile.       *)
THEOREM PathDownReachesSession == Spec => []PathDownApplied
<1>1. LinkInv => PathDownApplied BY DEF LinkInv
<1> QED BY <1>1, LinkInit, LinkStep, PTL DEF Spec

-----------------------------------------------------------------------------
(* What the clients know                                                   *)

(* What the client has done already agrees with the session: the agent's   *)
(* map, the bridge's route.                                                *)
Done(c) ==
  IF c = "agent" THEN states = sess
  ELSE agreed /\ sess # "Init" => (route <=> sess = "Up")

(* The last event on its way to the client, else what the client has done, *)
(* shows the state of the session.                                         *)
Shown(c) ==
  IF stream[c].ch # <<>> THEN Last(stream[c].ch) = sess
  ELSE IF stream[c].net # <<>> THEN Last(stream[c].net) = sess
  ELSE Done(c)

(* No change waits for the dispatcher that the snapshot does not show.     *)
Quiet(c) == \A i \in DOMAIN rawNotifyCh : c \notin rawNotifyCh[i].after

Live(c) ==
  /\ stream[c].client = "streaming" /\ stream[c].end = "open" /\ ~stream[c].lost
  /\ ~rawLost /\ ~closed

Follows(c) ==
  /\ stream[c].phase \in {"opened", "snapped"} => ~stream[c].registered /\ stream[c].ch = <<>>
  /\ stream[c].phase = "watching" /\ ~closed => stream[c].registered
  /\ Live(c) /\ stream[c].phase = "opened" /\ Quiet(c) => stream[c].snap = sess
  /\ Live(c) /\ stream[c].phase = "snapped" /\ Quiet(c) => Shown(c)
  /\ Live(c) /\ stream[c].phase = "watching" /\ rawNotifyCh = <<>> => Shown(c)

(* The last change that waits is the session's state, unless it was lost.  *)
RawInv == ~rawLost /\ rawNotifyCh # <<>> => Last(rawNotifyCh).state = sess

(* The bridge's variable can be wrong about the route only as agreed says. *)
BridgeInv ==
  /\ announced \in BOOLEAN /\ route \in BOOLEAN /\ agreed \in BOOLEAN
  /\ announced => route
  /\ agreed => announced = route

FollowInv == RawInv /\ BridgeInv /\ \A c \in Clients : Follows(c)

(* At first there is nothing to know.                                      *)
LEMMA FollowInit == Init => FollowInv
<1>1. NoStream("dial").phase = "none" BY DEF NoStream
<1>2. Init => \A c \in Clients : stream[c].phase = "none" BY <1>1 DEF Init
<1> QED BY <1>2 DEF Init, FollowInv, RawInv, BridgeInv, Follows

(* A change enters the queue behind every earlier one, and is marked as    *)
(* unseen by every snapshot taken so far (emitNotification).               *)
LEMMA FollowEmit ==
  ASSUME StreamInv, FollowInv, NEW s \in States, emitNotification(s),
         UNCHANGED <<stream, appVars, closed>>
  PROVE  FollowInv'
<1> DEFINE sc == [state |-> s,
                  after |-> {c \in Clients : stream[c].phase \in {"opened", "snapped", "watching"}}]
<1>1. BridgeInv' BY DEF FollowInv, BridgeInv, appVars
<1>2. CASE rawNotifyCh' = Append(rawNotifyCh, sc) /\ rawLost' = FALSE /\ sess' = s
  <2>1. sc \in ChangeShape /\ rawNotifyCh \in Seq(ChangeShape) BY DEF ChangeShape, StreamInv
  <2>2. sc.state = s
        /\ \A c \in Clients : stream[c].phase \in {"opened", "snapped"} => c \in sc.after
    OBVIOUS
  <2> HIDE DEF sc
  <2>3. rawNotifyCh' # <<>> /\ Last(rawNotifyCh') = sc BY <1>2, <2>1, LastOfAppend
  <2>4. Len(rawNotifyCh') \in DOMAIN rawNotifyCh' BY <1>2, <2>1, AppendProperties
  <2>5. RawInv' BY <1>2, <2>2, <2>3 DEF RawInv
  <2>6. ASSUME NEW c \in Clients PROVE Follows(c)'
    <3>1. stream[c].phase \in {"opened", "snapped"} => ~Quiet(c)'
      BY <2>2, <2>3, <2>4 DEF Quiet, Last
    <3> QED BY <2>3, <3>1 DEF FollowInv, Follows
  <2> QED BY <1>1, <2>5, <2>6 DEF FollowInv
<1>3. CASE rawLost' = TRUE
  BY <1>1, <1>3 DEF FollowInv, Follows, RawInv, Live
<1> QED BY <1>2, <1>3 DEF emitNotification

(* A step that leaves alone what the clients follow.                       *)
LEMMA FollowFrame ==
  ASSUME FollowInv, UNCHANGED <<sessVars, stream, appVars, closed>>
  PROVE  FollowInv'
BY DEF FollowInv, RawInv, BridgeInv, Follows, Live, Quiet, Shown, Done, sessVars, appVars

(* A step of one stream and its client leaves the other one alone.         *)
LEMMA OthersFollow ==
  ASSUME FollowInv, NEW d \in Clients, stream'[d] = stream[d], Done(d) => Done(d)',
         UNCHANGED <<sess, rawLost, closed>>, Quiet(d)' => Quiet(d),
         rawNotifyCh' = <<>> => rawNotifyCh = <<>>
  PROVE  Follows(d)'
BY DEF FollowInv, Follows, Live, Shown

(* The dispatcher hands the first change to every subscriber, or the       *)
(* subscriber counts as having missed it (broadcastStateChange).           *)
LEMMA FollowDispatch ==
  ASSUME StreamInv, FollowInv, RunDispatch
  PROVE  FollowInv'
<1> DEFINE sc == Head(rawNotifyCh)
<1>1. /\ rawNotifyCh # <<>> /\ rawNotifyCh' = Tail(rawNotifyCh)
      /\ stream' = broadcastStateChange(sc)
      /\ UNCHANGED <<sess, rawLost, closed, states, announced, route, agreed>>
  BY DEF RunDispatch, mgrVars, appVars
<1>2. rawNotifyCh \in Seq(ChangeShape) BY DEF StreamInv
<1>3. sc \in ChangeShape /\ rawNotifyCh' \in Seq(ChangeShape) BY <1>1, <1>2, HeadTailProperties
<1>4. sc.state \in States BY <1>3 DEF ChangeShape
<1>5. /\ rawNotifyCh' # <<>> => Last(rawNotifyCh') = Last(rawNotifyCh)
      /\ rawNotifyCh' = <<>> => Last(rawNotifyCh) = sc
  BY <1>1, <1>2, LastOfTail
<1>6. RawInv' BY <1>1, <1>5 DEF FollowInv, RawInv
<1>7. ASSUME NEW c \in Clients, Quiet(c)', c \notin sc.after PROVE Quiet(c)
  <2>1. /\ Len(rawNotifyCh') = Len(rawNotifyCh) - 1
        /\ \A i \in 1 .. Len(rawNotifyCh') : rawNotifyCh'[i] = rawNotifyCh[i + 1]
    BY <1>1, <1>2, HeadTailProperties
  <2>2. sc = rawNotifyCh[1] OBVIOUS
  <2>3. Len(rawNotifyCh) \in Nat /\ DOMAIN rawNotifyCh = 1 .. Len(rawNotifyCh)
        /\ DOMAIN rawNotifyCh' = 1 .. Len(rawNotifyCh')
    BY <1>2, <1>3, LenProperties
  <2> HIDE DEF sc
  <2>4. ASSUME NEW i \in 1 .. Len(rawNotifyCh) PROVE c \notin rawNotifyCh[i].after
    <3>1. CASE i = 1 BY <3>1, <2>2, <1>7
    <3>2. CASE i # 1
      <4>1. i - 1 \in 1 .. Len(rawNotifyCh') BY <3>2, <2>1, <2>3
      <4>2. rawNotifyCh'[i - 1] = rawNotifyCh[i] BY <4>1, <2>1, <2>3
      <4> QED BY <4>1, <4>2, <2>3, <1>7 DEF Quiet
    <3> QED BY <3>1, <3>2
  <2> QED BY <2>3, <2>4 DEF Quiet
<1> HIDE DEF sc
<1>8. ASSUME NEW c \in Clients PROVE Follows(c)'
  <2>1. stream[c] \in StreamShape BY DEF StreamInv
  <2>2. CASE ~stream[c].registered
    <3>1. stream'[c] = [stream[c] EXCEPT !.lost = stream[c].lost \/ c \in sc.after]
      BY <1>1, <2>2 DEF broadcastStateChange
    <3>2. /\ stream'[c].phase = stream[c].phase /\ stream'[c].client = stream[c].client
          /\ stream'[c].end = stream[c].end /\ stream'[c].ch = stream[c].ch
          /\ stream'[c].net = stream[c].net /\ stream'[c].snap = stream[c].snap
          /\ stream'[c].registered = stream[c].registered
          /\ stream'[c].lost = (stream[c].lost \/ c \in sc.after)
      BY <2>1, <3>1 DEF StreamShape
    <3>3. Done(c)' = Done(c) /\ Shown(c)' = Shown(c) BY <1>1, <3>2 DEF Done, Shown
    <3> QED BY <1>1, <1>7, <2>2, <3>2, <3>3 DEF FollowInv, Follows, Live
  <2>3. CASE stream[c].registered /\ Len(stream[c].ch) < NotifyChSize
    <3>1. stream'[c] = [stream[c] EXCEPT !.ch = Append(@, sc.state), !.lost = FALSE]
      BY <1>1, <2>3 DEF broadcastStateChange
    <3>2. /\ stream'[c].phase = stream[c].phase
          /\ stream'[c].ch = Append(stream[c].ch, sc.state)
          /\ stream'[c].registered = stream[c].registered
      BY <2>1, <3>1 DEF StreamShape
    <3>3. stream[c].ch \in Seq(States) BY <2>1 DEF StreamShape
    <3>4. stream'[c].ch # <<>> /\ Last(stream'[c].ch) = sc.state
      BY <1>4, <3>2, <3>3, LastOfAppend
    <3>5. stream[c].phase \notin {"opened", "snapped"} BY <2>3 DEF FollowInv, Follows
    <3>6. ~rawLost /\ rawNotifyCh' = <<>> => Shown(c)'
      BY <1>1, <1>5, <3>4 DEF FollowInv, RawInv, Shown
    <3> QED BY <1>1, <2>3, <3>2, <3>5, <3>6 DEF Follows, Live
  <2>4. CASE stream[c].registered /\ ~(Len(stream[c].ch) < NotifyChSize)
    <3>1. stream'[c] = [stream[c] EXCEPT !.lost = TRUE]
      BY <1>1, <2>4 DEF broadcastStateChange
    <3>2. /\ stream'[c].phase = stream[c].phase /\ stream'[c].ch = stream[c].ch
          /\ stream'[c].registered = stream[c].registered /\ stream'[c].lost = TRUE
      BY <2>1, <3>1 DEF StreamShape
    <3> QED BY <1>1, <3>2 DEF FollowInv, Follows, Live
  <2> QED BY <2>2, <2>3, <2>4
<1> QED BY <1>1, <1>6, <1>8 DEF FollowInv, BridgeInv

(* After Close no one is promised anything.                                *)
LEMMA FollowClose ==
  ASSUME StreamInv, FollowInv, Close
  PROVE  FollowInv'
<1>1. /\ closed' = TRUE /\ UNCHANGED <<sess, rawNotifyCh, rawLost, announced, route, agreed>>
      /\ stream' = [c \in Clients |-> IF stream[c].registered THEN closeChan(stream[c])
                                      ELSE stream[c]]
  BY DEF Close, sessVars, appVars
<1>2. ASSUME NEW c \in Clients PROVE Follows(c)'
  <2>1. stream[c] \in StreamShape BY DEF StreamInv
  <2>2. CASE ~stream[c].registered
    <3>1. stream'[c] = stream[c] BY <1>1, <2>2
    <3> QED BY <1>1, <3>1 DEF FollowInv, Follows, Live
  <2>3. CASE stream[c].registered
    <3>1. stream'[c] = closeChan(stream[c]) BY <1>1, <2>3
    <3>2. stream'[c].phase = stream[c].phase BY <2>1, <3>1 DEF closeChan, StreamShape
    <3>3. stream[c].phase \notin {"opened", "snapped"} BY <2>3 DEF FollowInv, Follows
    <3> QED BY <1>1, <3>2, <3>3 DEF Follows, Live
  <2> QED BY <2>2, <2>3
<1> QED BY <1>1, <1>2 DEF FollowInv, RawInv, BridgeInv

(* The snapshot of a new stream shows the session as it is, and every      *)
(* change that still waits is older (WatchSessionEvents).                  *)
LEMMA FollowWatch ==
  ASSUME StreamInv, FollowInv, NEW c \in Clients, Watch(c)
  PROVE  FollowInv'
<1> DEFINE x == IF closed THEN Unknown ELSE sess
           s == [NoStream("streaming") EXCEPT !.phase = "opened", !.snap = x]
<1>1. /\ stream' = [stream EXCEPT ![c] = s]
      /\ rawNotifyCh' = [i \in DOMAIN rawNotifyCh |-> [rawNotifyCh[i] EXCEPT !.after = @ \ {c}]]
      /\ UNCHANGED <<sess, rawLost, closed, states, route>>
  BY DEF Watch, linkVars
<1>2. /\ NoStream("streaming").registered = FALSE /\ NoStream("streaming").ch = <<>>
      /\ NoStream("streaming") \in [client : {"streaming"}, phase : {"none"}, snap : {Unknown},
            chan : {"none"}, ch : {<<>>}, registered : {FALSE}, net : {<<>>}, end : {"open"},
            lost : {FALSE}]
  BY DEF NoStream
<1>3. s.phase = "opened" /\ s.registered = FALSE /\ s.ch = <<>> /\ s.snap = x
  BY <1>2
<1>4. \A d \in Clients : stream'[d] = IF d = c THEN s ELSE stream[d] BY <1>1 DEF StreamInv
<1>5. x = sess \/ closed OBVIOUS
<1> HIDE DEF s, x
<1>6. Follows(c)' BY <1>1, <1>3, <1>4, <1>5 DEF Follows, Live
<1>7. /\ Len(rawNotifyCh) \in Nat /\ DOMAIN rawNotifyCh = 1 .. Len(rawNotifyCh)
      /\ \A i \in DOMAIN rawNotifyCh : rawNotifyCh[i] \in ChangeShape
  BY LenProperties, ElementOfSeq DEF StreamInv
<1>8. \A i \in DOMAIN rawNotifyCh : /\ rawNotifyCh'[i].state = rawNotifyCh[i].state
                                   /\ rawNotifyCh'[i].after = rawNotifyCh[i].after \ {c}
  BY <1>1, <1>7 DEF ChangeShape
<1>9. DOMAIN rawNotifyCh' = DOMAIN rawNotifyCh /\ Len(rawNotifyCh') = Len(rawNotifyCh)
  BY <1>1, <1>7
<1>10. rawNotifyCh' = <<>> <=> rawNotifyCh = <<>>
  BY <1>7, <1>9, EmptySeq DEF StreamInv
<1>11. rawNotifyCh # <<>> => Len(rawNotifyCh) \in DOMAIN rawNotifyCh
  BY <1>7, EmptySeq DEF StreamInv
<1>12. RawInv' BY <1>1, <1>8, <1>9, <1>10, <1>11 DEF FollowInv, RawInv, Last
<1>13. \A d \in Clients \ {c} : Quiet(d)' => Quiet(d) BY <1>8, <1>9 DEF Quiet
<1>14. BridgeInv'
  <2>1. BridgeInv BY DEF FollowInv
  <2>2. CASE announced' = FALSE /\ agreed' = ~route BY <1>1, <2>1, <2>2, Zenon DEF BridgeInv
  <2>3. CASE UNCHANGED <<announced, agreed>> BY <1>1, <2>1, <2>3 DEF BridgeInv
  <2> QED BY <2>2, <2>3 DEF Watch
<1>15. ASSUME NEW d \in Clients \ {c} PROVE Done(d) => Done(d)'
  BY <1>1, <1>15 DEF Watch, Done, Clients
<1>16. ASSUME NEW d \in Clients \ {c} PROVE Follows(d)'
  BY <1>1, <1>4, <1>10, <1>13, <1>15, OthersFollow
<1> QED BY <1>6, <1>12, <1>14, <1>16 DEF FollowInv

(* A step of one stream, which changes nothing but that stream and what    *)
(* its client has done.                                                    *)
LEMMA OneFollows ==
  ASSUME StreamInv, FollowInv, NEW c \in Clients, NEW s, stream' = [stream EXCEPT ![c] = s],
         UNCHANGED <<sessVars, closed>>, BridgeInv', \A d \in Clients \ {c} : Done(d) => Done(d)',
         Follows(c)'
  PROVE  FollowInv'
<1>1. UNCHANGED <<sess, rawNotifyCh, rawLost>> BY DEF sessVars
<1>2. RawInv' BY <1>1 DEF FollowInv, RawInv
<1>3. ASSUME NEW d \in Clients \ {c} PROVE Follows(d)'
  <2>1. stream'[d] = stream[d] BY DEF StreamInv
  <2>2. Quiet(d)' => Quiet(d) BY <1>1 DEF Quiet
  <2> QED BY <1>1, <1>3, <2>1, <2>2, OthersFollow
<1> QED BY <1>2, <1>3 DEF FollowInv

(* The handler moves the snapshot and then the events along, in order, and *)
(* subscribes only while its queue is empty (sendCurrent, forward); when   *)
(* the connection breaks or the stream ends, nothing is promised.          *)
LEMMA FollowHandler ==
  ASSUME StreamInv, FollowInv, NEW c \in Clients,
         \/ sendCurrent(c) \/ SubscribeStateChanges(c) \/ forward(c) \/ unsubscribe(c) \/ Break(c)
  PROVE  FollowInv'
<1>1. UNCHANGED <<sess, rawNotifyCh, rawLost, closed, states, announced, route, agreed>>
  BY DEF sendCurrent, SubscribeStateChanges, forward, unsubscribe, Break, handlerVars,
         sessVars, mgrVars, appVars
<1>b. BridgeInv' BY <1>1 DEF FollowInv, BridgeInv
<1>d. \A d \in Clients : Done(d) => Done(d)' BY <1>1 DEF Done
<1>u. UNCHANGED <<sessVars, closed>> BY <1>1 DEF sessVars
<1>r. stream' = [stream EXCEPT ![c] = stream'[c]]
  BY DEF sendCurrent, SubscribeStateChanges, forward, unsubscribe, Break, StreamInv
<1>s. SUFFICES Follows(c)' BY <1>b, <1>d, <1>u, <1>r, OneFollows
<1> DEFINE s == stream[c]
           r == stream'[c]
<1>2. s \in StreamShape BY DEF StreamInv
<1>3. Done(c)' = Done(c) /\ Quiet(c)' = Quiet(c) BY <1>1 DEF Done, Quiet
<1>4. Follows(c) /\ RawInv BY DEF FollowInv
<1>5. CASE sendCurrent(c)
  <2>1. CASE s.end = "open" /\ r = [s EXCEPT !.phase = "snapped", !.snap = Unknown,
                        !.net = IF s.snap = Unknown THEN s.net ELSE Append(s.net, s.snap)]
    <3>1. /\ r.phase = "snapped" /\ r.registered = s.registered /\ r.ch = s.ch
          /\ r.client = s.client /\ r.end = s.end /\ r.lost = s.lost
          /\ r.net = IF s.snap = Unknown THEN s.net ELSE Append(s.net, s.snap)
      BY <1>2, <2>1 DEF StreamShape
    <3>2. s.phase = "opened" /\ s.net \in Seq(States) /\ s.snap \in States \cup {Unknown}
      BY <1>2, <1>5 DEF sendCurrent, StreamShape
    <3> HIDE DEF s, r
    <3>3. s.snap \in States => r.net # <<>> /\ Last(r.net) = s.snap
      BY <3>1, <3>2, LastOfAppend DEF States, Unknown
    <3>4. sess \in States BY DEF StreamInv
    <3> QED BY <1>1, <1>3, <1>4, <3>1, <3>2, <3>3, <3>4 DEF Follows, Live, Shown, s, r
  <2>2. CASE r = [s EXCEPT !.phase = "none", !.snap = Unknown, !.lost = FALSE]
    <3>1. r.phase = "none" BY <1>2, <2>2 DEF StreamShape
    <3> QED BY <3>1 DEF Follows
  <2> QED BY <1>2, <1>5, <2>1, <2>2 DEF sendCurrent, StreamInv
<1>6. CASE SubscribeStateChanges(c)
  <2>1. r = [s EXCEPT !.phase = "watching", !.chan = "open", !.registered = TRUE]
    BY <1>6 DEF SubscribeStateChanges, StreamInv
  <2>2. /\ r.phase = "watching" /\ r.registered = TRUE /\ r.ch = s.ch /\ r.net = s.net
        /\ r.client = s.client /\ r.end = s.end /\ r.lost = s.lost
    BY <1>2, <2>1 DEF StreamShape
  <2>3. s.phase = "snapped" BY <1>6 DEF SubscribeStateChanges
  <2>4. rawNotifyCh = <<>> => Quiet(c)
    <3>1. \A q : q = <<>> => DOMAIN q = {} OBVIOUS
    <3> QED BY <3>1, Zenon DEF Quiet
  <2> HIDE DEF s, r
  <2> QED BY <1>1, <1>3, <1>4, <2>2, <2>3, <2>4 DEF Follows, Live, Shown, s, r
<1>7. CASE forward(c)
  <2>0. s.phase = "watching" BY <1>7 DEF forward
  <2>1. CASE s.ch # <<>> /\ r = [s EXCEPT !.ch = Tail(s.ch), !.net = Append(s.net, Head(s.ch))]
    <3>1. /\ r.phase = s.phase /\ r.registered = s.registered /\ r.ch = Tail(s.ch)
          /\ r.client = s.client /\ r.end = s.end /\ r.lost = s.lost
          /\ r.net = Append(s.net, Head(s.ch))
      BY <1>2, <2>1 DEF StreamShape
    <3>2. s.net \in Seq(States) /\ s.ch \in Seq(States) BY <1>2 DEF StreamShape
    <3>3. Head(s.ch) \in States BY <2>1, <3>2, HeadTailProperties
    <3>4. r.net # <<>> /\ Last(r.net) = Head(s.ch) BY <3>1, <3>2, <3>3, LastOfAppend
    <3>5. /\ r.ch # <<>> => Last(r.ch) = Last(s.ch)
          /\ r.ch = <<>> => Last(s.ch) = Head(s.ch)
      BY <2>1, <3>1, <3>2, LastOfTail
    <3> HIDE DEF s, r
    <3> QED BY <1>1, <1>3, <1>4, <2>0, <2>1, <3>1, <3>4, <3>5 DEF Follows, Live, Shown, s, r
  <2>2. CASE r.phase = "returned" BY <2>2 DEF Follows
  <2>3. \/ s.ch # <<>> /\ r = [s EXCEPT !.ch = Tail(s.ch), !.net = Append(s.net, Head(s.ch))]
        \/ r = [s EXCEPT !.phase = "returned", !.end = "eof"]
        \/ r = [s EXCEPT !.phase = "returned"]
    BY <1>7 DEF forward, StreamInv
  <2>4. \/ r = [s EXCEPT !.phase = "returned", !.end = "eof"]
        \/ r = [s EXCEPT !.phase = "returned"]
        => r.phase = "returned"
    BY <1>2 DEF StreamShape
  <2> QED BY <2>1, <2>2, <2>3, <2>4
<1>8. CASE unsubscribe(c)
  <2>1. \/ s.registered /\ r = [closeChan(s) EXCEPT !.phase = "none", !.ch = <<>>, !.lost = FALSE]
        \/ r = [s EXCEPT !.phase = "none", !.ch = <<>>, !.lost = FALSE]
    BY <1>8 DEF unsubscribe, StreamInv
  <2>2. r.phase = "none"
    BY <1>2, <2>1 DEF closeChan, StreamShape
  <2> QED BY <2>2 DEF Follows
<1>9. CASE Break(c)
  <2>1. r = [s EXCEPT !.end = "error", !.net = <<>>] BY <1>9 DEF Break, StreamInv
  <2>2. /\ r.phase = s.phase /\ r.registered = s.registered /\ r.ch = s.ch /\ r.end = "error"
    BY <1>2, <2>1 DEF StreamShape
  <2> HIDE DEF s, r
  <2> QED BY <1>1, <1>4, <2>2 DEF Follows, Live, s, r
<1> QED BY <1>5, <1>6, <1>7, <1>8, <1>9

(* The agent takes the next event into its map, the bridge acts on it; a   *)
(* client that leaves its stream is promised nothing (watchEvents,         *)
(* streamEvents, watchAndAnnounce).                                        *)
LEMMA FollowClient ==
  ASSUME StreamInv, FollowInv, NEW c \in Clients,
         UNCHANGED <<sess, rawNotifyCh, rawLost, closed>>, BridgeInv',
         \A d \in Clients \ {c} : Done(d) => Done(d)',
         \/ /\ stream[c].net # <<>> /\ stream' = [stream EXCEPT ![c].net = Tail(@)]
            /\ Head(stream[c].net) = sess => Done(c)'
         \/ \E x \in {"dial", "answering", "exited"} : stream' = [stream EXCEPT ![c].client = x]
  PROVE  FollowInv'
<1>1. UNCHANGED <<sessVars, closed>> BY DEF sessVars
<1>2. stream' = [stream EXCEPT ![c] = stream'[c]] BY DEF StreamInv
<1>3. SUFFICES Follows(c)' BY <1>1, <1>2, OneFollows
<1> DEFINE s == stream[c]
           r == stream'[c]
<1>4. s \in StreamShape BY DEF StreamInv
<1>5. Quiet(c)' = Quiet(c) /\ Follows(c) BY DEF Quiet, FollowInv
<1>6. CASE s.net # <<>> /\ r = [s EXCEPT !.net = Tail(s.net)] /\ (Head(s.net) = sess => Done(c)')
  <2>1. /\ r.phase = s.phase /\ r.registered = s.registered /\ r.ch = s.ch /\ r.snap = s.snap
        /\ r.client = s.client /\ r.end = s.end /\ r.lost = s.lost /\ r.net = Tail(s.net)
    BY <1>4, <1>6 DEF StreamShape
  <2>2. s.net \in Seq(States) BY <1>4 DEF StreamShape
  <2>3. /\ r.net # <<>> => Last(r.net) = Last(s.net)
        /\ r.net = <<>> => Last(s.net) = Head(s.net)
    BY <1>6, <2>1, <2>2, LastOfTail
  <2> HIDE DEF s, r
  <2>4. Shown(c) => Shown(c)' BY <1>6, <2>1, <2>3 DEF Shown, s, r
  <2> QED BY <1>5, <2>1, <2>4 DEF Follows, Live, s, r
<1>7. ASSUME NEW x \in {"dial", "answering", "exited"}, r = [s EXCEPT !.client = x]
      PROVE  Follows(c)'
  <2>1. /\ r.phase = s.phase /\ r.registered = s.registered /\ r.ch = s.ch
        /\ r.client # "streaming"
    BY <1>4, <1>7 DEF StreamShape
  <2> HIDE DEF s, r
  <2> QED BY <1>5, <2>1 DEF Follows, Live, s, r
<1> QED BY <1>6, <1>7 DEF StreamInv

(* Every step keeps the clients following.                                 *)
LEMMA FollowStep == StreamInv /\ FollowInv /\ [Next]_vars => FollowInv'
<1> SUFFICES ASSUME StreamInv, FollowInv, [Next]_vars PROVE FollowInv' OBVIOUS
<1>s. /\ "Init" \in States /\ "Up" \in States /\ "Down" \in States /\ "AdminDown" \in States
      /\ "agent" \in Clients /\ "bridge" \in Clients
  BY DEF States, Clients
<1>1. CASE UNCHANGED vars
  BY <1>1, FollowFrame DEF vars, mgrVars
<1>2. CASE StateChanges
  <2>1. PICK s \in States : emitNotification(s) BY <1>2, <1>s DEF StateChanges
  <2>2. UNCHANGED <<stream, appVars, closed>> BY <1>2 DEF StateChanges, mgrVars
  <2> QED BY <2>1, <2>2, FollowEmit
<1>3. CASE LinkChanges \/ Cancel
  BY <1>3, FollowFrame DEF LinkChanges, Cancel, mgrVars
<1>4. CASE startInterfaceMonitor
  <2>1. UNCHANGED <<stream, appVars, closed>> BY <1>4 DEF startInterfaceMonitor, mgrVars
  <2>2. CASE UNCHANGED sessVars BY <2>1, <2>2, FollowFrame
  <2>3. CASE emitNotification("Down") BY <1>s, <2>1, <2>3, FollowEmit
  <2> QED BY <1>4, <2>2, <2>3 DEF startInterfaceMonitor, HandleInterfaceEvent
<1>5. CASE RunDispatch BY <1>5, FollowDispatch
<1>6. CASE Close BY <1>6, FollowClose
<1>7. ASSUME NEW c \in Clients, Watch(c) PROVE FollowInv' BY <1>7, FollowWatch
<1>8. ASSUME NEW c \in Clients,
             sendCurrent(c) \/ SubscribeStateChanges(c) \/ forward(c) \/ unsubscribe(c) \/ Break(c)
      PROVE  FollowInv'
  BY <1>8, FollowHandler
<1>9. CASE watchEvents
  <2>1. UNCHANGED <<sess, rawNotifyCh, rawLost, closed, announced, route, agreed>>
    BY <1>9 DEF watchEvents, clientVars, sessVars, mgrVars
  <2>2. BridgeInv' BY <2>1 DEF FollowInv, BridgeInv
  <2>3. \A d \in Clients \ {"agent"} : Done(d) => Done(d)' BY <2>1 DEF Done
  <2>4. \/ /\ stream["agent"].net # <<>> /\ stream' = [stream EXCEPT !["agent"].net = Tail(@)]
           /\ Head(stream["agent"].net) = sess => Done("agent")'
        \/ \E x \in {"dial", "answering", "exited"} : stream' = [stream EXCEPT !["agent"].client = x]
    BY <1>9, <2>1 DEF watchEvents, run, Done
  <2> QED BY <1>s, <2>1, <2>2, <2>3, <2>4, FollowClient
<1>10. CASE streamEvents
  <2> DEFINE x == Head(stream["bridge"].net)
  <2>1. /\ UNCHANGED <<sess, rawNotifyCh, rawLost, closed, states>> /\ handleStateChange(x)
        /\ stream["bridge"].net # <<>> /\ stream' = [stream EXCEPT !["bridge"].net = Tail(@)]
    BY <1>10 DEF streamEvents, clientVars, sessVars, mgrVars
  <2> HIDE DEF x
  <2>2. BridgeInv BY DEF FollowInv
  <2>3. BridgeInv' BY <2>1, <2>2 DEF BridgeInv, handleStateChange
  <2>4. x = sess => Done("bridge")'
    <3>1. x = "Up" => announced' /\ route' BY <2>1, <2>2 DEF handleStateChange, BridgeInv
    <3>2. x \in {"Down", "AdminDown"} => ~announced'
      BY <2>1, <2>2 DEF handleStateChange, BridgeInv
    <3>3. sess \in States BY DEF StreamInv
    <3> QED BY <2>1, <2>3, <3>1, <3>2, <3>3 DEF Done, BridgeInv, States
  <2>5. \A d \in Clients \ {"bridge"} : Done(d) => Done(d)' BY <2>1 DEF Done, Clients
  <2> QED BY <1>s, <2>1, <2>3, <2>4, <2>5, FollowClient DEF x
<1>11. CASE watchAndAnnounce
  <2>1. UNCHANGED <<sess, rawNotifyCh, rawLost, closed, states, announced, route, agreed>>
    BY <1>11 DEF watchAndAnnounce, clientVars, sessVars, mgrVars, appVars
  <2>2. BridgeInv' BY <2>1 DEF FollowInv, BridgeInv
  <2>3. \A d \in Clients : Done(d) => Done(d)' BY <2>1 DEF Done
  <2>4. \E x \in {"dial", "answering", "exited"} : stream' = [stream EXCEPT !["bridge"].client = x]
    BY <1>11 DEF watchAndAnnounce
  <2> QED BY <1>s, <2>1, <2>2, <2>3, <2>4, FollowClient
<1> QED BY <1>1, <1>2, <1>3, <1>4, <1>5, <1>6, <1>7, <1>8, <1>9, <1>10, <1>11
        DEF Next, System, Environment

(* The last of several queues, one behind the other.                       *)
LEMMA LastOfConcat ==
  ASSUME NEW S, NEW q \in Seq(S), NEW t \in Seq(S)
  PROVE  /\ q \o t \in Seq(S)
         /\ t # <<>> => q \o t # <<>> /\ Last(q \o t) = Last(t)
         /\ t = <<>> => q \o t = q
         /\ q \o t = <<>> => q = <<>> /\ t = <<>>
<1>1. t # <<>> => Len(t) \in Nat \ {0} BY EmptySeq
<1>2. q # <<>> => Len(q) \in Nat \ {0} BY EmptySeq
<1>3. Len(q) \in Nat /\ Len(t) \in Nat BY LenProperties
<1>4. /\ q \o t \in Seq(S) /\ Len(q \o t) = Len(q) + Len(t)
      /\ \A i \in 1 .. Len(q) + Len(t) : (q \o t)[i] = IF i <= Len(q) THEN q[i] ELSE t[i - Len(q)]
  BY ConcatProperties
<1>5. Len(<<>>) = 0 OBVIOUS
<1>6. q \o t = <<>> => Len(q \o t) = 0 BY <1>5, Zenon
<1>7. q \o t = <<>> => q = <<>> /\ t = <<>> BY <1>1, <1>2, <1>3, <1>4, <1>6
<1>8. t # <<>> => Last(q \o t) = Last(t) BY <1>1, <1>3, <1>4 DEF Last
<1>9. t = <<>> => q \o t = q BY ConcatEmptySeq
<1> QED BY <1>4, <1>7, <1>8, <1>9

(* From what holds queue by queue to the whole of what is under way.       *)
LEMMA PipelineShown ==
  ASSUME StreamInv, FollowInv, NEW c \in Clients, Following(c)
  PROVE  /\ Pipeline(c) \in Seq(States)
         /\ Pipeline(c) # <<>> => Last(Pipeline(c)) = sess
         /\ Pipeline(c) = <<>> => Done(c)
<1> DEFINE raw == [i \in DOMAIN rawNotifyCh |-> rawNotifyCh[i].state]
           h == stream[c].net \o stream[c].ch
<1>1. rawNotifyCh \in Seq(ChangeShape) /\ stream[c] \in StreamShape BY DEF StreamInv
<1>2. /\ Len(rawNotifyCh) \in Nat /\ DOMAIN rawNotifyCh = 1 .. Len(rawNotifyCh)
      /\ \A i \in 1 .. Len(rawNotifyCh) : rawNotifyCh[i] \in ChangeShape
  BY <1>1, LenProperties, ElementOfSeq
<1>3. \A i \in 1 .. Len(rawNotifyCh) : rawNotifyCh[i].state \in States BY <1>2 DEF ChangeShape
<1>4. raw \in Seq(States) /\ Len(raw) = Len(rawNotifyCh) BY <1>2, <1>3, IsASeq
<1>5. raw # <<>> <=> rawNotifyCh # <<>> BY <1>1, <1>2, <1>4, EmptySeq
<1>6. raw # <<>> => Last(raw) = Last(rawNotifyCh).state BY <1>1, <1>2, <1>4, <1>5, EmptySeq DEF Last
<1>7. stream[c].net \in Seq(States) /\ stream[c].ch \in Seq(States) BY <1>1 DEF StreamShape
<1>8. Pipeline(c) = h \o raw BY DEF Pipeline
<1>9. /\ Live(c) /\ stream[c].phase = "watching" /\ ~rawLost
  BY DEF Following, Live
<1>10. Follows(c) /\ RawInv BY DEF FollowInv
<1> HIDE DEF raw
<1>11. raw # <<>> => Last(raw) = sess BY <1>5, <1>6, <1>9, <1>10 DEF RawInv
<1>12. raw = <<>> => Shown(c) BY <1>5, <1>9, <1>10 DEF Follows
<1>13. /\ h \in Seq(States)
       /\ stream[c].ch # <<>> => h # <<>> /\ Last(h) = Last(stream[c].ch)
       /\ stream[c].ch = <<>> => h = stream[c].net
       /\ h = <<>> => stream[c].net = <<>> /\ stream[c].ch = <<>>
  BY <1>7, LastOfConcat
<1> HIDE DEF h
<1>14. /\ h \o raw \in Seq(States)
       /\ raw # <<>> => h \o raw # <<>> /\ Last(h \o raw) = Last(raw)
       /\ raw = <<>> => h \o raw = h
  BY <1>4, <1>13, LastOfConcat
<1>15. CASE raw # <<>> BY <1>8, <1>11, <1>14, <1>15
<1>16. CASE raw = <<>>
  <2>1. h \o raw = h BY <1>14, <1>16
  <2>2. (h # <<>> => Last(h) = sess) /\ (h = <<>> => Done(c))
    BY <1>12, <1>13, <1>16 DEF Shown
  <2> QED BY <1>8, <1>14, <2>1, <2>2
<1> QED BY <1>15, <1>16

(* The agent's map, with all that is under way to it, ends in the state of *)
(* the session.                                                            *)
LEMMA AgentView == StreamInv /\ FollowInv => ViewFollows
<1> SUFFICES ASSUME StreamInv, FollowInv, Following("agent")
             PROVE  Last(<<states>> \o Pipeline("agent")) = sess
  BY DEF ViewFollows, Last
<1> DEFINE S == States \cup {states}
           p == Pipeline("agent")
<1>1. "agent" \in Clients BY DEF Clients
<1>2. p \in Seq(States) /\ (p # <<>> => Last(p) = sess) /\ (p = <<>> => states = sess)
  BY <1>1, PipelineShown DEF Done
<1> HIDE DEF p
<1>3. p \in Seq(S)
  <2>1. /\ Len(p) \in Nat /\ p \in [1 .. Len(p) -> States] BY <1>2, LenProperties
  <2>2. p \in [1 .. Len(p) -> S] BY <2>1
  <2> QED BY <2>1, <2>2, IsASeq
<1>4. <<states>> \in Seq(S) /\ Last(<<states>>) = states BY DEF Last
<1> HIDE DEF S
<1>5. /\ p # <<>> => Last(<<states>> \o p) = Last(p)
      /\ p = <<>> => <<states>> \o p = <<states>>
  BY <1>3, <1>4, LastOfConcat
<1>6. CASE p # <<>> BY <1>2, <1>5, <1>6 DEF p
<1>7. CASE p = <<>>
  <2>1. Last(<<states>> \o p) = states BY <1>4, <1>5, <1>7, Zenon
  <2> QED BY <1>2, <1>7, <2>1 DEF p
<1> QED BY <1>6, <1>7

(* With nothing under way, what HAProxy and ExaBGP were told is right.     *)
LEMMA RoutesRight == StreamInv /\ FollowInv => RouteFollows
<1> SUFFICES ASSUME StreamInv, FollowInv PROVE RouteFollows OBVIOUS
<1>1. "agent" \in Clients /\ "bridge" \in Clients BY DEF Clients
<1>2. Following("agent") /\ Pipeline("agent") = <<>> => states = sess
  BY <1>1, PipelineShown DEF Done
<1>3. Following("bridge") /\ Pipeline("bridge") = <<>> /\ agreed /\ sess # "Init"
        => (route <=> sess = "Up")
  BY <1>1, PipelineShown DEF Done
<1>4. (handleAgentCheck = "up ready") <=> states = "Up" BY DEF handleAgentCheck
<1> QED BY <1>2, <1>3, <1>4 DEF RouteFollows

(* For all capacities of the three queues and any number of changes, breaks*)
(* and slow clients: the agent's map and the events under way end in the   *)
(* state of the session, with no exception but those of Following          *)
(* (WatchSessionEvents, RunDispatch, broadcastStateChange, watchEvents).   *)
THEOREM AgentFollows == Spec => []ViewFollows
<1>1. StreamInv /\ FollowInv /\ [Next]_vars => (StreamInv /\ FollowInv)'
  BY StreamStep, FollowStep
<1>2. Spec => [](StreamInv /\ FollowInv) BY <1>1, StreamInit, FollowInit, PTL DEF Spec
<1> QED BY <1>2, AgentView, PTL

(* In the same generality: with nothing under way, the answer of the agent *)
(* and the route of the bridge agree with the session, in the cases named  *)
(* with RouteFollows (handleAgentCheck, handleStateChange).                *)
THEOREM RoutesFollow == Spec => []RouteFollows
<1>1. StreamInv /\ FollowInv /\ [Next]_vars => (StreamInv /\ FollowInv)'
  BY StreamStep, FollowStep
<1>2. Spec => [](StreamInv /\ FollowInv) BY <1>1, StreamInit, FollowInit, PTL DEF Spec
<1> QED BY <1>2, RoutesRight, PTL

-----------------------------------------------------------------------------
(* Authentication.  A mark per life of the sender, the number it drew last *)
(* in that life, tells what every frame still under way was numbered with: *)
(* since frames before the mark.                                           *)

(* The number n frames after s.                                            *)
Mark(s, n) == IF s + n < Modulus THEN s + n ELSE s + n - Modulus

(* Of the frames sent since, those that announced no change of state were  *)
(* at least three quarters of the pace apart: t is the time since, x the   *)
(* time until the next one in life l.                                      *)
Paced(r, t, x, l) ==
  /\ 4 * t >= 3 * (r.pace * (r.since - r.changes))
  /\ r.life = l => 4 * (t + x) >= 3 * (r.pace * (r.since - r.changes + 1))

(* A frame under way.  One not newer than the last accepted one left the   *)
(* sender before that one was accepted.                                    *)
Good(f, mk) ==
  /\ f.life <= life /\ f.changes <= stateChanges
  /\ Paced(f, MaxDelay - f.left, txTimer, life)
  /\ f.life = last.life /\ f.since >= last.since /\ f.since < Modulus
       => MaxDelay - f.left >= lastPacketRecv
  /\ Numbered /\ f.intact /\ f.since < Modulus => Mark(f.seq, f.since) = mk[f.life]

(* The last accepted one, as long as its number is remembered.             *)
GoodLast(mk) ==
  /\ last.life <= life /\ last.changes <= stateChanges
  /\ AuthSeqKnown => Paced(last, lastPacketRecv + MaxDelay, txTimer, life)
  /\ AuthSeqKnown /\ last.since < Modulus => Mark(RcvAuthSeq, last.since) = mk[last.life]

Marks == [0..MaxRestarts -> Seqs]

MarkInv == \E mk \in Marks : /\ Numbered => mk[life] = XmitAuthSeq
                             /\ \A k \in DOMAIN net : Good(net[k], mk)
                             /\ GoodLast(mk)

(* A remembered number is one or two firings of the detection timer old; a *)
(* forgotten one is two detection times old.                               *)
ResetInv ==
  /\ AuthSeqKnown => /\ Numbered /\ last.life >= 0
                     /\ \/ lastPacketRecv + detectTimer = calcDetectionTime
                        \/ lastPacketRecv + detectTimer = 2 * calcDetectionTime
  /\ Numbered /\ last.life >= 0 /\ ~AuthSeqKnown => lastPacketRecv >= 2 * calcDetectionTime

AuthInv == AuthTypeOK /\ ResetInv /\ MarkInv

-----------------------------------------------------------------------------
(* Arithmetic                                                              *)

(* A number at most one turn away is reduced by one turn.                  *)
LEMMA OneTurn ==
  ASSUME NEW m \in Nat \ {0}, NEW x \in Int
  PROVE  /\ 0 <= x /\ x < m => x % m = x
         /\ m <= x /\ x < 2 * m => x % m = x - m
         /\ -m <= x /\ x < 0 => x % m = x + m
OBVIOUS

(* Scaling a rate and a count down.                                        *)
LEMMA ScaleDown ==
  ASSUME NEW t \in Nat, NEW a \in Nat, NEW b \in Nat, NEW c \in Int, NEW d \in Int,
         t >= 3 * (b * d), a <= b, c <= d
  PROVE  t >= 3 * (a * c)
<1>1. CASE c <= 0
  <2>1. a * c <= 0 BY <1>1
  <2>2. a * c \in Int OBVIOUS
  <2> QED BY <2>1, <2>2
<1>2. CASE c > 0
  <2>1. a * c <= b * c BY <1>2
  <2>2. b * c <= b * d BY <1>2
  <2>3. a * c \in Int /\ b * c \in Int /\ b * d \in Int OBVIOUS
  <2> QED BY <2>1, <2>2, <2>3
<1> QED BY <1>1, <1>2

(* A timer armed with at least three quarters of i.                        *)
LEMMA ArmedPace ==
  ASSUME NEW t \in Nat, NEW x \in Nat, NEW p \in Nat, NEW i \in Nat, NEW c \in Int,
         4 * t >= 3 * (p * c), 4 * x >= 3 * i, p <= i
  PROVE  4 * (t + x) >= 3 * (p * (c + 1))
<1>1. p * (c + 1) = p * c + p OBVIOUS
<1>2. p * c \in Int OBVIOUS
<1> QED BY <1>1, <1>2

-----------------------------------------------------------------------------
(* What sending makes of the frames under way and of the last one accepted *)

(* The slowest interval.                                                   *)
LEMMA Slowest == Slow \in Intervals /\ \A i \in Intervals : i <= Slow
BY AuthAssumption DEF Slow

Inc(n) == IF n < Modulus THEN n + 1 ELSE n

Least(i, j) == IF i < j THEN i ELSE j

SameFrame(f, g) ==
  /\ g.seq = f.seq /\ g.keyID = f.keyID /\ g.intact = f.intact
  /\ g.desiredMinTx = f.desiredMinTx /\ g.left = f.left

(* The histories of g are those of f, one frame later.                     *)
Aged(f, g, i, n) ==
  /\ g.life = f.life
  /\ g.since = IF f.life # life THEN f.since ELSE Inc(f.since)
  /\ g.changes = IF f.life # life THEN f.changes ELSE f.changes + n
  /\ g.pace = IF f.life # life THEN f.pace ELSE Least(i, f.pace)

(* Older, for a frame under way,                                           *)
LEMMA OlderFrame ==
  ASSUME NEW f \in Frames, NEW i \in Intervals, NEW n \in {0, 1}, f.changes + n <= MaxStateChanges,
         NEW g, g = Older(f, i, n)
  PROVE  g \in Frames /\ SameFrame(f, g) /\ Aged(f, g, i, n)
<1>1. CASE f.life # life BY <1>1 DEF Older, SameFrame, Aged
<1>2. CASE f.life = life
  <2>1. PICK a : a = Inc(f.since) OBVIOUS
  <2>2. PICK b : b = f.changes + n OBVIOUS
  <2>3. PICK c : c = Least(i, f.pace) OBVIOUS
  <2>4. a \in 0..Modulus /\ b \in 0..MaxStateChanges /\ c \in Intervals
    BY <2>1, <2>2, <2>3, AuthAssumption DEF Frames, Inc, Least
  <2>5. PICK x : x = [f EXCEPT !.since = a] OBVIOUS
  <2>6. PICK y : y = [x EXCEPT !.changes = b] OBVIOUS
  <2>7. g = [y EXCEPT !.pace = c]
    BY <1>2, <2>1, <2>2, <2>3, <2>5, <2>6 DEF Older, Inc, Least
  <2>8. /\ x \in Frames /\ SameFrame(f, x) /\ x.life = f.life /\ x.since = a
    BY <2>4, <2>5 DEF Frames, SameFrame
  <2>9. /\ y \in Frames /\ SameFrame(x, y) /\ y.life = x.life /\ y.since = x.since
        /\ y.changes = b
    BY <2>4, <2>6, <2>8 DEF Frames, SameFrame
  <2>10. /\ g \in Frames /\ SameFrame(y, g) /\ g.life = y.life /\ g.since = y.since
         /\ g.changes = y.changes /\ g.pace = c
    BY <2>4, <2>7, <2>9 DEF Frames, SameFrame
  <2>11. SameFrame(f, g) BY <2>8, <2>9, <2>10 DEF SameFrame
  <2>12. Aged(f, g, i, n) BY <1>2, <2>1, <2>2, <2>3, <2>8, <2>9, <2>10 DEF Aged
  <2> QED BY <2>10, <2>11, <2>12
<1> QED BY <1>1, <1>2

(* and for the last one accepted.                                          *)
LEMMA OlderLast ==
  ASSUME NEW f \in Lasts, NEW i \in Intervals, NEW n \in {0, 1}, f.changes + n <= MaxStateChanges,
         NEW g, g = Older(f, i, n)
  PROVE  g \in Lasts /\ Aged(f, g, i, n)
<1>1. CASE f.life # life BY <1>1 DEF Older, Aged
<1>2. CASE f.life = life
  <2>1. PICK a : a = Inc(f.since) OBVIOUS
  <2>2. PICK b : b = f.changes + n OBVIOUS
  <2>3. PICK c : c = Least(i, f.pace) OBVIOUS
  <2>4. a \in 0..Modulus /\ b \in 0..MaxStateChanges /\ c \in Intervals
    BY <2>1, <2>2, <2>3, AuthAssumption DEF Lasts, Inc, Least
  <2>5. PICK x : x = [f EXCEPT !.since = a] OBVIOUS
  <2>6. PICK y : y = [x EXCEPT !.changes = b] OBVIOUS
  <2>7. g = [y EXCEPT !.pace = c]
    BY <1>2, <2>1, <2>2, <2>3, <2>5, <2>6 DEF Older, Inc, Least
  <2>8. x \in Lasts /\ x.life = f.life /\ x.since = a
    BY <2>4, <2>5 DEF Lasts
  <2>9. y \in Lasts /\ y.life = x.life /\ y.since = x.since /\ y.changes = b
    BY <2>4, <2>6, <2>8 DEF Lasts
  <2>10. /\ g \in Lasts /\ g.life = y.life /\ g.since = y.since /\ g.changes = y.changes
         /\ g.pace = c
    BY <2>4, <2>7, <2>9 DEF Lasts
  <2>12. Aged(f, g, i, n) BY <1>2, <2>1, <2>2, <2>3, <2>8, <2>9, <2>10 DEF Aged
  <2> QED BY <2>10, <2>12
<1> QED BY <1>1, <1>2

(* The histories of a record of either kind are numbers.                   *)
Historied(r) == /\ r.life \in Int /\ r.since \in 0..Modulus /\ r.changes \in Nat
                /\ r.pace \in Intervals

(* Whoever sends keeps its pace: the timer fired, or a state changed; and  *)
(* the timer is armed again with at least three quarters of the interval.  *)
LEMMA PaceKept ==
  ASSUME NEW r, Historied(r), NEW i \in Intervals, NEW n \in {0, 1}, NEW s, Historied(s),
         Aged(r, s, i, n), NEW t \in Nat, NEW x \in Nat, NEW y \in Nat,
         n = 0 => x = 0, 4 * y >= 3 * i,
         Paced(r, t, x, life)
  PROVE  Paced(s, t, y, life)
<1>1. CASE r.life # life BY <1>1 DEF Paced, Aged
<1>2. CASE r.life = life
  <2>1. /\ r.pace \in Nat /\ s.pace \in Nat /\ s.pace <= r.pace /\ s.pace <= i /\ i \in Nat
    <3>1. r.pace \in Nat /\ s.pace \in Nat /\ i \in Nat BY AuthAssumption DEF Historied
    <3>2. s.pace = Least(i, r.pace) BY <1>2 DEF Aged
    <3> QED BY <3>1, <3>2 DEF Least
  <2>2. s.since - s.changes <= r.since - r.changes + (1 - n)
    BY <1>2, AuthAssumption DEF Historied, Aged, Inc
  <2>3. 4 * t >= 3 * (r.pace * (r.since - r.changes + (1 - n)))
    <3>1. CASE n = 0 BY <1>2, <2>1, <3>1 DEF Paced
    <3>2. CASE n = 1
      <4>1. r.since - r.changes + (1 - n) = r.since - r.changes BY <3>2 DEF Historied
      <4> QED BY <4>1 DEF Paced
    <3> QED BY <3>1, <3>2
  <2>4. 4 * t >= 3 * (s.pace * (s.since - s.changes))
    <3>1. /\ s.since - s.changes \in Int /\ r.since - r.changes + (1 - n) \in Int /\ 4 * t \in Nat
      BY DEF Historied
    <3> QED BY <2>1, <2>2, <2>3, <3>1, ScaleDown
  <2>5. 4 * (t + y) >= 3 * (s.pace * (s.since - s.changes + 1))
    <3>1. s.since - s.changes \in Int BY DEF Historied
    <3> QED BY <2>1, <2>4, <3>1, ArmedPace
  <2> QED BY <2>4, <2>5 DEF Paced
<1>3. r.life = life \/ r.life # life OBVIOUS
<1> QED BY <1>1, <1>2, <1>3

(* The next number.                                                        *)
LEMMA MarkNext ==
  ASSUME NEW a \in Seqs, NEW n \in Nat, n + 1 < Modulus
  PROVE  Mark(a, n) \in Seqs /\ Mark(a, n + 1) = (Mark(a, n) + 1) % Modulus
<1>1. Modulus \in Nat \ {0} BY AuthAssumption
<1>2. Mark(a, n) \in Seqs BY <1>1 DEF Mark, Seqs
<1>3. PICK x : x = Mark(a, n) OBVIOUS
<1>4. (x + 1) % Modulus = IF x + 1 < Modulus THEN x + 1 ELSE x + 1 - Modulus
  BY <1>1, <1>2, <1>3, OneTurn DEF Seqs
<1>5. Mark(a, n + 1) = IF x + 1 < Modulus THEN x + 1 ELSE x + 1 - Modulus
  BY <1>1, <1>3 DEF Mark, Seqs
<1> QED BY <1>2, <1>3, <1>4, <1>5

(* No turn at all.                                                         *)
LEMMA MarkZero ==
  ASSUME NEW a \in Seqs
  PROVE  Mark(a, 0) = a
BY AuthAssumption DEF Mark, Seqs

(* The elements of net are frames, and so on.                              *)
LEMMA Shapes ==
  ASSUME AuthTypeOK
  PROVE  /\ Modulus \in Nat \ {0} /\ DetectMult \in Nat \ {0} /\ MaxDelay \in Nat
         /\ Intervals \subseteq Nat \ {0} /\ Modulus > 3 * DetectMult
         /\ Len(net) \in Nat /\ DOMAIN net = 1..Len(net) /\ \A k \in DOMAIN net : net[k] \in Frames
         /\ life \in 0..MaxRestarts /\ last \in Lasts /\ txTimer \in Nat /\ lastPacketRecv \in Nat
         /\ detectTimer \in Nat /\ remoteDesiredMinTx \in Nat \ {0} /\ stateChanges \in Nat
         /\ XmitAuthSeq \in Seqs /\ RcvAuthSeq \in Seqs /\ MaxStateChanges \in Nat
         /\ calcDetectionTime \in Nat
<1>1. DetectMult \in Nat /\ remoteDesiredMinTx \in Nat BY AuthAssumption DEF AuthTypeOK
<1>2. calcDetectionTime \in Nat BY <1>1 DEF calcDetectionTime
<1>3. net \in Seq(Frames) BY DEF AuthTypeOK
<1>4. Len(net) \in Nat /\ DOMAIN net = 1..Len(net) /\ \A k \in DOMAIN net : net[k] \in Frames
  BY <1>3, LenProperties, ElementOfSeq
<1>5. DetectMult * Slow \in Nat BY <1>1, Slowest, AuthAssumption
<1>6. detectTimer \in Nat /\ lastPacketRecv \in Nat BY <1>5 DEF AuthTypeOK
<1>7. /\ Modulus \in Nat \ {0} /\ DetectMult \in Nat \ {0} /\ MaxDelay \in Nat
      /\ Intervals \subseteq Nat \ {0} /\ Modulus > 3 * DetectMult /\ MaxStateChanges \in Nat
  BY AuthAssumption
<1>8. /\ life \in 0..MaxRestarts /\ last \in Lasts /\ XmitAuthSeq \in Seqs /\ RcvAuthSeq \in Seqs
  BY DEF AuthTypeOK
<1>9. txTimer \in Nat /\ stateChanges \in Nat /\ remoteDesiredMinTx \in Nat \ {0}
  BY <1>7, Slowest DEF AuthTypeOK
<1> QED BY <1>2, <1>4, <1>6, <1>7, <1>8, <1>9

(* Frames and the last one accepted have histories.                        *)
LEMMA Histories ==
  /\ \A f \in Frames : Historied(f) /\ f.left \in 0..MaxDelay /\ f.seq \in Seqs
                       /\ f.life \in 0..MaxRestarts
  /\ \A r \in Lasts : Historied(r) /\ r.life \in -1..MaxRestarts
<1>1. MaxRestarts \in Nat /\ MaxStateChanges \in Nat BY AuthAssumption
<1> QED BY <1>1 DEF Frames, Lasts, Historied

(* How often others were sent is a number.                                 *)
LEMMA SinceNat ==
  ASSUME NEW r, Historied(r)
  PROVE  r.since \in Nat
<1>1. Modulus \in Nat BY AuthAssumption
<1>2. r.since \in 0..Modulus BY DEF Historied
<1> QED BY <1>1, <1>2

(* Of the time a frame may take, what has passed.                          *)
LEMMA Passed ==
  ASSUME NEW d \in Nat, NEW l \in 0..d
  PROVE  d - l \in Nat /\ d - l >= 0 /\ d - (l - 1) = (d - l) + 1
OBVIOUS

(* A life of the sender is one that the receiver may have heard of.        *)
LEMMA LifeHeard ==
  ASSUME NEW m \in Nat, NEW l \in 0..m
  PROVE  l >= 0 /\ l \in -1..m
OBVIOUS

(* A range holds its ends.                                                 *)
LEMMA Ends ==
  ASSUME NEW m \in Nat
  PROVE  0 \in 0..m /\ m \in 0..m /\ -1 \in -1..m
OBVIOUS

(* A part that grows no faster than the whole stays a part.                *)
LEMMA PartGrows ==
  ASSUME NEW a \in Nat, NEW b \in Nat, NEW n \in {0, 1}, a <= b, NEW c, c = a \/ c = a + n
  PROVE  c <= b + n
OBVIOUS

Sent(i, n) ==
  /\ sendControl(i, n) /\ txTimer' \in applyJitter(i) /\ interval' \in Intervals
  /\ stateChanges' = stateChanges + n /\ stateChanges + n <= MaxStateChanges /\ (n = 0 => txTimer = 0)
  /\ UNCHANGED <<currentKey, life, receiver, path>>

(* sendControl: what is under way afterwards.                              *)
LEMMA SentNet ==
  ASSUME AuthTypeOK, NEW i \in Intervals, NEW n \in {0, 1}, Sent(i, n),
         \A k \in DOMAIN net : net[k].changes <= stateChanges
  PROVE  /\ Sign \in Seqs
         /\ net' \in Seq(Frames) /\ Len(net') <= MaxInFlight
         /\ \A k \in DOMAIN net' :
              \/ net'[k] = Frame(Sign, i) /\ net'[k] \in Frames
              \/ /\ k \in DOMAIN net /\ net'[k] \in Frames
                 /\ SameFrame(net[k], net'[k]) /\ Aged(net[k], net'[k], i, n)
<1>1. Sign \in Seqs
  <2>1. XmitAuthSeq \in Seqs /\ Modulus \in Nat \ {0} BY Shapes
  <2>2. (XmitAuthSeq + 1) % Modulus \in Seqs BY <2>1 DEF Seqs
  <2> QED BY <2>1, <2>2 DEF Sign
<1>2. PICK F : F = Frame(Sign, i) OBVIOUS
<1>3. F \in Frames
  <2>0. Modulus \in Nat /\ MaxStateChanges \in Nat /\ MaxDelay \in Nat BY AuthAssumption
  <2>1. 0 \in 0..Modulus /\ 0 \in 0..MaxStateChanges /\ MaxDelay \in 0..MaxDelay BY <2>0, Ends, Zenon
  <2>2. currentKey \in SenderKeys /\ life \in 0..MaxRestarts BY DEF AuthTypeOK
  <2> QED BY <1>1, <1>2, <2>1, <2>2 DEF Frame, Frames
<1>4. PICK old : old = [k \in DOMAIN net |-> Older(net[k], i, n)] OBVIOUS
<1>5. ASSUME NEW k \in DOMAIN net
      PROVE  old[k] \in Frames /\ SameFrame(net[k], old[k]) /\ Aged(net[k], old[k], i, n)
  <2>1. net[k] \in Frames /\ net[k].changes + n <= MaxStateChanges
    <3>1. net[k] \in Frames /\ net[k].changes \in Nat BY Shapes, Histories DEF Historied
    <3>2. net[k].changes <= stateChanges /\ stateChanges \in Nat /\ stateChanges + n <= MaxStateChanges
      BY Shapes DEF Sent
    <3>3. MaxStateChanges \in Nat /\ n \in Nat BY AuthAssumption
    <3> QED BY <3>1, <3>2, <3>3
  <2>2. old[k] = Older(net[k], i, n) BY <1>4
  <2> QED BY <2>1, <2>2, OlderFrame
<1>6. old \in Seq(Frames) /\ Len(old) = Len(net) /\ DOMAIN old = DOMAIN net
  <2>1. old = [k \in 1..Len(net) |-> old[k]] BY <1>4, Shapes
  <2>2. Len(net) \in Nat /\ \A k \in 1..Len(net) : old[k] \in Frames BY <1>5, Shapes
  <2> QED BY <2>1, <2>2, Shapes
<1>7. net' = IF Len(net) < MaxInFlight THEN Append(old, F) ELSE old
  BY <1>2, <1>4 DEF Sent, sendControl
<1>8. CASE Len(net) < MaxInFlight
  <2>1. net' = Append(old, F) BY <1>7, <1>8
  <2>0. Len(net) \in Nat /\ DOMAIN net = 1..Len(net) BY Shapes
  <2>2. /\ net' \in Seq(Frames) /\ Len(net') = Len(net) + 1
        /\ net'[Len(net) + 1] = F /\ \A k \in 1..Len(net) : net'[k] = old[k]
    BY <1>3, <1>6, <2>0, <2>1, AppendProperties
  <2>5. DOMAIN net' = 1..(Len(net) + 1) BY <2>2, LenProperties
  <2>3. Len(net') <= MaxInFlight
    <3>1. MaxInFlight \in Nat BY AuthAssumption
    <3> QED BY <1>8, <2>0, <2>2, <3>1
  <2>4. \A k \in DOMAIN net' : k = Len(net) + 1 \/ k \in DOMAIN net BY <2>0, <2>5
  <2>6. ASSUME NEW k \in DOMAIN net'
        PROVE  \/ net'[k] = Frame(Sign, i) /\ net'[k] \in Frames
               \/ /\ k \in DOMAIN net /\ net'[k] \in Frames
                  /\ SameFrame(net[k], net'[k]) /\ Aged(net[k], net'[k], i, n)
    <3>1. CASE k = Len(net) + 1 BY <1>2, <1>3, <2>2, <3>1
    <3>2. CASE k \in DOMAIN net
      <4>1. net'[k] = old[k] BY <2>0, <2>2, <3>2
      <4> QED BY <1>5, <3>2, <4>1
    <3> QED BY <2>4, <3>1, <3>2
  <2> QED BY <1>1, <2>2, <2>3, <2>6
<1>9. CASE ~(Len(net) < MaxInFlight)
  <2>1. net' = old BY <1>7, <1>9
  <2>2. Len(net') <= MaxInFlight BY <1>6, <2>1 DEF AuthTypeOK
  <2> QED BY <1>1, <1>5, <1>6, <2>1, <2>2
<1> QED BY <1>8, <1>9

(* A jittered interval has at least three quarters of it.                  *)
LEMMA Jittered ==
  ASSUME NEW i \in Intervals, NEW t \in applyJitter(i)
  PROVE  t \in 1..i /\ t \in Nat /\ i \in Nat /\ 4 * t >= 3 * i
<1>1. i \in Nat BY AuthAssumption
<1>2. t \in 1..i /\ 4 * t >= 3 * i BY Zenon DEF applyJitter
<1> QED BY <1>1, <1>2

(* What is to hold of a frame after a step.                                *)
GoodNext(g, mk) ==
  /\ g.life <= life' /\ g.changes <= stateChanges'
  /\ Paced(g, MaxDelay - g.left, txTimer', life')
  /\ g.life = last'.life /\ g.since >= last'.since /\ g.since < Modulus
       => MaxDelay - g.left >= lastPacketRecv'
  /\ Numbered /\ g.intact /\ g.since < Modulus => Mark(g.seq, g.since) = mk[g.life]

(* Every frame under way is as it should be.                               *)
LEMMA AllGood ==
  ASSUME NEW mk, NEW k, GoodNext(net'[k], mk)
  PROVE  Good(net[k], mk)'
BY DEF Good, GoodNext

(* Sending keeps what is known of a frame under way,                       *)
LEMMA SentFrame ==
  ASSUME AuthTypeOK, NEW i \in Intervals, NEW n \in {0, 1}, Sent(i, n),
         NEW mk \in Marks, NEW m2, m2 = [mk EXCEPT ![life] = Sign],
         Numbered => mk[life] = XmitAuthSeq, Sign \in Seqs,
         NEW f \in Frames, Good(f, mk), NEW g \in Frames, SameFrame(f, g), Aged(f, g, i, n)
  PROVE  GoodNext(g, m2)
<1>1. /\ life \in 0..MaxRestarts /\ stateChanges \in Nat /\ txTimer \in Nat /\ lastPacketRecv \in Nat
      /\ last \in Lasts /\ Modulus \in Nat \ {0} /\ XmitAuthSeq \in Seqs /\ MaxDelay \in Nat
  BY Shapes
<1>2. life' = life /\ stateChanges' = stateChanges + n /\ lastPacketRecv' = lastPacketRecv
  BY DEF Sent, receiver
<1>3. /\ Historied(f) /\ f.left \in 0..MaxDelay /\ f.seq \in Seqs /\ f.life \in 0..MaxRestarts
      /\ Historied(g) /\ g.left = f.left /\ g.seq = f.seq /\ g.intact = f.intact
      /\ g.life = f.life
  BY Histories DEF SameFrame, Aged
<1>4. g.life <= life' /\ g.changes <= stateChanges'
  <2>1. f.life <= life /\ f.changes <= stateChanges /\ f.changes \in Nat BY <1>3 DEF Good, Historied
  <2>2. g.changes = f.changes \/ g.changes = f.changes + n BY DEF Aged
  <2>3. g.life <= life' BY <1>2, <1>3, <2>1, Zenon
  <2>4. stateChanges \in Nat BY <1>1, Zenon
  <2>5. g.changes <= stateChanges + n BY <2>1, <2>2, <2>4, PartGrows, Zenon
  <2> QED BY <1>2, <2>3, <2>5, Zenon
<1>5. Paced(g, MaxDelay - g.left, txTimer', life')
  <2>1. Paced(f, MaxDelay - f.left, txTimer, life) BY DEF Good
  <2>2. txTimer' \in Nat /\ 4 * txTimer' >= 3 * i
    <3>1. txTimer' \in applyJitter(i) BY DEF Sent
    <3> QED BY <3>1, Jittered
  <2>3. MaxDelay - f.left \in Nat BY <1>1, <1>3, Passed, Zenon
  <2>4. n = 0 => txTimer = 0 BY DEF Sent
  <2>5. Paced(g, MaxDelay - f.left, txTimer', life)
    <3>1. Historied(f) /\ Historied(g) /\ txTimer \in Nat BY <1>1, <1>3, Zenon
    <3>2. PICK t \in Nat : t = MaxDelay - f.left BY <2>3, Zenon
    <3>3. Paced(f, t, txTimer, life) BY <2>1, <3>2, Zenon
    <3>4. Paced(g, t, txTimer', life) BY <2>2, <2>4, <3>1, <3>3, PaceKept
    <3> QED BY <3>2, <3>4, Zenon
  <2> QED BY <1>2, <1>3, <2>5
<1>6. ASSUME g.life = last'.life, g.since >= last'.since, g.since < Modulus
      PROVE  MaxDelay - g.left >= lastPacketRecv'
  <2>2. last' = Older(last, i, n) BY DEF Sent, sendControl
  <2>3. last'.life = last.life /\ last'.since = IF last.life # life THEN last.since ELSE Inc(last.since)
    <3>1. PICK a, b, c : last' = IF last.life # life THEN last
                                 ELSE [last EXCEPT !.since = Inc(last.since), !.changes = b, !.pace = c]
      BY <2>2 DEF Older, Inc
    <3> QED BY <1>1, <3>1 DEF Lasts
  <2>4. f.life = last.life /\ g.since = IF f.life # life THEN f.since ELSE Inc(f.since)
    BY <1>6, <2>3 DEF Aged
  <2>5. f.since \in 0..Modulus /\ last.since \in 0..Modulus BY <1>1, <1>3 DEF Historied, Lasts
  <2>6. f.since >= last.since /\ f.since < Modulus BY <1>1, <1>6, <2>3, <2>4, <2>5 DEF Inc
  <2>7. MaxDelay - f.left >= lastPacketRecv BY <2>4, <2>6 DEF Good
  <2> QED BY <1>2, <1>3, <2>7
<1>7. ASSUME Numbered, g.intact, g.since < Modulus
      PROVE  Mark(g.seq, g.since) = m2[g.life]
  <2>1. f.since \in 0..Modulus BY <1>3 DEF Historied
  <2>2. CASE f.life # life
    <3>1. m2[g.life] = mk[f.life] BY <1>1, <1>3, <2>2 DEF Marks
    <3>2. g.since = f.since BY <2>2 DEF Aged
    <3> QED BY <1>3, <1>7, <3>1, <3>2 DEF Good
  <2>3. CASE f.life = life
    <3>1. m2[g.life] = Sign BY <1>1, <1>3, <2>3 DEF Marks
    <3>2. g.since = Inc(f.since) BY <2>3 DEF Aged
    <3>3. f.since \in Nat /\ f.since + 1 < Modulus /\ g.since = f.since + 1
      BY <1>1, <1>7, <2>1, <3>2 DEF Inc
    <3>4. Mark(f.seq, f.since) = XmitAuthSeq
      <4>0. Modulus \in Nat BY <1>1, Zenon
      <4>1. f.since < Modulus BY <3>3, <4>0
      <4>2. f.intact BY <1>3, <1>7, Zenon
      <4> QED BY <1>7, <2>3, <4>1, <4>2 DEF Good
    <3>5. Mark(f.seq, f.since + 1) = (XmitAuthSeq + 1) % Modulus BY <1>3, <3>3, <3>4, MarkNext
    <3> QED BY <1>3, <1>7, <3>1, <3>3, <3>5 DEF Sign
  <2> QED BY <2>2, <2>3
<1> QED BY <1>4, <1>5, <1>6, <1>7 DEF GoodNext

(* of the new one,                                                         *)
LEMMA SentNew ==
  ASSUME AuthTypeOK, NEW i \in Intervals, NEW n \in {0, 1}, Sent(i, n),
         NEW mk \in Marks, NEW m2, m2 = [mk EXCEPT ![life] = Sign], Sign \in Seqs,
         NEW g, g = Frame(Sign, i), last' \in Lasts, Aged(last, last', i, n)
  PROVE  GoodNext(g, m2)
<1>1. /\ life \in 0..MaxRestarts /\ stateChanges \in Nat
      /\ last \in Lasts /\ Modulus \in Nat \ {0} /\ MaxDelay \in Nat
  BY Shapes
<1>2. life' = life /\ stateChanges' = stateChanges + n BY DEF Sent
<1>3. /\ g.seq = Sign /\ g.left = MaxDelay /\ g.life = life /\ g.since = 0 /\ g.changes = 0
      /\ g.pace = i
  BY DEF Frame
<1>4. g.life <= life' /\ g.changes <= stateChanges' BY <1>1, <1>2, <1>3
<1>5. Paced(g, MaxDelay - g.left, txTimer', life')
  <2>1. i \in Nat BY AuthAssumption
  <2>2. txTimer' \in Nat /\ 4 * txTimer' >= 3 * i
    <3>1. txTimer' \in applyJitter(i) BY DEF Sent
    <3> QED BY <3>1, Jittered
  <2>3. MaxDelay - g.left = 0 /\ g.since - g.changes = 0 BY <1>1, <1>3
  <2>4. g.pace * 0 = 0 /\ g.pace * (0 + 1) = i BY <1>3, <2>1
  <2>5. 4 * 0 >= 3 * (g.pace * 0) BY <2>4
  <2>6. 4 * (0 + txTimer') >= 3 * (g.pace * (0 + 1))
    <3>1. \A y \in Nat : 0 + y = y OBVIOUS
    <3>2. 0 + txTimer' = txTimer' BY <2>2, <3>1, Zenon
    <3> QED BY <2>2, <2>4, <3>2, Zenon
  <2> QED BY <2>3, <2>5, <2>6 DEF Paced
<1>6. ~(g.life = last'.life /\ g.since >= last'.since)
  <2>1. last'.life = last.life /\ (last.life = life => last'.since = Inc(last.since)) BY DEF Aged
  <2>2. last.since \in 0..Modulus BY <1>1 DEF Lasts
  <2>3. Inc(last.since) \in Nat /\ Inc(last.since) > 0 BY <1>1, <2>2 DEF Inc
  <2>4. CASE last.life = life
    <3>1. \A x \in Nat : x > 0 => ~(0 >= x) OBVIOUS
    <3>2. ~(0 >= Inc(last.since)) BY <2>3, <3>1, Zenon
    <3>3. g.since = 0 /\ last'.since = Inc(last.since) BY <1>3, <2>1, <2>4, Zenon
    <3> QED BY <3>2, <3>3, Zenon
  <2>5. CASE last.life # life BY <1>3, <2>1, <2>5
  <2> QED BY <2>4, <2>5
<1>7. Mark(g.seq, g.since) = m2[g.life]
  <2>1. m2[life] = Sign BY <1>1 DEF Marks
  <2> QED BY <1>3, <2>1, MarkZero
<1> QED BY <1>4, <1>5, <1>6, <1>7 DEF GoodNext

(* and of the last one accepted.                                           *)
LEMMA SentLast ==
  ASSUME AuthTypeOK, ResetInv, NEW i \in Intervals, NEW n \in {0, 1}, Sent(i, n),
         NEW mk \in Marks, NEW m2, m2 = [mk EXCEPT ![life] = Sign],
         Numbered => mk[life] = XmitAuthSeq, GoodLast(mk),
         last' \in Lasts, Aged(last, last', i, n)
  PROVE  GoodLast(m2)'
<1>1. /\ life \in 0..MaxRestarts /\ stateChanges \in Nat /\ txTimer \in Nat /\ lastPacketRecv \in Nat
      /\ last \in Lasts /\ Modulus \in Nat \ {0} /\ XmitAuthSeq \in Seqs /\ MaxDelay \in Nat
      /\ RcvAuthSeq \in Seqs
  BY Shapes
<1>2. /\ life' = life /\ stateChanges' = stateChanges + n /\ lastPacketRecv' = lastPacketRecv
      /\ AuthSeqKnown' = AuthSeqKnown /\ RcvAuthSeq' = RcvAuthSeq
  BY DEF Sent, receiver
<1>3. Historied(last) /\ Historied(last') /\ last.life \in -1..MaxRestarts /\ last'.life = last.life
  BY <1>1, Histories DEF Aged
<1>4. last'.life <= life' /\ last'.changes <= stateChanges'
  <2>1. last.life <= life /\ last.changes <= stateChanges /\ last.changes \in Nat
    BY <1>3 DEF GoodLast, Historied
  <2>2. last'.changes = last.changes \/ last'.changes = last.changes + n BY DEF Aged
  <2>3. last'.life <= life' BY <1>2, <1>3, <2>1, Zenon
  <2>4. stateChanges \in Nat BY <1>1, Zenon
  <2>5. last'.changes <= stateChanges + n BY <2>1, <2>2, <2>4, PartGrows, Zenon
  <2> QED BY <1>2, <2>3, <2>5, Zenon
<1>5. ASSUME AuthSeqKnown
      PROVE  Paced(last', lastPacketRecv + MaxDelay, txTimer', life)
  <2>1. Paced(last, lastPacketRecv + MaxDelay, txTimer, life) BY <1>5 DEF GoodLast
  <2>2. txTimer' \in Nat /\ 4 * txTimer' >= 3 * i
    <3>1. txTimer' \in applyJitter(i) BY DEF Sent
    <3> QED BY <3>1, Jittered
  <2>3. lastPacketRecv + MaxDelay \in Nat BY <1>1
  <2>4. n = 0 => txTimer = 0 BY DEF Sent
  <2>5. Historied(last) /\ Historied(last') /\ txTimer \in Nat BY <1>1, <1>3, Zenon
  <2>6. PICK t \in Nat : t = lastPacketRecv + MaxDelay BY <2>3, Zenon
  <2>7. Paced(last, t, txTimer, life) BY <2>1, <2>6, Zenon
  <2>8. Paced(last', t, txTimer', life) BY <2>2, <2>4, <2>5, <2>7, PaceKept
  <2> QED BY <2>6, <2>8, Zenon
<1>6. ASSUME AuthSeqKnown, last'.since < Modulus
      PROVE  Mark(RcvAuthSeq, last'.since) = m2[last'.life]
  <2>0. Numbered /\ last.life >= 0 BY <1>6 DEF ResetInv
  <2>1. last.since \in 0..Modulus /\ last.life \in 0..MaxRestarts
    <3>1. \A m \in Nat : \A l \in -1..m : l >= 0 => l \in 0..m OBVIOUS
    <3>2. MaxRestarts \in Nat BY AuthAssumption
    <3>3. last.life \in 0..MaxRestarts BY <1>3, <2>0, <3>1, <3>2, Zenon
    <3>4. last.since \in 0..Modulus BY <1>3, Zenon DEF Historied
    <3> QED BY <3>3, <3>4
  <2>2. CASE last.life # life
    <3>1. m2[last'.life] = mk[last.life] BY <1>1, <1>3, <2>1, <2>2 DEF Marks
    <3>2. last'.since = last.since BY <2>2 DEF Aged
    <3> QED BY <1>3, <1>6, <3>1, <3>2 DEF GoodLast
  <2>3. CASE last.life = life
    <3>1. m2[last'.life] = Sign BY <1>1, <1>3, <2>3 DEF Marks
    <3>2. last'.since = Inc(last.since) BY <2>3 DEF Aged
    <3>3. last.since \in Nat /\ last.since + 1 < Modulus /\ last'.since = last.since + 1
      BY <1>1, <1>6, <2>1, <3>2 DEF Inc
    <3>4. Mark(RcvAuthSeq, last.since) = XmitAuthSeq
      <4>1. last.since < Modulus BY <1>1, <3>3
      <4> QED BY <1>6, <2>0, <2>3, <4>1 DEF GoodLast
    <3>5. Mark(RcvAuthSeq, last.since + 1) = (XmitAuthSeq + 1) % Modulus
      BY <1>1, <3>3, <3>4, MarkNext
    <3> QED BY <2>0, <3>1, <3>3, <3>5 DEF Sign
  <2> QED BY <2>2, <2>3
<1> QED BY <1>2, <1>4, <1>5, <1>6 DEF GoodLast

(* Sending keeps the invariant.                                            *)
LEMMA SendKept ==
  ASSUME AuthInv, NEW i \in Intervals, NEW n \in {0, 1}, Sent(i, n)
  PROVE  AuthInv'
<1> USE DEF AuthInv
<1>1. PICK mk \in Marks : /\ Numbered => mk[life] = XmitAuthSeq
                          /\ \A k \in DOMAIN net : Good(net[k], mk)
                          /\ GoodLast(mk)
  BY DEF MarkInv
<1>2. /\ life \in 0..MaxRestarts /\ last \in Lasts /\ \A k \in DOMAIN net : net[k] \in Frames
      /\ stateChanges \in Nat
  BY Shapes
<1>3. \A k \in DOMAIN net : net[k].changes <= stateChanges BY <1>1 DEF Good
<1>4. /\ Sign \in Seqs
      /\ net' \in Seq(Frames) /\ Len(net') <= MaxInFlight
      /\ \A k \in DOMAIN net' :
           \/ net'[k] = Frame(Sign, i) /\ net'[k] \in Frames
           \/ /\ k \in DOMAIN net /\ net'[k] \in Frames
              /\ SameFrame(net[k], net'[k]) /\ Aged(net[k], net'[k], i, n)
  BY <1>3, SentNet
<1>5. last' \in Lasts /\ Aged(last, last', i, n)
  <2>1. last' = Older(last, i, n) BY DEF Sent, sendControl
  <2>2. last.changes <= stateChanges /\ last.changes \in Nat /\ stateChanges + n <= MaxStateChanges
    BY <1>1, <1>2, Histories DEF GoodLast, Historied, Sent
  <2>3. MaxStateChanges \in Nat BY AuthAssumption
  <2>4. last.changes + n <= MaxStateChanges BY <1>2, <2>2, <2>3
  <2> QED BY <1>2, <2>1, <2>4, OlderLast
<1>6. PICK m2 : m2 = [mk EXCEPT ![life] = Sign] OBVIOUS
<1>7. m2 \in Marks /\ m2[life] = Sign BY <1>2, <1>4, <1>6 DEF Marks
<1>8. /\ XmitAuthSeq' = Sign /\ life' = life BY DEF Sent, sendControl
<1>9. ASSUME NEW k \in DOMAIN net' PROVE Good(net[k], m2)'
  <2>1. CASE net'[k] = Frame(Sign, i)
    <3>1. GoodNext(net'[k], m2) BY <1>4, <1>5, <1>6, <2>1, SentNew, Zenon
    <3> QED BY <3>1, AllGood
  <2>2. CASE /\ k \in DOMAIN net /\ net'[k] \in Frames
             /\ SameFrame(net[k], net'[k]) /\ Aged(net[k], net'[k], i, n)
    <3>1. net[k] \in Frames /\ Good(net[k], mk) BY <1>1, <1>2, <2>2
    <3>2. PICK f \in Frames : f = net[k] BY <3>1
    <3>3. PICK g \in Frames : g = net'[k] BY <2>2
    <3>4. Good(f, mk) /\ SameFrame(f, g) /\ Aged(f, g, i, n) BY <2>2, <3>1, <3>2, <3>3
    <3>5. GoodNext(g, m2) BY <1>1, <1>4, <1>6, <3>4, SentFrame, Zenon
    <3>6. GoodNext(net'[k], m2) BY <3>3, <3>5
    <3> QED BY <3>6, AllGood
  <2> QED BY <1>4, <2>1, <2>2
<1>10. GoodLast(m2)' BY <1>1, <1>5, <1>6, SentLast
<1>11. MarkInv' BY <1>7, <1>8, <1>9, <1>10 DEF MarkInv
<1>12. ResetInv'
  <2>1. last'.life = last.life BY <1>5 DEF Aged
  <2>2. UNCHANGED receiver BY DEF Sent
  <2> QED BY <2>1, <2>2 DEF ResetInv, receiver, calcDetectionTime
<1>13. AuthTypeOK'
  <2>1. stateChanges' \in 0..MaxStateChanges
    <3>1. stateChanges' = stateChanges + n /\ stateChanges + n <= MaxStateChanges /\ MaxStateChanges \in Nat
      BY AuthAssumption DEF Sent
    <3> QED BY <1>2, <3>1
  <2>2. txTimer' \in 0..Slow
    <3>1. txTimer' \in 1..i /\ i \in Nat BY Jittered DEF Sent
    <3>2. Slow \in Nat /\ i <= Slow BY Slowest, AuthAssumption
    <3> QED BY <3>1, <3>2
  <2>3. interval' \in Intervals /\ UNCHANGED <<currentKey, path>> BY DEF Sent
  <2>4. /\ UNCHANGED <<RcvAuthSeq, AuthSeqKnown, remoteDesiredMinTx, detectTimer>>
        /\ UNCHANGED lastPacketRecv
    BY DEF Sent, receiver
  <2> QED BY <1>4, <1>5, <1>8, <2>1, <2>2, <2>3, <2>4 DEF AuthTypeOK
<1> QED BY <1>11, <1>12, <1>13

(* Both ways to send.                                                      *)
LEMMA SendersKept ==
  ASSUME AuthInv, handleTxTimer \/ \E i \in Intervals : StateChange(i)
  PROVE  AuthInv'
<1>1. stateChanges \in 0..MaxStateChanges /\ MaxStateChanges \in Nat /\ interval \in Intervals
  BY AuthAssumption DEF AuthInv, AuthTypeOK
<1>2. CASE handleTxTimer
  <2>1. stateChanges + 0 = stateChanges /\ stateChanges <= MaxStateChanges BY <1>1
  <2>2. Sent(interval, 0) BY <1>1, <1>2, <2>1 DEF handleTxTimer, Sent
  <2> QED BY <1>1, <2>2, SendKept
<1>3. ASSUME NEW i \in Intervals, StateChange(i) PROVE AuthInv'
  <2>1. stateChanges < MaxStateChanges BY <1>3 DEF StateChange
  <2>2. stateChanges + 1 <= MaxStateChanges BY <1>1, <2>1
  <2>3. Sent(i, 1) BY <1>3, <2>2 DEF StateChange, Sent
  <2> QED BY <2>3, SendKept
<1> QED BY <1>2, <1>3

(* A restart begins a life of its own.                                     *)
LEMMA RestartKept ==
  ASSUME AuthInv, NewAuthState
  PROVE  AuthInv'
<1> USE DEF AuthInv
<1>1. PICK mk \in Marks : /\ Numbered => mk[life] = XmitAuthSeq
                          /\ \A k \in DOMAIN net : Good(net[k], mk)
                          /\ GoodLast(mk)
  BY DEF MarkInv
<1>2. /\ life \in 0..MaxRestarts /\ last \in Lasts /\ \A k \in DOMAIN net : net[k] \in Frames
      /\ stateChanges \in Nat /\ MaxRestarts \in Nat /\ Modulus \in Nat
  BY Shapes, AuthAssumption
<1>3. /\ life < MaxRestarts /\ life' = life + 1 /\ XmitAuthSeq' \in FirstSeqs
      /\ currentKey' \in SenderKeys /\ interval' = Slow /\ txTimer' \in applyJitter(Slow)
      /\ UNCHANGED <<stateChanges, net, path, last>>
      /\ UNCHANGED <<RcvAuthSeq, AuthSeqKnown, remoteDesiredMinTx, detectTimer, lastPacketRecv>>
  BY DEF NewAuthState, receiver
<1>4. life' \in 0..MaxRestarts /\ life' # life /\ XmitAuthSeq' \in Seqs
  BY <1>2, <1>3, AuthAssumption DEF Seqs
<1>5. AuthTypeOK'
  <2>1. txTimer' \in 0..Slow
    <3>1. Slow \in Intervals BY Slowest
    <3>2. txTimer' \in 1..Slow /\ Slow \in Nat BY <1>3, <3>1, Jittered
    <3> QED BY <3>2
  <2> QED BY <1>3, <1>4, <2>1, Slowest DEF AuthTypeOK
<1>6. ResetInv' BY <1>3 DEF ResetInv, calcDetectionTime
<1>7. PICK m2 : m2 = [mk EXCEPT ![life'] = XmitAuthSeq'] OBVIOUS
<1>8. /\ m2 \in Marks /\ m2[life'] = XmitAuthSeq'
      /\ \A l \in 0..MaxRestarts : l <= life => m2[l] = mk[l]
  BY <1>2, <1>3, <1>4, <1>7 DEF Marks
<1>9. ASSUME NEW r, NEW t, r.life \in Int, r.life <= life, Paced(r, t, txTimer, life)
      PROVE  Paced(r, t, txTimer', life') /\ r.life <= life'
  <2>1. r.life # life' /\ r.life <= life' BY <1>2, <1>3, <1>9
  <2> QED BY <1>9, <2>1 DEF Paced
<1>10. ASSUME NEW k \in DOMAIN net PROVE Good(net[k], m2)'
  <2>1. PICK f \in Frames : f = net[k] BY <1>2
  <2>2. Good(f, mk) BY <1>1, <2>1
  <2>3. f.life \in 0..MaxRestarts BY Histories
  <2>4. f.life <= life /\ Paced(f, MaxDelay - f.left, txTimer, life) BY <2>2 DEF Good
  <2>5. Paced(f, MaxDelay - f.left, txTimer', life') /\ f.life <= life' BY <1>9, <2>3, <2>4
  <2>6. m2[f.life] = mk[f.life] BY <1>8, <2>3, <2>4
  <2>7. GoodNext(f, m2) BY <1>3, <2>2, <2>5, <2>6 DEF Good, GoodNext
  <2>8. f = net'[k] BY <1>3, <2>1
  <2> QED BY <2>7, <2>8, AllGood
<1>11. GoodLast(m2)'
  <2>1. last.life \in -1..MaxRestarts BY <1>2, Histories
  <2>2. last.life <= life BY <1>1 DEF GoodLast
  <2>3. AuthSeqKnown => last.life \in 0..MaxRestarts BY <1>2, <2>1 DEF ResetInv
  <2>4. last.life <= life' BY <1>2, <1>3, <2>1, <2>2
  <2>5. AuthSeqKnown => m2[last.life] = mk[last.life] BY <1>8, <2>2, <2>3
  <2>6. AuthSeqKnown => Paced(last, lastPacketRecv + MaxDelay, txTimer', life')
    BY <1>1, <1>9, <2>1, <2>2 DEF GoodLast
  <2> QED BY <1>1, <1>3, <2>4, <2>5, <2>6 DEF GoodLast
<1>12. MarkInv'
  <2>1. DOMAIN net' = DOMAIN net /\ net' = net BY <1>3
  <2>2. \A k \in DOMAIN net' : Good(net[k], m2)' BY <1>10, <2>1
  <2> QED BY <1>8, <1>11, <2>2 DEF MarkInv
<1> QED BY <1>5, <1>6, <1>12

-----------------------------------------------------------------------------
(* The path                                                                *)

(* g is f, perhaps damaged.                                                *)
Alike(f, g) ==
  /\ g.life = f.life /\ g.since = f.since /\ g.changes = f.changes /\ g.pace = f.pace
  /\ g.left = f.left /\ (g.intact => f.intact /\ g.seq = f.seq)

Thinned ==
  /\ net' \in Seq(Frames) /\ Len(net') <= MaxInFlight
  /\ \A j \in DOMAIN net' : \E l \in DOMAIN net : net'[j] \in Frames /\ Alike(net[l], net'[j])

(* A path that loses, duplicates, reorders and damages keeps the           *)
(* invariant.                                                              *)
LEMMA PathKept ==
  ASSUME AuthInv, Thinned, UNCHANGED <<sender, receiver, last>>, path' \in {"good", "bad"}
  PROVE  AuthInv'
<1> USE DEF AuthInv
<1>1. PICK mk \in Marks : /\ Numbered => mk[life] = XmitAuthSeq
                          /\ \A k \in DOMAIN net : Good(net[k], mk)
                          /\ GoodLast(mk)
  BY DEF MarkInv
<1>2. /\ UNCHANGED <<XmitAuthSeq, currentKey, interval, txTimer, life, stateChanges, last>>
      /\ UNCHANGED <<RcvAuthSeq, AuthSeqKnown, remoteDesiredMinTx, detectTimer, lastPacketRecv>>
  BY DEF sender, receiver
<1>3. ASSUME NEW j \in DOMAIN net' PROVE Good(net[j], mk)'
  <2>1. PICK l \in DOMAIN net : Alike(net[l], net'[j]) BY DEF Thinned
  <2>2. PICK f : f = net[l] OBVIOUS
  <2>3. PICK g : g = net'[j] OBVIOUS
  <2>4. Good(f, mk) /\ Alike(f, g) BY <1>1, <2>1, <2>2, <2>3
  <2>5. Paced(g, MaxDelay - g.left, txTimer', life') BY <1>2, <2>4 DEF Good, Alike, Paced
  <2>6. GoodNext(g, mk) BY <1>2, <2>4, <2>5 DEF Good, Alike, GoodNext
  <2> QED BY <2>3, <2>6, AllGood
<1>4. GoodLast(mk)' BY <1>1, <1>2 DEF GoodLast, Paced
<1>5. MarkInv' BY <1>1, <1>2, <1>3, <1>4 DEF MarkInv
<1>6. ResetInv' BY <1>2 DEF ResetInv, calcDetectionTime
<1>7. AuthTypeOK' BY <1>2 DEF AuthTypeOK, Thinned
<1> QED BY <1>5, <1>6, <1>7

(* One frame less.                                                         *)
LEMMA WithoutOne ==
  ASSUME AuthTypeOK, NEW k \in DOMAIN net, net' = Without(k)
  PROVE  /\ net' \in Seq(Frames) /\ Len(net') <= MaxInFlight
         /\ \A j \in DOMAIN net' : \E l \in DOMAIN net : net'[j] = net[l]
<1>1. /\ Len(net) \in Nat /\ DOMAIN net = 1..Len(net) /\ \A j \in DOMAIN net : net[j] \in Frames
      /\ MaxInFlight \in Nat
  BY Shapes, AuthAssumption
<1>2. PICK n : n = Len(net) - 1 OBVIOUS
<1>3. n \in Nat /\ k \in 1..(n + 1) /\ DOMAIN net = 1..(n + 1) /\ n < Len(net) BY <1>1, <1>2
<1>4. net' = [j \in 1..n |-> IF j < k THEN net[j] ELSE net[j + 1]] BY <1>2 DEF Without
<1>5. \A j \in 1..n : \E l \in DOMAIN net : net'[j] = net[l]
  <2>1. SUFFICES ASSUME NEW j \in 1..n PROVE \E l \in DOMAIN net : net'[j] = net[l] OBVIOUS
  <2>2. j \in DOMAIN net /\ j + 1 \in DOMAIN net BY <1>3
  <2>3. net'[j] = net[j] \/ net'[j] = net[j + 1] BY <1>4
  <2> QED BY <2>2, <2>3
<1>6. \A j \in 1..n : net'[j] \in Frames BY <1>1, <1>5
<1>7. DOMAIN net' = 1..n /\ net' = [j \in 1..n |-> net'[j]] BY <1>4
<1>8. net' \in Seq(Frames) /\ Len(net') = n BY <1>3, <1>6, <1>7
<1>9. Len(net) <= MaxInFlight BY DEF AuthTypeOK
<1>10. Len(net') <= MaxInFlight BY <1>1, <1>3, <1>8, <1>9
<1> QED BY <1>5, <1>7, <1>8, <1>10

(* What is taken from the path leaves only frames of the path.             *)
LEMMA TakenThins ==
  ASSUME AuthTypeOK, NEW k \in DOMAIN net, net' = Without(k) \/ net' = net
  PROVE  Thinned
<1>1. \A j \in DOMAIN net : net[j] \in Frames BY Shapes
<1>2. /\ net' \in Seq(Frames) /\ Len(net') <= MaxInFlight
      /\ \A j \in DOMAIN net' : \E l \in DOMAIN net : net'[j] = net[l]
  <2>1. CASE net' = net BY <2>1 DEF AuthTypeOK
  <2>2. CASE net' = Without(k) BY <2>2, WithoutOne
  <2> QED BY <2>1, <2>2
<1>3. \A f : Alike(f, f) BY DEF Alike
<1> QED BY <1>1, <1>2, <1>3, Zenon DEF Thinned

(* Discard and Lose and a change of the path.                              *)
LEMMA LossKept ==
  ASSUME AuthInv, ChangePath \/ \E k \in DOMAIN net : Discard(k) \/ Lose(k)
  PROVE  AuthInv'
<1>0. AuthTypeOK BY DEF AuthInv
<1>1. CASE ChangePath
  <2>1. \A j \in DOMAIN net : net[j] \in Frames BY <1>0, Shapes
  <2>2. \A f : Alike(f, f) BY DEF Alike
  <2>3. net' = net BY <1>1 DEF ChangePath
  <2>4. net \in Seq(Frames) /\ Len(net) <= MaxInFlight BY <1>0 DEF AuthTypeOK
  <2>5. Thinned BY <2>1, <2>2, <2>3, <2>4, Zenon DEF Thinned
  <2>6. UNCHANGED <<sender, receiver, last>> /\ path' \in {"good", "bad"} BY <1>1 DEF ChangePath
  <2> QED BY <2>5, <2>6, PathKept
<1>2. ASSUME NEW k \in DOMAIN net, Discard(k) \/ Lose(k) PROVE AuthInv'
  <2>1. net' = Without(k) \/ net' = net BY <1>2 DEF Discard, Lose, Taken
  <2>2. Thinned BY <1>0, <2>1, TakenThins
  <2>3. UNCHANGED <<sender, receiver, last, path>> BY <1>2 DEF Discard, Lose
  <2>4. path' \in {"good", "bad"} BY <1>0, <2>3 DEF AuthTypeOK
  <2> QED BY <2>2, <2>3, <2>4, PathKept
<1> QED BY <1>1, <1>2

(* A damaged frame.                                                        *)
LEMMA DamageKept ==
  ASSUME AuthInv, NEW k \in DOMAIN net, Damage(k)
  PROVE  AuthInv'
<1>0. AuthTypeOK BY DEF AuthInv
<1>1. PICK e \in BitErrors :
        net' = [net EXCEPT ![k].seq = (@ + e) % Modulus, ![k].intact = FALSE]
  BY DEF Damage
<1>2. /\ Len(net) \in Nat /\ DOMAIN net = 1..Len(net) /\ \A j \in DOMAIN net : net[j] \in Frames
      /\ Modulus \in Nat \ {0}
  BY <1>0, Shapes
<1>3. PICK f \in Frames : f = net[k] BY <1>2
<1>4. PICK s : s = (f.seq + e) % Modulus OBVIOUS
<1>5. s \in Seqs
  <2>1. f.seq \in Nat /\ e \in Nat BY <1>2, Histories, AuthAssumption DEF Seqs
  <2> QED BY <1>2, <1>4, <2>1 DEF Seqs
<1>6. PICK h : h = [f EXCEPT !.seq = s] OBVIOUS
<1>7. PICK g : g = [h EXCEPT !.intact = FALSE] OBVIOUS
<1>8. net' = [net EXCEPT ![k] = g] BY <1>1, <1>3, <1>4, <1>6, <1>7
<1>9. h \in Frames /\ h.life = f.life /\ h.since = f.since /\ h.changes = f.changes
      /\ h.pace = f.pace /\ h.left = f.left
  BY <1>5, <1>6 DEF Frames
<1>10. g \in Frames /\ g.life = h.life /\ g.since = h.since /\ g.changes = h.changes
       /\ g.pace = h.pace /\ g.left = h.left /\ ~g.intact
  BY <1>7, <1>9 DEF Frames
<1>11. Alike(f, g) BY <1>9, <1>10 DEF Alike
<1>12. \A a : Alike(a, a) BY DEF Alike
<1>13. DOMAIN net' = DOMAIN net /\ net'[k] = g /\ \A j \in DOMAIN net : j # k => net'[j] = net[j]
  BY <1>8
<1>14. \A j \in DOMAIN net : net'[j] \in Frames /\ Alike(net[j], net'[j])
  BY <1>2, <1>3, <1>10, <1>11, <1>12, <1>13, Zenon
<1>15. net' \in Seq(Frames) /\ Len(net') = Len(net)
  <2>1. net' = [j \in 1..Len(net) |-> net'[j]] BY <1>2, <1>8
  <2> QED BY <1>2, <1>14, <2>1
<1>16. Thinned
  <2>1. Len(net') <= MaxInFlight BY <1>0, <1>15 DEF AuthTypeOK
  <2> QED BY <1>13, <1>14, <1>15, <2>1 DEF Thinned
<1>17. UNCHANGED <<sender, receiver, last, path>> BY DEF Damage
<1>18. path' \in {"good", "bad"} BY <1>0, <1>17 DEF AuthTypeOK
<1> QED BY <1>16, <1>17, <1>18, PathKept

-----------------------------------------------------------------------------
(* The receiver and the clock                                              *)

(* The detection time is at most that of the slowest interval.             *)
LEMMA CalcBound ==
  ASSUME NEW r \in Intervals
  PROVE  /\ DetectMult * r \in Nat \ {0} /\ DetectMult * Slow \in Nat
         /\ DetectMult * r <= DetectMult * Slow
<1>1. /\ DetectMult \in Nat \ {0} /\ r \in Nat \ {0} /\ Slow \in Nat /\ r <= Slow
  BY Slowest, AuthAssumption
<1> QED BY <1>1

(* Paces and counts are integers.                                          *)
LEMMA PaceInt ==
  ASSUME NEW r, Historied(r)
  PROVE  r.pace \in Nat \ {0} /\ r.pace \in Int /\ r.since - r.changes \in Int
<1>1. r.pace \in Intervals /\ r.since - r.changes \in Int BY DEF Historied
<1>2. Intervals \subseteq Nat \ {0} BY AuthAssumption
<1>3. r.pace \in Nat \ {0} BY <1>1, <1>2, Zenon
<1> QED BY <1>1, <1>3

(* What was accepted is what is remembered.                                *)
LEMMA AcceptKept ==
  ASSUME AuthInv, NEW k \in DOMAIN net, Accept(k)
  PROVE  AuthInv'
<1> USE DEF AuthInv
<1>1. PICK mk \in Marks : /\ Numbered => mk[life] = XmitAuthSeq
                          /\ \A j \in DOMAIN net : Good(net[j], mk)
                          /\ GoodLast(mk)
  BY DEF MarkInv
<1>2. \A j \in DOMAIN net : net[j] \in Frames BY Shapes
<1>3. PICK f \in Frames : f = net[k] BY <1>2
<1>4. /\ Verify(f) /\ Taken(k)
      /\ IF Numbered THEN RcvAuthSeq' = f.seq /\ AuthSeqKnown' = TRUE
                     ELSE UNCHANGED <<RcvAuthSeq, AuthSeqKnown>>
      /\ remoteDesiredMinTx' = f.desiredMinTx
      /\ detectTimer' = DetectMult * f.desiredMinTx
      /\ lastPacketRecv' = 0
      /\ last' = [life |-> f.life, since |-> f.since, changes |-> f.changes, pace |-> f.pace]
      /\ UNCHANGED <<sender, path>>
  BY <1>3 DEF Accept
<1>5. UNCHANGED <<XmitAuthSeq, currentKey, interval, txTimer, life, stateChanges, path>>
  BY <1>4 DEF sender
<1>6. Thinned
  <2>1. net' = Without(k) \/ net' = net BY <1>4 DEF Taken
  <2> QED BY <2>1, TakenThins
<1>7. /\ Historied(f) /\ f.left \in 0..MaxDelay /\ f.seq \in Seqs /\ f.life \in 0..MaxRestarts
      /\ f.desiredMinTx \in Intervals /\ Good(f, mk) /\ f.intact
  BY <1>1, <1>3, <1>4, Histories DEF Frames, Verify
<1>8. /\ last'.life = f.life /\ last'.since = f.since /\ last'.changes = f.changes
      /\ last'.pace = f.pace
  BY <1>4
<1>9. AuthSeqKnown' => Numbered BY <1>4 DEF ResetInv
<1>10. DetectMult * f.desiredMinTx \in Nat BY <1>7, CalcBound
<1>11. ResetInv'
  <2>1. Numbered => AuthSeqKnown' BY <1>4
  <2>2. 0 + DetectMult * f.desiredMinTx = DetectMult * f.desiredMinTx BY <1>10
  <2>3. calcDetectionTime' = DetectMult * f.desiredMinTx BY <1>4 DEF calcDetectionTime
  <2>0. MaxRestarts \in Nat BY AuthAssumption
  <2>4. last'.life >= 0 BY <1>7, <1>8, <2>0, LifeHeard, Zenon
  <2>5. lastPacketRecv' + detectTimer' = calcDetectionTime' BY <1>4, <2>2, <2>3
  <2> QED BY <1>9, <2>1, <2>4, <2>5 DEF ResetInv
<1>12. AuthTypeOK'
  <2>1. last' \in Lasts
    <3>0. MaxRestarts \in Nat BY AuthAssumption
    <3>1. f.life \in -1..MaxRestarts BY <1>7, <3>0, LifeHeard, Zenon
    <3> QED BY <1>4, <3>1 DEF Frames, Lasts
  <2>2. detectTimer' \in 0..(DetectMult * Slow) BY <1>4, <1>7, CalcBound
  <2>3. RcvAuthSeq' \in Seqs /\ AuthSeqKnown' \in BOOLEAN BY <1>4, <1>7 DEF AuthTypeOK
  <2>4. lastPacketRecv' \in 0..(2 * (DetectMult * Slow))
    <3>1. DetectMult * Slow \in Nat BY <1>7, CalcBound, Zenon
    <3>2. \A m \in Nat : 0 \in 0..(2 * m) OBVIOUS
    <3>3. 0 \in 0..(2 * (DetectMult * Slow)) BY <3>1, <3>2, Zenon
    <3> QED BY <1>4, <3>3, Zenon
  <2>5. net' \in Seq(Frames) /\ Len(net') <= MaxInFlight BY <1>6 DEF Thinned
  <2>6. remoteDesiredMinTx' \in Intervals BY <1>4, <1>7
  <2> QED BY <1>5, <2>1, <2>2, <2>3, <2>4, <2>5, <2>6 DEF AuthTypeOK
<1>13. ASSUME NEW j \in DOMAIN net' PROVE Good(net[j], mk)'
  <2>1. PICK l \in DOMAIN net : net'[j] \in Frames /\ Alike(net[l], net'[j])
    BY <1>6 DEF Thinned
  <2>2. PICK a : a = net[l] OBVIOUS
  <2>3. PICK b \in Frames : b = net'[j] BY <2>1
  <2>4. Good(a, mk) /\ Alike(a, b) BY <1>1, <2>1, <2>2, <2>3
  <2>5. Paced(b, MaxDelay - b.left, txTimer', life') BY <1>5, <2>4 DEF Good, Alike, Paced
  <2>6. MaxDelay - b.left >= lastPacketRecv'
    <3>1. MaxDelay \in Nat BY AuthAssumption
    <3>2. b.left \in 0..MaxDelay BY Histories, Zenon
    <3>3. MaxDelay - b.left >= 0 BY <3>1, <3>2, Passed, Zenon
    <3> QED BY <1>4, <3>3, Zenon
  <2>7. GoodNext(b, mk) BY <1>5, <2>4, <2>5, <2>6 DEF Good, Alike, GoodNext
  <2> QED BY <2>3, <2>7, AllGood
<1>14. GoodLast(mk)'
  <2>1. last'.life <= life' /\ last'.changes <= stateChanges' BY <1>5, <1>7, <1>8 DEF Good
  <2>2. Paced(last', lastPacketRecv' + MaxDelay, txTimer', life')
    <3>1. PICK t : t = MaxDelay - f.left OBVIOUS
    <3>2. Paced(f, t, txTimer, life) BY <1>7, <3>1 DEF Good
    <3>3. MaxDelay \in Nat /\ txTimer \in Nat BY Shapes
    <3>4. t \in Nat /\ t <= MaxDelay BY <1>7, <3>1, <3>3
    <3>5. PICK a : a = f.pace * (f.since - f.changes) OBVIOUS
    <3>6. PICK b : b = f.pace * (f.since - f.changes + 1) OBVIOUS
    <3>7. a \in Int /\ b \in Int
      <4>1. f.pace \in Int /\ f.since - f.changes \in Int BY <1>7, PaceInt
      <4> QED BY <3>5, <3>6, <4>1
    <3>8. 4 * t >= 3 * a /\ (f.life = life => 4 * (t + txTimer) >= 3 * b)
      BY <3>2, <3>5, <3>6 DEF Paced
    <3>9. /\ 4 * (0 + MaxDelay) >= 3 * a
          /\ f.life = life => 4 * (0 + MaxDelay + txTimer) >= 3 * b
      BY <3>3, <3>4, <3>7, <3>8
    <3> QED BY <1>4, <1>5, <1>8, <3>5, <3>6, <3>9 DEF Paced
  <2>3. AuthSeqKnown' /\ last'.since < Modulus => Mark(RcvAuthSeq', last'.since) = mk[last'.life]
    BY <1>4, <1>7, <1>8, <1>9 DEF Good
  <2> QED BY <2>1, <2>2, <2>3 DEF GoodLast
<1>15. MarkInv' BY <1>1, <1>5, <1>13, <1>14 DEF MarkInv
<1> QED BY <1>11, <1>12, <1>15

(* After two detection times the number is forgotten.                      *)
LEMMA DetectKept ==
  ASSUME AuthInv, handleDetectTimer
  PROVE  AuthInv'
<1> USE DEF AuthInv
<1>1. PICK mk \in Marks : /\ Numbered => mk[life] = XmitAuthSeq
                          /\ \A k \in DOMAIN net : Good(net[k], mk)
                          /\ GoodLast(mk)
  BY DEF MarkInv
<1>2. /\ UNCHANGED <<XmitAuthSeq, currentKey, interval, txTimer, life, stateChanges>>
      /\ UNCHANGED <<RcvAuthSeq, remoteDesiredMinTx, lastPacketRecv, net, path, last>>
      /\ detectTimer = 0 /\ detectTimer' = calcDetectionTime
      /\ AuthSeqKnown' = (AuthSeqKnown /\ lastPacketRecv < 2 * calcDetectionTime)
  BY DEF handleDetectTimer, maybeResetAuthSeqKnown, sender
<1>3. calcDetectionTime' = calcDetectionTime BY <1>2 DEF calcDetectionTime
<1>4. calcDetectionTime \in Nat /\ lastPacketRecv \in Nat BY Shapes
<1>5. ResetInv'
  <2>1. CASE AuthSeqKnown'
    <3>1. AuthSeqKnown /\ lastPacketRecv < 2 * calcDetectionTime BY <1>2, <2>1
    <3>2. \/ lastPacketRecv + detectTimer = calcDetectionTime
          \/ lastPacketRecv + detectTimer = 2 * calcDetectionTime
      BY <3>1 DEF ResetInv
    <3>3. lastPacketRecv + calcDetectionTime = 2 * calcDetectionTime
      BY <1>2, <1>4, <3>1, <3>2
    <3> QED BY <1>2, <1>3, <2>1, <3>1, <3>3 DEF ResetInv
  <2>2. CASE ~AuthSeqKnown'
    <3>0. ~(lastPacketRecv < 2 * calcDetectionTime) => lastPacketRecv >= 2 * calcDetectionTime
      BY <1>4
    <3>1. ~AuthSeqKnown \/ lastPacketRecv >= 2 * calcDetectionTime BY <1>2, <2>2, <3>0, Zenon
    <3> QED BY <1>2, <1>3, <2>2, <3>1 DEF ResetInv
  <2> QED BY <2>1, <2>2
<1>6. AuthTypeOK'
  <2>1. remoteDesiredMinTx \in Intervals BY DEF AuthTypeOK
  <2>2. detectTimer' \in 0..(DetectMult * Slow) BY <1>2, <2>1, CalcBound DEF calcDetectionTime
  <2> QED BY <1>2, <2>2 DEF AuthTypeOK
<1>7. ASSUME NEW k \in DOMAIN net' PROVE Good(net[k], mk)'
  <2>1. k \in DOMAIN net /\ Good(net[k], mk) BY <1>1, <1>2
  <2> QED BY <1>2, <2>1 DEF Good, Paced
<1>8. GoodLast(mk)' BY <1>1, <1>2 DEF GoodLast, Paced
<1>9. MarkInv' BY <1>1, <1>2, <1>7, <1>8 DEF MarkInv
<1> QED BY <1>5, <1>6, <1>9

(* A tick brings every timer, every frame and the time since the last      *)
(* packet on by one.                                                       *)
LEMMA TickKept ==
  ASSUME AuthInv, Tick
  PROVE  AuthInv'
<1> USE DEF AuthInv
<1>1. PICK mk \in Marks : /\ Numbered => mk[life] = XmitAuthSeq
                          /\ \A k \in DOMAIN net : Good(net[k], mk)
                          /\ GoodLast(mk)
  BY DEF MarkInv
<1>2. /\ txTimer > 0 /\ detectTimer > 0 /\ \A k \in DOMAIN net : net[k].left > 0
      /\ txTimer' = txTimer - 1 /\ detectTimer' = detectTimer - 1
      /\ lastPacketRecv' = IF last.life >= 0 /\ lastPacketRecv < 2 * calcDetectionTime
                           THEN lastPacketRecv + 1 ELSE lastPacketRecv
      /\ net' = [k \in DOMAIN net |-> [net[k] EXCEPT !.left = @ - 1]]
      /\ UNCHANGED <<XmitAuthSeq, currentKey, interval, life, stateChanges, RcvAuthSeq>>
      /\ UNCHANGED <<AuthSeqKnown, remoteDesiredMinTx, path, last>>
  BY DEF Tick
<1>3. /\ Len(net) \in Nat /\ DOMAIN net = 1..Len(net) /\ \A j \in DOMAIN net : net[j] \in Frames
      /\ txTimer \in Nat /\ detectTimer \in Nat /\ lastPacketRecv \in Nat /\ MaxDelay \in Nat
      /\ calcDetectionTime \in Nat
  BY Shapes
<1>4. lastPacketRecv' \in Nat /\ lastPacketRecv <= lastPacketRecv' /\ lastPacketRecv' <= lastPacketRecv + 1
  <2>1. lastPacketRecv' = lastPacketRecv + 1 \/ lastPacketRecv' = lastPacketRecv BY <1>2
  <2> QED BY <1>3, <2>1
<1>5. calcDetectionTime' = calcDetectionTime BY <1>2 DEF calcDetectionTime
<1>6. AuthSeqKnown => lastPacketRecv' = lastPacketRecv + 1
  <2>1. SUFFICES ASSUME AuthSeqKnown PROVE lastPacketRecv' = lastPacketRecv + 1 OBVIOUS
  <2>2. /\ last.life >= 0
        /\ \/ lastPacketRecv + detectTimer = calcDetectionTime
           \/ lastPacketRecv + detectTimer = 2 * calcDetectionTime
    BY <2>1 DEF ResetInv
  <2>3. lastPacketRecv < 2 * calcDetectionTime BY <1>2, <1>3, <2>2
  <2> QED BY <1>2, <2>2, <2>3
<1>7. ResetInv'
  <2>1. CASE AuthSeqKnown
    <3>1. /\ Numbered /\ last.life >= 0
          /\ \/ lastPacketRecv + detectTimer = calcDetectionTime
             \/ lastPacketRecv + detectTimer = 2 * calcDetectionTime
      BY <2>1 DEF ResetInv
    <3>2. lastPacketRecv' + detectTimer' = lastPacketRecv + detectTimer BY <1>2, <1>3, <1>6, <2>1
    <3> QED BY <1>2, <1>5, <2>1, <3>1, <3>2 DEF ResetInv
  <2>2. CASE ~AuthSeqKnown
    <3>1. lastPacketRecv >= 2 * calcDetectionTime => lastPacketRecv' >= 2 * calcDetectionTime
      BY <1>3, <1>4
    <3> QED BY <1>2, <1>5, <2>2, <3>1 DEF ResetInv
  <2> QED BY <2>1, <2>2
<1>8. ASSUME NEW k \in DOMAIN net
      PROVE  /\ net'[k] \in Frames /\ net'[k].left = net[k].left - 1
             /\ net'[k].seq = net[k].seq /\ net'[k].intact = net[k].intact
             /\ net'[k].life = net[k].life /\ net'[k].since = net[k].since
             /\ net'[k].changes = net[k].changes /\ net'[k].pace = net[k].pace
  <2>1. PICK f \in Frames : f = net[k] BY <1>3
  <2>2. PICK l : l = f.left - 1 OBVIOUS
  <2>3. f.left \in 0..MaxDelay /\ f.left > 0 BY <1>2, <2>1, Histories
  <2>4. l \in 0..MaxDelay BY <1>3, <2>2, <2>3
  <2>5. net'[k] = [f EXCEPT !.left = l] BY <1>2, <2>1, <2>2
  <2> QED BY <2>1, <2>2, <2>4, <2>5 DEF Frames
<1>9. net' \in Seq(Frames) /\ Len(net') = Len(net) /\ DOMAIN net' = DOMAIN net
  <2>1. net' = [k \in 1..Len(net) |-> net'[k]] BY <1>2, <1>3
  <2> QED BY <1>3, <1>8, <2>1
<1>10. AuthTypeOK'
  <2>0. Slow \in Nat /\ remoteDesiredMinTx \in Intervals BY Slowest, AuthAssumption DEF AuthTypeOK
  <2>1. txTimer' \in 0..Slow
    <3>1. txTimer \in 0..Slow BY DEF AuthTypeOK
    <3> QED BY <1>2, <2>0, <3>1
  <2>2. /\ DetectMult * Slow \in Nat /\ calcDetectionTime <= DetectMult * Slow
    BY <2>0, CalcBound DEF calcDetectionTime
  <2>3. PICK D : D = DetectMult * Slow OBVIOUS
  <2>4. detectTimer' \in 0..(DetectMult * Slow)
    <3>1. detectTimer \in 0..D BY <2>3 DEF AuthTypeOK
    <3>2. detectTimer' \in 0..D BY <1>2, <2>2, <2>3, <3>1
    <3> QED BY <2>3, <3>2
  <2>5. lastPacketRecv' \in 0..(2 * (DetectMult * Slow))
    <3>1. lastPacketRecv \in 0..(2 * D) BY <2>3 DEF AuthTypeOK
    <3>2. D \in Nat /\ calcDetectionTime <= D BY <2>2, <2>3
    <3>3. lastPacketRecv' \in 0..(2 * D)
      <4>1. CASE last.life >= 0 /\ lastPacketRecv < 2 * calcDetectionTime
        <5>1. lastPacketRecv' = lastPacketRecv + 1 BY <1>2, <4>1
        <5> QED BY <1>3, <3>2, <4>1, <5>1
      <4>2. CASE ~(last.life >= 0 /\ lastPacketRecv < 2 * calcDetectionTime)
        <5>1. lastPacketRecv' = lastPacketRecv BY <1>2, <4>2
        <5> QED BY <3>1, <5>1
      <4> QED BY <4>1, <4>2
    <3> QED BY <2>3, <3>3
  <2>6. Len(net') <= MaxInFlight BY <1>9 DEF AuthTypeOK
  <2> QED BY <1>2, <1>9, <2>1, <2>4, <2>5, <2>6 DEF AuthTypeOK
<1>11. ASSUME NEW r, Historied(r), NEW t \in Nat, NEW u \in Nat, u = t + 1,
              Paced(r, t, txTimer, life)
       PROVE  Paced(r, u, txTimer', life')
  <2>1. PICK a : a = r.pace * (r.since - r.changes) OBVIOUS
  <2>2. PICK b : b = r.pace * (r.since - r.changes + 1) OBVIOUS
  <2>3. a \in Int /\ b \in Int
    <3>1. r.pace \in Int /\ r.since - r.changes \in Int BY <1>11, PaceInt
    <3> QED BY <2>1, <2>2, <3>1
  <2>4. 4 * t >= 3 * a /\ (r.life = life => 4 * (t + txTimer) >= 3 * b)
    BY <1>11, <2>1, <2>2 DEF Paced
  <2>5. u + txTimer' = t + txTimer BY <1>2, <1>3, <1>11
  <2>6. 4 * u >= 3 * a BY <1>11, <2>3, <2>4
  <2> QED BY <1>2, <2>1, <2>2, <2>4, <2>5, <2>6 DEF Paced
<1>12. ASSUME NEW k \in DOMAIN net' PROVE Good(net[k], mk)'
  <2>1. PICK f \in Frames : f = net[k] BY <1>3, <1>9
  <2>2. PICK g \in Frames : g = net'[k] BY <1>8, <1>9
  <2>3. /\ g.left = f.left - 1 /\ g.seq = f.seq /\ g.intact = f.intact /\ g.life = f.life
        /\ g.since = f.since /\ g.changes = f.changes /\ g.pace = f.pace
    BY <1>8, <1>9, <2>1, <2>2
  <2>4. Good(f, mk) BY <1>1, <1>9, <2>1
  <2>5. Historied(f) /\ f.left \in 0..MaxDelay BY Histories
  <2>6. MaxDelay - f.left \in Nat /\ MaxDelay - g.left = (MaxDelay - f.left) + 1
    <3>1. MaxDelay \in Nat BY AuthAssumption
    <3>2. MaxDelay - f.left \in Nat /\ MaxDelay - (f.left - 1) = (MaxDelay - f.left) + 1
      BY <2>5, <3>1, Passed, Zenon
    <3> QED BY <2>3, <3>2, Zenon
  <2>7. PICK t \in Nat : t = MaxDelay - f.left BY <2>6
  <2>8. PICK u \in Nat : u = MaxDelay - g.left BY <2>6
  <2>9. u = t + 1 BY <2>6, <2>7, <2>8
  <2>10. Paced(f, t, txTimer, life) BY <2>4, <2>7 DEF Good
  <2>11. Paced(f, u, txTimer', life') BY <1>11, <2>5, <2>9, <2>10
  <2>12. Paced(g, u, txTimer', life') BY <2>3, <2>11 DEF Paced
  <2>13. t >= lastPacketRecv => u >= lastPacketRecv' BY <1>3, <1>4, <2>9
  <2>14. GoodNext(g, mk)
    BY <1>2, <2>3, <2>4, <2>7, <2>8, <2>12, <2>13 DEF Good, GoodNext
  <2> QED BY <2>2, <2>14, AllGood
<1>13. GoodLast(mk)'
  <2>1. Historied(last)
    <3>1. last \in Lasts BY Shapes
    <3> QED BY <3>1, Histories
  <2>2. ASSUME AuthSeqKnown
        PROVE  Paced(last, lastPacketRecv' + MaxDelay, txTimer', life')
    <3>1. PICK t \in Nat : t = lastPacketRecv + MaxDelay BY <1>3
    <3>0. \A a, b \in Nat : a + b \in Nat OBVIOUS
    <3>2. PICK u \in Nat : u = lastPacketRecv' + MaxDelay BY <1>3, <1>4, <3>0, Zenon
    <3>3. u = t + 1 BY <1>3, <1>6, <2>2, <3>1, <3>2
    <3>4. Paced(last, t, txTimer, life) BY <1>1, <2>2, <3>1 DEF GoodLast
    <3> QED BY <1>11, <2>1, <3>2, <3>3, <3>4
  <2> QED BY <1>1, <1>2, <2>2 DEF GoodLast
<1>14. MarkInv' BY <1>1, <1>2, <1>12, <1>13 DEF MarkInv
<1> QED BY <1>7, <1>10, <1>14

-----------------------------------------------------------------------------
(* Theorems                                                                *)

(* Nothing has been sent or accepted yet.                                  *)
LEMMA InitKept == AuthInit => AuthInv
<1> SUFFICES ASSUME AuthInit PROVE AuthInv OBVIOUS
<1>1. /\ Slow \in Intervals /\ Slow \in Nat /\ MaxRestarts \in Nat /\ MaxStateChanges \in Nat
      /\ Modulus \in Nat \ {0} /\ MaxInFlight \in Nat
  BY Slowest, AuthAssumption
<1>2. /\ XmitAuthSeq \in FirstSeqs /\ currentKey \in SenderKeys /\ interval = Slow
      /\ txTimer \in applyJitter(Slow) /\ RcvAuthSeq = 0 /\ AuthSeqKnown = FALSE
      /\ remoteDesiredMinTx = Slow /\ detectTimer = DetectMult * Slow /\ lastPacketRecv = 0
      /\ net = <<>> /\ path = "good" /\ life = 0 /\ stateChanges = 0
      /\ last = [life |-> -1, since |-> 0, changes |-> 0, pace |-> Slow]
  BY DEF AuthInit
<1>3. XmitAuthSeq \in Seqs /\ RcvAuthSeq \in Seqs
  <2>1. FirstSeqs \subseteq 0..(Modulus - 1) BY AuthAssumption
  <2>2. Modulus \in Nat \ {0} BY <1>1, Zenon
  <2>3. \A m \in Nat \ {0} : 0 \in 0..(m - 1) OBVIOUS
  <2>4. 0 \in 0..(Modulus - 1) BY <2>2, <2>3, Zenon
  <2> QED BY <1>2, <2>1, <2>4, Zenon DEF Seqs
<1>4. net \in Seq(Frames) /\ Len(net) = 0 /\ DOMAIN net = {} BY <1>2
<1>5. last \in Lasts
  <2>1. Modulus \in Nat BY AuthAssumption
  <2>2. MaxRestarts \in Nat /\ MaxStateChanges \in Nat /\ Slow \in Intervals BY <1>1, Zenon
  <2>3. -1 \in -1..MaxRestarts /\ 0 \in 0..Modulus /\ 0 \in 0..MaxStateChanges
    BY <2>1, <2>2, Ends, Zenon
  <2>4. last = [life |-> -1, since |-> 0, changes |-> 0, pace |-> Slow] BY <1>2, Zenon
  <2> QED BY <2>2, <2>3, <2>4 DEF Lasts
<1>6. AuthTypeOK
  <2>1. txTimer \in 0..Slow
    <3>1. txTimer \in 1..Slow BY <1>1, <1>2, Jittered
    <3> QED BY <3>1
  <2>2. /\ detectTimer \in 0..(DetectMult * Slow)
        /\ lastPacketRecv \in 0..(2 * (DetectMult * Slow))
    BY <1>1, <1>2, CalcBound
  <2>3. Len(net) <= MaxInFlight BY <1>1, <1>4
  <2>4. life \in 0..MaxRestarts /\ stateChanges \in 0..MaxStateChanges BY <1>1, <1>2
  <2> QED BY <1>1, <1>2, <1>3, <1>4, <1>5, <2>1, <2>2, <2>3, <2>4 DEF AuthTypeOK
<1>7. ResetInv BY <1>2 DEF ResetInv
<1>8. PICK mk : mk = [l \in 0..MaxRestarts |-> XmitAuthSeq] OBVIOUS
<1>9. mk \in Marks /\ mk[life] = XmitAuthSeq BY <1>1, <1>2, <1>3, <1>8 DEF Marks
<1>10. GoodLast(mk) BY <1>2 DEF GoodLast
<1>11. MarkInv BY <1>4, <1>9, <1>10 DEF MarkInv
<1> QED BY <1>6, <1>7, <1>11 DEF AuthInv

(* Every step keeps the invariant.                                         *)
LEMMA NextKept == AuthInv /\ [AuthNext]_authVars => AuthInv'
<1> SUFFICES ASSUME AuthInv, [AuthNext]_authVars PROVE AuthInv' OBVIOUS
<1>1. CASE handleTxTimer \/ \E i \in Intervals : StateChange(i) BY <1>1, SendersKept
<1>2. CASE NewAuthState BY <1>2, RestartKept
<1>3. ASSUME NEW k \in DOMAIN net, Accept(k) PROVE AuthInv' BY <1>3, AcceptKept
<1>4. ASSUME NEW k \in DOMAIN net, Damage(k) PROVE AuthInv' BY <1>4, DamageKept
<1>5. CASE ChangePath \/ \E k \in DOMAIN net : Discard(k) \/ Lose(k) BY <1>5, LossKept
<1>6. CASE handleDetectTimer BY <1>6, DetectKept
<1>7. CASE Tick BY <1>7, TickKept
<1>8. CASE UNCHANGED authVars
  <2>1. UNCHANGED <<sender, receiver, last, net, path>> BY <1>8 DEF authVars, sender, receiver
  <2>2. AuthTypeOK BY DEF AuthInv
  <2>3. \A j \in DOMAIN net : net[j] \in Frames BY <2>2, Shapes
  <2>4. \A f : Alike(f, f) BY DEF Alike
  <2>5. net' = net BY <2>1
  <2>6. net \in Seq(Frames) /\ Len(net) <= MaxInFlight /\ path \in {"good", "bad"}
    BY <2>2 DEF AuthTypeOK
  <2>7. Thinned BY <2>3, <2>4, <2>5, <2>6, Zenon DEF Thinned
  <2> QED BY <2>1, <2>6, <2>7, PathKept
<1> QED BY <1>1, <1>2, <1>3, <1>4, <1>5, <1>6, <1>7, <1>8 DEF AuthNext

(* The invariant holds in every reachable state.                           *)
LEMMA AuthAlwaysInv == AuthSpec => []AuthInv
BY InitKept, NextKept, PTL DEF AuthSpec

(* Sequence numbers keep their width, timers their range and frames their  *)
(* shape (AuthState, signHash, applyJitter).                               *)
THEOREM AuthTypeCorrect == AuthSpec => []AuthTypeOK
<1>1. AuthInv => AuthTypeOK BY DEF AuthInv
<1> QED BY <1>1, AuthAlwaysInv, PTL

(* A receiver that refuses what is sound has heard something within two    *)
(* detection times, or forgets the number in this very instant             *)
(* (handleDetectTimer, maybeResetAuthSeqKnown).                            *)
THEOREM AuthAlwaysResynchronises == AuthSpec => Resynchronises
<1>1. ASSUME AuthInv, NEW k \in DOMAIN net, Discard(k), net[k].intact, LookupKey(net[k].keyID)
      PROVE  lastPacketRecv < 2 * calcDetectionTime \/ detectTimer = 0
  <2>1. AuthSeqKnown BY <1>1 DEF Discard, Verify, checkSeqWindow
  <2>2. \/ lastPacketRecv + detectTimer = calcDetectionTime
        \/ lastPacketRecv + detectTimer = 2 * calcDetectionTime
    BY <1>1, <2>1 DEF AuthInv, ResetInv
  <2>3. calcDetectionTime \in Nat /\ lastPacketRecv \in Nat /\ detectTimer \in Nat
    BY <1>1, Shapes DEF AuthInv
  <2> QED BY <2>2, <2>3
<1>2. AuthInv /\ [AuthNext]_authVars =>
        [\A k \in DOMAIN net :
           Discard(k) /\ net[k].intact /\ LookupKey(net[k].keyID) =>
             lastPacketRecv < 2 * calcDetectionTime \/ detectTimer = 0]_authVars
  BY <1>1
<1> QED BY <1>2, AuthAlwaysInv, PTL DEF AuthSpec, Resynchronises

(* Two numbers p and q frames before the same one are q - p apart.         *)
LEMMA Apart ==
  ASSUME NEW a \in Seqs, NEW r \in Seqs, NEW p \in Nat, NEW q \in Nat, p < Modulus, q < Modulus,
         Mark(a, p) = Mark(r, q)
  PROVE  a - r \in {q - p, q - p + Modulus, q - p - Modulus}
<1>1. Modulus \in Nat \ {0} BY AuthAssumption
<1>2. Mark(a, p) \in {a + p, a + p - Modulus} /\ Mark(r, q) \in {r + q, r + q - Modulus}
  BY DEF Mark
<1> QED BY <1>1, <1>2 DEF Seqs

(* Where a is in the window that starts at r + c.                          *)
Offset(a, r, c) == (a - (r + c)) % Modulus

(* The window, for a number ahead of the last one accepted,                *)
LEMMA WindowAhead ==
  ASSUME NEW a \in Seqs, NEW r \in Seqs, NEW p \in Nat, NEW q \in Nat, p < q, q < Modulus,
         Mark(a, p) = Mark(r, q), NEW c \in {0, 1}
  PROVE  Offset(a, r, c) = q - p - c
<1>1. Modulus \in Nat \ {0} BY AuthAssumption
<1>2. a - r \in {q - p, q - p + Modulus, q - p - Modulus} BY <1>1, Apart
<1>3. PICK x : x = a - (r + c) OBVIOUS
<1>4. x \in Int /\ (x = q - p - c \/ x = q - p - c - Modulus) BY <1>1, <1>2, <1>3 DEF Seqs
<1>5. /\ 0 <= x /\ x < Modulus => x % Modulus = x
      /\ -Modulus <= x /\ x < 0 => x % Modulus = x + Modulus
  BY <1>1, <1>4, OneTurn
<1>6. x % Modulus = q - p - c BY <1>1, <1>4, <1>5
<1> QED BY <1>3, <1>6 DEF Offset

(* and for one behind it.                                                  *)
LEMMA WindowBehind ==
  ASSUME NEW a \in Seqs, NEW r \in Seqs, NEW p \in Nat, NEW q \in Nat, q <= p, p < Modulus,
         Mark(a, p) = Mark(r, q), NEW c \in {0, 1}, p - q + c > 0
  PROVE  Offset(a, r, c) = Modulus - (p - q) - c
<1>1. Modulus \in Nat \ {0} BY AuthAssumption
<1>2. a - r \in {q - p, q - p + Modulus, q - p - Modulus} BY <1>1, Apart
<1>3. PICK x : x = a - (r + c) OBVIOUS
<1>4. x \in Int /\ (x = q - p - c \/ x = q - p - c + Modulus) BY <1>1, <1>2, <1>3 DEF Seqs
<1>5. /\ 0 <= x /\ x < Modulus => x % Modulus = x
      /\ -Modulus <= x /\ x < 0 => x % Modulus = x + Modulus
  BY <1>1, <1>4, OneTurn
<1>6. x % Modulus = Modulus - (p - q) - c BY <1>1, <1>4, <1>5
<1> QED BY <1>3, <1>6 DEF Offset

(* The window as a number of frames.                                       *)
LEMMA WindowWidth ==
  ASSUME NEW r \in Seqs, NEW c \in {0, 1}
  PROVE  ((r + 3 * DetectMult) - (r + c)) % Modulus = 3 * DetectMult - c
<1>1. Modulus \in Nat \ {0} /\ DetectMult \in Nat \ {0} /\ 3 * DetectMult < Modulus
  BY AuthAssumption
<1>2. PICK x : x = (r + 3 * DetectMult) - (r + c) OBVIOUS
<1>3. x \in Int /\ x = 3 * DetectMult - c /\ 0 <= x /\ x < Modulus BY <1>1, <1>2 DEF Seqs
<1>4. x % Modulus = x BY <1>1, <1>3, OneTurn
<1> QED BY <1>2, <1>3, <1>4

(* checkSeqWindow, with the number that tells the two types apart.         *)
LEMMA WindowOf ==
  ASSUME AuthTypeOK, AuthSeqKnown, NEW f \in Frames, NEW c \in {0, 1}, c = 1 <=> Meticulous
  PROVE  checkSeqWindow(f) <=> Offset(f.seq, RcvAuthSeq, c) <= 3 * DetectMult - c
<1>1. RcvAuthSeq \in Seqs BY Shapes
<1>2. (IF Meticulous THEN RcvAuthSeq + 1 ELSE RcvAuthSeq) = RcvAuthSeq + c
  <2>1. RcvAuthSeq + 0 = RcvAuthSeq BY <1>1 DEF Seqs
  <2> QED BY <2>1
<1>3. checkSeqWindow(f) <=> SeqInWindow(f.seq, RcvAuthSeq + c, RcvAuthSeq + 3 * DetectMult)
  BY <1>2 DEF checkSeqWindow
<1>4. ((RcvAuthSeq + 3 * DetectMult) - (RcvAuthSeq + c)) % Modulus = 3 * DetectMult - c
  BY <1>1, WindowWidth
<1> QED BY <1>3, <1>4 DEF SeqInWindow, Offset

(* A frame is not passed by more than the numbers outside the window.      *)
LEMMA FewSince ==
  ASSUME AuthInv, NEW f \in Frames, NEW mk, Good(f, mk),
         4 * MaxDelay < 3 * (Modulus - 3 * DetectMult - MaxStateChanges)
  PROVE  f.since < Modulus - 3 * DetectMult /\ f.since < Modulus
<1>1. /\ MaxDelay \in Nat /\ Modulus \in Nat /\ DetectMult \in Nat /\ MaxStateChanges \in Nat
      /\ 3 * DetectMult < Modulus
  BY AuthAssumption
<1>2. PICK n : n = f.since - f.changes OBVIOUS
<1>3. /\ f.since \in Nat /\ f.changes \in 0..MaxStateChanges /\ f.left \in 0..MaxDelay
      /\ f.pace \in Nat \ {0} /\ n \in Int
  <2>1. Historied(f) /\ f.left \in 0..MaxDelay BY Histories, Zenon
  <2>2. f.since \in Nat BY <2>1, SinceNat, Zenon
  <2>3. f.pace \in Nat \ {0} /\ n \in Int BY <1>2, <2>1, PaceInt, Zenon
  <2>4. f.changes \in 0..MaxStateChanges BY DEF Frames
  <2> QED BY <2>1, <2>2, <2>3, <2>4, Zenon
<1>4. 4 * (MaxDelay - f.left) >= 3 * (f.pace * n) BY <1>2 DEF Good, Paced
<1>5. 4 * MaxDelay >= 3 * n
  <2>1. CASE n <= 0 BY <1>1, <1>3, <2>1
  <2>2. CASE n > 0
    <3>1. f.pace * n >= n BY <1>3, <2>2
    <3>2. f.pace * n \in Int BY <1>3
    <3> QED BY <1>1, <1>3, <1>4, <3>1, <3>2
  <2> QED BY <1>3, <2>1, <2>2
<1>6. f.since <= n + MaxStateChanges BY <1>1, <1>2, <1>3
<1> QED BY <1>1, <1>3, <1>5, <1>6

(* No frame is under way for two detection times, nor while the sender     *)
(* gets through all numbers but a window.  Without the first a frame that  *)
(* comes late enough is accepted after the reset; without the second it    *)
(* comes again within the window.                                          *)
FramesExpire ==
  /\ \A i \in Intervals : MaxDelay < 2 * (DetectMult * i)
  /\ 4 * MaxDelay < 3 * (Modulus - 3 * DetectMult - MaxStateChanges)

(* Of one life of the sender nothing is accepted out of order, and with a  *)
(* meticulous type nothing twice, also across the wrap-around and a reset  *)
(* (SeqInWindow, checkSeqWindow, maybeResetAuthSeqKnown).                  *)
THEOREM AuthAlwaysInOrder ==
  ASSUME FramesExpire
  PROVE  AuthSpec => InOrder
<1>1. ASSUME AuthInv, NEW k \in DOMAIN net, Accept(k), net[k].life = last.life
      PROVE  \/ ~Numbered
             \/ ~Meticulous /\ net[k].since = last.since
             \/ net[k].since < last.since
  <2>1. /\ AuthTypeOK /\ Verify(net[k]) BY <1>1 DEF AuthInv, Accept
  <2>2. PICK f \in Frames : f = net[k] BY <2>1, Shapes
  <2>3. PICK mk \in Marks : Good(f, mk) /\ GoodLast(mk) BY <1>1, <2>2 DEF AuthInv, MarkInv
  <2>4. /\ Modulus \in Nat \ {0} /\ DetectMult \in Nat \ {0} /\ MaxDelay \in Nat
        /\ last \in Lasts /\ RcvAuthSeq \in Seqs /\ lastPacketRecv \in Nat
        /\ remoteDesiredMinTx \in Intervals
    BY <2>1, Shapes DEF AuthTypeOK
  <2>5. /\ f.since \in Nat /\ last.since \in Nat /\ f.seq \in Seqs /\ f.left \in 0..MaxDelay
        /\ f.life >= 0
    <3>1. Historied(f) /\ f.left \in 0..MaxDelay /\ f.seq \in Seqs /\ f.life \in 0..MaxRestarts
      BY Histories, Zenon
    <3>2. Historied(last) BY <2>4, Histories, Zenon
    <3>3. MaxRestarts \in Nat BY AuthAssumption
    <3>4. f.since \in Nat /\ last.since \in Nat BY <3>1, <3>2, SinceNat, Zenon
    <3>5. f.life >= 0 BY <3>1, <3>3, LifeHeard, Zenon
    <3> QED BY <3>1, <3>4, <3>5, Zenon
  <2>6. f.since < Modulus - 3 * DetectMult /\ f.since < Modulus
    BY <1>1, <2>3, FewSince DEF FramesExpire
  <2>7. SUFFICES ASSUME Numbered, f.since >= last.since, Meticulous \/ f.since # last.since
                 PROVE  FALSE
    <3>1. \A x, y \in Nat : x < y \/ x >= y OBVIOUS
    <3>2. f.since < last.since \/ f.since >= last.since BY <2>5, <3>1, Zenon
    <3> QED BY <2>2, <3>2, Zenon
  <2>8. f.life = last.life /\ f.intact /\ checkSeqWindow(f) BY <1>1, <2>1, <2>2 DEF Verify
  <2>9. CASE AuthSeqKnown
    <3>1. last.since < Modulus BY <2>4, <2>5, <2>6, <2>7
    <3>2. Mark(f.seq, f.since) = Mark(RcvAuthSeq, last.since)
      BY <2>3, <2>6, <2>7, <2>8, <2>9, <3>1 DEF Good, GoodLast
    <3>3. PICK c \in {0, 1} : c = 1 <=> Meticulous OBVIOUS
    <3>4. f.since - last.since + c > 0 BY <2>5, <2>7, <3>3
    <3>5. Offset(f.seq, RcvAuthSeq, c) = Modulus - (f.since - last.since) - c
      <4>1. PICK p \in Nat : p = f.since BY <2>5
      <4>2. PICK q \in Nat : q = last.since BY <2>5
      <4>3. /\ q <= p /\ p < Modulus /\ p - q + c > 0 /\ Mark(f.seq, p) = Mark(RcvAuthSeq, q)
        BY <2>5, <2>6, <2>7, <3>2, <3>4, <4>1, <4>2
      <4>4. Offset(f.seq, RcvAuthSeq, c) = Modulus - (p - q) - c
        <5>1. f.seq \in Seqs /\ RcvAuthSeq \in Seqs BY <2>4, <2>5, Zenon
        <5> QED BY <4>3, <5>1, WindowBehind
      <4> QED BY <4>1, <4>2, <4>4
    <3>6. Offset(f.seq, RcvAuthSeq, c) <= 3 * DetectMult - c
      BY <2>1, <2>8, <2>9, <3>3, WindowOf
    <3>7. Modulus - (f.since - last.since) - c <= 3 * DetectMult - c BY <3>5, <3>6
    <3> QED BY <2>4, <2>5, <2>6, <2>7, <3>7
  <2>10. CASE ~AuthSeqKnown
    <3>1. lastPacketRecv >= 2 * calcDetectionTime
      <4>1. last.life >= 0 BY <2>5, <2>8
      <4> QED BY <1>1, <2>7, <2>10, <4>1 DEF AuthInv, ResetInv
    <3>2. MaxDelay - f.left >= lastPacketRecv BY <2>3, <2>6, <2>7, <2>8 DEF Good
    <3>3. MaxDelay < 2 * calcDetectionTime BY <2>4 DEF FramesExpire, calcDetectionTime
    <3>4. calcDetectionTime \in Nat BY <2>1, Shapes
    <3> QED BY <2>4, <2>5, <3>1, <3>2, <3>3, <3>4
  <2> QED BY <2>9, <2>10
<1>2. AuthInv /\ [AuthNext]_authVars =>
        [\A k \in DOMAIN net :
           Accept(k) /\ net[k].life = last.life =>
             \/ ~Numbered
             \/ ~Meticulous /\ net[k].since = last.since
             \/ net[k].since < last.since]_authVars
  BY <1>1
<1> QED BY <1>2, AuthAlwaysInv, PTL DEF AuthSpec, InOrder

(* A frame takes less than a quarter of the detection time.                *)
FramesPrompt == \A i \in Intervals : 4 * MaxDelay < DetectMult * i

(* With a sender that keeps its pace, not more than a window of frames is  *)
(* sent until the number is forgotten.                                     *)
LEMMA WindowSuffices ==
  ASSUME FramesPrompt, AuthInv, AuthSeqKnown, NEW mk, GoodLast(mk),
         last.pace >= remoteDesiredMinTx, last.changes <= 1
  PROVE  last.since <= 3 * DetectMult
<1>1. AuthTypeOK BY DEF AuthInv
<1>2. /\ DetectMult \in Nat \ {0} /\ MaxDelay \in Nat /\ last \in Lasts /\ lastPacketRecv \in Nat
      /\ remoteDesiredMinTx \in Intervals /\ detectTimer \in Nat
  BY <1>1, Shapes DEF AuthTypeOK
<1>3. PICK n : n = last.since - last.changes OBVIOUS
<1>4. /\ last.since \in Nat /\ last.changes \in Nat /\ n \in Int /\ last.pace \in Nat \ {0}
  <2>1. Historied(last) BY <1>2, Histories, Zenon
  <2>2. last.since \in Nat BY <2>1, SinceNat, Zenon
  <2>3. last.pace \in Nat \ {0} /\ n \in Int BY <1>3, <2>1, PaceInt, Zenon
  <2>4. last.changes \in Nat BY <2>1, Zenon DEF Historied
  <2> QED BY <2>2, <2>3, <2>4, Zenon
<1>5. PICK i \in Intervals : i = remoteDesiredMinTx BY <1>2
<1>6. i \in Nat \ {0} /\ i <= last.pace BY <1>4, <1>5, AuthAssumption
<1>7. PICK d : d = DetectMult * i OBVIOUS
<1>8. d \in Nat /\ 4 * MaxDelay < d BY <1>2, <1>6, <1>7 DEF FramesPrompt
<1>9. lastPacketRecv <= 2 * d
  <2>1. \/ lastPacketRecv + detectTimer = d
        \/ lastPacketRecv + detectTimer = 2 * d
    BY <1>5, <1>7 DEF AuthInv, ResetInv, calcDetectionTime
  <2> QED BY <1>2, <1>8, <2>1
<1>10. 4 * (lastPacketRecv + MaxDelay) >= 3 * (last.pace * n) BY <1>3 DEF GoodLast, Paced
<1>11. SUFFICES ASSUME n >= 3 * DetectMult PROVE FALSE BY <1>2, <1>3, <1>4
<1>12. last.pace * n >= i * n
  <2>1. n >= 0 BY <1>2, <1>4, <1>11
  <2> QED BY <1>4, <1>6, <2>1
<1>13. i * n >= i * (3 * DetectMult)
  <2>1. 3 * DetectMult \in Int BY <1>2
  <2> QED BY <1>4, <1>6, <1>11, <2>1
<1>14. i * (3 * DetectMult) = 3 * d BY <1>2, <1>6, <1>7
<1>15. last.pace * n \in Int /\ i * n \in Int BY <1>4, <1>6
<1>16. last.pace * n >= 3 * d BY <1>8, <1>12, <1>13, <1>14, <1>15
<1> QED BY <1>2, <1>8, <1>9, <1>10, <1>15, <1>16

(* The window is wide enough: what is sound and newer than the last        *)
(* accepted frame of the same life is never refused, however much was lost *)
(* in between (checkSeqWindow, applyJitter, handleDetectTimer).            *)
THEOREM AuthAlwaysAcceptsFresh ==
  ASSUME FramesPrompt
  PROVE  AuthSpec => FreshAccepted
<1>1. ASSUME AuthInv, NEW k \in DOMAIN net, Discard(k), net[k].intact, LookupKey(net[k].keyID),
             net[k].life = last.life, last.pace >= remoteDesiredMinTx, last.changes <= 1
      PROVE  net[k].since >= last.since
  <2>1. AuthTypeOK BY <1>1 DEF AuthInv
  <2>2. PICK f \in Frames : f = net[k] BY <2>1, Shapes
  <2>3. PICK mk \in Marks : Good(f, mk) /\ GoodLast(mk) BY <1>1, <2>2 DEF AuthInv, MarkInv
  <2>4. /\ Modulus \in Nat \ {0} /\ DetectMult \in Nat \ {0} /\ 3 * DetectMult < Modulus
        /\ last \in Lasts /\ RcvAuthSeq \in Seqs
    BY <2>1, Shapes, AuthAssumption
  <2>5. f.since \in Nat /\ last.since \in Nat /\ f.seq \in Seqs
    <3>1. Historied(f) /\ f.seq \in Seqs BY Histories, Zenon
    <3>2. Historied(last) BY <2>4, Histories, Zenon
    <3> QED BY <3>1, <3>2, SinceNat, Zenon
  <2>6. SUFFICES ASSUME f.since < last.since PROVE FALSE BY <2>2, <2>5
  <2>7. ~checkSeqWindow(f) BY <1>1, <2>2 DEF Discard, Verify
  <2>8. AuthSeqKnown BY <2>7 DEF checkSeqWindow
  <2>9. last.since <= 3 * DetectMult BY <1>1, <2>3, <2>8, WindowSuffices
  <2>10. last.since < Modulus /\ f.since < Modulus BY <2>4, <2>5, <2>6, <2>9
  <2>11. Numbered BY <1>1, <2>8 DEF AuthInv, ResetInv
  <2>12. Mark(f.seq, f.since) = Mark(RcvAuthSeq, last.since)
    BY <1>1, <2>2, <2>3, <2>8, <2>10, <2>11 DEF Good, GoodLast
  <2>13. PICK c \in {0, 1} : c = 1 <=> Meticulous OBVIOUS
  <2>14. Offset(f.seq, RcvAuthSeq, c) = last.since - f.since - c
    <3>1. PICK p \in Nat : p = f.since BY <2>5
    <3>2. PICK q \in Nat : q = last.since BY <2>5
    <3>3. p < q /\ q < Modulus /\ Mark(f.seq, p) = Mark(RcvAuthSeq, q)
      BY <2>6, <2>10, <2>12, <3>1, <3>2
    <3>4. Offset(f.seq, RcvAuthSeq, c) = q - p - c
      <4>1. f.seq \in Seqs /\ RcvAuthSeq \in Seqs BY <2>4, <2>5, Zenon
      <4> QED BY <3>3, <4>1, WindowAhead
    <3> QED BY <3>1, <3>2, <3>4
  <2>15. last.since - f.since - c <= 3 * DetectMult - c BY <2>4, <2>5, <2>9, <2>13
  <2>16. Offset(f.seq, RcvAuthSeq, c) <= 3 * DetectMult - c BY <2>14, <2>15
  <2> QED BY <2>1, <2>7, <2>8, <2>13, <2>16, WindowOf
<1>2. AuthInv /\ [AuthNext]_authVars =>
        [\A k \in DOMAIN net :
           /\ Discard(k) /\ net[k].intact /\ LookupKey(net[k].keyID)
           /\ net[k].life = last.life /\ last.pace >= remoteDesiredMinTx /\ last.changes <= 1
           => net[k].since >= last.since]_authVars
  BY <1>1
<1> QED BY <1>2, AuthAlwaysInv, PTL DEF AuthSpec, FreshAccepted

=============================================================================
