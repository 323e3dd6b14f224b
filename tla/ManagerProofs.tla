---------------------------- MODULE ManagerProofs ---------------------------
(***************************************************************************)
(* Proofs about Manager, for every set of keys, discriminators and         *)
(* goroutines: the two indexes agree, a discriminator has one owner, and a *)
(* session's goroutine lives exactly as long as its registration; the      *)
(* limit on unsolicited sessions holds.                                    *)
(***************************************************************************)
EXTENDS Manager, SequenceTheorems, FiniteSetTheorems, TLAPS

(* A call has the key and the discriminator that its next step uses.       *)
CallOK ==
  \A p \in Procs :
    /\ call[p].pc \in {"check", "allocate", "register", "reserve"} => call[p].key \in Keys
    /\ call[p].pc \in {"register", "abort", "mark", "delete", "uncount", "cancel", "release"}
         => call[p].discr \in Discrs

ManagerInv == TypeOK /\ CallOK /\ MapsAgree /\ DiscrsOwned /\ GoroutinesOwned

(* The sections of a call during which it owns nothing.                    *)
Free == {"idle", "check", "allocate", "reserve", "unreserve", "mark", "delete", "reconcile"}

(* What every step of call[p] from one section to another amounts to for   *)
(* the other calls.                                                        *)
Moved(p, c) ==
  /\ c \in Calls
  /\ call' \in [Procs -> Calls]
  /\ call'[p] = c
  /\ \A q \in Procs \ {p} : /\ call'[q].pc = call[q].pc /\ call'[q].key = call[q].key
                            /\ call'[q].discr = call[q].discr

(* The next call of p carries what its section uses.                       *)
Armed(c) ==
  /\ c.pc \in {"check", "allocate", "register", "reserve"} => c.key \in Keys
  /\ c.pc \in {"register", "abort", "mark", "delete", "uncount", "cancel", "release"}
       => c.discr \in Discrs

(* Returning from an operation leaves a well-formed call that owns nothing *)
(* (the ends of CreateSession, DestroySession and ReconcileSessions).      *)
LEMMA ReturnedFree ==
  ASSUME NEW c \in Calls
  PROVE  Returned(c) \in Calls /\ Armed(Returned(c)) /\ Returned(c).pc \in Free
<1>1. Returned(c).pc \in {"idle", "reconcile"} /\ Returned(c) \in Calls
  BY DEF Returned, Idle, Calls, Steps, Causes
<1> QED BY <1>1 DEF Armed, Free

(* A step of one call that stays well formed keeps all calls well formed.  *)
LEMMA CallsStayOK ==
  ASSUME CallOK, NEW p \in Procs, NEW c, Moved(p, c), Armed(c)
  PROVE  CallOK'
<1> SUFFICES ASSUME NEW q \in Procs PROVE Armed(call'[q])
  BY DEF CallOK, Armed
<1>1. CASE q = p BY <1>1 DEF Moved
<1>2. CASE q # p BY <1>2 DEF Moved, CallOK, Armed
<1> QED BY <1>1, <1>2

(* A step between sections that own nothing, or of a call that changes     *)
(* nothing but its own bookkeeping, keeps the ownership (the read-only and *)
(* counter sections of CreateSession, tryCreateUnsolicited, cleanup and    *)
(* ReconcileSessions).                                                     *)
LEMMA FreeMove ==
  ASSUME ManagerInv, NEW p \in Procs, NEW c, Moved(p, c), Armed(c),
         call[p].pc \in Free, c.pc \in Free,
         UNCHANGED <<sessions, sessionsByPeer, allocated, running>>
  PROVE  CallOK' /\ MapsAgree' /\ DiscrsOwned' /\ GoroutinesOwned'
<1>1. CallOK' BY CallsStayOK DEF ManagerInv
<1>2. MapsAgree' BY DEF ManagerInv, MapsAgree
<1>3. \A q \in Procs, d \in Discrs : Holds(q, d)' <=> Holds(q, d)
  BY DEF Moved, Holds, Free
<1>4. \A q \in Procs, d \in Discrs : Cancels(q, d)' <=> Cancels(q, d)
  BY DEF Moved, Cancels, Free
<1>5. \A d \in Discrs : Registered(d)' <=> Registered(d)
  BY DEF Registered
<1>6. DiscrsOwned'
  <2> HIDE DEF Holds, Registered
  <2> QED BY <1>3, <1>5 DEF ManagerInv, DiscrsOwned
<1>7. GoroutinesOwned'
  <2> HIDE DEF Cancels, Registered
  <2> QED BY <1>4, <1>5 DEF ManagerInv, GoroutinesOwned
<1> QED BY <1>1, <1>2, <1>6, <1>7

(* Calls after one field or two of one call changed.                       *)
LEMMA StepOfOne ==
  ASSUME TypeOK, NEW p \in Procs, NEW c \in Calls, call' = [call EXCEPT ![p] = c]
  PROVE  Moved(p, c)
BY DEF TypeOK, Moved

(* Restamping the calls that clean d up touches nothing but the stamp.     *)
LEMMA OutdatedOK ==
  ASSUME TypeOK, NEW d \in Discrs
  PROVE  /\ Outdated(cleanups, d) \in [Timers -> Nat]
         /\ OutdatedCalls(call, d) \in [Procs -> Calls]
         /\ \A q \in Procs : /\ OutdatedCalls(call, d)[q].pc = call[q].pc
                             /\ OutdatedCalls(call, d)[q].key = call[q].key
                             /\ OutdatedCalls(call, d)[q].discr = call[q].discr
<1>1. <<d, "stale">> \in Timers /\ <<d, "timely">> \in Timers BY DEF Timers
<1>2. Outdated(cleanups, d) \in [Timers -> Nat]
  <2> DEFINE n == cleanups[<<d, "stale">>] + cleanups[<<d, "timely">>]
         f == [cleanups EXCEPT ![<<d, "stale">>] = n]
  <2>1. cleanups \in [Timers -> Nat] BY DEF TypeOK
  <2>2. cleanups[<<d, "stale">>] \in Nat /\ cleanups[<<d, "timely">>] \in Nat BY <1>1, <2>1
  <2>3. n \in Nat BY <2>2
  <2>4. Outdated(cleanups, d) = [f EXCEPT ![<<d, "timely">>] = 0]
    BY DEF Outdated
  <2> HIDE DEF n
  <2>5. f \in [Timers -> Nat] BY <2>1, <2>3
  <2> HIDE DEF f
  <2>6. 0 \in Nat OBVIOUS
  <2>7. [f EXCEPT ![<<d, "timely">>] = 0] \in [Timers -> Nat] BY <2>5, <2>6
  <2> QED BY <2>4, <2>7, Zenon
<1>3. ASSUME NEW q \in Procs
      PROVE  /\ OutdatedCalls(call, d)[q] \in Calls
             /\ OutdatedCalls(call, d)[q].pc = call[q].pc
             /\ OutdatedCalls(call, d)[q].key = call[q].key
             /\ OutdatedCalls(call, d)[q].discr = call[q].discr
  <2>1. call[q] \in Calls BY DEF TypeOK
  <2>2. OutdatedCalls(call, d)[q] = IF call[q].cause = "timely" /\ call[q].discr = d
                                    THEN [call[q] EXCEPT !.cause = "stale"] ELSE call[q]
    BY DEF OutdatedCalls
  <2> QED BY <2>1, <2>2 DEF Calls, Causes
<1>4. OutdatedCalls(call, d) \in [Procs -> Calls] BY <1>3 DEF OutdatedCalls
<1> QED BY <1>2, <1>3, <1>4

-----------------------------------------------------------------------------
(* The steps that own nothing                                              *)

(* The step of p leaves maps, allocator and goroutines alone and moves p   *)
(* between sections that own nothing.                                      *)
Benign(p) ==
  /\ UNCHANGED <<sessions, sessionsByPeer, allocated, running>>
  /\ \E c \in Calls : Moved(p, c) /\ Armed(c) /\ c.pc \in Free
  /\ call[p].pc \in Free
  /\ TypeOK'

(* Benign steps keep the invariant.                                        *)
LEMMA BenignKeeps ==
  ASSUME ManagerInv, NEW p \in Procs, Benign(p)
  PROVE  ManagerInv'
<1>1. PICK c \in Calls : Moved(p, c) /\ Armed(c) /\ c.pc \in Free BY DEF Benign
<1>2. CallOK' /\ MapsAgree' /\ DiscrsOwned' /\ GoroutinesOwned'
  BY <1>1, FreeMove DEF Benign
<1> QED BY <1>2 DEF ManagerInv, Benign

(* The entry of an operation, and the sections that only read, are benign: *)
(* CreateSession, DestroySession, demuxByPeer, ReconcileSessions and its   *)
(* loop, checkDuplicate, reserve, unreserve, markSessionUnsolicited.       *)
LEMMA EntriesBenign ==
  ASSUME ManagerInv, NEW p \in Procs,
         \/ \E k \in Keys : CreateSession(p, k) \/ demuxByPeer(p, k)
         \/ \E d \in Discrs : DestroySession(p, d)
         \/ \E desired \in SUBSET Keys : ReconcileSessions(p, desired)
         \/ reconcileNext(p)
  PROVE  Benign(p)
<1> DEFINE c == call'[p]
<1>0. call[p] \in Calls /\ TypeOK BY DEF ManagerInv, TypeOK
<1>1. CASE \E k \in Keys : CreateSession(p, k) \/ demuxByPeer(p, k)
  <2>1. PICK k \in Keys : CreateSession(p, k) \/ demuxByPeer(p, k) BY <1>1
  <2>2. PICK e \in Calls : call' = [call EXCEPT ![p] = e] /\ Armed(e) /\ e.pc \in Free
    <3>1. CASE CreateSession(p, k)
      <4> DEFINE e == [call[p] EXCEPT !.pc = "check", !.key = k]
      <4>1. e \in Calls /\ e.pc = "check" /\ e.key = k BY <1>0 DEF Calls, Steps
      <4>2. call' = [call EXCEPT ![p] = e] BY <3>1, <1>0 DEF CreateSession, TypeOK
      <4> QED BY <4>1, <4>2 DEF Armed, Free
    <3>2. CASE demuxByPeer(p, k)
      <4> DEFINE e == [call[p] EXCEPT !.pc = "reserve", !.key = k, !.passive = TRUE]
      <4>1. e \in Calls /\ e.pc = "reserve" /\ e.key = k BY <1>0 DEF Calls, Steps
      <4>2. call' = [call EXCEPT ![p] = e] BY <3>2, <1>0 DEF demuxByPeer, TypeOK
      <4> QED BY <4>1, <4>2 DEF Armed, Free
    <3> QED BY <2>1, <3>1, <3>2
  <2>3. Moved(p, e) BY <1>0, <2>2, StepOfOne
  <2>4. TypeOK' BY <1>0, <2>1, <2>3 DEF CreateSession, demuxByPeer, TypeOK, Moved, maps, feed
  <2> QED BY <2>1, <2>2, <2>3, <2>4 DEF Benign, CreateSession, demuxByPeer, At, Free, maps
<1>2. CASE \E d \in Discrs : DestroySession(p, d)
  <2>1. PICK d \in Discrs : DestroySession(p, d) BY <1>2
  <2> DEFINE e == [call[p] EXCEPT !.pc = "delete", !.discr = d]
  <2>2. e \in Calls /\ e.pc = "delete" /\ e.discr = d BY <1>0 DEF Calls, Steps
  <2>3. call' = [call EXCEPT ![p] = e] BY <2>1, <1>0 DEF DestroySession, TypeOK
  <2> HIDE DEF e
  <2>4. Moved(p, e) BY <1>0, <2>2, <2>3, StepOfOne
  <2>5. TypeOK' BY <1>0, <2>1, <2>4 DEF DestroySession, TypeOK, Moved, maps, feed
  <2> QED BY <2>1, <2>2, <2>4, <2>5 DEF Benign, DestroySession, At, Free, Armed, maps
<1>3. CASE \E desired \in SUBSET Keys : ReconcileSessions(p, desired)
  <2>1. PICK desired \in SUBSET Keys : ReconcileSessions(p, desired) BY <1>3
  <2> DEFINE current == {k \in Keys : sessionsByPeer[k] # Absent}
             ds == {sessionsByPeer[k] : k \in current \ desired}
             ws == desired \ current
             e == [call[p] EXCEPT !.pc = "reconcile", !.doomed = ds, !.wanted = ws]
  <2>2. ds \subseteq Discrs /\ ws \subseteq Keys BY <1>0 DEF TypeOK
  <2>3. call' = [call EXCEPT ![p] = e] BY <2>1, <1>0 DEF ReconcileSessions, TypeOK
  <2> HIDE DEF ds, ws
  <2>4. e \in Calls /\ e.pc = "reconcile" BY <1>0, <2>2 DEF Calls, Steps
  <2> HIDE DEF e
  <2>5. Moved(p, e) BY <1>0, <2>3, <2>4, StepOfOne
  <2>6. TypeOK' BY <1>0, <2>1, <2>5 DEF ReconcileSessions, TypeOK, Moved, maps, feed
  <2> QED BY <2>1, <2>4, <2>5, <2>6 DEF Benign, ReconcileSessions, At, Free, Armed, maps
<1>4. CASE reconcileNext(p)
  <2>1. PICK e \in Calls : call' = [call EXCEPT ![p] = e] /\ Armed(e) /\ e.pc \in Free
    <3>1. CASE \E d \in call[p].doomed :
                 call' = [call EXCEPT ![p].pc = "delete", ![p].discr = d, ![p].doomed = @ \ {d}]
      <4>1. PICK d \in call[p].doomed :
              call' = [call EXCEPT ![p].pc = "delete", ![p].discr = d, ![p].doomed = @ \ {d}]
        BY <3>1
      <4> DEFINE e == [call[p] EXCEPT !.pc = "delete", !.discr = d, !.doomed = @ \ {d}]
      <4>2. d \in Discrs BY <1>0 DEF Calls
      <4>3. e \in Calls /\ e.pc = "delete" /\ e.discr = d BY <1>0, <4>2 DEF Calls, Steps
      <4>4. call' = [call EXCEPT ![p] = e] BY <4>1, <1>0 DEF TypeOK
      <4> QED BY <4>2, <4>3, <4>4 DEF Armed, Free
    <3>2. CASE \E k \in call[p].wanted :
                 call' = [call EXCEPT ![p].pc = "check", ![p].key = k, ![p].wanted = @ \ {k}]
      <4>1. PICK k \in call[p].wanted :
              call' = [call EXCEPT ![p].pc = "check", ![p].key = k, ![p].wanted = @ \ {k}]
        BY <3>2
      <4> DEFINE e == [call[p] EXCEPT !.pc = "check", !.key = k, !.wanted = @ \ {k}]
      <4>2. k \in Keys BY <1>0 DEF Calls
      <4>3. e \in Calls /\ e.pc = "check" /\ e.key = k BY <1>0, <4>2 DEF Calls, Steps
      <4>4. call' = [call EXCEPT ![p] = e] BY <4>1, <1>0 DEF TypeOK
      <4> QED BY <4>2, <4>3, <4>4 DEF Armed, Free
    <3>3. CASE call' = [call EXCEPT ![p] = Idle]
      <4>1. Idle \in Calls /\ Idle.pc = "idle" BY DEF Idle, Calls, Steps, Causes
      <4> QED BY <3>3, <4>1 DEF Armed, Free
    <3> QED BY <1>4, <3>1, <3>2, <3>3 DEF reconcileNext
  <2>2. Moved(p, e) BY <1>0, <2>1, StepOfOne
  <2>3. TypeOK' BY <1>0, <1>4, <2>2 DEF reconcileNext, TypeOK, Moved, maps, feed
  <2> QED BY <1>4, <2>1, <2>2, <2>3 DEF Benign, reconcileNext, At, Free, maps
<1> QED BY <1>1, <1>2, <1>3, <1>4

(* p goes on to another section that owns nothing, on the same key.        *)
LEMMA GotoFree ==
  ASSUME ManagerInv, NEW p \in Procs, NEW pc \in Free, Goto(p, pc), 
         pc \in {"check", "allocate", "reserve"} => call[p].key \in Keys,
         pc \in {"mark", "delete"} => call[p].discr \in Discrs
  PROVE  \E c \in Calls : Moved(p, c) /\ Armed(c) /\ c.pc \in Free
<1> DEFINE e == [call[p] EXCEPT !.pc = pc]
<1>0. call[p] \in Calls /\ TypeOK BY DEF ManagerInv, TypeOK
<1>1. e \in Calls /\ e.pc = pc /\ e.key = call[p].key /\ e.discr = call[p].discr
  BY <1>0 DEF Calls, Steps, Free
<1>2. call' = [call EXCEPT ![p] = e] BY <1>0 DEF Goto, TypeOK
<1> HIDE DEF e
<1>3. Moved(p, e) BY <1>0, <1>1, <1>2, StepOfOne
<1> QED BY <1>1, <1>3 DEF Armed, Free

(* p returns from its operation.                                           *)
LEMMA ReturnFree ==
  ASSUME ManagerInv, NEW p \in Procs, Return(p)
  PROVE  \E c \in Calls : Moved(p, c) /\ Armed(c) /\ c.pc \in Free
<1>0. call[p] \in Calls /\ TypeOK BY DEF ManagerInv, TypeOK
<1>1. Returned(call[p]) \in Calls /\ Armed(Returned(call[p])) /\ Returned(call[p]).pc \in Free
  BY <1>0, ReturnedFree
<1>2. call' = [call EXCEPT ![p] = Returned(call[p])] BY <1>0 DEF Return, TypeOK
<1>3. Moved(p, Returned(call[p])) BY <1>0, <1>1, <1>2, StepOfOne
<1> QED BY <1>1, <1>3

(* A failed creation owns nothing any more.                                *)
LEMMA FailFree ==
  ASSUME ManagerInv, NEW p \in Procs, Fail(p)
  PROVE  \E c \in Calls : Moved(p, c) /\ Armed(c) /\ c.pc \in Free
<1>1. CASE Goto(p, "unreserve") BY <1>1, GotoFree DEF Free
<1>2. CASE Return(p) BY <1>2, ReturnFree
<1> QED BY <1>1, <1>2 DEF Fail

(* checkDuplicate, reserve, unreserve, markSessionUnsolicited, a failed    *)
(* allocateAndBuild and a DestroySession that finds nothing are benign.    *)
LEMMA SectionsBenign ==
  ASSUME ManagerInv, NEW p \in Procs,
         \/ checkDuplicate(p) \/ reserve(p) \/ unreserve(p) \/ markSessionUnsolicited(p)
         \/ allocateAndBuild(p) /\ Fail(p) /\ UNCHANGED allocated
         \/ deleteEntry(p) /\ ~Registered(call[p].discr)
  PROVE  Benign(p)
<1>0. call[p] \in Calls /\ TypeOK BY DEF ManagerInv, TypeOK
<1>a. ASSUME NEW n \in Nat PROVE release(n) \in Nat BY DEF release
<1>1. CASE checkDuplicate(p)
  <2>1. \E c \in Calls : Moved(p, c) /\ Armed(c) /\ c.pc \in Free
    <3>1. CASE Fail(p) BY <3>1, FailFree
    <3>2. CASE Goto(p, "allocate")
      <4>1. call[p].key \in Keys BY <1>1 DEF ManagerInv, CallOK, checkDuplicate, At
      <4> QED BY <3>2, <4>1, GotoFree DEF Free
    <3> QED BY <1>1, <3>1, <3>2 DEF checkDuplicate
  <2>2. TypeOK' BY <1>0, <1>1, <2>1 DEF checkDuplicate, TypeOK, Moved, maps, feed
  <2> QED BY <1>1, <2>1, <2>2 DEF Benign, checkDuplicate, At, Free, maps
<1>2. CASE reserve(p)
  <2>1. \E c \in Calls : Moved(p, c) /\ Armed(c) /\ c.pc \in Free
    <3>1. CASE Return(p) BY <3>1, ReturnFree
    <3>2. CASE Goto(p, "check")
      <4>1. call[p].key \in Keys BY <1>2 DEF ManagerInv, CallOK, reserve, At
      <4> QED BY <3>2, <4>1, GotoFree DEF Free
    <3> QED BY <1>2, <3>1, <3>2 DEF reserve
  <2>2. sessionCount' \in Nat BY <1>0, <1>2 DEF reserve, TypeOK
  <2>3. TypeOK' BY <1>0, <1>2, <2>1, <2>2 DEF reserve, TypeOK, Moved, maps, feed
  <2> QED BY <1>2, <2>1, <2>3 DEF Benign, reserve, At, Free, maps
<1>3. CASE unreserve(p)
  <2>1. \E c \in Calls : Moved(p, c) /\ Armed(c) /\ c.pc \in Free
    BY <1>3, ReturnFree DEF unreserve
  <2>2. sessionCount' \in Nat BY <1>0, <1>3, <1>a DEF unreserve, TypeOK
  <2>3. TypeOK' BY <1>0, <1>3, <2>1, <2>2 DEF unreserve, TypeOK, Moved, maps, feed
  <2> QED BY <1>3, <2>1, <2>3 DEF Benign, unreserve, At, Free, maps
<1>4. CASE markSessionUnsolicited(p)
  <2>1. \E c \in Calls : Moved(p, c) /\ Armed(c) /\ c.pc \in Free
    BY <1>4, ReturnFree DEF markSessionUnsolicited
  <2>2. call[p].discr \in Discrs BY <1>4 DEF ManagerInv, CallOK, markSessionUnsolicited, At
  <2>3. unsolicited' \subseteq Discrs BY <1>0, <1>4, <2>2 DEF markSessionUnsolicited, TypeOK
  <2>4. TypeOK' BY <1>0, <1>4, <2>1, <2>3 DEF markSessionUnsolicited, TypeOK, Moved, feed
  <2> QED BY <1>4, <2>1, <2>4 DEF Benign, markSessionUnsolicited, At, Free
<1>5. CASE allocateAndBuild(p) /\ Fail(p) /\ UNCHANGED allocated
  <2>1. \E c \in Calls : Moved(p, c) /\ Armed(c) /\ c.pc \in Free BY <1>5, FailFree
  <2>2. TypeOK' BY <1>0, <1>5, <2>1 DEF allocateAndBuild, TypeOK, Moved, maps, feed
  <2> QED BY <1>5, <2>1, <2>2 DEF Benign, allocateAndBuild, At, Free, maps
<1>6. CASE deleteEntry(p) /\ ~Registered(call[p].discr)
  <2>0. Return(p) /\ UNCHANGED maps BY <1>6 DEF deleteEntry
  <2>1. \E c \in Calls : Moved(p, c) /\ Armed(c) /\ c.pc \in Free BY <2>0, ReturnFree
  <2>2. TypeOK' BY <1>0, <1>6, <2>0, <2>1 DEF deleteEntry, TypeOK, Moved, maps, feed
  <2> QED BY <1>6, <2>0, <2>1, <2>2 DEF Benign, deleteEntry, At, Free, maps
<1> QED BY <1>1, <1>2, <1>3, <1>4, <1>5, <1>6

-----------------------------------------------------------------------------
(* The steps that acquire, hand over or give up a discriminator            *)

(* Allocate draws a value that nobody holds.                               *)
LEMMA AllocateKeeps ==
  ASSUME ManagerInv, NEW p \in Procs, At(p, "allocate"), NEW d \in Allocate,
         allocated' = allocated \cup {d},
         call' = [call EXCEPT ![p].pc = "register", ![p].discr = d],
         UNCHANGED <<maps, sessionCount, running, feed, closed>>
  PROVE  ManagerInv'
<1> DEFINE e == [call[p] EXCEPT !.pc = "register", !.discr = d]
<1>0. call[p] \in Calls /\ TypeOK /\ d \in Discrs /\ d \notin allocated
  BY DEF ManagerInv, TypeOK, Allocate
<1>1. e \in Calls /\ e.pc = "register" /\ e.discr = d /\ e.key = call[p].key
  BY <1>0 DEF Calls, Steps
<1>2. call' = [call EXCEPT ![p] = e] BY <1>0 DEF TypeOK
<1> HIDE DEF e
<1>3. Moved(p, e) BY <1>0, <1>1, <1>2, StepOfOne
<1>4. Armed(e)
  <2>1. call[p].key \in Keys BY DEF ManagerInv, CallOK, At
  <2> QED BY <1>0, <1>1, <2>1 DEF Armed
<1>5. TypeOK' BY <1>0, <1>3 DEF TypeOK, Moved, maps, feed
<1>6. CallOK' BY <1>3, <1>4, CallsStayOK DEF ManagerInv
<1>7. MapsAgree' BY DEF ManagerInv, MapsAgree, maps
<1>8. ~Registered(d) /\ \A q \in Procs : ~Holds(q, d) BY <1>0 DEF ManagerInv, DiscrsOwned
<1>9. \A q \in Procs, x \in Discrs : Holds(q, x)' <=> (q = p /\ x = d) \/ Holds(q, x)
  BY <1>1, <1>3 DEF Moved, Holds, At
<1>10. \A q \in Procs, x \in Discrs : Cancels(q, x)' <=> Cancels(q, x)
  BY <1>1, <1>3 DEF Moved, Cancels, At
<1>11. \A x \in Discrs : Registered(x)' <=> Registered(x) BY DEF Registered, maps
<1>12. \A x \in Discrs : ~Holds(p, x) BY DEF Holds, At
<1>13. DiscrsOwned'
  <2> HIDE DEF Holds, Registered
  <2> QED BY <1>0, <1>8, <1>9, <1>11, <1>12 DEF ManagerInv, DiscrsOwned
<1>14. GoroutinesOwned'
  <2> HIDE DEF Cancels, Registered
  <2> QED BY <1>10, <1>11 DEF ManagerInv, GoroutinesOwned
<1> QED BY <1>5, <1>6, <1>7, <1>13, <1>14 DEF ManagerInv

(* A creation that meets a duplicate keeps its discriminator until it      *)
(* releases it; a destruction keeps it across the counter.                 *)
LEMMA HandOverKeeps ==
  ASSUME ManagerInv, NEW p \in Procs, NEW pc,
         \/ At(p, "register") /\ pc = "abort"
         \/ At(p, "uncount") /\ pc = "cancel",
         Goto(p, pc), UNCHANGED <<maps, allocated, running, feed, closed>>,
         sessionCount' \in Nat
  PROVE  ManagerInv'
<1> DEFINE e == [call[p] EXCEPT !.pc = pc]
<1>0. call[p] \in Calls /\ TypeOK BY DEF ManagerInv, TypeOK
<1>1. e \in Calls /\ e.pc = pc /\ e.discr = call[p].discr /\ e.key = call[p].key
  BY <1>0 DEF Calls, Steps
<1>2. call' = [call EXCEPT ![p] = e] BY <1>0 DEF Goto, TypeOK
<1> HIDE DEF e
<1>3. Moved(p, e) BY <1>0, <1>1, <1>2, StepOfOne
<1>4. Armed(e)
  <2>1. call[p].discr \in Discrs BY DEF ManagerInv, CallOK, At
  <2> QED BY <1>1, <2>1 DEF Armed
<1>5. TypeOK' BY <1>0, <1>3 DEF TypeOK, Moved, maps, feed
<1>6. CallOK' BY <1>3, <1>4, CallsStayOK DEF ManagerInv
<1>7. MapsAgree' BY DEF ManagerInv, MapsAgree, maps
<1>8. \A q \in Procs, x \in Discrs : Holds(q, x)' <=> Holds(q, x)
  BY <1>1, <1>3 DEF Moved, Holds, At
<1>9. \A q \in Procs, x \in Discrs : Cancels(q, x)' <=> Cancels(q, x)
  BY <1>1, <1>3 DEF Moved, Cancels, At
<1>10. \A x \in Discrs : Registered(x)' <=> Registered(x) BY DEF Registered, maps
<1>11. DiscrsOwned'
  <2> HIDE DEF Holds, Registered
  <2> QED BY <1>8, <1>10 DEF ManagerInv, DiscrsOwned, maps
<1>12. GoroutinesOwned'
  <2> HIDE DEF Cancels, Registered
  <2> QED BY <1>9, <1>10 DEF ManagerInv, GoroutinesOwned
<1> QED BY <1>5, <1>6, <1>7, <1>11, <1>12 DEF ManagerInv

(* abortCreate and the last section of DestroySession free the             *)
(* discriminator that the call alone holds.                                *)
LEMMA ReleaseKeeps ==
  ASSUME ManagerInv, NEW p \in Procs, At(p, "abort") \/ At(p, "release"),
         allocated' = Released(call[p].discr), Fail(p) \/ Return(p),
         UNCHANGED <<maps, sessionCount, running, feed, closed>>
  PROVE  ManagerInv'
<1> DEFINE d == call[p].discr
<1>0. TypeOK /\ d \in Discrs BY DEF ManagerInv, CallOK, At
<1>1. PICK c \in Calls : Moved(p, c) /\ Armed(c) /\ c.pc \in Free BY FailFree, ReturnFree
<1>2. TypeOK' BY <1>0, <1>1 DEF TypeOK, Moved, maps, feed, Released
<1>3. CallOK' BY <1>1, CallsStayOK DEF ManagerInv
<1>4. MapsAgree' BY DEF ManagerInv, MapsAgree, maps
<1>5. \A q \in Procs, x \in Discrs : Holds(q, x)' <=> q # p /\ Holds(q, x)
  BY <1>1 DEF Moved, Holds, Free
<1>6. \A q \in Procs, x \in Discrs : Cancels(q, x)' <=> Cancels(q, x)
  BY <1>1 DEF Moved, Cancels, Free, At
<1>7. \A x \in Discrs : Registered(x)' <=> Registered(x) BY DEF Registered, maps
<1>8. Holds(p, d) /\ \A x \in Discrs : Holds(p, x) => x = d BY DEF Holds, At
<1>9. \A x : x \in allocated' <=> x \in allocated /\ x # d BY DEF Released
<1>10. DiscrsOwned'
  <2> HIDE DEF Holds, Registered, d
  <2> QED BY <1>0, <1>5, <1>7, <1>8, <1>9 DEF ManagerInv, DiscrsOwned
<1>11. GoroutinesOwned'
  <2> HIDE DEF Cancels, Registered
  <2> QED BY <1>6, <1>7 DEF ManagerInv, GoroutinesOwned
<1> QED BY <1>2, <1>3, <1>4, <1>10, <1>11 DEF ManagerInv

(* DestroySession cancels the one goroutine of the session it removed.     *)
LEMMA CancelKeeps ==
  ASSUME ManagerInv, NEW p \in Procs, cancelEntry(p)
  PROVE  ManagerInv'
<1> DEFINE d == call[p].discr
           e == [call[p] EXCEPT !.pc = "release"]
<1>0. call[p] \in Calls /\ TypeOK /\ d \in Discrs /\ At(p, "cancel")
  BY DEF ManagerInv, TypeOK, CallOK, At, cancelEntry
<1>1. e \in Calls /\ e.pc = "release" /\ e.discr = d BY <1>0 DEF Calls, Steps
<1>2. call' = [call EXCEPT ![p] = e] BY <1>0 DEF cancelEntry, Goto, TypeOK
<1> HIDE DEF e
<1>3. Moved(p, e) BY <1>0, <1>1, <1>2, StepOfOne
<1>4. Armed(e) BY <1>0, <1>1 DEF Armed
<1>5. Holds(p, d) /\ Cancels(p, d) /\ \A x \in Discrs : Cancels(p, x) => x = d
  BY <1>0 DEF Holds, Cancels, At
<1>6. \A q \in Procs, x \in Discrs : Cancels(q, x) => Holds(q, x) BY DEF Holds, Cancels
<1>7. ~Registered(d) /\ \A q \in Procs \ {p} : ~Cancels(q, d)
  BY <1>0, <1>5, <1>6 DEF ManagerInv, DiscrsOwned
<1>8. running[d] = 1 BY <1>0, <1>5 DEF ManagerInv, GoroutinesOwned
<1>9. running' = [running EXCEPT ![d] = 0]
  <2>1. running' = [running EXCEPT ![d] = running[d] - 1] BY DEF cancelEntry
  <2> QED BY <1>8, <2>1
<1>10. TypeOK' BY <1>0, <1>3, <1>9 DEF cancelEntry, TypeOK, Moved, maps, feed
<1>11. CallOK' BY <1>3, <1>4, CallsStayOK DEF ManagerInv
<1>12. MapsAgree' BY DEF ManagerInv, MapsAgree, cancelEntry, maps
<1>13. \A q \in Procs, x \in Discrs : Holds(q, x)' <=> Holds(q, x)
  BY <1>0, <1>1, <1>3 DEF Moved, Holds, At
<1>14. \A q \in Procs, x \in Discrs : Cancels(q, x)' <=> q # p /\ Cancels(q, x)
  BY <1>1, <1>3 DEF Moved, Cancels
<1>15. \A x \in Discrs : Registered(x)' <=> Registered(x) BY DEF Registered, cancelEntry, maps
<1>16. DiscrsOwned'
  <2>1. allocated' = allocated BY DEF cancelEntry
  <2> HIDE DEF Holds, Registered
  <2> QED BY <1>13, <1>15, <2>1 DEF ManagerInv, DiscrsOwned
<1>17. ASSUME NEW x \in Discrs
       PROVE  running'[x] = IF Registered(x)' \/ \E q \in Procs : Cancels(q, x)' THEN 1 ELSE 0
  <2>0. running \in [Discrs -> Nat] BY <1>0 DEF TypeOK
  <2> HIDE DEF Cancels, Registered, d
  <2>1. CASE x = d BY <2>0, <2>1, <1>0, <1>7, <1>9, <1>14, <1>15
  <2>2. CASE x # d
    <3>1. running'[x] = running[x] BY <2>0, <2>2, <1>9
    <3>2. (\E q \in Procs : Cancels(q, x)') <=> \E q \in Procs : Cancels(q, x)
      BY <2>2, <1>5, <1>14
    <3> QED BY <3>1, <3>2, <1>15 DEF ManagerInv, GoroutinesOwned
  <2> QED BY <2>1, <2>2
<1>18. GoroutinesOwned' BY <1>17 DEF GoroutinesOwned
<1> QED BY <1>10, <1>11, <1>12, <1>16, <1>18 DEF ManagerInv

(* registerAndStart, with the second duplicate check passed: the session   *)
(* takes the discriminator over from the call and gets its goroutine.      *)
LEMMA RegisterKeeps ==
  ASSUME ManagerInv, NEW p \in Procs, registerAndStart(p),
         sessionsByPeer[call[p].key] = Absent
  PROVE  ManagerInv'
<1> DEFINE d == call[p].discr
           k == call[p].key
           e == IF call[p].passive THEN [call[p] EXCEPT !.pc = "mark"] ELSE Returned(call[p])
<1>0. call[p] \in Calls /\ TypeOK /\ d \in Discrs /\ k \in Keys /\ At(p, "register")
  BY DEF ManagerInv, TypeOK, CallOK, At, registerAndStart
<1>1. /\ sessions' = [sessions EXCEPT ![d] = k]
      /\ sessionsByPeer' = [sessionsByPeer EXCEPT ![k] = d]
      /\ running' = [running EXCEPT ![d] = @ + 1]
      /\ notDown' = notDown \ {d}
      /\ cleanups' = Outdated(cleanups, d)
      /\ call' = [OutdatedCalls(call, d) EXCEPT ![p] = e]
      /\ UNCHANGED <<unsolicited, allocated, sessionCount, rawNotifyCh, closed>>
  BY DEF registerAndStart
<1>2. e \in Calls /\ e.pc \in Free /\ Armed(e)
  <2>1. CASE call[p].passive
    <3>1. e \in Calls /\ e.pc = "mark" /\ e.discr = d BY <1>0, <2>1 DEF Calls, Steps
    <3> QED BY <1>0, <3>1 DEF Armed, Free
  <2>2. CASE ~call[p].passive BY <1>0, <2>2, ReturnedFree
  <2> QED BY <2>1, <2>2
<1> HIDE DEF e
<1>3. Moved(p, e)
  <2>1. OutdatedCalls(call, d) \in [Procs -> Calls] BY <1>0, OutdatedOK
  <2>2. \A q \in Procs : /\ OutdatedCalls(call, d)[q].pc = call[q].pc
                         /\ OutdatedCalls(call, d)[q].key = call[q].key
                         /\ OutdatedCalls(call, d)[q].discr = call[q].discr
    BY <1>0, OutdatedOK
  <2> DEFINE oc == OutdatedCalls(call, d)
  <2>3. call' = [oc EXCEPT ![p] = e] BY <1>1
  <2> HIDE DEF oc
  <2>4. oc \in [Procs -> Calls] BY <2>1 DEF oc
  <2>5. \A q \in Procs : oc[q].pc = call[q].pc /\ oc[q].key = call[q].key
                         /\ oc[q].discr = call[q].discr
    BY <2>2 DEF oc
  <2> QED BY <1>2, <2>3, <2>4, <2>5 DEF Moved
<1>4. Holds(p, d) /\ \A x \in Discrs : Holds(p, x) => x = d BY <1>0 DEF Holds, At
<1>5. ~Registered(d) /\ d \in allocated /\ \A q \in Procs \ {p} : ~Holds(q, d)
  BY <1>0, <1>4 DEF ManagerInv, DiscrsOwned
<1>6. \A q \in Procs : ~Cancels(q, d)
  <2>1. ~Cancels(p, d) BY <1>0 DEF Cancels, At
  <2>2. \A q \in Procs, x \in Discrs : Cancels(q, x) => Holds(q, x) BY DEF Holds, Cancels
  <2> QED BY <1>0, <1>5, <2>1, <2>2
<1>7. running[d] = 0 BY <1>0, <1>5, <1>6 DEF ManagerInv, GoroutinesOwned
<1>8. running' = [running EXCEPT ![d] = 1]
  <2>1. running' = [running EXCEPT ![d] = running[d] + 1] BY <1>1
  <2> QED BY <1>7, <2>1
<1>9. TypeOK'
  <2>1. Outdated(cleanups, d) \in [Timers -> Nat] BY <1>0, OutdatedOK
  <2> QED BY <1>0, <1>1, <1>3, <1>8, <2>1 DEF TypeOK, Moved
<1>10. CallOK' BY <1>2, <1>3, CallsStayOK DEF ManagerInv
<1>11. MapsAgree'
  <2>1. sessions \in [Discrs -> Keys \cup {Absent}] /\ sessionsByPeer \in [Keys -> Discrs \cup {Absent}]
    BY <1>0 DEF TypeOK
  <2>2. Absent \notin Keys /\ Absent \notin Discrs BY ManagerAssumption
  <2>3. sessions[d] = Absent BY <1>5 DEF Registered
  <2> SUFFICES ASSUME NEW x \in Discrs, NEW y \in Keys
               PROVE  sessions'[x] = y <=> sessionsByPeer'[y] = x
    BY DEF MapsAgree
  <2>4. sessions[x] = y <=> sessionsByPeer[y] = x BY DEF ManagerInv, MapsAgree
  <2>5. sessions'[x] = (IF x = d THEN k ELSE sessions[x]) BY <1>1, <2>1
  <2>6. sessionsByPeer'[y] = (IF y = k THEN d ELSE sessionsByPeer[y]) BY <1>1, <2>1
  <2>7. sessionsByPeer[k] = Absent OBVIOUS
  <2> HIDE DEF d, k
  <2>8. CASE x = d
    <3>1. sessionsByPeer[y] # d BY <2>2, <2>3, <2>4, <2>8
    <3> QED BY <2>5, <2>6, <2>8, <3>1
  <2>9. CASE x # d /\ y = k
    <3>1. sessions[x] # k BY <2>2, <2>4, <2>7, <2>9
    <3> QED BY <2>5, <2>6, <2>9, <3>1
  <2>10. CASE x # d /\ y # k BY <2>4, <2>5, <2>6, <2>10
  <2> QED BY <2>8, <2>9, <2>10
<1>12. \A q \in Procs, x \in Discrs : Holds(q, x)' <=> q # p /\ Holds(q, x)
  BY <1>2, <1>3 DEF Moved, Holds, Free
<1>13. \A q \in Procs, x \in Discrs : Cancels(q, x)' <=> Cancels(q, x)
  BY <1>0, <1>2, <1>3 DEF Moved, Cancels, Free, At
<1>14. \A x \in Discrs : Registered(x)' <=> x = d \/ Registered(x)
  <2>1. k # Absent BY <1>0, ManagerAssumption
  <2> QED BY <1>0, <1>1, <2>1 DEF Registered, TypeOK
<1>15. DiscrsOwned'
  <2>1. allocated' = allocated BY <1>1
  <2> HIDE DEF Holds, Registered, d
  <2> QED BY <1>0, <1>4, <1>5, <1>12, <1>14, <2>1 DEF ManagerInv, DiscrsOwned
<1>16. ASSUME NEW x \in Discrs
       PROVE  running'[x] = IF Registered(x)' \/ \E q \in Procs : Cancels(q, x)' THEN 1 ELSE 0
  <2>0. running \in [Discrs -> Nat] BY <1>0 DEF TypeOK
  <2> HIDE DEF Cancels, Registered, d
  <2>1. CASE x = d BY <2>0, <2>1, <1>0, <1>8, <1>14
  <2>2. CASE x # d
    <3>1. running'[x] = running[x] BY <2>0, <2>2, <1>8
    <3> QED BY <2>2, <3>1, <1>13, <1>14 DEF ManagerInv, GoroutinesOwned
  <2> QED BY <2>1, <2>2
<1>17. GoroutinesOwned' BY <1>16 DEF GoroutinesOwned
<1> QED BY <1>9, <1>10, <1>11, <1>15, <1>17 DEF ManagerInv

(* DestroySession, with the session found: the call takes the              *)
(* discriminator over and will cancel the goroutine.                       *)
LEMMA DeleteKeeps ==
  ASSUME ManagerInv, NEW p \in Procs, deleteEntry(p), Registered(call[p].discr)
  PROVE  ManagerInv'
<1> DEFINE d == call[p].discr
           k == sessions[d]
           pc == IF d \in unsolicited THEN "uncount" ELSE "cancel"
           e == [call[p] EXCEPT !.pc = pc]
<1>0. call[p] \in Calls /\ TypeOK /\ d \in Discrs /\ At(p, "delete")
  BY DEF ManagerInv, TypeOK, CallOK, At, deleteEntry
<1>1. /\ sessions' = [sessions EXCEPT ![d] = Absent]
      /\ sessionsByPeer' = [sessionsByPeer EXCEPT ![k] = Absent]
      /\ unsolicited' = unsolicited \ {d}
      /\ Goto(p, pc)
      /\ UNCHANGED <<allocated, sessionCount, running, feed, closed>>
  BY DEF deleteEntry
<1>2. pc \in {"uncount", "cancel"} OBVIOUS
<1> HIDE DEF pc
<1>3. e \in Calls /\ e.pc = pc /\ e.discr = d BY <1>0, <1>2 DEF Calls, Steps
<1>4. call' = [call EXCEPT ![p] = e] BY <1>0, <1>1 DEF Goto, TypeOK
<1> HIDE DEF e
<1>5. Moved(p, e) BY <1>0, <1>3, <1>4, StepOfOne
<1>6. Armed(e) BY <1>0, <1>2, <1>3 DEF Armed
<1>7. k \in Keys BY <1>0 DEF TypeOK, Registered
<1>8. sessionsByPeer[k] = d BY <1>0, <1>7 DEF ManagerInv, MapsAgree
<1>9. TypeOK' BY <1>0, <1>1, <1>5, <1>7 DEF TypeOK, Moved, feed
<1>10. CallOK' BY <1>5, <1>6, CallsStayOK DEF ManagerInv
<1>11. MapsAgree'
  <2>1. sessions \in [Discrs -> Keys \cup {Absent}] /\ sessionsByPeer \in [Keys -> Discrs \cup {Absent}]
    BY <1>0 DEF TypeOK
  <2>2. Absent \notin Keys /\ Absent \notin Discrs BY ManagerAssumption
  <2> SUFFICES ASSUME NEW x \in Discrs, NEW y \in Keys
               PROVE  sessions'[x] = y <=> sessionsByPeer'[y] = x
    BY DEF MapsAgree
  <2>3. sessions[x] = y <=> sessionsByPeer[y] = x BY DEF ManagerInv, MapsAgree
  <2>4. sessions[d] = y <=> sessionsByPeer[y] = d BY <1>0 DEF ManagerInv, MapsAgree
  <2>5. sessions'[x] = (IF x = d THEN Absent ELSE sessions[x]) BY <1>1, <2>1
  <2>6. sessionsByPeer'[y] = (IF y = k THEN Absent ELSE sessionsByPeer[y]) BY <1>1, <2>1
  <2>7. CASE x = d BY <2>2, <2>4, <2>5, <2>6, <2>7
  <2>8. CASE x # d /\ y = k
    <3>1. sessions[x] # k BY <1>8, <2>3, <2>8
    <3> QED BY <2>2, <2>5, <2>6, <2>8, <3>1
  <2>9. CASE x # d /\ y # k BY <2>3, <2>5, <2>6, <2>9
  <2> QED BY <2>7, <2>8, <2>9
<1>12. d \in allocated /\ \A q \in Procs : ~Holds(q, d)
  BY <1>0 DEF ManagerInv, DiscrsOwned
<1>13. running[d] = 1 BY <1>0 DEF ManagerInv, GoroutinesOwned
<1>14. \A q \in Procs, x \in Discrs : Holds(q, x)' <=> (q = p /\ x = d) \/ Holds(q, x)
  BY <1>0, <1>2, <1>3, <1>5 DEF Moved, Holds, At
<1>15. \A q \in Procs, x \in Discrs : Cancels(q, x)' <=> (q = p /\ x = d) \/ Cancels(q, x)
  BY <1>0, <1>2, <1>3, <1>5 DEF Moved, Cancels, At
<1>16. \A x \in Discrs : Registered(x)' <=> x # d /\ Registered(x)
  BY <1>0, <1>1 DEF Registered, TypeOK
<1>17. \A x \in Discrs : ~Holds(p, x) BY <1>0 DEF Holds, At
<1>18. DiscrsOwned'
  <2>1. allocated' = allocated BY <1>1
  <2> HIDE DEF Holds, Registered, d
  <2> QED BY <1>0, <1>12, <1>14, <1>16, <1>17, <2>1 DEF ManagerInv, DiscrsOwned
<1>19. ASSUME NEW x \in Discrs
       PROVE  running'[x] = IF Registered(x)' \/ \E q \in Procs : Cancels(q, x)' THEN 1 ELSE 0
  <2>0. running' = running BY <1>1
  <2> HIDE DEF Cancels, Registered, d
  <2>1. CASE x = d BY <2>0, <2>1, <1>13, <1>15
  <2>2. CASE x # d
    <3>1. (\E q \in Procs : Cancels(q, x)') <=> \E q \in Procs : Cancels(q, x)
      BY <2>2, <1>15
    <3> QED BY <2>0, <2>2, <3>1, <1>16 DEF ManagerInv, GoroutinesOwned
  <2> QED BY <2>1, <2>2
<1>20. GoroutinesOwned' BY <1>19 DEF GoroutinesOwned
<1> QED BY <1>9, <1>10, <1>11, <1>18, <1>20 DEF ManagerInv

(* Close ends every registered session and leaves what calls hold alone.   *)
LEMMA CloseKeeps ==
  ASSUME ManagerInv, Close
  PROVE  ManagerInv'
<1>0. TypeOK BY DEF ManagerInv
<1>1. \A d \in Discrs : Registered(d) => running[d] = 1 BY DEF ManagerInv, GoroutinesOwned
<1>2. running' = [d \in Discrs |-> IF Registered(d) THEN 0 ELSE running[d]]
  BY <1>1 DEF Close
<1>3. TypeOK'
  <2>1. \A d \in Discrs : running[d] \in Nat BY <1>0 DEF TypeOK
  <2>2. running' \in [Discrs -> Nat] BY <1>2, <2>1
  <2> QED BY <1>0, <2>2 DEF Close, TypeOK, feed
<1>4. CallOK' BY DEF ManagerInv, CallOK, Close
<1>5. MapsAgree'
  <2>1. Absent \notin Keys /\ Absent \notin Discrs BY ManagerAssumption
  <2> QED BY <2>1 DEF Close, MapsAgree
<1>6. \A q \in Procs, x \in Discrs : Holds(q, x)' <=> Holds(q, x) BY DEF Close, Holds
<1>7. \A q \in Procs, x \in Discrs : Cancels(q, x)' <=> Cancels(q, x) BY DEF Close, Cancels
<1>8. \A x \in Discrs : ~Registered(x)' BY DEF Close, Registered
<1>9. \A q \in Procs, x \in Discrs : Cancels(q, x) => Holds(q, x) BY DEF Holds, Cancels
<1>10. DiscrsOwned'
  <2>1. \A x \in Discrs : x \in allocated' <=> x \in allocated /\ ~Registered(x)
    BY DEF Close
  <2> HIDE DEF Holds, Registered
  <2> QED BY <1>6, <1>8, <2>1 DEF ManagerInv, DiscrsOwned
<1>11. ASSUME NEW x \in Discrs
       PROVE  running'[x] = IF Registered(x)' \/ \E q \in Procs : Cancels(q, x)' THEN 1 ELSE 0
  <2>1. Registered(x) => \A q \in Procs : ~Cancels(q, x) BY <1>9 DEF ManagerInv, DiscrsOwned
  <2>2. running[x] = IF Registered(x) \/ \E q \in Procs : Cancels(q, x) THEN 1 ELSE 0
    BY DEF ManagerInv, GoroutinesOwned
  <2>3. running'[x] = IF Registered(x) THEN 0 ELSE running[x] BY <1>2
  <2> HIDE DEF Cancels, Registered
  <2> QED BY <1>7, <1>8, <2>1, <2>2, <2>3
<1>12. GoroutinesOwned' BY <1>11 DEF GoroutinesOwned
<1> QED BY <1>3, <1>4, <1>5, <1>10, <1>12 DEF ManagerInv

-----------------------------------------------------------------------------
(* State changes and their cleanup                                         *)

(* A step that leaves maps, allocator and goroutines alone and changes no  *)
(* call but in its stamp keeps the invariant.                              *)
LEMMA StampKeeps ==
  ASSUME ManagerInv, TypeOK', UNCHANGED <<sessions, sessionsByPeer, allocated, running>>,
         \A q \in Procs : /\ call'[q].pc = call[q].pc /\ call'[q].key = call[q].key
                          /\ call'[q].discr = call[q].discr
  PROVE  ManagerInv'
<1>1. CallOK' BY DEF ManagerInv, CallOK
<1>2. MapsAgree' BY DEF ManagerInv, MapsAgree
<1>3. \A q \in Procs, d \in Discrs : Holds(q, d)' <=> Holds(q, d) BY DEF Holds
<1>4. \A q \in Procs, d \in Discrs : Cancels(q, d)' <=> Cancels(q, d) BY DEF Cancels
<1>5. \A d \in Discrs : Registered(d)' <=> Registered(d) BY DEF Registered
<1>6. DiscrsOwned'
  <2> HIDE DEF Holds, Registered
  <2> QED BY <1>3, <1>5 DEF ManagerInv, DiscrsOwned
<1>7. GoroutinesOwned'
  <2> HIDE DEF Cancels, Registered
  <2> QED BY <1>4, <1>5 DEF ManagerInv, GoroutinesOwned
<1> QED BY <1>1, <1>2, <1>6, <1>7 DEF ManagerInv

(* State changes of sessions and their dispatch keep the invariant.        *)
LEMMA FeedKeeps ==
  ASSUME ManagerInv,
         (\E d \in Discrs : SessionLeavesDown(d) \/ SessionGoesDown(d)) \/ RunDispatch
  PROVE  ManagerInv'
<1>0. TypeOK BY DEF ManagerInv
<1>1. ASSUME NEW d \in Discrs, SessionLeavesDown(d) PROVE ManagerInv'
  <2>1. Outdated(cleanups, d) \in [Timers -> Nat] /\ OutdatedCalls(call, d) \in [Procs -> Calls]
    BY <1>0, OutdatedOK
  <2>2. TypeOK' BY <1>0, <1>1, <2>1 DEF SessionLeavesDown, TypeOK, maps
  <2>3. \A q \in Procs : /\ call'[q].pc = call[q].pc /\ call'[q].key = call[q].key
                         /\ call'[q].discr = call[q].discr
    BY <1>0, <1>1, OutdatedOK DEF SessionLeavesDown
  <2> QED BY <1>1, <2>2, <2>3, StampKeeps DEF SessionLeavesDown, maps
<1>2. ASSUME NEW d \in Discrs, SessionGoesDown(d) PROVE ManagerInv'
  <2>1. rawNotifyCh' \in Seq(Discrs)
    BY <1>0, <1>2, AppendProperties DEF SessionGoesDown, TypeOK
  <2>2. TypeOK' BY <1>0, <1>2, <2>1 DEF SessionGoesDown, TypeOK, maps
  <2> QED BY <1>2, <2>2, StampKeeps DEF SessionGoesDown, maps
<1>3. ASSUME RunDispatch PROVE ManagerInv'
  <2> DEFINE d == Head(rawNotifyCh)
             t == <<d, IF d \in notDown THEN "stale" ELSE "timely">>
  <2>1. rawNotifyCh \in Seq(Discrs) /\ rawNotifyCh # <<>> BY <1>0, <1>3 DEF TypeOK, RunDispatch
  <2>2. d \in Discrs /\ Tail(rawNotifyCh) \in Seq(Discrs) BY <2>1, HeadTailProperties
  <2>3. t \in Timers BY <2>2 DEF Timers
  <2>4. cleanups' = cleanups \/ cleanups' = [cleanups EXCEPT ![t] = @ + 1]
    BY <1>3 DEF RunDispatch
  <2> HIDE DEF t
  <2>5. cleanups' \in [Timers -> Nat] BY <1>0, <2>3, <2>4 DEF TypeOK
  <2>6. TypeOK' BY <1>0, <1>3, <2>2, <2>5 DEF RunDispatch, TypeOK, maps
  <2> QED BY <1>3, <2>6, StampKeeps DEF RunDispatch, maps
<1> QED BY <1>1, <1>2, <1>3

(* A cleanup goroutine checks its session and becomes a destruction.       *)
LEMMA CleanupBenign ==
  ASSUME ManagerInv, NEW p \in Procs, NEW d \in Discrs, NEW cause \in {"timely", "stale"},
         cleanupUnsolicitedSession(p, d, cause)
  PROVE  Benign(p)
<1>0. call[p] \in Calls /\ TypeOK /\ call[p].pc = "idle" /\ <<d, cause>> \in Timers
  BY DEF ManagerInv, TypeOK, cleanupUnsolicitedSession, At, Timers
<1>1. cleanups' \in [Timers -> Nat]
  <2> DEFINE t == <<d, cause>>
  <2>1. cleanups' = [cleanups EXCEPT ![t] = @ - 1] /\ cleanups[t] > 0
    BY DEF cleanupUnsolicitedSession
  <2>2. t \in Timers BY <1>0
  <2> HIDE DEF t
  <2> QED BY <1>0, <2>1, <2>2 DEF TypeOK
<1>2. \E c \in Calls : Moved(p, c) /\ Armed(c) /\ c.pc \in Free
  <2>1. CASE call' = call
    <3>1. Moved(p, call[p]) BY <1>0, <2>1 DEF Moved, TypeOK
    <3> QED BY <1>0, <3>1 DEF Armed, Free
  <2>2. CASE call' = [call EXCEPT ![p].pc = "delete", ![p].discr = d, ![p].cause = cause]
    <3> DEFINE e == [call[p] EXCEPT !.pc = "delete", !.discr = d, !.cause = cause]
    <3>1. e \in Calls /\ e.pc = "delete" /\ e.discr = d BY <1>0 DEF Calls, Steps, Causes
    <3>2. call' = [call EXCEPT ![p] = e] BY <1>0, <2>2 DEF TypeOK
    <3> HIDE DEF e
    <3>3. Moved(p, e) BY <1>0, <3>1, <3>2, StepOfOne
    <3> QED BY <3>1, <3>3 DEF Armed, Free
  <2> QED BY <2>1, <2>2 DEF cleanupUnsolicitedSession
<1>3. TypeOK' BY <1>0, <1>1, <1>2 DEF cleanupUnsolicitedSession, TypeOK, Moved, maps
<1> QED BY <1>0, <1>2, <1>3 DEF Benign, cleanupUnsolicitedSession, Free, maps

-----------------------------------------------------------------------------
(* The theorems                                                            *)

(* ManagerInv holds initially and every critical section of every call     *)
(* (manager_session.go, manager.go, unsolicited.go) preserves it.          *)
THEOREM ManagerInvariant == Spec => []ManagerInv
<1>1. Init => ManagerInv
  <2> SUFFICES ASSUME Init PROVE ManagerInv OBVIOUS
  <2>1. Idle \in Calls /\ Idle.pc = "idle" BY DEF Idle, Calls, Steps, Causes
  <2>2. Absent \notin Keys /\ Absent \notin Discrs BY ManagerAssumption
  <2>3. <<>> \in Seq(Discrs) OBVIOUS
  <2>4. TypeOK BY <2>1, <2>3 DEF Init, TypeOK
  <2>5. \A p \in Procs : call[p].pc = "idle" BY <2>1 DEF Init
  <2>6. CallOK BY <2>5 DEF CallOK
  <2>7. MapsAgree BY <2>2 DEF Init, MapsAgree
  <2>8. DiscrsOwned BY <2>5 DEF Init, DiscrsOwned, Registered, Holds
  <2>9. GoroutinesOwned BY <2>5 DEF Init, GoroutinesOwned, Registered, Cancels
  <2> QED BY <2>4, <2>6, <2>7, <2>8, <2>9 DEF ManagerInv
<1>2. ManagerInv /\ [Next]_vars => ManagerInv'
  <2> SUFFICES ASSUME ManagerInv, [Next]_vars PROVE ManagerInv' OBVIOUS
  <2>1. ASSUME NEW p \in Procs,
               \/ \E k \in Keys : CreateSession(p, k) \/ demuxByPeer(p, k)
               \/ \E d \in Discrs : DestroySession(p, d)
               \/ \E desired \in SUBSET Keys : ReconcileSessions(p, desired)
               \/ reconcileNext(p)
        PROVE  ManagerInv'
    BY <2>1, EntriesBenign, BenignKeeps
  <2>2. ASSUME NEW p \in Procs, NEW d \in Discrs, NEW cause \in {"timely", "stale"},
               cleanupUnsolicitedSession(p, d, cause)
        PROVE  ManagerInv'
    BY <2>2, CleanupBenign, BenignKeeps
  <2>3. ASSUME NEW p \in Procs,
               checkDuplicate(p) \/ reserve(p) \/ unreserve(p) \/ markSessionUnsolicited(p)
        PROVE  ManagerInv'
    BY <2>3, SectionsBenign, BenignKeeps
  <2>4. ASSUME NEW p \in Procs, allocateAndBuild(p) PROVE ManagerInv'
    <3>1. CASE Fail(p) /\ UNCHANGED allocated BY <2>4, <3>1, SectionsBenign, BenignKeeps
    <3>2. CASE \E d \in Allocate : /\ allocated' = allocated \cup {d}
                                   /\ call' = [call EXCEPT ![p].pc = "register", ![p].discr = d]
      BY <2>4, <3>2, AllocateKeeps DEF allocateAndBuild
    <3> QED BY <2>4, <3>1, <3>2 DEF allocateAndBuild
  <2>5. ASSUME NEW p \in Procs, registerAndStart(p) PROVE ManagerInv'
    <3>1. CASE sessionsByPeer[call[p].key] = Absent BY <2>5, <3>1, RegisterKeeps
    <3>2. CASE sessionsByPeer[call[p].key] # Absent
      <4>1. sessionCount' \in Nat BY <2>5 DEF registerAndStart, ManagerInv, TypeOK
      <4> QED BY <2>5, <3>2, <4>1, HandOverKeeps DEF registerAndStart, feed
    <3> QED BY <3>1, <3>2
  <2>6. ASSUME NEW p \in Procs, abortCreate(p) \/ Release(p) PROVE ManagerInv'
    BY <2>6, ReleaseKeeps DEF abortCreate, Release
  <2>7. ASSUME NEW p \in Procs, deleteEntry(p) PROVE ManagerInv'
    <3>1. CASE Registered(call[p].discr) BY <2>7, <3>1, DeleteKeeps
    <3>2. CASE ~Registered(call[p].discr) BY <2>7, <3>2, SectionsBenign, BenignKeeps
    <3> QED BY <3>1, <3>2
  <2>8. ASSUME NEW p \in Procs, uncountEntry(p) PROVE ManagerInv'
    <3>1. sessionCount \in Nat BY DEF ManagerInv, TypeOK
    <3>2. sessionCount' \in Nat BY <2>8, <3>1 DEF uncountEntry, release
    <3> QED BY <2>8, <3>2, HandOverKeeps DEF uncountEntry
  <2>9. ASSUME NEW p \in Procs, cancelEntry(p) PROVE ManagerInv' BY <2>9, CancelKeeps
  <2>10. CASE \E d \in Discrs : SessionLeavesDown(d) \/ SessionGoesDown(d) BY <2>10, FeedKeeps
  <2>11. CASE RunDispatch BY <2>11, FeedKeeps
  <2>12. CASE Close BY <2>12, CloseKeeps
  <2>13. CASE UNCHANGED vars
    <3>1. TypeOK' BY <2>13 DEF vars, maps, feed, ManagerInv, TypeOK
    <3> QED BY <2>13, <3>1, StampKeeps DEF vars, maps
  <2> QED BY <2>1, <2>2, <2>3, <2>4, <2>5, <2>6, <2>7, <2>8, <2>9, <2>10, <2>11, <2>12, <2>13
          DEF Next
<1> QED BY <1>1, <1>2, PTL DEF Spec

(* Every variable of the Manager keeps its type.                           *)
THEOREM ManagerTypeCorrect == Spec => []TypeOK
<1>1. ManagerInv => TypeOK BY DEF ManagerInv
<1> QED BY <1>1, ManagerInvariant, PTL

(* However creations, destructions, reconciliations and Close interleave,  *)
(* the index by discriminator and the index by peer name the same sessions.*)
THEOREM IndexesAgree == Spec => []MapsAgree
<1>1. ManagerInv => MapsAgree BY DEF ManagerInv
<1> QED BY <1>1, ManagerInvariant, PTL

(* No discriminator is shared, leaked or freed while in use.               *)
THEOREM DiscriminatorsOwned == Spec => []DiscrsOwned
<1>1. ManagerInv => DiscrsOwned BY DEF ManagerInv
<1> QED BY <1>1, ManagerInvariant, PTL

(* No session goroutine outlives its session unless a call is about to     *)
(* cancel it, and no session has two.                                      *)
THEOREM GoroutinesNotLeaked == Spec => []GoroutinesOwned
<1>1. ManagerInv => GoroutinesOwned BY DEF ManagerInv
<1> QED BY <1>1, ManagerInvariant, PTL

-----------------------------------------------------------------------------
(* The Manager is a Registry                                               *)

Alive == {x \in Discrs : running[x] > 0}

(* With the invariant, the goroutines that run are those of the registered *)
(* sessions and of the calls that are about to cancel one.                 *)
LEMMA AliveMeans ==
  ASSUME ManagerInv, NEW d \in Discrs
  PROVE  /\ d \in Alive <=> Registered(d) \/ \E p \in Procs : Cancels(p, d)
         /\ d \in Alive <=> running[d] = 1
         /\ d \notin Alive <=> running[d] = 0
<1>1. running[d] = IF Registered(d) \/ \E p \in Procs : Cancels(p, d) THEN 1 ELSE 0
  BY DEF ManagerInv, GoroutinesOwned
<1> HIDE DEF Registered, Cancels
<1> QED BY <1>1 DEF Alive

(* The discriminators that the table of the Registry lists are those of    *)
(* the registered sessions.                                                *)
LEMMA ListedMeans ==
  ASSUME ManagerInv
  PROVE  R!Listed = {d \in Discrs : Registered(d)}
<1>1. Absent \notin Keys /\ Absent \notin Discrs BY ManagerAssumption
<1>2. sessions \in [Discrs -> Keys \cup {Absent}] /\ sessionsByPeer \in [Keys -> Discrs \cup {Absent}]
  BY DEF ManagerInv, TypeOK
<1>3. \A d \in Discrs, k \in Keys : sessions[d] = k <=> sessionsByPeer[k] = d
  BY DEF ManagerInv, MapsAgree
<1>4. ASSUME NEW d \in R!Listed PROVE d \in Discrs /\ Registered(d)
  BY <1>1, <1>2, <1>3, <1>4 DEF R!Listed, Registered
<1>5. ASSUME NEW d \in Discrs, Registered(d) PROVE d \in R!Listed
  <2>1. sessions[d] \in Keys /\ sessionsByPeer[sessions[d]] = d BY <1>2, <1>3, <1>5 DEF Registered
  <2> QED BY <1>1, <2>1 DEF R!Listed
<1> QED BY <1>4, <1>5

(* A section that touches neither sessionsByPeer nor a goroutine is no     *)
(* step of the Registry.                                                   *)
LEMMA SilentStep ==
  ASSUME UNCHANGED <<sessionsByPeer, running>>
  PROVE  UNCHANGED R!registryVars
BY DEF R!registryVars

(* registerAndStart, where the key is free, opens a session.               *)
LEMMA RegisterOpens ==
  ASSUME ManagerInv, NEW p \in Procs, registerAndStart(p), sessionsByPeer[call[p].key] = Absent
  PROVE  R!Next
<1> DEFINE k == call[p].key
           d == call[p].discr
<1>1. k \in Keys /\ d \in Discrs /\ Holds(p, d)
  BY DEF ManagerInv, CallOK, registerAndStart, At, Holds
<1>2. ~Registered(d) /\ \A q \in Procs : ~Cancels(q, d)
  <2>1. ~Registered(d) /\ \A q \in Procs \ {p} : ~Holds(q, d) BY <1>1 DEF ManagerInv, DiscrsOwned
  <2>2. ~Cancels(p, d) BY DEF registerAndStart, At, Cancels
  <2>3. \A q \in Procs : Cancels(q, d) => Holds(q, d) BY DEF Cancels, Holds
  <2> HIDE DEF Registered, Cancels, Holds
  <2> QED BY <2>1, <2>2, <2>3
<1>3. d \notin Alive /\ running[d] = 0 BY <1>1, <1>2, AliveMeans
<1>4. /\ sessionsByPeer' = [sessionsByPeer EXCEPT ![k] = d]
      /\ running' = [running EXCEPT ![d] = @ + 1]
  BY DEF registerAndStart
<1>5. running \in [Discrs -> Nat] BY DEF ManagerInv, TypeOK
<1> HIDE DEF k, d
<1>6. {x \in Discrs : running'[x] > 0} = Alive \cup {d} BY <1>1, <1>3, <1>4, <1>5 DEF Alive
<1>7. sessionsByPeer[k] = Absent BY DEF k
<1>8. R!Open(k, d) BY <1>3, <1>4, <1>6, <1>7 DEF R!Open, Alive
<1> QED BY <1>1, <1>8 DEF R!Next, R!Open

(* deleteEntry, where the session is there, forgets it.                    *)
LEMMA DeleteForgets ==
  ASSUME ManagerInv, NEW p \in Procs, deleteEntry(p), Registered(call[p].discr)
  PROVE  R!Next
<1> DEFINE d == call[p].discr
           k == sessions[d]
<1>1. d \in Discrs BY DEF ManagerInv, CallOK, deleteEntry, At
<1>2. k \in Keys BY <1>1 DEF ManagerInv, TypeOK, Registered
<1>3. sessionsByPeer[k] = d BY <1>1, <1>2 DEF ManagerInv, MapsAgree
<1>4. sessionsByPeer' = [sessionsByPeer EXCEPT ![k] = Absent] /\ running' = running
  BY DEF deleteEntry
<1>5. d # Absent BY <1>1, ManagerAssumption
<1> HIDE DEF d, k
<1>6. R!Forget(k) BY <1>3, <1>4, <1>5 DEF R!Forget
<1> QED BY <1>2, <1>6 DEF R!Next

(* cancelEntry stops a goroutine whose session has left the table.         *)
LEMMA CancelStops ==
  ASSUME ManagerInv, NEW p \in Procs, cancelEntry(p)
  PROVE  R!Next
<1> DEFINE d == call[p].discr
<1>1. d \in Discrs /\ Holds(p, d) /\ Cancels(p, d)
  BY DEF ManagerInv, CallOK, cancelEntry, At, Holds, Cancels
<1>2. ~Registered(d) BY <1>1 DEF ManagerInv, DiscrsOwned
<1>3. d \in Alive /\ running[d] = 1 BY <1>1, AliveMeans
<1>4. d \notin R!Listed BY <1>2, ListedMeans
<1>5. running' = [running EXCEPT ![d] = @ - 1] /\ sessionsByPeer' = sessionsByPeer
  BY DEF cancelEntry, maps
<1>6. running \in [Discrs -> Nat] BY DEF ManagerInv, TypeOK
<1> HIDE DEF d
<1>7. {x \in Discrs : running'[x] > 0} = Alive \ {d} BY <1>1, <1>3, <1>5, <1>6 DEF Alive
<1>8. R!Stop(d) BY <1>3, <1>4, <1>5, <1>7 DEF R!Stop, Alive
<1> QED BY <1>1, <1>8 DEF R!Next, R!Stop

(* Close empties the table and stops what it listed.                       *)
LEMMA CloseShutsDown ==
  ASSUME ManagerInv, Close
  PROVE  R!Next
<1>1. sessionsByPeer' = [k \in Keys |-> Absent] BY DEF Close
<1>2. \A x \in Discrs : running'[x] = IF Registered(x) THEN running[x] - 1 ELSE running[x]
  BY DEF Close
<1>3. \A x \in Discrs : Registered(x) => running[x] = 1 BY AliveMeans
<1>4. \A x \in Discrs : running'[x] > 0 <=> x \in Alive /\ ~Registered(x)
  <2> HIDE DEF Registered
  <2> QED BY <1>2, <1>3 DEF Alive
<1>5. {x \in Discrs : running'[x] > 0} = Alive \ R!Listed
  BY <1>4, ListedMeans DEF Alive
<1>6. R!Shutdown BY <1>1, <1>5 DEF R!Shutdown, Alive
<1> QED BY <1>6 DEF R!Next

(* Every critical section of every call is a step of the Registry or       *)
(* changes nothing there: the Manager implements Registry, for any number  *)
(* of goroutines, keys and discriminators.                                 *)
THEOREM ManagerIsRegistry == Spec => RefinesRegistry
<1>1. Init => R!Init
  <2> SUFFICES ASSUME Init PROVE R!Init OBVIOUS
  <2>1. {x \in Discrs : running[x] > 0} = {} BY DEF Init
  <2> QED BY <2>1 DEF Init, R!Init
<1>2. ManagerInv /\ [Next]_vars => [R!Next]_(R!registryVars)
  <2> SUFFICES ASSUME ManagerInv, [Next]_vars PROVE R!Next \/ UNCHANGED R!registryVars OBVIOUS
  <2>1. ASSUME NEW p \in Procs, registerAndStart(p) PROVE R!Next \/ UNCHANGED R!registryVars
    <3>1. CASE sessionsByPeer[call[p].key] = Absent BY <2>1, <3>1, RegisterOpens
    <3>2. CASE sessionsByPeer[call[p].key] # Absent
      BY <2>1, <3>2, SilentStep DEF registerAndStart, maps
    <3> QED BY <3>1, <3>2
  <2>2. ASSUME NEW p \in Procs, deleteEntry(p) PROVE R!Next \/ UNCHANGED R!registryVars
    <3>1. CASE Registered(call[p].discr) BY <2>2, <3>1, DeleteForgets
    <3>2. CASE ~Registered(call[p].discr) BY <2>2, <3>2, SilentStep DEF deleteEntry, maps
    <3> QED BY <3>1, <3>2
  <2>3. ASSUME NEW p \in Procs, cancelEntry(p) PROVE R!Next \/ UNCHANGED R!registryVars
    BY <2>3, CancelStops
  <2>4. CASE Close BY <2>4, CloseShutsDown
  <2>5. ASSUME NEW p \in Procs,
               \/ \E k \in Keys : CreateSession(p, k) \/ demuxByPeer(p, k)
               \/ \E d \in Discrs :
                    \/ DestroySession(p, d)
                    \/ \E cause \in {"timely", "stale"} : cleanupUnsolicitedSession(p, d, cause)
               \/ \E desired \in SUBSET Keys : ReconcileSessions(p, desired)
               \/ reconcileNext(p) \/ checkDuplicate(p) \/ allocateAndBuild(p) \/ abortCreate(p)
        PROVE  UNCHANGED <<sessionsByPeer, running>>
    BY <2>5 DEF CreateSession, demuxByPeer, DestroySession, cleanupUnsolicitedSession,
                ReconcileSessions, reconcileNext, checkDuplicate, allocateAndBuild, abortCreate, maps
  <2>6. ASSUME NEW p \in Procs,
               \/ reserve(p) \/ unreserve(p) \/ markSessionUnsolicited(p)
               \/ uncountEntry(p) \/ Release(p)
        PROVE  UNCHANGED <<sessionsByPeer, running>>
    BY <2>6 DEF reserve, unreserve, markSessionUnsolicited, uncountEntry, Release, maps
  <2>7. ASSUME \/ \E d \in Discrs : SessionLeavesDown(d) \/ SessionGoesDown(d)
               \/ RunDispatch \/ UNCHANGED vars
        PROVE  UNCHANGED <<sessionsByPeer, running>>
    BY <2>7 DEF SessionLeavesDown, SessionGoesDown, RunDispatch, vars, maps
  <2> QED BY <2>1, <2>2, <2>3, <2>4, <2>5, <2>6, <2>7, SilentStep DEF Next
<1> QED BY <1>1, <1>2, ManagerInvariant, PTL DEF Spec, RefinesRegistry, R!Spec

-----------------------------------------------------------------------------
(* The limit on unsolicited sessions                                       *)

(* passive is set from reserve to the end of the call, and only then does  *)
(* a call come to give its reservation back or to mark its session.        *)
PassiveOK ==
  \A p \in Procs :
    /\ call[p].pc \in {"idle", "reconcile"} => ~call[p].passive
    /\ call[p].pc \in {"unreserve", "mark"} => call[p].passive

QuotaInv == PassiveOK /\ QuotaHolds

Busy == {p \in Procs : Reserving(p)}

(* What a step of p leaves of the other calls.                             *)
Others(p) ==
  /\ call' \in [Procs -> Calls]
  /\ \A q \in Procs \ {p} : call'[q].pc = call[q].pc /\ call'[q].passive = call[q].passive

(* The call that p goes on with keeps PassiveOK.                           *)
Kept(c) ==
  /\ c.pc \in {"idle", "reconcile"} => ~c.passive
  /\ c.pc \in {"unreserve", "mark"} => c.passive

(* Reserving, of a call.                                                   *)
Reserves(c) ==
  \/ c.passive /\ c.pc \in {"check", "allocate", "register", "abort", "unreserve", "mark"}
  \/ c.pc = "uncount"

(* The ways in which a step may move the marked sessions U, the calls B    *)
(* with a reservation and the counter n (reserve, release,                 *)
(* markSessionUnsolicited, deleteEntry): the sum stays below the counter.  *)
LEMMA Balance ==
  ASSUME NEW U, NEW V, NEW B, NEW C, NEW n \in Nat, NEW m, NEW p, NEW d,
         IsFiniteSet(U), IsFiniteSet(B), Cardinality(U) + Cardinality(B) <= n,
         \/ V \subseteq U /\ C \subseteq B /\ m = n
         \/ V = U /\ C \subseteq B \cup {p} /\ m = n + 1
         \/ V = U /\ p \in B /\ C = B \ {p} /\ m = release(n)
         \/ V \subseteq U \cup {d} /\ p \in B /\ C = B \ {p} /\ m = n
         \/ d \in U /\ V = U \ {d} /\ C \subseteq B \cup {p} /\ m = n
  PROVE  Cardinality(V) + Cardinality(C) <= m
<1>1. Cardinality(U) \in Nat /\ Cardinality(B) \in Nat BY FS_CardinalityType
<1>2. /\ IsFiniteSet(B \cup {p}) /\ Cardinality(B \cup {p}) <= Cardinality(B) + 1
      /\ Cardinality(B \cup {p}) \in Nat
  BY <1>1, FS_AddElement
<1>3. /\ IsFiniteSet(U \cup {d}) /\ Cardinality(U \cup {d}) <= Cardinality(U) + 1
      /\ Cardinality(U \cup {d}) \in Nat
  BY <1>1, FS_AddElement
<1>4. p \in B => Cardinality(B \ {p}) = Cardinality(B) - 1 BY FS_RemoveElement
<1>5. d \in U => Cardinality(U \ {d}) = Cardinality(U) - 1 BY FS_RemoveElement
<1>6. p \in B => Cardinality(B) > 0 BY <1>1, FS_EmptySet
<1>7. CASE V \subseteq U /\ C \subseteq B /\ m = n
  <2>1. /\ Cardinality(V) <= Cardinality(U) /\ Cardinality(C) <= Cardinality(B)
        /\ Cardinality(V) \in Nat /\ Cardinality(C) \in Nat
    BY <1>7, FS_Subset, FS_CardinalityType
  <2> QED BY <1>1, <1>7, <2>1
<1>8. CASE V = U /\ C \subseteq B \cup {p} /\ m = n + 1
  <2>1. Cardinality(C) <= Cardinality(B \cup {p}) /\ Cardinality(C) \in Nat
    BY <1>2, <1>8, FS_Subset, FS_CardinalityType
  <2> QED BY <1>1, <1>2, <1>8, <2>1
<1>9. CASE V = U /\ p \in B /\ C = B \ {p} /\ m = release(n)
  BY <1>1, <1>4, <1>6, <1>9 DEF release
<1>10. CASE V \subseteq U \cup {d} /\ p \in B /\ C = B \ {p} /\ m = n
  <2>1. Cardinality(V) <= Cardinality(U \cup {d}) /\ Cardinality(V) \in Nat
    BY <1>3, <1>10, FS_Subset, FS_CardinalityType
  <2> QED BY <1>1, <1>3, <1>4, <1>10, <2>1
<1>11. CASE d \in U /\ V = U \ {d} /\ C \subseteq B \cup {p} /\ m = n
  <2>1. Cardinality(C) <= Cardinality(B \cup {p}) /\ Cardinality(C) \in Nat
    BY <1>2, <1>11, FS_Subset, FS_CardinalityType
  <2> QED BY <1>1, <1>2, <1>5, <1>11, <2>1
<1> QED BY <1>7, <1>8, <1>9, <1>10, <1>11

(* One step of one call, seen from the quota.                              *)
LEMMA CallStep ==
  ASSUME TypeOK, QuotaInv, NEW p \in Procs, NEW d, Others(p), Kept(call'[p]),
         \/ /\ unsolicited' \subseteq unsolicited /\ sessionCount' = sessionCount
            /\ Reserves(call'[p]) => Reserves(call[p])
         \/ /\ unsolicited' = unsolicited /\ sessionCount' = sessionCount + 1
            /\ MaxSessions # 0 => sessionCount < MaxSessions
         \/ /\ unsolicited' = unsolicited /\ sessionCount' = release(sessionCount)
            /\ Reserves(call[p]) /\ ~Reserves(call'[p])
         \/ /\ unsolicited' \subseteq unsolicited \cup {d} /\ sessionCount' = sessionCount
            /\ Reserves(call[p]) /\ ~Reserves(call'[p])
         \/ /\ d \in unsolicited /\ unsolicited' = unsolicited \ {d}
            /\ sessionCount' = sessionCount
  PROVE  QuotaInv'
<1>1. PassiveOK'
  <2> SUFFICES ASSUME NEW q \in Procs PROVE Kept(call'[q]) BY DEF PassiveOK, Kept
  <2> QED BY DEF QuotaInv, PassiveOK, Kept, Others
<1>2. \A q \in Procs : q # p => (q \in Busy' <=> q \in Busy)
  BY DEF Busy, Reserving, Others
<1>3. (p \in Busy <=> Reserves(call[p])) /\ (p \in Busy' <=> Reserves(call'[p]))
  BY DEF Busy, Reserving, Reserves
<1>4. Busy \subseteq Procs /\ Busy' \subseteq Procs BY DEF Busy
<1>5. IsFiniteSet(unsolicited) /\ IsFiniteSet(Busy)
  BY <1>4, FiniteAssumption, FS_Subset DEF TypeOK
<1>6. /\ sessionCount \in Nat /\ Cardinality(unsolicited) + Cardinality(Busy) <= sessionCount
      /\ MaxSessions # 0 => sessionCount <= MaxSessions
  BY DEF TypeOK, QuotaInv, QuotaHolds, Busy
<1> HIDE DEF Busy, Reserves
<1>8. Cardinality(unsolicited') + Cardinality(Busy') <= sessionCount'
  <2>1. \/ unsolicited' \subseteq unsolicited /\ Busy' \subseteq Busy /\ sessionCount' = sessionCount
        \/ unsolicited' = unsolicited /\ Busy' \subseteq Busy \cup {p} /\ sessionCount' = sessionCount + 1
        \/ /\ unsolicited' = unsolicited /\ p \in Busy /\ Busy' = Busy \ {p}
           /\ sessionCount' = release(sessionCount)
        \/ /\ unsolicited' \subseteq unsolicited \cup {d} /\ p \in Busy /\ Busy' = Busy \ {p}
           /\ sessionCount' = sessionCount
        \/ /\ d \in unsolicited /\ unsolicited' = unsolicited \ {d}
           /\ Busy' \subseteq Busy \cup {p} /\ sessionCount' = sessionCount
    BY <1>2, <1>3, <1>4
  <2> QED BY <1>5, <1>6, <2>1, Balance, SMTT(60)
<1>9. MaxSessions # 0 => sessionCount' <= MaxSessions
  BY <1>6, ManagerAssumption DEF release
<1> QED BY <1>1, <1>8, <1>9 DEF QuotaInv, QuotaHolds, Busy

(* Returning ends a reservation (the ends of the calls).                   *)
LEMMA ReturnedKept ==
  ASSUME NEW c \in Calls
  PROVE  Kept(Returned(c)) /\ ~Reserves(Returned(c)) /\ Returned(c) \in Calls
BY DEF Returned, Idle, Kept, Reserves, Calls, Steps, Causes

(* Steps of a call that replace its record or move its pc.                 *)
LEMMA OthersStay ==
  ASSUME TypeOK, TypeOK', NEW p \in Procs, NEW c, call' = [call EXCEPT ![p] = c]
  PROVE  Others(p) /\ call'[p] = c
BY DEF Others, TypeOK

(* What Goto and Fail make of a call.                                      *)
LEMMA GotoShape ==
  ASSUME TypeOK, TypeOK', NEW p \in Procs, NEW pc, Goto(p, pc)
  PROVE  Others(p) /\ call'[p].pc = pc /\ call'[p].passive = call[p].passive
<1>1. call[p] \in Calls /\ call' = [call EXCEPT ![p] = [call[p] EXCEPT !.pc = pc]]
  BY DEF TypeOK, Goto
<1>2. Others(p) /\ call'[p] = [call[p] EXCEPT !.pc = pc] BY <1>1, OthersStay
<1> QED BY <1>1, <1>2 DEF Calls

(* What Return makes of a call.                                            *)
LEMMA ReturnShape ==
  ASSUME TypeOK, TypeOK', NEW p \in Procs, Return(p)
  PROVE  Others(p) /\ Kept(call'[p]) /\ ~Reserves(call'[p])
<1>1. call[p] \in Calls /\ call' = [call EXCEPT ![p] = Returned(call[p])]
  BY DEF TypeOK, Return
<1>2. Others(p) /\ call'[p] = Returned(call[p]) BY <1>1, OthersStay
<1> QED BY <1>1, <1>2, ReturnedKept

(* What Fail makes of it: the reservation stays until unreserve.           *)
LEMMA FailShape ==
  ASSUME TypeOK, TypeOK', NEW p \in Procs, Fail(p),
         call[p].pc \in {"check", "allocate", "abort"}
  PROVE  Others(p) /\ Kept(call'[p]) /\ (Reserves(call'[p]) => Reserves(call[p]))
<1>1. CASE call[p].passive
  <2>1. Others(p) /\ call'[p].pc = "unreserve" /\ call'[p].passive = call[p].passive
    BY <1>1, GotoShape DEF Fail
  <2> QED BY <1>1, <2>1 DEF Kept, Reserves
<1>2. CASE ~call[p].passive BY <1>2, ReturnShape DEF Fail
<1> QED BY <1>1, <1>2

(* Every step keeps the sum of the unsolicited sessions and of the calls   *)
(* with a reservation below the counter.                                   *)
LEMMA QuotaStep == TypeOK /\ TypeOK' /\ QuotaInv /\ [Next]_vars => QuotaInv'
<1> SUFFICES ASSUME TypeOK, TypeOK', QuotaInv, [Next]_vars PROVE QuotaInv' OBVIOUS
<1>0. \A p \in Procs : call[p] \in Calls BY DEF TypeOK
<1>k. \A p \in Procs : Kept(call[p]) BY DEF QuotaInv, PassiveOK, Kept
<1>1. CASE UNCHANGED <<call, unsolicited, sessionCount>>
  BY <1>1 DEF QuotaInv, PassiveOK, QuotaHolds, Reserving
<1>2. ASSUME NEW p \in Procs, NEW k \in Keys, CreateSession(p, k) PROVE QuotaInv'
  <2>1. call' = [call EXCEPT ![p] = [call[p] EXCEPT !.pc = "check", !.key = k]]
        /\ call[p].pc = "idle" /\ UNCHANGED <<unsolicited, sessionCount>>
    BY <1>2 DEF CreateSession, At, maps
  <2>2. Others(p) /\ call'[p] = [call[p] EXCEPT !.pc = "check", !.key = k] BY <2>1, OthersStay
  <2>3. call'[p].pc = "check" /\ ~call'[p].passive BY <1>0, <1>k, <2>1, <2>2 DEF Calls, Kept
  <2> QED BY <2>1, <2>2, <2>3, CallStep DEF Kept, Reserves
<1>3. ASSUME NEW p \in Procs, NEW k \in Keys, demuxByPeer(p, k) PROVE QuotaInv'
  <2>1. call' = [call EXCEPT ![p] = [call[p] EXCEPT !.pc = "reserve", !.key = k, !.passive = TRUE]]
        /\ UNCHANGED <<unsolicited, sessionCount>>
    BY <1>3 DEF demuxByPeer, At, maps
  <2>2. Others(p) /\ call'[p] = [call[p] EXCEPT !.pc = "reserve", !.key = k, !.passive = TRUE]
    BY <2>1, OthersStay
  <2>3. call'[p].pc = "reserve" BY <1>0, <2>2 DEF Calls
  <2> QED BY <2>1, <2>2, <2>3, CallStep DEF Kept, Reserves
<1>4. ASSUME NEW p \in Procs, NEW d \in Discrs, NEW x \in Causes, call[p].pc = "idle",
             call' = [call EXCEPT ![p] = [call[p] EXCEPT !.pc = "delete", !.discr = d, !.cause = x]],
             UNCHANGED <<unsolicited, sessionCount>>
      PROVE  QuotaInv'
  <2>1. Others(p) /\ call'[p] = [call[p] EXCEPT !.pc = "delete", !.discr = d, !.cause = x]
    BY <1>4, OthersStay
  <2>2. call'[p].pc = "delete" BY <1>0, <2>1 DEF Calls
  <2> QED BY <1>4, <2>1, <2>2, CallStep DEF Kept, Reserves
<1>5. ASSUME NEW p \in Procs, NEW desired \in SUBSET Keys, ReconcileSessions(p, desired)
      PROVE  QuotaInv'
  <2> DEFINE current == {k \in Keys : sessionsByPeer[k] # Absent}
             c == [call[p] EXCEPT !.pc = "reconcile",
                                  !.doomed = {sessionsByPeer[k] : k \in current \ desired},
                                  !.wanted = desired \ current]
  <2>1. call' = [call EXCEPT ![p] = c] /\ call[p].pc = "idle"
        /\ UNCHANGED <<unsolicited, sessionCount>>
    BY <1>5 DEF ReconcileSessions, At, maps
  <2>2. c.pc = "reconcile" /\ c.passive = call[p].passive BY <1>0 DEF Calls
  <2> HIDE DEF c
  <2>3. Others(p) /\ call'[p] = c BY <2>1, OthersStay
  <2>4. Kept(c) /\ ~Reserves(c) BY <1>k, <2>1, <2>2 DEF Kept, Reserves
  <2> QED BY <2>1, <2>3, <2>4, CallStep
<1>6. ASSUME NEW p \in Procs, checkDuplicate(p) PROVE QuotaInv'
  <2>1. call[p].pc = "check" /\ UNCHANGED <<unsolicited, sessionCount>>
    BY <1>6 DEF checkDuplicate, At, maps
  <2>2. CASE Fail(p) BY <2>1, <2>2, FailShape, CallStep
  <2>3. CASE Goto(p, "allocate")
    <3>1. Others(p) /\ call'[p].pc = "allocate" /\ call'[p].passive = call[p].passive
      BY <2>3, GotoShape
    <3> QED BY <2>1, <3>1, CallStep DEF Kept, Reserves
  <2> QED BY <1>6, <2>2, <2>3 DEF checkDuplicate
<1>7. ASSUME NEW p \in Procs, allocateAndBuild(p) PROVE QuotaInv'
  <2>1. call[p].pc = "allocate" /\ UNCHANGED <<unsolicited, sessionCount>>
    BY <1>7 DEF allocateAndBuild, At, maps
  <2>2. CASE Fail(p) BY <2>1, <2>2, FailShape, CallStep
  <2>3. ASSUME NEW d \in Discrs, call' = [call EXCEPT ![p] = [call[p] EXCEPT !.pc = "register", !.discr = d]]
        PROVE  QuotaInv'
    <3>1. Others(p) /\ call'[p] = [call[p] EXCEPT !.pc = "register", !.discr = d]
      BY <2>3, OthersStay
    <3>2. call'[p].pc = "register" /\ call'[p].passive = call[p].passive BY <1>0, <3>1 DEF Calls
    <3> QED BY <2>1, <3>1, <3>2, CallStep DEF Kept, Reserves
  <2>4. \/ Fail(p)
        \/ \E d \in Discrs : call' = [call EXCEPT ![p] = [call[p] EXCEPT !.pc = "register", !.discr = d]]
    BY <1>7 DEF allocateAndBuild, Allocate
  <2> QED BY <2>2, <2>3, <2>4
<1>8. ASSUME NEW p \in Procs, registerAndStart(p) PROVE QuotaInv'
  <2>1. call[p].pc = "register" /\ UNCHANGED <<unsolicited, sessionCount>>
    BY <1>8 DEF registerAndStart, At, maps
  <2>2. CASE Goto(p, "abort")
    <3>1. Others(p) /\ call'[p].pc = "abort" /\ call'[p].passive = call[p].passive
      BY <2>2, GotoShape
    <3> QED BY <2>1, <3>1, CallStep DEF Kept, Reserves
  <2>3. CASE ~Goto(p, "abort")
    <3> DEFINE d == call[p].discr
               c == IF call[p].passive THEN [call[p] EXCEPT !.pc = "mark"] ELSE Returned(call[p])
    <3>1. call' = [OutdatedCalls(call, d) EXCEPT ![p] = c]
      BY <1>8, <2>3 DEF registerAndStart
    <3>2. Kept(c) /\ (Reserves(c) => Reserves(call[p]))
      <4>1. CASE call[p].passive
        <5>1. c.pc = "mark" /\ c.passive BY <1>0, <4>1 DEF Calls
        <5> QED BY <2>1, <4>1, <5>1 DEF Kept, Reserves
      <4>2. CASE ~call[p].passive BY <1>0, <4>2, ReturnedKept
      <4> QED BY <4>1, <4>2
    <3> HIDE DEF c
    <3>3. call'[p] = c BY <3>1 DEF OutdatedCalls
    <3>4. Others(p)
      <4>1. \A q \in Procs \ {p} : call'[q] = OutdatedCalls(call, d)[q] BY <3>1 DEF OutdatedCalls
      <4>2. \A q \in Procs : /\ OutdatedCalls(call, d)[q].pc = call[q].pc
                             /\ OutdatedCalls(call, d)[q].passive = call[q].passive
        BY <1>0 DEF OutdatedCalls, Calls
      <4> QED BY <4>1, <4>2 DEF Others, TypeOK
    <3> QED BY <2>1, <3>2, <3>3, <3>4, CallStep
  <2> QED BY <2>2, <2>3
<1>9. ASSUME NEW p \in Procs, abortCreate(p) PROVE QuotaInv'
  BY <1>9, FailShape, CallStep DEF abortCreate, At, maps
<1>10. ASSUME NEW p \in Procs, reserve(p) PROVE QuotaInv'
  <2>1. CASE Return(p) /\ UNCHANGED sessionCount
    BY <1>10, <2>1, ReturnShape, CallStep DEF reserve, maps
  <2>2. CASE ~(Return(p) /\ UNCHANGED sessionCount)
    <3>1. Goto(p, "check") /\ sessionCount' = sessionCount + 1 /\ unsolicited' = unsolicited
          /\ (MaxSessions # 0 => sessionCount < MaxSessions)
      BY <1>10, <2>2 DEF reserve, maps
    <3>2. Others(p) /\ call'[p].pc = "check" BY <3>1, GotoShape
    <3> QED BY <3>1, <3>2, CallStep DEF Kept
  <2> QED BY <2>1, <2>2
<1>11. ASSUME NEW p \in Procs, unreserve(p) PROVE QuotaInv'
  <2>1. Reserves(call[p]) BY <1>11, <1>k DEF unreserve, At, Kept, Reserves
  <2> QED BY <1>11, <2>1, ReturnShape, CallStep DEF unreserve, maps
<1>12. ASSUME NEW p \in Procs, markSessionUnsolicited(p) PROVE QuotaInv'
  <2>1. Reserves(call[p]) BY <1>12, <1>k DEF markSessionUnsolicited, At, Kept, Reserves
  <2>2. unsolicited' \subseteq unsolicited \cup {call[p].discr}
        /\ sessionCount' = sessionCount /\ Return(p)
    BY <1>12 DEF markSessionUnsolicited
  <2> QED BY <2>1, <2>2, ReturnShape, CallStep
<1>13. ASSUME NEW p \in Procs, deleteEntry(p) PROVE QuotaInv'
  <2> DEFINE d == call[p].discr
  <2>1. sessionCount' = sessionCount BY <1>13 DEF deleteEntry
  <2>2. CASE Return(p) /\ UNCHANGED maps BY <2>1, <2>2, ReturnShape, CallStep DEF maps
  <2>3. CASE ~(Return(p) /\ UNCHANGED maps)
    <3>1. unsolicited' = unsolicited \ {d}
          /\ Goto(p, IF d \in unsolicited THEN "uncount" ELSE "cancel")
      BY <1>13, <2>3 DEF deleteEntry
    <3>2. CASE d \in unsolicited
      <4>1. Others(p) /\ call'[p].pc = "uncount" BY <3>1, <3>2, GotoShape
      <4> QED BY <2>1, <3>1, <3>2, <4>1, CallStep DEF Kept
    <3>3. CASE d \notin unsolicited
      <4>1. Others(p) /\ call'[p].pc = "cancel" BY <3>1, <3>3, GotoShape
      <4> QED BY <2>1, <3>1, <4>1, CallStep DEF Kept, Reserves
    <3> QED BY <3>2, <3>3
  <2> QED BY <2>2, <2>3
<1>14. ASSUME NEW p \in Procs, uncountEntry(p) PROVE QuotaInv'
  <2>1. Reserves(call[p]) BY <1>14 DEF uncountEntry, At, Reserves
  <2>2. Others(p) /\ call'[p].pc = "cancel" BY <1>14, GotoShape DEF uncountEntry
  <2>3. Kept(call'[p]) /\ ~Reserves(call'[p]) BY <2>2 DEF Kept, Reserves
  <2> QED BY <1>14, <2>1, <2>2, <2>3, CallStep DEF uncountEntry, maps
<1>15. ASSUME NEW p \in Procs, cancelEntry(p) PROVE QuotaInv'
  <2>1. Others(p) /\ call'[p].pc = "release" BY <1>15, GotoShape DEF cancelEntry
  <2>2. Kept(call'[p]) /\ ~Reserves(call'[p]) BY <2>1 DEF Kept, Reserves
  <2> QED BY <1>15, <2>1, <2>2, CallStep DEF cancelEntry, maps
<1>16. ASSUME NEW p \in Procs, Release(p) PROVE QuotaInv'
  BY <1>16, ReturnShape, CallStep DEF Release, maps
<1>17. ASSUME NEW p \in Procs, reconcileNext(p) PROVE QuotaInv'
  <2>1. call[p].pc = "reconcile" /\ ~call[p].passive /\ UNCHANGED <<unsolicited, sessionCount>>
    BY <1>17, <1>k DEF reconcileNext, At, maps, Kept
  <2>2. ASSUME NEW c, call' = [call EXCEPT ![p] = c], ~c.passive,
               c.pc \in {"delete", "check", "idle"}
        PROVE  QuotaInv'
    <3>1. Others(p) /\ call'[p] = c BY <2>2, OthersStay
    <3>2. Kept(c) /\ ~Reserves(c) BY <2>2 DEF Kept, Reserves
    <3> QED BY <2>1, <3>1, <3>2, CallStep
  <2>3. ASSUME NEW d \in call[p].doomed,
               call' = [call EXCEPT ![p].pc = "delete", ![p].discr = d, ![p].doomed = @ \ {d}]
        PROVE  QuotaInv'
    <3> DEFINE c == [call[p] EXCEPT !.pc = "delete", !.discr = d, !.doomed = @ \ {d}]
    <3>1. call' = [call EXCEPT ![p] = c] BY <2>3
    <3>2. c.pc = "delete" /\ c.passive = call[p].passive BY <1>0 DEF Calls
    <3> HIDE DEF c
    <3> QED BY <2>1, <2>2, <3>1, <3>2
  <2>4. ASSUME NEW k \in call[p].wanted,
               call' = [call EXCEPT ![p].pc = "check", ![p].key = k, ![p].wanted = @ \ {k}]
        PROVE  QuotaInv'
    <3> DEFINE c == [call[p] EXCEPT !.pc = "check", !.key = k, !.wanted = @ \ {k}]
    <3>1. call' = [call EXCEPT ![p] = c] BY <2>4
    <3>2. c.pc = "check" /\ c.passive = call[p].passive BY <1>0 DEF Calls
    <3> HIDE DEF c
    <3> QED BY <2>1, <2>2, <3>1, <3>2
  <2>5. CASE call' = [call EXCEPT ![p] = Idle]
    <3>1. Idle.pc = "idle" /\ ~Idle.passive BY DEF Idle
    <3> QED BY <2>2, <2>5, <3>1
  <2> QED BY <1>17, <2>3, <2>4, <2>5 DEF reconcileNext
<1>18. ASSUME NEW d \in Discrs, SessionLeavesDown(d) PROVE QuotaInv'
  <2>1. UNCHANGED <<unsolicited, sessionCount>> /\ call' = OutdatedCalls(call, d)
    BY <1>18 DEF SessionLeavesDown, maps
  <2>2. \A q \in Procs : call'[q].pc = call[q].pc /\ call'[q].passive = call[q].passive
    BY <1>0, <2>1 DEF OutdatedCalls, Calls
  <2>3. Busy' = Busy BY <2>2 DEF Busy, Reserving
  <2> QED BY <2>1, <2>2, <2>3 DEF QuotaInv, PassiveOK, QuotaHolds, Busy
<1>19. CASE Close
  <2>1. unsolicited' = {} /\ UNCHANGED <<sessionCount, call>> BY <1>19 DEF Close
  <2>2. Busy' = Busy BY <2>1 DEF Busy, Reserving
  <2>3. Busy \subseteq Procs BY DEF Busy
  <2>4. IsFiniteSet(unsolicited) /\ IsFiniteSet(Busy)
    BY <2>3, FiniteAssumption, FS_Subset DEF TypeOK
  <2>5. /\ sessionCount \in Nat /\ Cardinality(unsolicited) + Cardinality(Busy) <= sessionCount
        /\ MaxSessions # 0 => sessionCount <= MaxSessions
    BY DEF TypeOK, QuotaInv, QuotaHolds, Busy
  <2>6. Cardinality({}) + Cardinality(Busy) <= sessionCount
    BY <2>4, <2>5, Balance
  <2> QED BY <2>1, <2>2, <2>5, <2>6 DEF QuotaInv, PassiveOK, QuotaHolds, Busy
<1>20. ASSUME NEW p \in Procs, NEW d \in Discrs,
              DestroySession(p, d) \/ \E x \in {"timely", "stale"} : cleanupUnsolicitedSession(p, d, x)
       PROVE  QuotaInv'
  <2>1. CASE DestroySession(p, d)
    <3>1. call' = [call EXCEPT ![p] = [call[p] EXCEPT !.pc = "delete", !.discr = d,
                                                      !.cause = call[p].cause]]
      <4>1. [call[p] EXCEPT !.pc = "delete", !.discr = d, !.cause = call[p].cause]
              = [call[p] EXCEPT !.pc = "delete", !.discr = d]
        BY <1>0 DEF Calls
      <4> QED BY <2>1, <4>1 DEF DestroySession
    <3>2. call[p].cause \in Causes BY <1>0 DEF Calls
    <3> QED BY <2>1, <1>4, <3>1, <3>2 DEF DestroySession, At, maps
  <2>2. ASSUME NEW x \in {"timely", "stale"}, cleanupUnsolicitedSession(p, d, x) PROVE QuotaInv'
    <3>1. x \in Causes BY DEF Causes
    <3>2. CASE UNCHANGED call BY <2>2, <3>2, <1>1 DEF cleanupUnsolicitedSession, maps
    <3>3. CASE call' = [call EXCEPT ![p].pc = "delete", ![p].discr = d, ![p].cause = x]
      <4>1. call' = [call EXCEPT ![p] = [call[p] EXCEPT !.pc = "delete", !.discr = d, !.cause = x]]
        BY <3>3
      <4>2. call[p].pc = "idle" /\ UNCHANGED <<unsolicited, sessionCount>>
        BY <2>2 DEF cleanupUnsolicitedSession, At, maps
      <4> QED BY <3>1, <4>1, <4>2, <1>4
    <3> QED BY <2>2, <3>2, <3>3 DEF cleanupUnsolicitedSession
  <2> QED BY <1>20, <2>1, <2>2
<1>21. CASE RunDispatch BY <1>21, <1>1 DEF RunDispatch, maps
<1>22. ASSUME NEW d \in Discrs, SessionGoesDown(d) PROVE QuotaInv'
  BY <1>22, <1>1 DEF SessionGoesDown, maps
<1>23. CASE UNCHANGED vars BY <1>1, <1>23 DEF vars, maps
<1> QED
  BY <1>2, <1>3, <1>5, <1>6, <1>7, <1>8, <1>9, <1>10, <1>11, <1>12, <1>13, <1>14, <1>15,
     <1>16, <1>17, <1>18, <1>19, <1>20, <1>21, <1>22, <1>23 DEF Next

(* The limit MaxSessions bounds the unsolicited sessions, those that are   *)
(* being created and those whose reservation is on its way back, however   *)
(* packets, destructions, cleanups and Close interleave (reserve, release, *)
(* tryCreateUnsolicited, DestroySession).                                  *)
THEOREM QuotaAlwaysHolds == Spec => []QuotaHolds
<1>1. Init => QuotaInv
  <2> SUFFICES ASSUME Init PROVE QuotaInv OBVIOUS
  <2>1. \A p \in Procs : call[p].pc = "idle" /\ ~call[p].passive BY DEF Init, Idle
  <2>2. {p \in Procs : Reserving(p)} = {} BY <2>1 DEF Reserving
  <2>3. PassiveOK BY <2>1 DEF PassiveOK
  <2>4. unsolicited = {} /\ sessionCount = 0 BY DEF Init
  <2>5. QuotaHolds BY <2>2, <2>4, FS_EmptySet, ManagerAssumption DEF QuotaHolds
  <2> QED BY <2>3, <2>5 DEF QuotaInv
<1>2. QuotaInv => QuotaHolds BY DEF QuotaInv
<1> QED BY <1>1, <1>2, QuotaStep, ManagerTypeCorrect, PTL DEF Spec
=============================================================================
