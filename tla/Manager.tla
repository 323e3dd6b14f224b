------------------------------- MODULE Manager ------------------------------
(***************************************************************************)
(* The session manager (internal/bfd/manager.go, manager_session.go) with  *)
(* its discriminator allocator (discriminator.go) and the accounting of    *)
(* unsolicited sessions (unsolicited.go).  Many goroutines call it at      *)
(* once: RPC handlers, packet receivers, the SIGHUP reload, the cleanup    *)
(* goroutines of unsolicited sessions, shutdown.  A call is a sequence of  *)
(* critical sections, of Manager.mu, of the allocator's mutex or of one    *)
(* atomic counter; each critical section is one step, and the steps of     *)
(* different calls interleave.                                             *)
(***************************************************************************)
EXTENDS Integers, Sequences, FiniteSets

CONSTANTS Keys,           \* session keys: peer, local address, interface
          Discrs,         \* nonzero discriminators
          Procs,          \* goroutines that may be inside a call at one time
          Permitted,      \* keys the unsolicited policy lets in
          MaxSessions,    \* UnsolicitedPolicy.MaxSessions, 0: no limit
          NotifyChSize,   \* capacity of rawNotifyCh
          MaxCleanups,    \* bound: cleanup goroutines of one discriminator
          MaxCount,       \* bound: unlimited reservations
          Absent          \* no key, no discriminator

ASSUME ManagerAssumption ==
  /\ Permitted \subseteq Keys
  /\ MaxSessions \in Nat /\ NotifyChSize \in Nat
  /\ MaxCleanups \in Nat /\ MaxCount \in Nat
  /\ Absent \notin Keys \cup Discrs

(* Discriminators are 32 bits wide, and goroutines are finitely many.      *)
ASSUME FiniteAssumption == IsFiniteSet(Discrs) /\ IsFiniteSet(Procs)

VARIABLES sessions,        \* discriminator -> key of the session registered
          sessionsByPeer,  \* key -> discriminator of the session registered
          unsolicited,     \* registered sessions whose entry is so marked
          allocated,       \* DiscriminatorAllocator.allocated
          sessionCount,    \* unsolicitedState.sessionCount
          running,         \* uncancelled Run goroutines of a discriminator
          notDown,         \* sessions whose State() is not Down
          rawNotifyCh,     \* Down notifications that wait for RunDispatch
          cleanups,        \* cleanup goroutines that wait for their timer
          call,            \* where each goroutine is, and its local values
          closed           \* history: Close has returned

maps == <<sessions, sessionsByPeer, unsolicited>>
feed == <<notDown, rawNotifyCh, cleanups>>
vars == <<maps, allocated, sessionCount, running, feed, call, closed>>

(* passive: on behalf of tryCreateUnsolicited; doomed, wanted: what a      *)
(* reconciliation still has to destroy and to create; cause: history, why  *)
(* a session is destroyed.                                                 *)
Idle == [pc |-> "idle", key |-> Absent, discr |-> Absent, passive |-> FALSE,
         cause |-> "caller", doomed |-> {}, wanted |-> {}]

Registered(d) == sessions[d] # Absent

(* A timely cleanup was started for the Down the session is still in.      *)
Causes == {"caller", "timely", "stale"}
Timers == Discrs \X {"timely", "stale"}

Init ==
  /\ sessions = [d \in Discrs |-> Absent]
  /\ sessionsByPeer = [k \in Keys |-> Absent]
  /\ unsolicited = {}
  /\ allocated = {}
  /\ sessionCount = 0
  /\ running = [d \in Discrs |-> 0]
  /\ notDown = {}
  /\ rawNotifyCh = <<>>
  /\ cleanups = [t \in Timers |-> 0]
  /\ call = [p \in Procs |-> Idle]
  /\ closed = FALSE

(* History: what waits to clean d up was meant for an earlier Down.        *)
Outdated(timers, d) ==
  [timers EXCEPT ![<<d, "stale">>] = @ + timers[<<d, "timely">>], ![<<d, "timely">>] = 0]

OutdatedCalls(calls, d) ==
  [p \in Procs |-> IF calls[p].cause = "timely" /\ calls[p].discr = d
                   THEN [calls[p] EXCEPT !.cause = "stale"] ELSE calls[p]]

(* One critical section of p ends and p stands before the next one.        *)
At(p, pc) == call[p].pc = pc
Goto(p, pc) == call' = [call EXCEPT ![p].pc = pc]

(* The operation of p is over: an RPC returns, a reconciliation goes on.   *)
Returned(c) ==
  [Idle EXCEPT !.pc = IF c.doomed = {} /\ c.wanted = {} THEN "idle" ELSE "reconcile",
               !.doomed = c.doomed, !.wanted = c.wanted]

Return(p) == call' = [call EXCEPT ![p] = Returned(@)]

-----------------------------------------------------------------------------
(* CreateSession                                                           *)

CreateSession(p, k) ==
  /\ At(p, "idle")
  /\ call' = [call EXCEPT ![p].pc = "check", ![p].key = k]
  /\ UNCHANGED <<maps, allocated, sessionCount, running, feed, closed>>

(* An operation that failed: an unsolicited one gives its reservation back.*)
Fail(p) == IF call[p].passive THEN Goto(p, "unreserve") ELSE Return(p)

checkDuplicate(p) ==
  /\ At(p, "check")
  /\ IF sessionsByPeer[call[p].key] # Absent THEN Fail(p) ELSE Goto(p, "allocate")
  /\ UNCHANGED <<maps, allocated, sessionCount, running, feed, closed>>

(* What Allocate may draw, and the table after Release.                    *)
Allocate == Discrs \ allocated
Released(d) == allocated \ {d}

(* Allocate draws any free nonzero value; NewSession may still reject the  *)
(* configuration, and then the value is free again.                        *)
allocateAndBuild(p) ==
  /\ At(p, "allocate")
  /\ \/ \E d \in Allocate :
          /\ allocated' = allocated \cup {d}
          /\ call' = [call EXCEPT ![p].pc = "register", ![p].discr = d]
     \/ Fail(p) /\ UNCHANGED allocated
  /\ UNCHANGED <<maps, sessionCount, running, feed, closed>>

(* Mutant: without the second duplicate check.                             *)
MutRegisterAndStart(p) ==
  /\ At(p, "register")
  /\ sessions' = [sessions EXCEPT ![call[p].discr] = call[p].key]
  /\ sessionsByPeer' = [sessionsByPeer EXCEPT ![call[p].key] = call[p].discr]
  /\ running' = [running EXCEPT ![call[p].discr] = @ + 1]
  /\ IF call[p].passive THEN Goto(p, "mark") ELSE Return(p)
  /\ UNCHANGED <<unsolicited, allocated, sessionCount, feed, closed>>

(* Mutant: a duplicate takes the place of the session that has the key.    *)
MutReplaceAndStart(p) ==
  /\ At(p, "register")
  /\ LET k == call[p].key
         d == call[p].discr
         old == {sessionsByPeer[k]} \ {Absent}
     IN /\ sessions' = [e \in Discrs |-> IF e = d THEN k ELSE IF e \in old THEN Absent
                                         ELSE sessions[e]]
        /\ sessionsByPeer' = [sessionsByPeer EXCEPT ![k] = d]
        /\ unsolicited' = unsolicited \ old
        /\ running' = [e \in Discrs |-> IF e = d THEN 1 ELSE IF e \in old THEN 0 ELSE running[e]]
        /\ allocated' = allocated \ old
        /\ IF call[p].passive THEN Goto(p, "mark") ELSE Return(p)
  /\ UNCHANGED <<sessionCount, feed, closed>>

(* Under the write lock: the duplicate check again, then both maps and the *)
(* session's goroutine.  A fresh session is Down.                          *)
registerAndStart(p) ==
  /\ At(p, "register")
  /\ LET k == call[p].key
         d == call[p].discr
     IN IF sessionsByPeer[k] # Absent
        THEN Goto(p, "abort") /\ UNCHANGED <<maps, running, notDown, cleanups>>
        ELSE /\ sessions' = [sessions EXCEPT ![d] = k]
             /\ sessionsByPeer' = [sessionsByPeer EXCEPT ![k] = d]
             /\ running' = [running EXCEPT ![d] = @ + 1]
             /\ notDown' = notDown \ {d}
             /\ cleanups' = Outdated(cleanups, d)
             /\ call' = [OutdatedCalls(call, d) EXCEPT
                           ![p] = IF call[p].passive THEN [call[p] EXCEPT !.pc = "mark"]
                                                     ELSE Returned(call[p])]
             /\ UNCHANGED unsolicited
  /\ UNCHANGED <<allocated, sessionCount, rawNotifyCh, closed>>

(* Mutant: the rejected duplicate keeps its discriminator.                 *)
MutAbortCreate(p) ==
  /\ At(p, "abort")
  /\ Fail(p)
  /\ UNCHANGED <<maps, allocated, sessionCount, running, feed, closed>>

(* CreateSession releases the discriminator of a rejected duplicate.       *)
abortCreate(p) ==
  /\ At(p, "abort")
  /\ allocated' = Released(call[p].discr)
  /\ Fail(p)
  /\ UNCHANGED <<maps, sessionCount, running, feed, closed>>

-----------------------------------------------------------------------------
(* Packets without Your Discriminator: demuxByPeer, tryCreateUnsolicited   *)

demuxByPeer(p, k) ==
  /\ At(p, "idle")
  /\ sessionsByPeer[k] = Absent
  /\ call' = [call EXCEPT ![p].pc = "reserve", ![p].key = k, ![p].passive = TRUE]
  /\ UNCHANGED <<maps, allocated, sessionCount, running, feed, closed>>

(* Mutant: the limit is off by one.                                        *)
MutReserve(p) ==
  /\ At(p, "reserve")
  /\ IF call[p].key \in Permitted /\ sessionCount <= MaxSessions
     THEN sessionCount' = sessionCount + 1 /\ Goto(p, "check")
     ELSE Return(p) /\ UNCHANGED sessionCount
  /\ UNCHANGED <<maps, allocated, running, feed, closed>>

(* The compare-and-swap loop of reserve amounts to one atomic step.        *)
reserve(p) ==
  /\ At(p, "reserve")
  /\ IF call[p].key \in Permitted /\ (MaxSessions = 0 \/ sessionCount < MaxSessions)
     THEN /\ sessionCount < MaxCount
          /\ sessionCount' = sessionCount + 1
          /\ Goto(p, "check")
     ELSE Return(p) /\ UNCHANGED sessionCount
  /\ UNCHANGED <<maps, allocated, running, feed, closed>>

release(n) == IF n = 0 THEN 0 ELSE n - 1

(* CreateSession failed: the reservation is given back.                    *)
unreserve(p) ==
  /\ At(p, "unreserve")
  /\ sessionCount' = release(sessionCount)
  /\ Return(p)
  /\ UNCHANGED <<maps, allocated, running, feed, closed>>

(* A second critical section marks the entry, if it is still there.        *)
markSessionUnsolicited(p) ==
  /\ At(p, "mark")
  /\ unsolicited' = IF Registered(call[p].discr) THEN unsolicited \cup {call[p].discr}
                                                 ELSE unsolicited
  /\ Return(p)
  /\ UNCHANGED <<sessions, sessionsByPeer, allocated, sessionCount, running, feed, closed>>

-----------------------------------------------------------------------------
(* DestroySession: maps, counter, goroutine, discriminator                 *)

DestroySession(p, d) ==
  /\ At(p, "idle")
  /\ call' = [call EXCEPT ![p].pc = "delete", ![p].discr = d]
  /\ UNCHANGED <<maps, allocated, sessionCount, running, feed, closed>>

deleteEntry(p) ==
  /\ At(p, "delete")
  /\ LET d == call[p].discr
     IN IF ~Registered(d)
        THEN Return(p) /\ UNCHANGED maps
        ELSE /\ sessions' = [sessions EXCEPT ![d] = Absent]
             /\ sessionsByPeer' = [sessionsByPeer EXCEPT ![sessions[d]] = Absent]
             /\ unsolicited' = unsolicited \ {d}
             /\ Goto(p, IF d \in unsolicited THEN "uncount" ELSE "cancel")
  /\ UNCHANGED <<allocated, sessionCount, running, feed, closed>>

uncountEntry(p) ==
  /\ At(p, "uncount")
  /\ sessionCount' = release(sessionCount)
  /\ Goto(p, "cancel")
  /\ UNCHANGED <<maps, allocated, running, feed, closed>>

(* Mutant: the goroutine of a destroyed session is not cancelled.          *)
MutCancelEntry(p) ==
  /\ At(p, "cancel")
  /\ Goto(p, "release")
  /\ UNCHANGED <<maps, allocated, sessionCount, running, feed, closed>>

cancelEntry(p) ==
  /\ At(p, "cancel")
  /\ running' = [running EXCEPT ![call[p].discr] = @ - 1]
  /\ Goto(p, "release")
  /\ UNCHANGED <<maps, allocated, sessionCount, feed, closed>>

Release(p) ==
  /\ At(p, "release")
  /\ allocated' = Released(call[p].discr)
  /\ Return(p)
  /\ UNCHANGED <<maps, sessionCount, running, feed, closed>>

-----------------------------------------------------------------------------
(* ReconcileSessions: a snapshot of the keys, the destructions in any      *)
(* order, then the creations in any order; errors do not stop it.          *)

ReconcileSessions(p, desired) ==
  /\ At(p, "idle")
  /\ LET current == {k \in Keys : sessionsByPeer[k] # Absent}
     IN call' = [call EXCEPT ![p].pc = "reconcile",
                             ![p].doomed = {sessionsByPeer[k] : k \in current \ desired},
                             ![p].wanted = desired \ current]
  /\ UNCHANGED <<maps, allocated, sessionCount, running, feed, closed>>

reconcileNext(p) ==
  /\ At(p, "reconcile")
  /\ \/ \E d \in call[p].doomed :
          call' = [call EXCEPT ![p].pc = "delete", ![p].discr = d, ![p].doomed = @ \ {d}]
     \/ /\ call[p].doomed = {}
        /\ \E k \in call[p].wanted :
             call' = [call EXCEPT ![p].pc = "check", ![p].key = k, ![p].wanted = @ \ {k}]
     \/ /\ call[p].doomed = {} /\ call[p].wanted = {}
        /\ call' = [call EXCEPT ![p] = Idle]
  /\ UNCHANGED <<maps, allocated, sessionCount, running, feed, closed>>

-----------------------------------------------------------------------------
(* State changes of the sessions and the cleanup of unsolicited ones       *)

(* The session leaves Down: whatever waited for its Down is outdated.      *)
SessionLeavesDown(d) ==
  /\ running[d] > 0 /\ d \notin notDown
  /\ notDown' = notDown \cup {d}
  /\ cleanups' = Outdated(cleanups, d)
  /\ call' = OutdatedCalls(call, d)
  /\ UNCHANGED <<maps, allocated, sessionCount, running, rawNotifyCh, closed>>

(* A full rawNotifyCh drops the notification.                              *)
SessionGoesDown(d) ==
  /\ running[d] > 0 /\ d \in notDown
  /\ notDown' = notDown \ {d}
  /\ rawNotifyCh' = IF Len(rawNotifyCh) < NotifyChSize THEN Append(rawNotifyCh, d)
                                                       ELSE rawNotifyCh
  /\ UNCHANGED <<maps, allocated, sessionCount, running, cleanups, call, closed>>

(* RunDispatch takes a Down notification; scheduleUnsolicitedCleanup starts*)
(* a goroutine when the discriminator is now an unsolicited session's.     *)
RunDispatch ==
  /\ rawNotifyCh # <<>>
  /\ LET d == Head(rawNotifyCh)
         t == <<d, IF d \in notDown THEN "stale" ELSE "timely">>
     IN IF Registered(d) /\ d \in unsolicited
        THEN /\ cleanups[<<d, "timely">>] + cleanups[<<d, "stale">>] < MaxCleanups
             /\ cleanups' = [cleanups EXCEPT ![t] = @ + 1]
        ELSE UNCHANGED cleanups
  /\ rawNotifyCh' = Tail(rawNotifyCh)
  /\ UNCHANGED <<maps, allocated, sessionCount, running, notDown, call, closed>>

(* CleanupTimeout is over: the check under the read lock; DestroySession   *)
(* takes the write lock later.                                             *)
cleanupUnsolicitedSession(p, d, cause) ==
  /\ At(p, "idle")
  /\ cleanups[<<d, cause>>] > 0
  /\ cleanups' = [cleanups EXCEPT ![<<d, cause>>] = @ - 1]
  /\ IF Registered(d) /\ d \in unsolicited /\ d \notin notDown
     THEN call' = [call EXCEPT ![p].pc = "delete", ![p].discr = d, ![p].cause = cause]
     ELSE UNCHANGED call
  /\ UNCHANGED <<maps, allocated, sessionCount, running, notDown, rawNotifyCh, closed>>

-----------------------------------------------------------------------------
(* Close, under the write lock                                             *)

Close ==
  /\ running' = [d \in Discrs |-> IF Registered(d) THEN running[d] - 1 ELSE running[d]]
  /\ allocated' = {d \in allocated : ~Registered(d)}
  /\ sessions' = [d \in Discrs |-> Absent]
  /\ sessionsByPeer' = [k \in Keys |-> Absent]
  /\ unsolicited' = {}
  /\ closed' = TRUE
  /\ UNCHANGED <<sessionCount, feed, call>>

Next ==
  \/ \E p \in Procs :
       \/ \E k \in Keys : CreateSession(p, k) \/ demuxByPeer(p, k)
       \/ \E d \in Discrs :
            \/ DestroySession(p, d)
            \/ \E cause \in {"timely", "stale"} : cleanupUnsolicitedSession(p, d, cause)
       \/ \E desired \in SUBSET Keys : ReconcileSessions(p, desired)
       \/ checkDuplicate(p) \/ allocateAndBuild(p) \/ registerAndStart(p) \/ abortCreate(p)
       \/ reserve(p) \/ unreserve(p) \/ markSessionUnsolicited(p)
       \/ deleteEntry(p) \/ uncountEntry(p) \/ cancelEntry(p) \/ Release(p)
       \/ reconcileNext(p)
  \/ \E d \in Discrs : SessionLeavesDown(d) \/ SessionGoesDown(d)
  \/ RunDispatch
  \/ Close

Spec == Init /\ [][Next]_vars

-----------------------------------------------------------------------------
(* Correctness                                                             *)

(* Module Registry says what the Manager promises: its table is            *)
(* sessionsByPeer, its alive are the sessions whose Run is not cancelled.  *)
R == INSTANCE Registry WITH table <- sessionsByPeer,
                            alive <- {d \in Discrs : running[d] > 0}

(* The Manager, with all its calls interleaved section by section, is a    *)
(* Registry (CreateSession, DestroySession, ReconcileSessions, unsolicited *)
(* creation and cleanup, Close).                                           *)
RefinesRegistry == R!Spec

Steps == {"idle", "check", "allocate", "register", "abort", "reserve", "unreserve", "mark",
          "delete", "uncount", "cancel", "release", "reconcile"}

Calls == [pc : Steps, key : Keys \cup {Absent}, discr : Discrs \cup {Absent},
          passive : BOOLEAN, cause : Causes, doomed : SUBSET Discrs, wanted : SUBSET Keys]

(* Every variable has the shape of the Go value it stands for.             *)
TypeOK ==
  /\ sessions \in [Discrs -> Keys \cup {Absent}]
  /\ sessionsByPeer \in [Keys -> Discrs \cup {Absent}]
  /\ unsolicited \subseteq Discrs /\ allocated \subseteq Discrs /\ notDown \subseteq Discrs
  /\ sessionCount \in Nat
  /\ running \in [Discrs -> Nat]
  /\ rawNotifyCh \in Seq(Discrs)
  /\ cleanups \in [Timers -> Nat]
  /\ call \in [Procs -> Calls]
  /\ closed \in BOOLEAN

(* The two indexes of the Manager name the same sessions, whatever creates,*)
(* destroys and reconciliations are under way: a key has at most one       *)
(* session, and a packet finds the same session by discriminator and by    *)
(* peer (registerAndStart, DestroySession).                                *)
MapsAgree == \A d \in Discrs, k \in Keys : sessions[d] = k <=> sessionsByPeer[k] = d

(* A call that has a discriminator to itself, and of these the ones that   *)
(* have still to cancel its goroutine.                                     *)
Holds(p, d) == call[p].discr = d /\ call[p].pc \in {"register", "abort", "uncount", "cancel", "release"}
Cancels(p, d) == call[p].discr = d /\ call[p].pc \in {"uncount", "cancel"}

(* A discriminator in use belongs to one registered session or to one call *)
(* that is creating or destroying one, never to two; and none in use is    *)
(* free, none out of use is still taken (CreateSession, DestroySession,    *)
(* Close, DiscriminatorAllocator).                                         *)
DiscrsOwned ==
  \A d \in Discrs :
    /\ d \in allocated <=> Registered(d) \/ \E p \in Procs : Holds(p, d)
    /\ \A p \in Procs : Holds(p, d) => ~Registered(d) /\ \A q \in Procs \ {p} : ~Holds(q, d)

(* A session's goroutine runs exactly as long as the session is registered *)
(* or a call is about to cancel it: no goroutine is leaked and no          *)
(* discriminator has two (registerAndStart, DestroySession, Close).        *)
GoroutinesOwned ==
  \A d \in Discrs :
    running[d] = IF Registered(d) \/ \E p \in Procs : Cancels(p, d) THEN 1 ELSE 0

(* A reservation that a call holds for a session it has not yet marked, or *)
(* whose session it has just removed.                                      *)
Reserving(p) ==
  \/ call[p].passive /\ call[p].pc \in {"check", "allocate", "register", "abort", "unreserve", "mark"}
  \/ call[p].pc = "uncount"

(* The counter never falls behind the unsolicited sessions and those being *)
(* created, so MaxSessions bounds them (reserve, release).                 *)
QuotaHolds ==
  /\ Cardinality(unsolicited) + Cardinality({p \in Procs : Reserving(p)}) <= sessionCount
  /\ MaxSessions # 0 => sessionCount <= MaxSessions

Quiet == \A p \in Procs : At(p, "idle")

(* What the comment on release says: the counter goes down when an         *)
(* unsolicited session is destroyed, so when no call is under way it       *)
(* counts the unsolicited sessions.                                        *)
QuotaReturned == Quiet /\ ~closed => sessionCount = Cardinality(unsolicited)

(* What the comment on CleanupTimeout says: a passive session is deleted   *)
(* when it has been Down for that long, hence never one that left Down     *)
(* after its cleanup was started.                                          *)
CleanupWaits ==
  [][\A p \in Procs :
       At(p, "delete") /\ call'[p].pc \in {"uncount", "cancel"} => call[p].cause # "stale"]_vars
=============================================================================
