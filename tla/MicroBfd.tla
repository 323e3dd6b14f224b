------------------------------ MODULE MicroBfd ------------------------------
(***************************************************************************)
(* Micro-BFD on the member links of LAGs (internal/bfd/micro.go,           *)
(* manager_micro.go): the manager's groups count the members whose session *)
(* is Up, and the actuator (internal/netio/lag_actuator.go) takes members  *)
(* out of the LAG and back in.  State changes reach the groups through     *)
(* rawNotifyCh, which drops what does not fit.  A reload                   *)
(* (cmd/gobfd/micro_bfd.go) reconciles the groups first and the member     *)
(* sessions after them.                                                    *)
(***************************************************************************)
EXTENDS BfdFsm, Integers, FiniteSets

CONSTANTS Lags, Links,
          GroupConfigs,    \* what the configuration file may say of the LAGs
          Mode, UpAction, DownAction,   \* LAGActuatorConfig
          Dynamic,         \* whether AddMember and RemoveMember are called
          NotifyChSize,    \* capacity of rawNotifyCh
          Absent

VARIABLES sess,         \* the state of a link's session, Absent without one
          groups,       \* Manager.microGroups
          rawNotifyCh,
          bundle,       \* the links over which each LAG distributes traffic
          config,       \* the configuration last loaded
          reload,       \* "groups" while a reload is under way
          clean         \* history: nothing was lost since a link came Up

vars == <<sess, groups, rawNotifyCh, bundle, config, reload, clean>>

(* What validateMicroBFDConfig accepts.                                    *)
GroupConfig == {c \in [links : SUBSET Links, minActive : Nat] :
                  c.links # {} /\ c.minActive \in 1..Cardinality(c.links)}

(* MicroBFDGroup.  A group holds the last known state of its members.      *)
Groups == [members : [Links -> States \cup {Absent}], minActive : Nat,
           upCount : Int, aggregateUp : BOOLEAN]

ASSUME MicroAssumption ==
  /\ IsFiniteSet(Links)
  /\ GroupConfigs \subseteq [Lags -> GroupConfig \cup {Absent}]
  /\ Mode \in {"disabled", "dry-run", "enforce"}
  /\ {UpAction, DownAction} \subseteq {"none", "remove-member", "add-member"}
  /\ Dynamic \in BOOLEAN /\ NotifyChSize \in Nat
  /\ Absent \notin States \cup GroupConfig \cup Groups

NewMicroBFDGroup(c) ==
  [members |-> [l \in Links |-> IF l \in c.links THEN "Down" ELSE Absent],
   minActive |-> c.minActive, upCount |-> 0, aggregateUp |-> FALSE]

WithCount(g, n) == [g EXCEPT !.upCount = n, !.aggregateUp = n >= g.minActive]

(* Mutant: a member that leaves Up for AdminDown stays counted.            *)
MutUpdateMemberState(g, l, newState) ==
  IF g.members[l] = newState THEN g
  ELSE WithCount([g EXCEPT !.members[l] = newState],
                 CASE newState = "Up" -> g.upCount + 1
                   [] newState = "Down" /\ g.members[l] = "Up" -> g.upCount - 1
                   [] OTHER -> g.upCount)

UpdateMemberState(g, l, newState) ==
  IF g.members[l] = newState THEN g
  ELSE WithCount([g EXCEPT !.members[l] = newState],
                 CASE newState = "Up" -> g.upCount + 1
                   [] newState # "Up" /\ g.members[l] = "Up" -> g.upCount - 1
                   [] OTHER -> g.upCount)

Has(lag, l) == groups[lag] # Absent /\ groups[lag].members[l] # Absent

SoleOwner(l) == \E lag \in Lags : {other \in Lags : Has(other, l)} = {lag}

(* Mutant: only a link that goes Down is taken out.                        *)
MutDecision(sc) ==
  CASE Mode = "disabled" -> "none"
    [] Mode # "disabled" /\ sc.newState = "Up" -> UpAction
    [] Mode # "disabled" /\ sc.newState = "Down" -> DownAction
    [] OTHER -> "none"

(* The decision goes by the states in the notification, not by what the    *)
(* group had recorded.                                                     *)
decision(sc) ==
  CASE Mode = "disabled" -> "none"
    [] Mode # "disabled" /\ sc.newState = "Up" -> UpAction
    [] Mode # "disabled" /\ sc.oldState = "Up" /\ sc.newState # "Up" -> DownAction
    [] OTHER -> "none"

Init ==
  /\ sess = [l \in Links |-> Absent]
  /\ groups = [lag \in Lags |-> Absent]
  /\ rawNotifyCh = <<>>
  /\ bundle \in [Lags -> SUBSET Links]
  /\ config = [lag \in Lags |-> Absent]
  /\ reload = "idle"
  /\ clean = [l \in Links |-> FALSE]

-----------------------------------------------------------------------------
(* Member sessions and the dispatcher                                      *)

(* A non-blocking send: what does not fit is dropped.                      *)
emitNotification(sc) ==
  rawNotifyCh' = IF Len(rawNotifyCh) < NotifyChSize THEN Append(rawNotifyCh, sc) ELSE rawNotifyCh

(* A member session makes a transition.  No one brings a session back from *)
(* AdminDown.                                                              *)
SessionEvent(l, event) ==
  /\ sess[l] # Absent
  /\ LET new == ApplyEvent(sess[l], event).newState
         room == Len(rawNotifyCh) < NotifyChSize
     IN  /\ new # sess[l]
         /\ sess' = [sess EXCEPT ![l] = new]
         /\ emitNotification([link |-> l, oldState |-> sess[l], newState |-> new])
         /\ clean' = [clean EXCEPT ![l] = room /\ (@ \/ (new = "Up" /\ SoleOwner(l)))]
  /\ UNCHANGED <<groups, bundle, config, reload>>

(* HandleMicroBFDMemberEvent: what the backend makes of a decision.        *)
Actuated(links, action, l) ==
  CASE Mode = "enforce" /\ action = "add-member" -> links \cup {l}
    [] Mode = "enforce" /\ action = "remove-member" -> links \ {l}
    [] OTHER -> links

(* The state change goes to the first group found that has the link, then  *)
(* to the actuator, also when the group knew the state already.  A failure *)
(* of the backend is only logged.                                          *)
dispatchMicroBFD(sc, lag) ==
  /\ groups' = [groups EXCEPT ![lag] = UpdateMemberState(@, sc.link, sc.newState)]
  /\ \/ /\ bundle' = [bundle EXCEPT ![lag] = Actuated(@, decision(sc), sc.link)]
        /\ UNCHANGED clean
     \/ /\ Mode = "enforce" /\ decision(sc) # "none"
        /\ clean' = [clean EXCEPT ![sc.link] = FALSE]
        /\ UNCHANGED bundle

RunDispatch ==
  /\ rawNotifyCh # <<>>
  /\ LET sc == Head(rawNotifyCh)
     IN  \/ \E lag \in Lags : Has(lag, sc.link) /\ dispatchMicroBFD(sc, lag)
         \/ /\ \A lag \in Lags : ~Has(lag, sc.link)
            /\ UNCHANGED <<groups, bundle, clean>>
  /\ rawNotifyCh' = Tail(rawNotifyCh)
  /\ UNCHANGED <<sess, config, reload>>

-----------------------------------------------------------------------------
(* Reload, deletion by RPC, dynamic membership                             *)

Forget(links) == [l \in Links |-> clean[l] /\ l \notin links]

DesiredLinks(c) == {l \in Links : \E lag \in Lags : c[lag] # Absent /\ l \in c[lag].links}

(* A configuration without groups skips everything.                        *)
reconcileMicroBFDGroups(c) ==
  /\ reload = "idle"
  /\ config' = c
  /\ reload' = IF \A lag \in Lags : c[lag] = Absent THEN "idle" ELSE "groups"
  /\ UNCHANGED <<sess, groups, rawNotifyCh, bundle, clean>>

DestroyMicroBFDGroup(lag) ==
  /\ reload = "groups" /\ config[lag] = Absent /\ groups[lag] # Absent
  /\ groups' = [groups EXCEPT ![lag] = Absent]
  /\ clean' = Forget(Links)
  /\ UNCHANGED <<sess, rawNotifyCh, bundle, config, reload>>

(* After the groups to destroy.  A group that exists is left as it is: of  *)
(* a configured group only the LAG's name is compared.                     *)
CreateMicroBFDGroup(lag) ==
  /\ reload = "groups" /\ config[lag] # Absent /\ groups[lag] = Absent
  /\ \A other \in Lags : config[other] = Absent => groups[other] = Absent
  /\ groups' = [groups EXCEPT ![lag] = NewMicroBFDGroup(config[lag])]
  /\ clean' = Forget(Links)
  /\ UNCHANGED <<sess, rawNotifyCh, bundle, config, reload>>

(* One group after the other, in any order.                                *)
ReconcileMicroBFDGroups ==
  \E lag \in Lags : DestroyMicroBFDGroup(lag) \/ CreateMicroBFDGroup(lag)

(* Then the member sessions, those of the links whose socket opens.        *)
(* Sessions come and go without a state change, and do not depend on each  *)
(* other: one step does them all.                                          *)
reconcileMicroBFDMemberSessions(desired) ==
  /\ reload = "groups"
  /\ \A lag \in Lags : (config[lag] = Absent) = (groups[lag] = Absent)
  /\ desired \subseteq DesiredLinks(config)
  /\ reload' = "idle"
  /\ IF desired = {}
     THEN UNCHANGED <<sess, clean>>
     ELSE /\ sess' = [l \in Links |-> CASE l \notin desired -> Absent
                                        [] l \in desired /\ sess[l] # Absent -> sess[l]
                                        [] OTHER -> "Down"]
          /\ clean' = Forget({l \in Links : (sess[l] = Absent) = (l \in desired)})
  /\ UNCHANGED <<groups, rawNotifyCh, bundle, config>>

DestroySession(l) ==
  /\ sess[l] # Absent
  /\ sess' = [sess EXCEPT ![l] = Absent]
  /\ clean' = Forget({l})
  /\ UNCHANGED <<groups, rawNotifyCh, bundle, config, reload>>

AddMember(lag, l) ==
  /\ Dynamic /\ groups[lag] # Absent /\ ~Has(lag, l)
  /\ groups' = [groups EXCEPT ![lag].members[l] = "Down"]
  /\ clean' = Forget({l})
  /\ UNCHANGED <<sess, rawNotifyCh, bundle, config, reload>>

RemoveMember(lag, l) ==
  /\ Dynamic /\ Has(lag, l)
  /\ groups' = [groups EXCEPT ![lag] =
                  WithCount([@ EXCEPT !.members[l] = Absent],
                            IF @.members[l] = "Up" THEN @.upCount - 1 ELSE @.upCount)]
  /\ clean' = Forget({l})
  /\ UNCHANGED <<sess, rawNotifyCh, bundle, config, reload>>

Next ==
  \/ \E l \in Links : \/ \E event \in Events \ {"AdminUp"} : SessionEvent(l, event)
                      \/ DestroySession(l)
                      \/ \E lag \in Lags : AddMember(lag, l) \/ RemoveMember(lag, l)
  \/ RunDispatch
  \/ \E c \in GroupConfigs : reconcileMicroBFDGroups(c)
  \/ ReconcileMicroBFDGroups
  \/ \E desired \in SUBSET Links : reconcileMicroBFDMemberSessions(desired)

Spec == Init /\ [][Next]_vars

-----------------------------------------------------------------------------
(* Properties                                                              *)

Changes == [link : Links, oldState : States, newState : States]

(* Every variable has the shape of the Go value it stands for.             *)
TypeOK ==
  /\ sess \in [Links -> States \cup {Absent}]
  /\ groups \in [Lags -> Groups \cup {Absent}]
  /\ rawNotifyCh \in Seq(Changes) /\ Len(rawNotifyCh) <= NotifyChSize
  /\ bundle \in [Lags -> SUBSET Links]
  /\ config \in [Lags -> GroupConfig \cup {Absent}]
  /\ reload \in {"idle", "groups"}
  /\ clean \in [Links -> BOOLEAN]

(* The incremental counter of a group is the number of its members that    *)
(* are Up, and the aggregate is Up exactly when the counter has reached    *)
(* minActive, whatever notifications were lost, repeated or taken for an   *)
(* earlier session (UpdateMemberState, RemoveMember).                      *)
GroupCounts ==
  \A lag \in Lags : groups[lag] # Absent =>
    LET g == groups[lag]
    IN  /\ g.upCount = Cardinality({l \in Links : g.members[l] = "Up"})
        /\ g.aggregateUp = (g.upCount >= g.minActive)

Pending(l) == \E i \in DOMAIN rawNotifyCh : rawNotifyCh[i].link = l

(* With the default actions enforced, from the moment a link came Up and   *)
(* as long as nothing about it was lost, the group knows its state and the *)
(* LAG uses the link exactly while its session is Up, once its last state  *)
(* change is dispatched.                                                   *)
LagFollows ==
  Mode = "enforce" /\ UpAction = "add-member" /\ DownAction = "remove-member" =>
    \A l \in Links, lag \in Lags :
      clean[l] /\ Has(lag, l) /\ ~Pending(l) =>
        /\ groups[lag].members[l] = sess[l]
        /\ l \in bundle[lag] <=> sess[l] = "Up"
=============================================================================
