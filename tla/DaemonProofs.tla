---------------------------- MODULE DaemonProofs ----------------------------
(***************************************************************************)
(* Proofs about modules Config and Daemon: what rounding to the RFC 7419   *)
(* intervals does, and that start-up, reloads, RPCs and the shutdown keep  *)
(* sockets, sessions and the file consistent, for any number of clients,   *)
(* files, ports and discriminators.                                        *)
(***************************************************************************)
EXTENDS Daemon, TLAPS

(* The smallest common interval that is not below d (the loop of           *)
(* AlignToCommonInterval).                                                 *)
LeastAbove(d, ci) ==
  /\ ci \in CommonIntervals /\ d <= ci
  /\ \A other \in CommonIntervals : d <= other => ci <= other

(* The intervals that rounding is about: more than 0, at most one second.  *)
Inside(d) == d > 0 /\ d <= 1000000

(* For those the loop of AlignToCommonInterval finds an interval.          *)
LEMMA AlignFinds ==
  ASSUME NEW d \in Int, Inside(d)
  PROVE  LeastAbove(d, AlignToCommonInterval(d))
<1>1. \E ci \in CommonIntervals : LeastAbove(d, ci)
  BY SMT DEF LeastAbove, CommonIntervals, Inside
<1>2. ~(d <= 0 \/ \A ci \in CommonIntervals : d > ci)
  BY <1>1, SMT DEF LeastAbove, CommonIntervals, Inside
<1>3. AlignToCommonInterval(d) =
        CHOOSE ci \in CommonIntervals :
          d <= ci /\ \A other \in CommonIntervals : d <= other => ci <= other
  BY <1>2, Zenon DEF AlignToCommonInterval
<1> QED BY <1>1, <1>3, Zenon DEF LeastAbove

(* AlignToCommonInterval leaves the others alone.                          *)
LEMMA AlignLeaves ==
  ASSUME NEW d \in Int, ~Inside(d)
  PROVE  AlignToCommonInterval(d) = d
<1>1. d <= 0 \/ \A ci \in CommonIntervals : d > ci BY SMT DEF CommonIntervals, Inside
<1> QED BY <1>1, Zenon DEF AlignToCommonInterval

(* What both cases have in common.                                         *)
LEMMA AlignUp ==
  ASSUME NEW d \in Int
  PROVE  /\ AlignToCommonInterval(d) \in Int
         /\ d <= AlignToCommonInterval(d)
         /\ Inside(d) => Inside(AlignToCommonInterval(d))
<1> DEFINE a == AlignToCommonInterval(d)
<1>1. CASE Inside(d)
  <2>1. LeastAbove(d, a) BY <1>1, AlignFinds
  <2> HIDE DEF a
  <2>2. a \in Int /\ d <= a /\ Inside(a) BY <1>1, <2>1, SMT DEF LeastAbove, CommonIntervals, Inside
  <2> QED BY <2>2 DEF a
<1>2. CASE ~Inside(d)
  <2>1. a = d BY <1>2, AlignLeaves
  <2> QED BY <1>2, <2>1
<1> QED BY <1>1, <1>2

(* Rounding never makes an interval shorter than the operator asked for,   *)
(* keeps the order of two intervals, and leaves its own results alone      *)
(* (AlignToCommonInterval, applied to both intervals of a session).        *)
THEOREM AlignIsClosure ==
  ASSUME NEW d \in Int, NEW e \in Int
  PROVE  /\ d <= AlignToCommonInterval(d)
         /\ d <= e => AlignToCommonInterval(d) <= AlignToCommonInterval(e)
         /\ AlignToCommonInterval(AlignToCommonInterval(d)) = AlignToCommonInterval(d)
<1> DEFINE a == AlignToCommonInterval(d)
           b == AlignToCommonInterval(e)
           aa == AlignToCommonInterval(a)
<1>1. a \in Int /\ d <= a /\ b \in Int /\ e <= b /\ (Inside(d) => Inside(a)) BY AlignUp
<1>2. ASSUME d <= e PROVE a <= b
  <2>1. CASE Inside(d) /\ Inside(e)
    <3>1. LeastAbove(d, a) /\ LeastAbove(e, b) BY <2>1, AlignFinds
    <3> HIDE DEF a, b
    <3> QED BY <1>2, <3>1, SMT DEF LeastAbove, CommonIntervals
  <2>2. CASE Inside(d) /\ ~Inside(e)
    <3>1. b = e BY <2>2, AlignLeaves
    <3> HIDE DEF a, b
    <3> QED BY <1>1, <1>2, <2>2, <3>1, SMT DEF Inside
  <2>3. CASE ~Inside(d)
    <3>1. a = d BY <2>3, AlignLeaves
    <3> HIDE DEF a, b
    <3> QED BY <1>1, <1>2, <3>1, SMT
  <2> QED BY <2>1, <2>2, <2>3
<1>3. aa = a
  <2>1. CASE Inside(d)
    <3>1. LeastAbove(d, a) /\ LeastAbove(a, aa) BY <1>1, <2>1, AlignFinds
    <3> HIDE DEF a, aa
    <3> QED BY <3>1, SMT DEF LeastAbove, CommonIntervals
  <2>2. CASE ~Inside(d)
    <3>1. a = d BY <2>2, AlignLeaves
    <3> QED BY <2>2, <3>1
  <2> QED BY <2>1, <2>2
<1> QED BY <1>1, <1>2, <1>3
-----------------------------------------------------------------------------
(* Shapes                                                                  *)

(* Nearly all that follows is first-order reasoning; a leaf that needs     *)
(* arithmetic or record updates says so.                                   *)
USE ZenonT(30)

(* Every entry that a file may have.                                       *)
Entries == UNION {f.entries : f \in FileSet}

(* What createSender returns, or the sender that overlays share.           *)
Senders == Ports \cup {Overlay}

(* The item that buildNext makes of an entry.                              *)
ItemOf(f, e, s) == [text |-> Text(e), key |-> e.key, terms |-> terms(f, e), sender |-> s]

Items == {ItemOf(f, e, s) : f \in FileSet, e \in Entries, s \in Senders}

(* main and the SIGHUP goroutine, ...                                      *)
Procs == [step : {"overlay", "idle", "load", "build", "apply", "ready", "gone"},
          cfg : FileSet \cup {NoFile}, n : 0..5, build : SUBSET Entries,
          desired : SUBSET Items, destroy : SUBSET Discrs, create : SUBSET Items,
          alone : BOOLEAN, skipped : BOOLEAN]

(* ... a discriminator, ...                                                *)
Sessions == {Absent} \cup [tab : {"bfd", "echo"}, key : Keys, sender : Senders]

(* ... and an RPC handler.                                                 *)
Calls == [step : {"idle", "create", "track", "cleanup"}, key : Keys \cup {None},
          port : Ports \cup {NoPort}, discr : Discrs \cup {NoDiscr}]

(* What a reload builds and creates is empty outside the step it belongs   *)
(* to.                                                                     *)
WorkShape(r) ==
  /\ r.step # "apply" => r.destroy = {} /\ r.create = {}
  /\ r.step \notin {"build", "apply"} => r.desired = {}
  /\ r.create \subseteq r.desired
  /\ r.step \in {"overlay", "build", "apply"} => r.cfg \in FileSet

(* A call that adds a session has a socket from CreateSender on, and every *)
(* call that is about a session has its discriminator.                     *)
CallShape(r) ==
  /\ r.step \in {"create", "track"} => r.port \in Ports /\ r.key \in Keys
  /\ r.step \in {"track", "cleanup"} => r.discr \in Discrs

(* The variables have the values of the code's types, and no registered    *)
(* session has a closed sender.                                            *)
ShapeInv ==
  /\ file \in FileSet /\ overlayConn \subseteq {"vxlan", "geneve"}
  /\ sessions \in [Discrs -> Sessions]
  /\ senderPorts \in [Discrs -> Ports \cup {NoPort}]
  /\ proc \in [Reloaders -> Procs]
  /\ rpc \in [Clients -> Calls]
  /\ phase \in {"up", "stopping", "closed", "refusing", "exited"}
  /\ senders \subseteq ports /\ ports \subseteq Ports /\ leaked \subseteq senders
  /\ \A p \in Reloaders : WorkShape(proc[p])
  /\ \A c \in Clients : CallShape(rpc[c])

(* The items whose senders nobody but the reload p has.                    *)
Held(p) == IF proc[p].step = "build" THEN proc[p].desired ELSE proc[p].create

(* AddSession is under way and the port not noted yet.                     *)
Calling(c) == rpc[c].step \in {"create", "track"}

(* Every socket that somebody has is open, ...                             *)
OpenInv ==
  /\ \A d \in Discrs : sessions[d].sender \in Ports => sessions[d].sender \in senders
  /\ \A d \in Discrs : senderPorts[d] \in Ports => senderPorts[d] \in senders
  /\ \A c \in Clients : Calling(c) => rpc[c].port \in senders
  /\ \A p \in Reloaders : \A i \in Held(p) : i.sender \in Ports => i.sender \in senders

(* ... sessions and notes of one socket are of one discriminator, ...      *)
SessionOwns ==
  /\ \A d, e \in Discrs :
       sessions[d].sender \in Ports /\ sessions[d].sender = sessions[e].sender => d = e
  /\ \A d, e \in Discrs : senderPorts[d] \in Ports /\ senderPorts[d] = senderPorts[e] => d = e
  /\ \A d, e \in Discrs : senderPorts[d] \in Ports /\ senderPorts[d] = sessions[e].sender => d = e

(* ... a call that adds a session has a socket of its own, which it may    *)
(* share with the session it has created, ...                              *)
CallOwns ==
  /\ \A b, c \in Clients : Calling(b) /\ Calling(c) /\ rpc[b].port = rpc[c].port => b = c
  /\ \A c \in Clients, d \in Discrs : Calling(c) => rpc[c].port # senderPorts[d]
  /\ \A c \in Clients, d \in Discrs :
       Calling(c) /\ rpc[c].port = sessions[d].sender => rpc[c].step = "track" /\ rpc[c].discr = d

(* ... and so has each item of a reload.                                   *)
ItemOwns ==
  /\ \A p, q \in Reloaders : \A i \in Held(p), j \in Held(q) :
       i.sender \in Ports /\ i.sender = j.sender => p = q /\ i = j
  /\ \A p \in Reloaders : \A i \in Held(p) : i.sender \in Ports =>
       /\ \A d \in Discrs : i.sender # sessions[d].sender /\ i.sender # senderPorts[d]
       /\ \A c \in Clients : Calling(c) => i.sender # rpc[c].port

(* No socket has two owners.                                               *)
OwnInv == OpenInv /\ SessionOwns /\ CallOwns /\ ItemOwns

(* Which session the notes of the RPC server are about.                    *)
NoteInv ==
  /\ \A c \in Clients : rpc[c].step = "cleanup" => sessions[rpc[c].discr] = Absent
  /\ \A c \in Clients : rpc[c].step = "track" => senderPorts[rpc[c].discr] = NoPort
  /\ \A c \in Clients : rpc[c].step = "track" /\ sessions[rpc[c].discr] # Absent
                        => sessions[rpc[c].discr].sender = rpc[c].port
  /\ \A c \in Clients : rpc[c].step = "track" /\ sessions[rpc[c].discr] = Absent
                        => rpc[c].port \in leaked
  /\ \A b, c \in Clients : rpc[b].step = "track" /\ rpc[c].step = "track" /\ rpc[b].discr = rpc[c].discr => b = c
  /\ \A d \in Discrs : sessions[d] # Absent /\ senderPorts[d] # NoPort => sessions[d].sender = senderPorts[d]

(* CreateSession has refused second sessions of a key.                     *)
KeyInv == \A d, e \in InTable("bfd") : sessions[d].key = sessions[e].key => d = e

(* The items come from entries of the kind, and unless an entry was left   *)
(* out every one has its item or will have it.                             *)
Planned(r) ==
  r.step \in {"build", "apply"} =>
    /\ r.build \subseteq entriesOf(r.cfg, Kinds[r.n])
    /\ \A i \in r.desired :
         \E e \in entriesOf(r.cfg, Kinds[r.n]) : i = ItemOf(r.cfg, e, i.sender)
    /\ ~r.skipped => \A e \in entriesOf(r.cfg, Kinds[r.n]) :
                       e \in r.build \/ \E i \in r.desired : i.text = Text(e)
    /\ r.step = "apply" => r.build = {}

(* A session that is to be destroyed is gone already, or it is of the      *)
(* table of the kind and has no item.                                      *)
Doomed(p) ==
  \A d \in proc[p].destroy :
    \/ sessions[d] = Absent
    \/ /\ sessions[d].tab = table(kindOf(p))
       /\ \A i \in proc[p].desired : i.text # sessionText(d)

(* As long as nobody interferes, every session is to go or has an item,    *)
(* and every item the manager accepts is to be created or has a session.   *)
Converging(p) ==
  proc[p].step = "apply" /\ proc[p].alone /\ kindOf(p) # "echo" =>
    /\ \A d \in InTable("bfd") :
         d \in proc[p].destroy \/ \E i \in proc[p].desired : i.key = sessions[d].key
    /\ \A i \in proc[p].desired : accepts(kindOf(p), i.terms) =>
         \/ i \in proc[p].create
         \/ \E d \in InTable("bfd") \ proc[p].destroy : sessions[d].key = i.key

PlanInv ==
  KeyInv /\ \A p \in Reloaders : Planned(proc[p]) /\ Doomed(p) /\ Converging(p)

(* When the shutdown has come so far, those it has waited for are done.    *)
ExitInv ==
  /\ phase \in {"closed", "refusing", "exited"} => proc["main"].step = "ready"
  /\ phase = "exited" => /\ proc["hup"].step = "gone" /\ \A c \in Clients : rpc[c].step = "idle"
                         /\ \A d \in Discrs : sessions[d] = Absent

(* Five kinds.                                                             *)
LEMMA FiveKinds == Len(Kinds) = 5
BY SMT DEF Kinds

(* advance finds the next kind to reconcile among those that are left.     *)
LEMMA LeastLeft ==
  ASSUME NEW left \in SUBSET (1..5), left # {}
  PROVE  \E m \in left : \A k \in left : m <= k
<1>1. CASE 1 \in left BY <1>1, SMT
<1>2. CASE 1 \notin left /\ 2 \in left BY <1>2, SMT
<1>3. CASE 1 \notin left /\ 2 \notin left /\ 3 \in left BY <1>3, SMT
<1>4. CASE 1 \notin left /\ 2 \notin left /\ 3 \notin left /\ 4 \in left BY <1>4, SMT
<1>5. CASE 1 \notin left /\ 2 \notin left /\ 3 \notin left /\ 4 \notin left
  <2>1. \A k \in left : k = 5 BY <1>5, SMT
  <2>2. PICK m \in left : TRUE OBVIOUS
  <2> QED BY <2>1, <2>2, SMT
<1> QED BY <1>1, <1>2, <1>3, <1>4, <1>5

(* A goroutine at the entries of one kind, or at its rest.                 *)
Begun(p, cfg, a) ==
  /\ a \in Procs
  /\ a.desired = {} /\ a.destroy = {} /\ a.create = {}
  /\ \/ a.step = IF p = "main" THEN "ready" ELSE "idle"
     \/ /\ a.step = "build" /\ a.cfg = cfg
        /\ a.build = entriesOf(cfg, Kinds[a.n])

(* Where advance takes a goroutine.                                        *)
LEMMA Advances ==
  ASSUME NEW p, NEW cfg \in FileSet, NEW n \in 1..6, NEW conns,
         NEW a, a = advance(p, cfg, n, conns)
  PROVE  Begun(p, cfg, a)
<1> DEFINE left == toReconcile(cfg, n, conns)
           next == CHOOSE m \in left : \A k \in left : m <= k
<1>1. left \in SUBSET (1..5) BY FiveKinds, SMT DEF toReconcile
<1>2. CASE left = {}
  <2> DEFINE rest == IF p = "main" THEN "ready" ELSE "idle"
  <2>1. a = [Resting EXCEPT !.step = rest] BY <1>2 DEF advance
  <2>0. rest \in {"ready", "idle"} OBVIOUS
  <2> HIDE DEF rest
  <2>2. /\ a.step = rest /\ a.desired = {}
        /\ a.destroy = {} /\ a.create = {}
    BY <2>1 DEF Resting
  <2>3. a \in Procs
    <3>1. a = [step |-> rest, cfg |-> NoFile, n |-> 0, build |-> {}, desired |-> {},
               destroy |-> {}, create |-> {}, alone |-> FALSE, skipped |-> FALSE]
      BY <2>1 DEF Resting
    <3>2. 0 \in 0..5 /\ NoFile \in FileSet \cup {NoFile} BY SMT
    <3> QED BY <2>0, <3>1, <3>2, SMT DEF Procs
  <2> QED BY <2>2, <2>3 DEF rest, Begun
<1>3. CASE left # {}
  <2>1. next \in left BY <1>1, <1>3, LeastLeft, Zenon
  <2> DEFINE b == entriesOf(cfg, Kinds[next])
  <2>2. a = [Resting EXCEPT !.step = "build", !.cfg = cfg, !.n = next, !.build = b]
    BY <1>3 DEF advance
  <2>3. next \in 0..5 BY <1>1, <2>1, SMT
  <2>4. b \in SUBSET Entries BY DEF entriesOf, Entries
  <2> HIDE DEF next, b, left
  <2>5. /\ a.step = "build" /\ a.cfg = cfg /\ a.n = next /\ a.build = b /\ a.desired = {}
        /\ a.destroy = {} /\ a.create = {}
    BY <2>2 DEF Resting
  <2>6. a \in Procs BY <2>2, <2>3, <2>4 DEF Resting, Procs
  <2>7. a.build = entriesOf(cfg, Kinds[a.n]) BY <2>5 DEF b
  <2> QED BY <2>5, <2>6, <2>7 DEF Begun
<1> QED BY <1>2, <1>3

(* What touched leaves of the record of a goroutine: all but alone.        *)
LEMMA Touches ==
  ASSUME NEW pr \in [Reloaders -> Procs], NEW p
  PROVE  /\ touched(pr, p) \in [Reloaders -> Procs]
         /\ \A q \in Reloaders :
              /\ touched(pr, p)[q].step = pr[q].step /\ touched(pr, p)[q].cfg = pr[q].cfg
              /\ touched(pr, p)[q].n = pr[q].n /\ touched(pr, p)[q].build = pr[q].build
              /\ touched(pr, p)[q].desired = pr[q].desired
              /\ touched(pr, p)[q].destroy = pr[q].destroy
              /\ touched(pr, p)[q].create = pr[q].create
              /\ touched(pr, p)[q].skipped = pr[q].skipped
              /\ touched(pr, p)[q].alone => q = p /\ pr[q].alone
<1> DEFINE t == touched(pr, p)
<1>1. \A q \in Reloaders : t[q] = IF q = p THEN pr[q] ELSE [pr[q] EXCEPT !.alone = FALSE]
  BY DEF touched
<1>2. DOMAIN t = Reloaders /\ t = [q \in Reloaders |-> t[q]] BY DEF touched
<1> HIDE DEF t
<1>3. ASSUME NEW q \in Reloaders
      PROVE  /\ t[q] \in Procs
             /\ t[q].step = pr[q].step /\ t[q].cfg = pr[q].cfg
             /\ t[q].n = pr[q].n /\ t[q].build = pr[q].build
             /\ t[q].desired = pr[q].desired /\ t[q].destroy = pr[q].destroy
             /\ t[q].create = pr[q].create /\ t[q].skipped = pr[q].skipped
             /\ t[q].alone => q = p /\ pr[q].alone
  <2>1. pr[q] \in Procs OBVIOUS
  <2>2. CASE q = p
    <3>1. t[q] = pr[q] BY <1>1, <2>2
    <3> QED BY <2>1, <2>2, <3>1
  <2>3. CASE q # p
    <3>1. t[q] = [pr[q] EXCEPT !.alone = FALSE] BY <1>1, <2>3
    <3> QED BY <2>1, <3>1 DEF Procs
  <2> QED BY <2>2, <2>3
<1>4. t \in [Reloaders -> Procs] BY <1>2, <1>3
<1> QED BY <1>3, <1>4 DEF t

-----------------------------------------------------------------------------
(* What the steps of a reload do to its record                             *)

(* The fields other than those of step.                                    *)
SameWork(r, s) == /\ r.cfg = s.cfg /\ r.n = s.n /\ r.build = s.build
                  /\ r.desired = s.desired /\ r.skipped = s.skipped

SamePlan(r, s) == r.step = s.step /\ SameWork(r, s) /\ r.destroy = s.destroy /\ r.create = s.create

(* buildNext: an entry becomes an item with a sender that nobody has, or   *)
(* is left out.                                                            *)
LEMMA BuildEffect ==
  ASSUME ShapeInv, NEW p \in Reloaders, buildNext(p)
  PROVE  /\ proc' \in [Reloaders -> Procs]
         /\ \A q \in Reloaders \ {p} : proc'[q] = proc[q]
         /\ proc[p].step = "build" /\ proc'[p].step = "build"
         /\ proc'[p].cfg = proc[p].cfg /\ proc'[p].n = proc[p].n
         /\ proc'[p].destroy = proc[p].destroy /\ proc'[p].create = proc[p].create
         /\ proc'[p].alone = proc[p].alone
         /\ \E e \in proc[p].build, s \in Senders :
              /\ proc'[p].build = proc[p].build \ {e}
              /\ s \in Ports => s \notin ports
              /\ \/ /\ proc'[p].desired = proc[p].desired \cup {ItemOf(proc[p].cfg, e, s)}
                    /\ proc'[p].skipped = proc[p].skipped
                    /\ ports' = ports \cup ({s} \cap Ports)
                    /\ senders' = senders \cup ({s} \cap Ports)
                 \/ /\ proc'[p].desired = proc[p].desired /\ proc'[p].skipped
                    /\ ports' = ports /\ senders' = senders
<1> DEFINE e == CHOOSE e \in proc[p].build : TRUE
           overlay == e.kind \in {"vxlan", "geneve"}
           ok == /\ converts(proc[p].cfg, e)
                 /\ overlay \/ (senderBinds(e) /\ freePorts # {})
           s == IF overlay THEN Overlay ELSE Allocate
           item == ItemOf(proc[p].cfg, e, s)
           r == proc[p]
           t == proc'[p]
<1>1. /\ r \in Procs /\ r.step = "build" /\ r.build # {} /\ r.cfg \in FileSet
  BY DEF ShapeInv, WorkShape, buildNext
<1>2. e \in r.build BY <1>1
<1>3. proc' = [proc EXCEPT ![p].build = @ \ {e},
                           ![p].desired = IF ok THEN @ \cup {item} ELSE @,
                           ![p].skipped = @ \/ ~ok]
  BY DEF buildNext, ItemOf
<1>4. /\ ports' = IF ok /\ ~overlay THEN ports \cup {s} ELSE ports
      /\ senders' = IF ok /\ ~overlay THEN senders \cup {s} ELSE senders
  BY DEF buildNext
<1>5. ASSUME ok, ~overlay PROVE s \in Ports /\ s \notin ports
  <2>1. freePorts # {} BY <1>5
  <2>2. Allocate \in freePorts BY <2>1 DEF Allocate
  <2> QED BY <1>5, <2>2 DEF freePorts
<1>6. Overlay \notin Ports BY DaemonAssumption, SMT DEF Overlay
<1>7. overlay => s = Overlay OBVIOUS
<1>8. Overlay \in Senders /\ Ports \subseteq Senders BY DEF Senders
<1> HIDE DEF e, ok, s, item, overlay
<1>9. t = [r EXCEPT !.build = @ \ {e}, !.desired = IF ok THEN @ \cup {item} ELSE @,
                    !.skipped = @ \/ ~ok]
  BY <1>3 DEF ShapeInv
<1>10. \A q \in Reloaders \ {p} : proc'[q] = proc[q] BY <1>3 DEF ShapeInv
<1>11. /\ t.step = r.step /\ t.cfg = r.cfg /\ t.n = r.n /\ t.destroy = r.destroy
       /\ t.create = r.create /\ t.alone = r.alone /\ t.build = r.build \ {e}
       /\ t.desired = (IF ok THEN r.desired \cup {item} ELSE r.desired)
       /\ t.skipped = (r.skipped \/ ~ok)
  <2> HIDE DEF r, t
  <2> QED BY <1>1, <1>9 DEF Procs
<1>12. ok => item \in Items
  <2>1. e \in Entries BY <1>1, <1>2 DEF Procs
  <2>2. ok => s \in Senders BY <1>5, <1>7, <1>8
  <2> QED BY <1>1, <2>1, <2>2, SMT DEF Items, item
<1>13. t \in Procs
  <2> HIDE DEF r, t
  <2> DEFINE D == IF ok THEN r.desired \cup {item} ELSE r.desired
             B == r.build \ {e}
             K == r.skipped \/ ~ok
  <2>1. D \in SUBSET Items BY <1>1, <1>12 DEF Procs
  <2>2. B \in SUBSET Entries BY <1>1 DEF Procs
  <2>3. K \in BOOLEAN OBVIOUS
  <2>4. t = [r EXCEPT !.build = B, !.desired = D, !.skipped = K] BY <1>1, <1>9 DEF Procs
  <2> HIDE DEF D, B, K
  <2> QED BY <1>1, <2>1, <2>2, <2>3, <2>4 DEF Procs
<1>14. proc' \in [Reloaders -> Procs]
  <2>1. proc' = [q \in Reloaders |-> proc'[q]] BY <1>3 DEF ShapeInv
  <2>2. \A q \in Reloaders : proc'[q] \in Procs BY <1>10, <1>13 DEF ShapeInv
  <2> QED BY <2>1, <2>2
<1>15. \E x \in r.build, y \in Senders :
         /\ t.build = r.build \ {x}
         /\ y \in Ports => y \notin ports
         /\ \/ /\ t.desired = r.desired \cup {ItemOf(r.cfg, x, y)}
               /\ t.skipped = r.skipped
               /\ ports' = ports \cup ({y} \cap Ports)
               /\ senders' = senders \cup ({y} \cap Ports)
            \/ /\ t.desired = r.desired /\ t.skipped
               /\ ports' = ports /\ senders' = senders
  <2>1. CASE ok
    <3>1. s \in Senders /\ (s \in Ports => s \notin ports) BY <1>5, <1>6, <1>7, <1>8, <2>1
    <3>2. ports' = ports \cup ({s} \cap Ports) /\ senders' = senders \cup ({s} \cap Ports)
      BY <1>4, <1>5, <1>6, <1>7, <2>1
    <3>3. t.desired = r.desired \cup {ItemOf(r.cfg, e, s)} BY <1>11, <2>1 DEF item
    <3>4. t.skipped = r.skipped
      <4>1. r.skipped \in BOOLEAN BY <1>1 DEF Procs
      <4> QED BY <1>11, <2>1, <4>1
    <3> QED BY <1>2, <1>11, <3>1, <3>2, <3>3, <3>4
  <2>2. CASE ~ok
    <3>1. t.desired = r.desired /\ t.skipped BY <1>11, <2>2
    <3> QED BY <1>2, <1>4, <1>6, <1>8, <1>11, <2>2, <3>1
  <2> QED BY <2>1, <2>2
<1> QED BY <1>1, <1>10, <1>11, <1>14, <1>15

(* The record of a goroutine that has just turned to something else: only  *)
(* when it builds does it have work, all entries of a kind.                *)
Turned(r) ==
  /\ r \in Procs /\ r.step \in {"idle", "load", "build", "ready", "gone"}
  /\ r.desired = {} /\ r.destroy = {} /\ r.create = {}
  /\ r.step = "build" => r.cfg \in FileSet /\ r.build = entriesOf(r.cfg, Kinds[r.n])

(* p turns to the next thing, nobody else does (advance).                  *)
Turns(p) == /\ proc' \in [Reloaders -> Procs] /\ Turned(proc'[p])
            /\ \A q \in Reloaders \ {p} : proc'[q] = proc[q]

(* advance, wherever it is called.                                         *)
LEMMA AdvanceTurns ==
  ASSUME ShapeInv, NEW p \in Reloaders, NEW cfg \in FileSet, NEW n \in 1..6, NEW conns,
         proc' = [proc EXCEPT ![p] = advance(p, cfg, n, conns)]
  PROVE  Turns(p) /\ proc'[p].step \in {IF p = "main" THEN "ready" ELSE "idle", "build"}
<1>0. PICK a : a = advance(p, cfg, n, conns) OBVIOUS
<1>1. Begun(p, cfg, a) BY <1>0, Advances
<1>2. proc'[p] = a /\ \A q \in Reloaders \ {p} : proc'[q] = proc[q] BY <1>0 DEF ShapeInv
<1>3. proc' \in [Reloaders -> Procs] BY <1>0, <1>1 DEF ShapeInv, Begun
<1>4. Turned(a) /\ a.step \in {IF p = "main" THEN "ready" ELSE "idle", "build"} BY <1>1 DEF Turned, Begun
<1> QED BY <1>2, <1>3, <1>4 DEF Turns

(* reconciled: the next kind, or none.                                     *)
LEMMA ReconciledTurns ==
  ASSUME ShapeInv, NEW p \in Reloaders, reconciled(p)
  PROVE  Turns(p) /\ proc'[p].step \in {IF p = "main" THEN "ready" ELSE "idle", "build"}
<1>1. proc[p] \in Procs /\ proc[p].cfg \in FileSet BY DEF ShapeInv, WorkShape, reconciled
<1>2. proc[p].n + 1 \in 1..6
  <2>1. proc[p].n \in 0..5 BY <1>1 DEF Procs
  <2> QED BY <2>1, SMT
<1>3. proc' = [proc EXCEPT ![p] = advance(p, proc[p].cfg, proc[p].n + 1, overlayConn)]
  BY DEF reconciled
<1> QED BY <1>1, <1>2, <1>3, AdvanceTurns

(* startOverlayReceivers: main begins with the first kind.                 *)
LEMMA StartTurns ==
  ASSUME ShapeInv, startOverlayReceivers
  PROVE  Turns("main") /\ ports \subseteq ports' /\ ports' \subseteq Ports
         /\ overlayConn' \subseteq {"vxlan", "geneve"}
<1> DEFINE cfg == proc["main"].cfg
           bindable == {k \in {"vxlan", "geneve"} : \E e \in entriesOf(cfg, k) : e.local = "ok"}
<1>1. "main" \in Reloaders BY DEF Reloaders
<1>2. cfg \in FileSet BY <1>1 DEF ShapeInv, WorkShape, startOverlayReceivers
<1>3. PICK up \in SUBSET bindable, taken \in SUBSET freePorts :
           /\ overlayConn' = up
           /\ ports' = ports \cup taken
           /\ proc' = [proc EXCEPT !["main"] = advance("main", cfg, 1, up)]
  BY DEF startOverlayReceivers
<1>4. 1 \in 1..6 BY SMT
<1>5. Turns("main") BY <1>1, <1>2, <1>3, <1>4, AdvanceTurns
<1>6. taken \subseteq Ports BY DEF freePorts
<1> QED BY <1>3, <1>5, <1>6 DEF ShapeInv

(* The SIGHUP goroutine turns to a reload, from it, or away.               *)
LEMMA HupTurns ==
  ASSUME ShapeInv, handleSIGHUP \/ reloadConfig \/ hupStops
  PROVE  Turns("hup") /\ proc["hup"].step \in {"idle", "load"}
<1>1. "hup" \in Reloaders /\ "main" \in Reloaders BY DEF Reloaders
<1>2. proc["hup"] \in Procs /\ proc["hup"].step \in {"idle", "load"}
  BY <1>1 DEF ShapeInv, handleSIGHUP, reloadConfig, hupStops
<1>3. proc["hup"].desired = {} /\ proc["hup"].destroy = {} /\ proc["hup"].create = {}
  BY <1>1, <1>2 DEF ShapeInv, WorkShape
<1>4. ASSUME NEW st \in {"load", "gone"}, proc' = [proc EXCEPT !["hup"].step = st]
      PROVE  Turns("hup")
  <2> DEFINE r == proc["hup"]
             t == proc'["hup"]
  <2>1. t = [r EXCEPT !.step = st] BY <1>1, <1>4 DEF ShapeInv
  <2>2. \A q \in Reloaders \ {"hup"} : proc'[q] = proc[q] BY <1>1, <1>4 DEF ShapeInv
  <2>3. proc' = [q \in Reloaders |-> proc'[q]] BY <1>4 DEF ShapeInv
  <2>4. /\ t \in Procs /\ t.step = st /\ t.desired = r.desired /\ t.destroy = r.destroy
        /\ t.create = r.create
    <3> HIDE DEF r, t
    <3>1. r \in Procs BY <1>2 DEF r
    <3> QED BY <2>1, <3>1 DEF Procs
  <2>5. Turned(t) BY <1>3, <2>4 DEF Turned
  <2>6. \A q \in Reloaders : proc'[q] \in Procs BY <2>2, <2>4 DEF ShapeInv
  <2>7. proc' \in [Reloaders -> Procs] BY <2>3, <2>6
  <2> QED BY <2>2, <2>5, <2>7 DEF Turns
<1>5. CASE handleSIGHUP BY <1>4, <1>5 DEF handleSIGHUP
<1>6. CASE hupStops BY <1>4, <1>6 DEF hupStops
<1>7. CASE reloadConfig
  <2>1. CASE Validate(file)
    <3>1. proc' = [proc EXCEPT !["hup"] = advance("hup", file, 1, overlayConn)]
      BY <1>7, <2>1 DEF reloadConfig
    <3>2. file \in FileSet /\ 1 \in 1..6 BY SMT DEF ShapeInv
    <3> QED BY <1>1, <1>2, <3>1, <3>2, AdvanceTurns
  <2>2. CASE ~Validate(file)
    <3>1. proc' = [proc EXCEPT !["hup"] = Resting] BY <1>7, <2>2 DEF reloadConfig
    <3>2. /\ Resting.desired = {} /\ Resting.destroy = {} /\ Resting.create = {}
          /\ Resting.step = "idle"
      BY DEF Resting
    <3>3. Resting \in Procs
      <4>1. 0 \in 0..5 /\ NoFile \in FileSet \cup {NoFile} BY SMT
      <4> QED BY <4>1 DEF Resting, Procs
    <3>4. Turned(Resting) BY <3>2, <3>3 DEF Turned
    <3>5. proc' \in [Reloaders -> Procs] BY <3>1, <3>3 DEF ShapeInv
    <3>6. proc'["hup"] = Resting /\ \A q \in Reloaders \ {"hup"} : proc'[q] = proc[q]
      BY <1>1, <3>1 DEF ShapeInv
    <3> QED BY <1>2, <3>4, <3>5, <3>6 DEF Turns
  <2> QED BY <2>1, <2>2
<1> QED BY <1>2, <1>5, <1>6, <1>7

(* ReconcileSessions: p turns away, or takes its snapshot and plans.       *)
LEMMA ReconcileEffect ==
  ASSUME ShapeInv, NEW p \in Reloaders, ReconcileSessions(p)
  PROVE  /\ proc[p].step = "build" /\ proc[p].build = {} /\ proc' \in [Reloaders -> Procs]
         /\ \A q \in Reloaders \ {p} : proc'[q] = proc[q]
         /\ \/ /\ Turns(p) /\ leaked' = leaked /\ proc[p].desired = {}
               /\ proc'[p].step \in {IF p = "main" THEN "ready" ELSE "idle", "build"}
            \/ /\ proc'[p].step = "apply" /\ SameWork(proc'[p], proc[p])
               /\ \E current \in sessionKeySets(table(kindOf(p))) :
                    LET wanted == {i.text : i \in proc[p].desired}
                        running == {sessionText(d) : d \in current}
                        exist == {i \in proc[p].desired : i.text \in running}
                    IN  /\ proc'[p].destroy = {d \in current : sessionText(d) \notin wanted}
                        /\ proc'[p].create = proc[p].desired \ exist
                        /\ leaked' = leaked \cup ({i.sender : i \in exist} \cap Ports)
<1> DEFINE r == proc[p]
           t == proc'[p]
<1>1. r.step = "build" /\ r.build = {} BY DEF ReconcileSessions
<1>2. r \in Procs /\ r.cfg \in FileSet BY <1>1 DEF ShapeInv, WorkShape
<1>3. CASE kindOf(p) = "member" /\ r.desired = {}
  <2>1. proc' = [proc EXCEPT ![p] = advance(p, r.cfg, r.n + 1, overlayConn)] /\ leaked' = leaked
    BY <1>3 DEF ReconcileSessions
  <2>2. r.n + 1 \in 1..6
    <3>1. r.n \in 0..5 BY <1>2 DEF Procs
    <3> QED BY <3>1, SMT
  <2>3. /\ Turns(p) /\ t.step \in {IF p = "main" THEN "ready" ELSE "idle", "build"}
    BY <1>2, <2>1, <2>2, AdvanceTurns
  <2>4. proc' \in [Reloaders -> Procs] /\ \A q \in Reloaders \ {p} : proc'[q] = proc[q]
    BY <2>3 DEF Turns
  <2> QED BY <1>1, <1>3, <2>1, <2>3, <2>4
<1>4. CASE ~(kindOf(p) = "member" /\ r.desired = {})
  <2> DEFINE wanted == {i.text : i \in r.desired}
             running(current) == {sessionText(d) : d \in current}
             exist(current) == {i \in r.desired : i.text \in running(current)}
             dst(current) == {d \in current : sessionText(d) \notin wanted}
             crt(current) == r.desired \ exist(current)
  <2>1. PICK current \in sessionKeySets(table(kindOf(p))) :
          /\ proc' = [proc EXCEPT ![p].step = "apply", ![p].alone = TRUE,
                        ![p].destroy = dst(current), ![p].create = crt(current)]
          /\ leaked' = leaked \cup ({i.sender : i \in exist(current)} \cap Ports)
    BY <1>4 DEF ReconcileSessions
  <2> DEFINE D == dst(current)
             C == crt(current)
  <2>2. D \in SUBSET Discrs BY DEF sessionKeySets, InTable
  <2>3. C \in SUBSET Items BY <1>2 DEF Procs
  <2>4. t = [r EXCEPT !.step = "apply", !.alone = TRUE, !.destroy = D, !.create = C]
    BY <2>1 DEF ShapeInv
  <2>5. \A q \in Reloaders \ {p} : proc'[q] = proc[q] BY <2>1 DEF ShapeInv
  <2>6. proc' = [q \in Reloaders |-> proc'[q]] BY <2>1 DEF ShapeInv
  <2>7. /\ t \in Procs /\ t.step = "apply" /\ t.destroy = D /\ t.create = C
        /\ t.cfg = r.cfg /\ t.n = r.n /\ t.build = r.build
        /\ t.desired = r.desired /\ t.skipped = r.skipped
    <3> HIDE DEF r, t, D, C
    <3> QED BY <1>2, <2>2, <2>3, <2>4 DEF Procs
  <2>8. \A q \in Reloaders : proc'[q] \in Procs BY <2>5, <2>7 DEF ShapeInv
  <2>9. proc' \in [Reloaders -> Procs] BY <2>6, <2>8
  <2>10. SameWork(t, r) BY <2>7 DEF SameWork
  <2>11. t.destroy = dst(current) /\ t.create = crt(current) BY <2>7
  <2> QED BY <1>1, <2>1, <2>5, <2>7, <2>9, <2>10, <2>11, Zenon
<1> QED BY <1>3, <1>4

(* destroyNext: one session of the plan goes, and if it was there the      *)
(* others are not alone any more.                                          *)
LEMMA DestroyEffect ==
  ASSUME ShapeInv, NEW p \in Reloaders, destroyNext(p)
  PROVE  /\ proc[p].step = "apply" /\ proc' \in [Reloaders -> Procs]
         /\ \E d \in proc[p].destroy :
              /\ sessions' = [sessions EXCEPT ![d] = Absent]
              /\ leaked' = leaked \cup forgotten(d)
              /\ proc'[p].step = "apply" /\ SameWork(proc'[p], proc[p])
              /\ proc'[p].destroy = proc[p].destroy \ {d}
              /\ proc'[p].create = proc[p].create
              /\ proc'[p].alone => proc[p].alone
              /\ \A q \in Reloaders \ {p} :
                   /\ SamePlan(proc'[q], proc[q])
                   /\ proc'[q].alone => proc[q].alone /\ sessions[d] = Absent
<1>1. PICK d \in proc[p].destroy :
        /\ sessions' = [sessions EXCEPT ![d] = Absent]
        /\ leaked' = leaked \cup forgotten(d)
        /\ proc' = LET pr == [proc EXCEPT ![p].destroy = @ \ {d}]
                   IN  IF sessions[d] = Absent THEN pr ELSE touched(pr, p)
  BY DEF destroyNext
<1> DEFINE pr == [proc EXCEPT ![p].destroy = @ \ {d}]
           r == proc[p]
           t == pr[p]
<1>2. r \in Procs /\ r.step = "apply" BY DEF ShapeInv, destroyNext
<1>3. t = [r EXCEPT !.destroy = @ \ {d}] /\ \A q \in Reloaders \ {p} : pr[q] = proc[q]
  BY DEF ShapeInv
<1>4. pr = [q \in Reloaders |-> pr[q]] BY DEF ShapeInv
<1>5. proc' = IF sessions[d] = Absent THEN pr ELSE touched(pr, p) BY <1>1
<1> HIDE DEF pr
<1>6. /\ t \in Procs /\ t.step = r.step /\ SameWork(t, r) /\ t.destroy = r.destroy \ {d}
      /\ t.create = r.create /\ t.alone = r.alone
  <2> HIDE DEF r, t
  <2> QED BY <1>2, <1>3 DEF Procs, SameWork
<1>7. \A q \in Reloaders : pr[q] \in Procs BY <1>3, <1>6 DEF ShapeInv
<1>8. pr \in [Reloaders -> Procs] BY <1>4, <1>7
<1>9. CASE sessions[d] = Absent
  <2>1. proc' = pr BY <1>5, <1>9
  <2>2. \A q \in Reloaders \ {p} : SamePlan(pr[q], proc[q]) BY <1>3 DEF SamePlan, SameWork
  <2> QED BY <1>1, <1>2, <1>3, <1>6, <1>8, <1>9, <2>1, <2>2
<1>10. CASE sessions[d] # Absent
  <2>1. proc' = touched(pr, p) BY <1>5, <1>10
  <2> DEFINE u == proc'[p]
  <2>2. /\ proc' \in [Reloaders -> Procs]
        /\ \A q \in Reloaders : SamePlan(proc'[q], pr[q])
        /\ \A q \in Reloaders : proc'[q].alone => q = p /\ pr[q].alone
    BY <1>8, <2>1, Touches, SMT DEF SamePlan, SameWork
  <2>3. /\ u.step = "apply" /\ SameWork(u, r) /\ u.destroy = r.destroy \ {d}
        /\ u.create = r.create /\ (u.alone => r.alone)
    BY <1>2, <1>6, <2>2 DEF SamePlan, SameWork
  <2>4. \A q \in Reloaders \ {p} : SamePlan(proc'[q], proc[q]) /\ ~proc'[q].alone
    BY <1>3, <2>2
  <2> QED BY <1>1, <1>2, <2>2, <2>3, <2>4
<1> QED BY <1>9, <1>10

(* createNext: a session of an item under a fresh discriminator, or none.  *)
LEMMA CreateEffect ==
  ASSUME ShapeInv, NEW p \in Reloaders, createNext(p)
  PROVE  /\ proc[p].step = "apply" /\ proc[p].destroy = {} /\ proc' \in [Reloaders -> Procs]
         /\ \A q \in Reloaders \ {p} : SamePlan(proc'[q], proc[q])
         /\ proc'[p].step = "apply" /\ SameWork(proc'[p], proc[p]) /\ proc'[p].destroy = {}
         /\ \E i \in proc[p].create :
              /\ proc'[p].create = proc[p].create \ {i}
              /\ \/ /\ duplicate(table(kindOf(p)), i.key) \/ ~accepts(kindOf(p), i.terms)
                    /\ leaked' = leaked \cup ({i.sender} \cap Ports)
                    /\ sessions' = sessions
                    /\ \A q \in Reloaders : proc'[q].alone = proc[q].alone
                 \/ /\ ~duplicate(table(kindOf(p)), i.key) /\ leaked' = leaked
                    /\ \A q \in Reloaders : proc'[q].alone => q = p /\ proc[q].alone
                    /\ \E d \in Discrs :
                         /\ Fresh(d)
                         /\ sessions' = [sessions EXCEPT ![d] =
                              [tab |-> table(kindOf(p)), key |-> i.key, sender |-> i.sender]]
<1> DEFINE tab == table(kindOf(p))
           refused(i) == duplicate(tab, i.key) \/ ~accepts(kindOf(p), i.terms)
           new(i) == [tab |-> tab, key |-> i.key, sender |-> i.sender]
           pr(i) == [proc EXCEPT ![p].create = @ \ {i}]
           r == proc[p]
<1>1. PICK i \in r.create :
        IF refused(i)
        THEN proc' = pr(i) /\ leaked' = leaked \cup ({i.sender} \cap Ports) /\ sessions' = sessions
        ELSE /\ roomLeft /\ sessions' = [sessions EXCEPT ![drawn] = new(i)]
             /\ proc' = touched(pr(i), p) /\ leaked' = leaked
  BY DEF createNext
<1> DEFINE q1 == pr(i)
           t == q1[p]
<1>2. r \in Procs /\ r.step = "apply" /\ r.destroy = {} BY DEF ShapeInv, createNext
<1>3. t = [r EXCEPT !.create = @ \ {i}] /\ \A q \in Reloaders \ {p} : q1[q] = proc[q]
  BY DEF ShapeInv
<1>4. q1 = [q \in Reloaders |-> q1[q]] BY DEF ShapeInv
<1>5. refused(i) => proc' = q1 /\ leaked' = leaked \cup ({i.sender} \cap Ports) /\ sessions' = sessions
  BY <1>1
<1>6. ~refused(i) => /\ roomLeft /\ sessions' = [sessions EXCEPT ![drawn] = new(i)]
                     /\ proc' = touched(q1, p) /\ leaked' = leaked
  BY <1>1
<1> HIDE DEF q1
<1>7. /\ t \in Procs /\ t.step = r.step /\ SameWork(t, r) /\ t.destroy = r.destroy
      /\ t.create = r.create \ {i} /\ t.alone = r.alone
  <2> HIDE DEF r, t
  <2> QED BY <1>2, <1>3 DEF Procs, SameWork
<1>8. \A q \in Reloaders : q1[q] \in Procs BY <1>3, <1>7 DEF ShapeInv
<1>9. q1 \in [Reloaders -> Procs] BY <1>4, <1>8
<1>10. CASE refused(i)
  <2>1. proc' = q1 BY <1>5, <1>10
  <2>2. \A q \in Reloaders \ {p} : SamePlan(q1[q], proc[q]) BY <1>3 DEF SamePlan, SameWork
  <2>3. \A q \in Reloaders : q1[q].alone = proc[q].alone BY <1>3, <1>7
  <2>4. t.destroy = {} /\ t.step = "apply" BY <1>2, <1>7
  <2> QED BY <1>2, <1>5, <1>7, <1>9, <1>10, <2>1, <2>2, <2>3, <2>4
<1>11. CASE ~refused(i)
  <2>1. proc' = touched(q1, p) BY <1>6, <1>11
  <2> DEFINE u == proc'[p]
  <2>2. /\ proc' \in [Reloaders -> Procs]
        /\ \A q \in Reloaders : SamePlan(proc'[q], q1[q])
        /\ \A q \in Reloaders : proc'[q].alone => q = p /\ q1[q].alone
    BY <1>9, <2>1, Touches, SMT DEF SamePlan, SameWork
  <2>3. /\ u.step = "apply" /\ SameWork(u, r) /\ u.destroy = {} /\ u.create = r.create \ {i}
    BY <1>2, <1>7, <2>2 DEF SamePlan, SameWork
  <2>4. \A q \in Reloaders \ {p} : SamePlan(proc'[q], proc[q]) BY <1>3, <2>2
  <2>5. \A q \in Reloaders : proc'[q].alone => q = p /\ proc[q].alone BY <1>7, <2>2
  <2>6. drawn \in Discrs /\ Fresh(drawn) BY <1>6, <1>11, Zenon DEF drawn, roomLeft
  <2>7. \E d \in Discrs : Fresh(d) /\ sessions' = [sessions EXCEPT ![d] = new(i)]
    BY <1>6, <1>11, <2>6
  <2> QED BY <1>2, <1>6, <1>11, <2>2, <2>3, <2>4, <2>5, <2>7
<1> QED BY <1>10, <1>11

(* What somebody else than a reload changes in a table.                    *)
LEMMA TouchAll ==
  ASSUME ShapeInv, proc' = touched(proc, None)
  PROVE  /\ proc' \in [Reloaders -> Procs]
         /\ \A q \in Reloaders : SamePlan(proc'[q], proc[q]) /\ ~proc'[q].alone
<1>1. None \notin Reloaders BY DEF None, Reloaders
<1>2. proc \in [Reloaders -> Procs] BY DEF ShapeInv
<1> QED BY <1>1, <1>2, Touches, SMT DEF SamePlan, SameWork

(* registerSession: a session under a fresh discriminator.                 *)
LEMMA RegisterEffect ==
  ASSUME ShapeInv, NEW c \in Clients, rpc[c].step = "create", registerSession(c)
  PROVE  /\ ~duplicate("bfd", rpc[c].key) /\ UNCHANGED <<senders, ports, leaked>>
         /\ proc' = touched(proc, None)
         /\ \E d \in Discrs :
              /\ Fresh(d)
              /\ sessions' = [sessions EXCEPT ![d] = [tab |-> "bfd", key |-> rpc[c].key,
                                                      sender |-> rpc[c].port]]
              /\ rpc' = [rpc EXCEPT ![c].step = "track", ![c].discr = d]
<1>1. drawn \in Discrs /\ Fresh(drawn) BY Zenon DEF registerSession, drawn, roomLeft
<1> QED BY <1>1 DEF registerSession

(* CloseSender of a socket that is open and that no session has.           *)
LEMMA CloseEffect ==
  ASSUME ShapeInv, NEW s \in senders, CloseSender(s), \A d \in Discrs : sessions[d].sender # s
  PROVE  /\ sessions' = sessions /\ senders' = senders \ {s}
         /\ ports' = ports \ {s} /\ leaked' = leaked \ {s}
<1>1. sessions' = [d \in Discrs |-> sessions[d]] BY DEF CloseSender
<1>2. sessions = [d \in Discrs |-> sessions[d]] BY DEF ShapeInv
<1> QED BY <1>1, <1>2 DEF CloseSender

-----------------------------------------------------------------------------
(* Shapes are kept                                                         *)

(* Turning away leaves no work behind (advance).                           *)
LEMMA TurnedShape == ASSUME NEW r, Turned(r) PROVE WorkShape(r)
BY DEF Turned, WorkShape

(* Nor does touched change the work.                                       *)
LEMMA SamePlanShape ==
  ASSUME NEW r, NEW s, SamePlan(s, r), WorkShape(r)
  PROVE  WorkShape(s)
BY DEF SamePlan, SameWork, WorkShape

(* One RPC handler moves.                                                  *)
LEMMA CallMoves ==
  ASSUME ShapeInv, NEW c \in Clients, NEW x \in Calls, CallShape(x), rpc' = [rpc EXCEPT ![c] = x]
  PROVE  /\ rpc' \in [Clients -> Calls] /\ \A b \in Clients : CallShape(rpc'[b])
         /\ rpc'[c] = x /\ \A b \in Clients \ {c} : rpc'[b] = rpc[b]
BY DEF ShapeInv

(* An RPC handler that is done.                                            *)
LEMMA IdleShape == Idle \in Calls /\ CallShape(Idle) /\ Idle.step = "idle"
BY DEF Idle, Calls, CallShape

(* No session.                                                             *)
LEMMA AbsentShape ==
  /\ Absent \in Sessions /\ Absent.sender \notin Ports /\ Absent.sender = NoPort /\ Absent.tab = None
  /\ NoPort \notin Ports /\ Overlay \notin Ports
BY DaemonAssumption, SMT DEF Absent, Sessions, NoPort, Overlay

(* The steps of a reload keep the shapes.                                  *)
LEMMA ShapeReload ==
  ASSUME ShapeInv, OwnInv, NEW p \in Reloaders, reload(p)
  PROVE  ShapeInv'
<1> DEFINE PS == proc' \in [Reloaders -> Procs] /\ \A q \in Reloaders : WorkShape(proc'[q])
<1>1. CASE buildNext(p)
  <2>1. PS
    <3>1. WorkShape(proc[p]) BY DEF ShapeInv
    <3>2. WorkShape(proc'[p])
      <4> DEFINE r == proc[p]
                 t == proc'[p]
      <4>1. /\ r.step = "build" /\ t.step = "build" /\ t.cfg = r.cfg /\ t.destroy = r.destroy
            /\ t.create = r.create
        BY <1>1, BuildEffect
      <4> HIDE DEF r, t
      <4>2. WorkShape(r) BY <3>1 DEF r
      <4>3. WorkShape(t) BY <4>1, <4>2 DEF WorkShape
      <4> QED BY <4>3 DEF t
    <3> QED BY <1>1, <3>2, BuildEffect, SMT DEF ShapeInv
  <2>2. senders' \subseteq ports' /\ ports' \subseteq Ports /\ senders \subseteq senders'
    BY <1>1, BuildEffect DEF ShapeInv
  <2> QED BY <1>1, <2>1, <2>2 DEF buildNext, ShapeInv, fileVars
<1>2. CASE ReconcileSessions(p)
  <2>1. /\ proc' \in [Reloaders -> Procs] /\ \A q \in Reloaders \ {p} : proc'[q] = proc[q]
        /\ proc[p].step = "build"
    BY <1>2, ReconcileEffect
  <2>2. CASE Turns(p) /\ leaked' = leaked
    <3>1. WorkShape(proc'[p]) BY <2>2, TurnedShape DEF Turns
    <3>2. PS BY <2>1, <3>1 DEF ShapeInv
    <3> QED BY <1>2, <2>2, <3>2 DEF ReconcileSessions, ShapeInv, fileVars, senderVars
  <2>3. CASE ~(Turns(p) /\ leaked' = leaked)
    <3>1. /\ proc'[p].step = "apply" /\ SameWork(proc'[p], proc[p])
          /\ \E exist \in SUBSET proc[p].desired :
               /\ proc'[p].create = proc[p].desired \ exist
               /\ leaked' = leaked \cup ({i.sender : i \in exist} \cap Ports)
      BY <1>2, <2>3, ReconcileEffect
    <3>2. PICK exist \in SUBSET proc[p].desired :
            /\ proc'[p].create = proc[p].desired \ exist
            /\ leaked' = leaked \cup ({i.sender : i \in exist} \cap Ports)
      BY <3>1
    <3>3. WorkShape(proc[p]) BY DEF ShapeInv
    <3>4. WorkShape(proc'[p]) BY <2>1, <3>1, <3>2, <3>3 DEF WorkShape, SameWork
    <3>5. PS BY <2>1, <3>4 DEF ShapeInv
    <3>6. Held(p) = proc[p].desired BY <2>1 DEF Held
    <3>7. \A i \in exist : i.sender \in Ports => i.sender \in senders BY <3>6 DEF OwnInv, OpenInv
    <3>8. leaked' \subseteq senders BY <3>2, <3>7 DEF ShapeInv
    <3> QED BY <1>2, <3>5, <3>8 DEF ReconcileSessions, ShapeInv, fileVars, senderVars
  <2> QED BY <2>2, <2>3
<1>3. CASE destroyNext(p)
  <2>1. PICK d \in proc[p].destroy :
          /\ sessions' = [sessions EXCEPT ![d] = Absent]
          /\ leaked' = leaked \cup forgotten(d)
          /\ proc'[p].step = "apply" /\ SameWork(proc'[p], proc[p])
          /\ proc'[p].create = proc[p].create
          /\ \A q \in Reloaders \ {p} : SamePlan(proc'[q], proc[q])
    BY <1>3, DestroyEffect
  <2>2. proc' \in [Reloaders -> Procs] /\ proc[p].step = "apply" BY <1>3, DestroyEffect
  <2>3. d \in Discrs BY DEF ShapeInv, Procs
  <2>4. \A q \in Reloaders : WorkShape(proc[q]) BY DEF ShapeInv
  <2>5. WorkShape(proc'[p]) BY <2>1, <2>2, <2>4 DEF WorkShape, SameWork
  <2>6. PS BY <2>1, <2>2, <2>4, <2>5, SamePlanShape
  <2>7. sessions' \in [Discrs -> Sessions] BY <2>1, AbsentShape DEF ShapeInv
  <2>8. leaked' \subseteq senders BY <2>1, <2>3 DEF forgotten, OwnInv, OpenInv, ShapeInv
  <2> QED BY <1>3, <2>6, <2>7, <2>8 DEF destroyNext, ShapeInv, fileVars, senderVars
<1>4. CASE createNext(p)
  <2>1. /\ proc[p].step = "apply" /\ proc[p].destroy = {} /\ proc' \in [Reloaders -> Procs]
        /\ \A q \in Reloaders \ {p} : SamePlan(proc'[q], proc[q])
        /\ proc'[p].step = "apply" /\ SameWork(proc'[p], proc[p]) /\ proc'[p].destroy = {}
    BY <1>4, CreateEffect
  <2>2. PICK i \in proc[p].create :
          /\ proc'[p].create = proc[p].create \ {i}
          /\ \/ leaked' = leaked \cup ({i.sender} \cap Ports) /\ sessions' = sessions
             \/ /\ leaked' = leaked
                /\ \E d \in Discrs : sessions' = [sessions EXCEPT ![d] =
                      [tab |-> table(kindOf(p)), key |-> i.key, sender |-> i.sender]]
    BY <1>4, CreateEffect, SMT
  <2>3. \A q \in Reloaders : WorkShape(proc[q]) BY DEF ShapeInv
  <2>4. WorkShape(proc'[p]) BY <2>1, <2>2, <2>3 DEF WorkShape, SameWork
  <2>5. PS BY <2>1, <2>3, <2>4, SamePlanShape
  <2>6. i \in Items BY DEF ShapeInv, Procs
  <2>7. i.sender \in Senders /\ i.key \in Keys
    <3>1. PICK f \in FileSet, e \in Entries, s \in Senders : i = ItemOf(f, e, s)
      BY <2>6, SMT DEF Items
    <3>2. i.sender = s /\ i.key = e.key BY <3>1 DEF ItemOf
    <3>3. e.key \in Keys BY DaemonAssumption DEF Entries
    <3> QED BY <3>2, <3>3
  <2>8. sessions' \in [Discrs -> Sessions]
    <3> DEFINE new == [tab |-> table(kindOf(p)), key |-> i.key, sender |-> i.sender]
    <3>1. new \in Sessions BY <2>7 DEF Sessions, table
    <3> HIDE DEF new
    <3>2. sessions' = sessions \/ \E d \in Discrs : sessions' = [sessions EXCEPT ![d] = new]
      BY <2>2 DEF new
    <3> QED BY <3>1, <3>2 DEF ShapeInv
  <2>9. Held(p) = proc[p].create BY <2>1 DEF Held
  <2>10. leaked' \subseteq senders BY <2>2, <2>9, SMT DEF OwnInv, OpenInv, ShapeInv
  <2> QED BY <1>4, <2>5, <2>8, <2>10 DEF createNext, ShapeInv, fileVars, senderVars
<1>5. CASE reconciled(p)
  <2>1. Turns(p) BY <1>5, ReconciledTurns
  <2>2. WorkShape(proc'[p]) BY <2>1, TurnedShape DEF Turns
  <2>3. PS BY <2>1, <2>2 DEF Turns, ShapeInv
  <2> QED BY <1>5, <2>3 DEF reconciled, ShapeInv, fileVars, senderVars
<1> QED BY <1>1, <1>2, <1>3, <1>4, <1>5 DEF reload

(* The other handlers stay where they are.                                 *)
Others(c) == \A b \in Clients \ {c} : rpc'[b] = rpc[b]

(* AddSession takes a socket that nobody has, or fails.                    *)
LEMMA AddEffect ==
  ASSUME ShapeInv, NEW c \in Clients, AddSession(c)
  PROVE  \/ UNCHANGED <<ports, senders, rpc>>
         \/ \E s \in Ports \ ports :
              /\ ports' = ports \cup {s} /\ senders' = senders \cup {s}
              /\ rpc' \in [Clients -> Calls] /\ \A b \in Clients : CallShape(rpc'[b])
              /\ Others(c) /\ rpc[c].step = "idle"
              /\ rpc'[c].step = "create" /\ rpc'[c].port = s /\ rpc'[c].discr = NoDiscr
<1>1. CASE freePorts = {} BY <1>1 DEF AddSession
<1>2. CASE freePorts # {}
  <2> DEFINE s == Allocate
  <2>1. s \in Ports \ ports BY <1>2 DEF Allocate, freePorts
  <2>2. PICK k \in Keys : /\ ports' = ports \cup {s} /\ senders' = senders \cup {s}
                          /\ rpc' = [rpc EXCEPT ![c] = [Idle EXCEPT !.step = "create", !.key = k,
                                                                   !.port = s]]
    BY <1>2 DEF AddSession
  <2> HIDE DEF s
  <2> DEFINE x == [Idle EXCEPT !.step = "create", !.key = k, !.port = s]
  <2>3. x.step = "create" /\ x.port = s /\ x.key = k /\ x.discr = NoDiscr BY DEF Idle
  <2>4. x \in Calls BY <2>1 DEF Idle, Calls
  <2>5. CallShape(x) BY <2>1, <2>3 DEF CallShape
  <2> HIDE DEF x
  <2>6. rpc' = [rpc EXCEPT ![c] = x] BY <2>2 DEF x
  <2>7. /\ rpc' \in [Clients -> Calls] /\ \A b \in Clients : CallShape(rpc'[b])
        /\ rpc'[c] = x /\ Others(c)
    BY <2>4, <2>5, <2>6, CallMoves DEF Others
  <2>8. rpc[c].step = "idle" BY DEF AddSession
  <2> QED BY <2>1, <2>2, <2>3, <2>7, <2>8
<1> QED BY <1>1, <1>2

(* registerSession, with what becomes of the handler.                      *)
LEMMA TrackEffect ==
  ASSUME ShapeInv, NEW c \in Clients, rpc[c].step = "create", registerSession(c)
  PROVE  /\ ~duplicate("bfd", rpc[c].key) /\ UNCHANGED <<senders, ports, leaked>>
         /\ rpc[c].port \in Ports /\ rpc[c].key \in Keys
         /\ proc' \in [Reloaders -> Procs]
         /\ \A q \in Reloaders : SamePlan(proc'[q], proc[q]) /\ ~proc'[q].alone
         /\ rpc' \in [Clients -> Calls] /\ \A b \in Clients : CallShape(rpc'[b])
         /\ Others(c) /\ rpc'[c].step = "track" /\ rpc'[c].port = rpc[c].port
         /\ \E d \in Discrs :
              /\ Fresh(d) /\ rpc'[c].discr = d
              /\ sessions' = [sessions EXCEPT ![d] = [tab |-> "bfd", key |-> rpc[c].key,
                                                      sender |-> rpc[c].port]]
<1>1. /\ ~duplicate("bfd", rpc[c].key) /\ UNCHANGED <<senders, ports, leaked>>
      /\ proc' = touched(proc, None)
  BY RegisterEffect
<1>2. PICK d \in Discrs :
        /\ Fresh(d)
        /\ sessions' = [sessions EXCEPT ![d] = [tab |-> "bfd", key |-> rpc[c].key,
                                                sender |-> rpc[c].port]]
        /\ rpc' = [rpc EXCEPT ![c].step = "track", ![c].discr = d]
  BY RegisterEffect
<1> DEFINE r == rpc[c]
           x == [r EXCEPT !.step = "track", !.discr = d]
<1>3. r \in Calls /\ CallShape(r) /\ r.port \in Ports /\ r.key \in Keys BY DEF ShapeInv, CallShape
<1>4. rpc' = [rpc EXCEPT ![c] = x] BY <1>2 DEF ShapeInv
<1>5. x \in Calls /\ x.step = "track" /\ x.discr = d /\ x.port = r.port /\ x.key = r.key
  <2> HIDE DEF r
  <2> QED BY <1>3 DEF Calls
<1>6. CallShape(x) BY <1>3, <1>5 DEF CallShape
<1> HIDE DEF x
<1>7. /\ rpc' \in [Clients -> Calls] /\ \A b \in Clients : CallShape(rpc'[b])
      /\ rpc'[c] = x /\ Others(c)
  BY <1>4, <1>5, <1>6, CallMoves DEF Others
<1> QED BY <1>1, <1>2, <1>3, <1>5, <1>7, TouchAll

(* A handler that returns.                                                 *)
LEMMA Returns ==
  ASSUME ShapeInv, NEW c \in Clients, rpc' = [rpc EXCEPT ![c] = Idle]
  PROVE  /\ rpc' \in [Clients -> Calls] /\ \A b \in Clients : CallShape(rpc'[b])
         /\ rpc'[c].step = "idle" /\ rpc'[c].discr = NoDiscr /\ Others(c)
<1>1. Idle.discr = NoDiscr BY DEF Idle
<1> QED BY <1>1, CallMoves, IdleShape DEF Others

(* The failure path of AddSession closes a socket that nobody else has.    *)
LEMMA RefuseEffect ==
  ASSUME ShapeInv, OwnInv, NEW c \in Clients, rpc[c].step = "create", CloseSender(rpc[c].port)
  PROVE  /\ rpc[c].port \in senders
         /\ sessions' = sessions /\ senders' = senders \ {rpc[c].port}
         /\ ports' = ports \ {rpc[c].port} /\ leaked' = leaked \ {rpc[c].port}
<1>1. Calling(c) BY DEF Calling
<1>2. rpc[c].port \in senders /\ \A d \in Discrs : sessions[d].sender # rpc[c].port
  BY <1>1 DEF OwnInv, OpenInv, CallOwns
<1> QED BY <1>2, CloseEffect

(* DeleteSession: the session is gone, the handler goes on to its port.    *)
LEMMA DeleteEffect ==
  ASSUME ShapeInv, NEW c \in Clients, DeleteSession(c)
  PROVE  /\ rpc[c].step = "idle"
         /\ proc' \in [Reloaders -> Procs]
         /\ \A q \in Reloaders : SamePlan(proc'[q], proc[q]) /\ ~proc'[q].alone
         /\ rpc' \in [Clients -> Calls] /\ \A b \in Clients : CallShape(rpc'[b])
         /\ Others(c) /\ rpc'[c].step = "cleanup"
         /\ \E d \in InTable("bfd") :
              /\ sessions' = [sessions EXCEPT ![d] = Absent] /\ rpc'[c].discr = d
              /\ leaked' = IF senderPorts[d] = NoPort THEN leaked \cup forgotten(d) ELSE leaked
<1>1. PICK d \in InTable("bfd") :
        /\ sessions' = [sessions EXCEPT ![d] = Absent]
        /\ rpc' = [rpc EXCEPT ![c] = [Idle EXCEPT !.step = "cleanup", !.discr = d]]
        /\ leaked' = IF senderPorts[d] = NoPort THEN leaked \cup forgotten(d) ELSE leaked
        /\ proc' = touched(proc, None)
  BY DEF DeleteSession
<1> DEFINE x == [Idle EXCEPT !.step = "cleanup", !.discr = d]
<1>2. d \in Discrs BY DEF InTable
<1>3. x.step = "cleanup" /\ x.discr = d BY DEF Idle
<1>4. x \in Calls BY <1>2 DEF Idle, Calls
<1>5. CallShape(x) BY <1>2, <1>3 DEF CallShape
<1>6. rpc' = [rpc EXCEPT ![c] = x] BY <1>1
<1> HIDE DEF x
<1>7. /\ rpc' \in [Clients -> Calls] /\ \A b \in Clients : CallShape(rpc'[b])
      /\ rpc'[c] = x /\ Others(c)
  BY <1>4, <1>5, <1>6, CallMoves DEF Others
<1>8. rpc[c].step = "idle" BY DEF DeleteSession
<1> QED BY <1>1, <1>3, <1>7, <1>8, TouchAll

(* cleanupSender closes at most the socket that was noted, which nobody    *)
(* else has.                                                               *)
LEMMA CleanupEffect ==
  ASSUME ShapeInv, OwnInv, NoteInv, NEW c \in Clients, cleanupSender(c),
         NEW d \in Discrs, d = rpc[c].discr
  PROVE  /\ rpc[c].step = "cleanup" /\ sessions[d] = Absent
         /\ senderPorts' = [senderPorts EXCEPT ![d] = NoPort]
         /\ sessions' = sessions
         /\ senders' = senders \ {senderPorts[d]} /\ ports' = ports \ {senderPorts[d]}
         /\ leaked' = leaked \ {senderPorts[d]}
<1>1. rpc[c].step = "cleanup" BY DEF cleanupSender
<1>2. sessions[d] = Absent BY <1>1 DEF NoteInv
<1>3. senderPorts' = [senderPorts EXCEPT ![d] = NoPort] BY DEF cleanupSender
<1>4. CASE senderPorts[d] \in Ports
  <2>1. CloseSender(senderPorts[d]) BY <1>4 DEF cleanupSender
  <2>2. senderPorts[d] \in senders BY <1>4 DEF OwnInv, OpenInv
  <2>3. \A e \in Discrs : sessions[e].sender # senderPorts[d]
    <3>1. \A e \in Discrs : senderPorts[d] = sessions[e].sender => d = e
      BY <1>4 DEF OwnInv, SessionOwns
    <3> QED BY <1>2, <1>4, <3>1, AbsentShape
  <2> QED BY <1>1, <1>2, <1>3, <2>1, <2>2, <2>3, CloseEffect
<1>5. CASE senderPorts[d] \notin Ports
  <2>1. UNCHANGED <<sessions, ports, senders, leaked>> BY <1>5 DEF cleanupSender
  <2>2. senderPorts[d] \notin ports /\ senderPorts[d] \notin senders /\ senderPorts[d] \notin leaked
    BY <1>5 DEF ShapeInv
  <2> QED BY <1>1, <1>2, <1>3, <2>1, <2>2
<1> QED BY <1>4, <1>5

(* The steps of RPC handlers keep the shapes.                              *)
LEMMA ShapeCall ==
  ASSUME ShapeInv, OwnInv, NoteInv, NEW c \in Clients,
         handler(c) \/ AddSession(c) \/ DeleteSession(c)
  PROVE  ShapeInv'
<1> DEFINE RS == rpc' \in [Clients -> Calls] /\ \A b \in Clients : CallShape(rpc'[b])
           PS == proc' \in [Reloaders -> Procs] /\ \A q \in Reloaders : WorkShape(proc'[q])
<1>1. CASE AddSession(c)
  <2>1. UNCHANGED <<fileVars, sessions, senderPorts, overlayConn, proc, phase, leaked>>
    BY <1>1 DEF AddSession
  <2>2. CASE UNCHANGED <<ports, senders, rpc>> BY <2>1, <2>2 DEF ShapeInv, fileVars
  <2>3. CASE \E s \in Ports \ ports : ports' = ports \cup {s} /\ senders' = senders \cup {s} /\ RS
    BY <2>1, <2>3 DEF ShapeInv, fileVars
  <2> QED BY <1>1, <2>2, <2>3, AddEffect
<1>2. CASE createSessionWithSender(c)
  <2>0. rpc[c].step = "create" /\ UNCHANGED <<fileVars, senderPorts, overlayConn, calls, phase>>
    BY <1>2 DEF createSessionWithSender
  <2>1. CASE registerSession(c)
    <3>1. /\ UNCHANGED <<senders, ports, leaked>> /\ RS /\ proc' \in [Reloaders -> Procs]
          /\ \A q \in Reloaders : SamePlan(proc'[q], proc[q])
      BY <2>0, <2>1, TrackEffect
    <3>2. PS BY <3>1, SamePlanShape DEF ShapeInv
    <3>3. PICK d \in Discrs :
            sessions' = [sessions EXCEPT ![d] = [tab |-> "bfd", key |-> rpc[c].key,
                                                 sender |-> rpc[c].port]]
      BY <2>0, <2>1, TrackEffect
    <3>4. rpc[c].port \in Ports /\ rpc[c].key \in Keys BY <2>0, <2>1, TrackEffect
    <3>5. [tab |-> "bfd", key |-> rpc[c].key, sender |-> rpc[c].port] \in Sessions
      BY <3>4 DEF Sessions, Senders
    <3>6. sessions' \in [Discrs -> Sessions] BY <3>3, <3>5 DEF ShapeInv
    <3> QED BY <2>0, <3>1, <3>2, <3>6 DEF ShapeInv, fileVars
  <2>2. CASE CloseSender(rpc[c].port) /\ rpc' = [rpc EXCEPT ![c] = Idle] /\ UNCHANGED proc
    <3>1. RS BY <2>2, Returns
    <3>2. /\ sessions' = sessions /\ senders' = senders \ {rpc[c].port}
          /\ ports' = ports \ {rpc[c].port} /\ leaked' = leaked \ {rpc[c].port}
      BY <2>0, <2>2, RefuseEffect
    <3> QED BY <2>0, <2>2, <3>1, <3>2 DEF ShapeInv, fileVars
  <2> QED BY <1>2, <2>1, <2>2 DEF createSessionWithSender
<1>3. CASE trackSenderPort(c)
  <2>1. RS BY <1>3, Returns DEF trackSenderPort
  <2>2. rpc[c].port \in Ports BY <1>3 DEF trackSenderPort, ShapeInv, CallShape
  <2>3. senderPorts' \in [Discrs -> Ports \cup {NoPort}] BY <1>3, <2>2 DEF trackSenderPort, ShapeInv
  <2> QED BY <1>3, <2>1, <2>3 DEF trackSenderPort, ShapeInv, fileVars
<1>4. CASE DeleteSession(c)
  <2>1. /\ RS /\ proc' \in [Reloaders -> Procs]
        /\ \A q \in Reloaders : SamePlan(proc'[q], proc[q])
    BY <1>4, DeleteEffect
  <2>2. PS BY <2>1, SamePlanShape DEF ShapeInv
  <2>3. PICK d \in InTable("bfd") :
          /\ sessions' = [sessions EXCEPT ![d] = Absent]
          /\ leaked' = IF senderPorts[d] = NoPort THEN leaked \cup forgotten(d) ELSE leaked
    BY <1>4, DeleteEffect
  <2>4. sessions' \in [Discrs -> Sessions] BY <2>3, AbsentShape DEF ShapeInv
  <2>5. leaked' \subseteq senders BY <2>3 DEF ShapeInv, OwnInv, OpenInv, forgotten, InTable
  <2> QED BY <1>4, <2>1, <2>2, <2>4, <2>5 DEF DeleteSession, ShapeInv, fileVars, senderVars
<1>5. CASE cleanupSender(c)
  <2>1. PICK d \in Discrs : d = rpc[c].discr BY <1>5 DEF cleanupSender, ShapeInv, CallShape
  <2>2. /\ senderPorts' = [senderPorts EXCEPT ![d] = NoPort] /\ sessions' = sessions
        /\ senders' = senders \ {senderPorts[d]} /\ ports' = ports \ {senderPorts[d]}
        /\ leaked' = leaked \ {senderPorts[d]}
    BY <1>5, <2>1, CleanupEffect
  <2>3. RS BY <1>5, Returns DEF cleanupSender
  <2> QED BY <1>5, <2>2, <2>3 DEF cleanupSender, ShapeInv, fileVars
<1> QED BY <1>1, <1>2, <1>3, <1>4, <1>5 DEF handler

(* closeManager: all sessions go at once.                                  *)
LEMMA CloseAllEffect ==
  ASSUME ShapeInv, OwnInv, closeManager
  PROVE  /\ sessions' \in [Discrs -> Sessions] /\ \A d \in Discrs : sessions'[d] = Absent
         /\ leaked \subseteq leaked' /\ leaked' \subseteq senders
         /\ \A d \in Discrs : sessions[d].sender \in Ports => sessions[d].sender \in leaked'
         /\ proc' \in [Reloaders -> Procs]
         /\ \A q \in Reloaders : SamePlan(proc'[q], proc[q]) /\ ~proc'[q].alone
         /\ \A q \in Reloaders : WorkShape(proc'[q])
<1>1. sessions' \in [Discrs -> Sessions] /\ \A d \in Discrs : sessions'[d] = Absent
  BY AbsentShape DEF closeManager
<1>2. leaked' = leaked \cup UNION {forgotten(d) : d \in Discrs} BY DEF closeManager
<1>3. \A d \in Discrs : forgotten(d) \subseteq senders BY DEF forgotten, OwnInv, OpenInv
<1>4. \A d \in Discrs : sessions[d].sender \in Ports => sessions[d].sender \in forgotten(d)
  BY DEF forgotten
<1>5. leaked \subseteq senders BY DEF ShapeInv
<1>6. /\ leaked \subseteq leaked' /\ leaked' \subseteq senders
      /\ \A d \in Discrs : sessions[d].sender \in Ports => sessions[d].sender \in leaked'
  BY <1>2, <1>3, <1>4, <1>5
<1>7. /\ proc' \in [Reloaders -> Procs]
      /\ \A q \in Reloaders : SamePlan(proc'[q], proc[q]) /\ ~proc'[q].alone
  BY TouchAll DEF closeManager
<1>8. \A q \in Reloaders : WorkShape(proc'[q]) BY <1>7, SamePlanShape DEF ShapeInv
<1> QED BY <1>1, <1>6, <1>7, <1>8

(* The steps that leave the tables, the senders and the plans alone.       *)
Aside == EditFile \/ HangUp \/ Stop \/ ShutdownServers \/ UNCHANGED vars

(* The steps in which a goroutine turns to something, outside reconciling. *)
Turning == startOverlayReceivers \/ handleSIGHUP \/ reloadConfig \/ hupStops

(* What else the process and its administrator do keeps the shapes.        *)
LEMMA ShapeOther ==
  ASSUME ShapeInv, OwnInv, Aside \/ Turning \/ gracefulShutdown \/ exit
  PROVE  ShapeInv'
<1>1. CASE EditFile \/ HangUp \/ Stop \/ ShutdownServers
  BY <1>1 DEF EditFile, HangUp, Stop, ShutdownServers, ShapeInv, fileVars, senderVars
<1>2. CASE UNCHANGED vars BY <1>2 DEF vars, ShapeInv, fileVars, senderVars
<1>3. CASE startOverlayReceivers
  <2>1. /\ Turns("main") /\ ports \subseteq ports' /\ ports' \subseteq Ports
        /\ overlayConn' \subseteq {"vxlan", "geneve"}
    BY <1>3, StartTurns
  <2>2. WorkShape(proc'["main"]) BY <2>1, TurnedShape DEF Turns
  <2>3. \A q \in Reloaders : WorkShape(proc'[q]) BY <2>1, <2>2 DEF Turns, ShapeInv
  <2> QED BY <1>3, <2>1, <2>3 DEF startOverlayReceivers, Turns, ShapeInv, fileVars
<1>4. CASE handleSIGHUP \/ reloadConfig \/ hupStops
  <2>1. Turns("hup") BY <1>4, HupTurns
  <2>2. WorkShape(proc'["hup"]) BY <2>1, TurnedShape DEF Turns
  <2>3. \A q \in Reloaders : WorkShape(proc'[q]) BY <2>1, <2>2 DEF Turns, ShapeInv
  <2> QED BY <1>4, <2>1, <2>3 DEF handleSIGHUP, reloadConfig, hupStops, Turns, ShapeInv, fileVars, senderVars
<1>5. CASE gracefulShutdown \/ exit
  <2>1. closeManager BY <1>5 DEF gracefulShutdown, exit
  <2>2. phase' \in {"closed", "exited"} BY <1>5 DEF gracefulShutdown, exit
  <2> QED BY <1>5, <2>1, <2>2, CloseAllEffect DEF gracefulShutdown, exit, ShapeInv, fileVars, senderVars
<1> QED BY <1>1, <1>2, <1>3, <1>4, <1>5 DEF Aside, Turning

-----------------------------------------------------------------------------
(* Sockets have one owner                                                  *)

(* The items of a goroutine whose work is the same.                        *)
LEMMA SameHeld ==
  ASSUME NEW p \in Reloaders, SamePlan(proc'[p], proc[p])
  PROVE  Held(p)' = Held(p)
BY DEF SamePlan, SameWork, Held

(* One that has turned away holds none.                                    *)
LEMMA TurnedHeld ==
  ASSUME NEW p \in Reloaders, Turned(proc'[p])
  PROVE  Held(p)' = {}
BY DEF Turned, Held

(* A call under way has a socket.                                          *)
LEMMA CallPort ==
  ASSUME ShapeInv, NEW c \in Clients, Calling(c)
  PROVE  rpc[c].port \in Ports
BY DEF ShapeInv, CallShape, Calling

(* Owners that go away, or pass nothing on, disturb nobody.                *)
LEMMA OwnersGo ==
  ASSUME ShapeInv, OwnInv, senders' = senders, senderPorts' = senderPorts,
         \A d \in Discrs : sessions'[d] = sessions[d] \/ sessions'[d] = Absent,
         \A p \in Reloaders : Held(p)' \subseteq Held(p),
         \A c \in Clients : rpc'[c] = rpc[c] \/ ~Calling(c)'
  PROVE  OwnInv'
<1>1. \A d \in Discrs : sessions'[d].sender \in Ports => sessions'[d] = sessions[d]
  BY AbsentShape
<1>2. \A c \in Clients : Calling(c)' => rpc'[c] = rpc[c] /\ Calling(c) /\ rpc[c].port \in Ports
  BY CallPort DEF Calling
<1>3. OpenInv' BY <1>1, <1>2 DEF OwnInv, OpenInv
<1>4. SessionOwns' BY <1>1 DEF OwnInv, SessionOwns
<1>5. CallOwns' BY <1>1, <1>2, SMT DEF OwnInv, CallOwns
<1>6. ItemOwns' BY <1>1, <1>2, SMT DEF OwnInv, ItemOwns
<1> QED BY <1>3, <1>4, <1>5, <1>6 DEF OwnInv

(* A socket that nobody had comes to an item or to a call.                 *)
LEMMA OwnersCome ==
  ASSUME ShapeInv, OwnInv, sessions' = sessions, senderPorts' = senderPorts,
         NEW s, s \in Ports => s \notin ports, senders' = senders \cup ({s} \cap Ports),
         \/ /\ rpc' = rpc
            /\ \E p \in Reloaders : \E i :
                 /\ i.sender = s /\ Held(p)' = Held(p) \cup {i}
                 /\ \A q \in Reloaders \ {p} : Held(q)' = Held(q)
         \/ /\ \A q \in Reloaders : Held(q)' = Held(q)
            /\ \E c \in Clients : /\ rpc'[c].step = "create" /\ rpc'[c].port = s /\ s \in Ports
                                  /\ Others(c)
  PROVE  OwnInv'
<1>1. /\ \A d \in Discrs : sessions[d].sender \in Ports => sessions[d].sender # s
      /\ \A d \in Discrs : senderPorts[d] \in Ports => senderPorts[d] # s
      /\ \A c \in Clients : Calling(c) => rpc[c].port # s /\ rpc[c].port \in Ports
      /\ \A p \in Reloaders : \A i \in Held(p) : i.sender \in Ports => i.sender # s
  <2>1. s \notin senders BY DEF ShapeInv
  <2> QED BY <2>1, CallPort DEF OwnInv, OpenInv
<1>2. ASSUME rpc' = rpc, NEW p \in Reloaders, NEW i, i.sender = s, Held(p)' = Held(p) \cup {i},
             \A q \in Reloaders \ {p} : Held(q)' = Held(q)
      PROVE  OwnInv'
  <2>1. \A c \in Clients : Calling(c)' = Calling(c) BY <1>2 DEF Calling
  <2>2. \A q \in Reloaders : \A j \in Held(q)' : j \in Held(q) \/ (q = p /\ j = i) BY <1>2
  <2>3. OpenInv' BY <1>1, <1>2, <2>1, <2>2 DEF OwnInv, OpenInv
  <2>4. SessionOwns' BY DEF OwnInv, SessionOwns
  <2>5. CallOwns' BY <1>2, <2>1 DEF OwnInv, CallOwns
  <2>6. ItemOwns' BY <1>1, <1>2, <2>1, <2>2, SMT DEF OwnInv, ItemOwns
  <2> QED BY <2>3, <2>4, <2>5, <2>6 DEF OwnInv
<1>3. ASSUME \A q \in Reloaders : Held(q)' = Held(q), s \in Ports,
             NEW c \in Clients, rpc'[c].step = "create", rpc'[c].port = s, Others(c)
      PROVE  OwnInv'
  <2>1. \A b \in Clients : Calling(b)' => b = c \/ (Calling(b) /\ rpc'[b] = rpc[b])
    BY <1>3 DEF Calling, Others
  <2>2. OpenInv' BY <1>1, <1>3, <2>1 DEF OwnInv, OpenInv
  <2>3. SessionOwns' BY DEF OwnInv, SessionOwns
  <2>4. CallOwns' BY <1>1, <1>3, <2>1, SMT DEF OwnInv, CallOwns
  <2>5. ItemOwns' BY <1>1, <1>3, <2>1, SMT DEF OwnInv, ItemOwns
  <2> QED BY <2>2, <2>3, <2>4, <2>5 DEF OwnInv
<1> QED BY <1>2, <1>3

(* The steps of a reload pass each socket on to one owner at most.         *)
LEMMA OwnReload ==
  ASSUME ShapeInv, OwnInv, NEW p \in Reloaders, reload(p)
  PROVE  OwnInv'
<1>1. CASE buildNext(p)
  <2>1. /\ \A q \in Reloaders \ {p} : proc'[q] = proc[q]
        /\ proc[p].step = "build" /\ proc'[p].step = "build"
    BY <1>1, BuildEffect
  <2>2. PICK e \in proc[p].build, s \in Senders :
              /\ s \in Ports => s \notin ports
              /\ \/ /\ proc'[p].desired = proc[p].desired \cup {ItemOf(proc[p].cfg, e, s)}
                    /\ senders' = senders \cup ({s} \cap Ports)
                 \/ /\ proc'[p].desired = proc[p].desired
                    /\ senders' = senders
    BY <1>1, BuildEffect, SMT
  <2>3. \A q \in Reloaders \ {p} : Held(q)' = Held(q) BY <2>1 DEF Held
  <2>4. Held(p) = proc[p].desired /\ Held(p)' = proc'[p].desired BY <2>1 DEF Held
  <2>5. UNCHANGED <<sessions, senderPorts, rpc>> BY <1>1 DEF buildNext
  <2>6. CASE senders' = senders /\ proc'[p].desired = proc[p].desired
    <3>1. \A q \in Reloaders : Held(q)' \subseteq Held(q) BY <2>3, <2>4, <2>6
    <3> QED BY <2>5, <2>6, <3>1, OwnersGo
  <2>7. CASE /\ senders' = senders \cup ({s} \cap Ports)
             /\ proc'[p].desired = proc[p].desired \cup {ItemOf(proc[p].cfg, e, s)}
    <3>1. PICK i : i = ItemOf(proc[p].cfg, e, s) OBVIOUS
    <3>2. i.sender = s BY <3>1 DEF ItemOf
    <3>3. Held(p)' = Held(p) \cup {i} BY <2>4, <2>7, <3>1
    <3>4. \E x \in Reloaders : \E j : /\ j.sender = s /\ Held(x)' = Held(x) \cup {j}
                                      /\ \A q \in Reloaders \ {x} : Held(q)' = Held(q)
      BY <2>3, <3>2, <3>3
    <3> QED BY <2>2, <2>5, <2>7, <3>4, OwnersCome
  <2> QED BY <2>2, <2>6, <2>7
<1>2. CASE ReconcileSessions(p)
  <2>1. UNCHANGED <<sessions, senders, senderPorts, rpc>> BY <1>2 DEF ReconcileSessions, senderVars
  <2>2. \A q \in Reloaders \ {p} : Held(q)' = Held(q) BY <1>2, ReconcileEffect DEF Held
  <2>3. Held(p) = proc[p].desired BY <1>2, ReconcileEffect DEF Held
  <2>4. Held(p)' \subseteq Held(p)
    <3>1. CASE Turns(p) BY <3>1, TurnedHeld DEF Turns
    <3>2. CASE ~Turns(p)
      <4>1. proc'[p].step = "apply" /\ proc'[p].create \subseteq proc[p].desired
        BY <1>2, <3>2, ReconcileEffect
      <4> QED BY <2>3, <4>1 DEF Held
    <3> QED BY <3>1, <3>2
  <2>5. \A q \in Reloaders : Held(q)' \subseteq Held(q) BY <2>2, <2>4
  <2> QED BY <2>1, <2>5, OwnersGo
<1>3. CASE destroyNext(p)
  <2>1. UNCHANGED <<senders, senderPorts, rpc>> BY <1>3 DEF destroyNext, senderVars
  <2>2. PICK d \in proc[p].destroy :
          /\ sessions' = [sessions EXCEPT ![d] = Absent]
          /\ proc'[p].step = "apply" /\ proc'[p].create = proc[p].create
          /\ \A q \in Reloaders \ {p} : SamePlan(proc'[q], proc[q])
    BY <1>3, DestroyEffect
  <2>3. proc[p].step = "apply" BY <1>3, DestroyEffect
  <2>4. \A q \in Reloaders \ {p} : Held(q)' = Held(q) BY <2>2, SameHeld
  <2>5. Held(p)' = Held(p) BY <2>2, <2>3 DEF Held
  <2>6. \A q \in Reloaders : Held(q)' \subseteq Held(q) BY <2>4, <2>5
  <2>7. \A x \in Discrs : sessions'[x] = sessions[x] \/ sessions'[x] = Absent
    BY <2>2 DEF ShapeInv
  <2> QED BY <2>1, <2>6, <2>7, OwnersGo
<1>4. CASE createNext(p)
  <2>1. UNCHANGED <<senders, senderPorts, rpc>> BY <1>4 DEF createNext, senderVars
  <2>2. /\ proc[p].step = "apply" /\ proc'[p].step = "apply"
        /\ \A q \in Reloaders \ {p} : SamePlan(proc'[q], proc[q])
    BY <1>4, CreateEffect
  <2>3. PICK i \in proc[p].create :
          /\ proc'[p].create = proc[p].create \ {i}
          /\ \/ sessions' = sessions
             \/ \E d \in Discrs :
                  /\ Fresh(d)
                  /\ sessions' = [sessions EXCEPT ![d] =
                       [tab |-> table(kindOf(p)), key |-> i.key, sender |-> i.sender]]
    BY <1>4, CreateEffect
  <2>4. \A q \in Reloaders \ {p} : Held(q)' = Held(q) BY <2>2, SameHeld
  <2>5. Held(p) = proc[p].create /\ Held(p)' = Held(p) \ {i} BY <2>2, <2>3 DEF Held
  <2>6. \A q \in Reloaders : Held(q)' \subseteq Held(q) BY <2>4, <2>5
  <2>7. CASE sessions' = sessions BY <2>1, <2>6, <2>7, OwnersGo
  <2>8. ASSUME NEW d \in Discrs, Fresh(d),
               sessions' = [sessions EXCEPT ![d] =
                 [tab |-> table(kindOf(p)), key |-> i.key, sender |-> i.sender]]
        PROVE  OwnInv'
    <3>1. i \in Held(p) BY <2>5
    <3>2. /\ sessions'[d].sender = i.sender
          /\ \A x \in Discrs \ {d} : sessions'[x].sender = sessions[x].sender
      BY <2>8 DEF ShapeInv
    <3>3. i.sender \in Ports =>
            /\ i.sender \in senders
            /\ \A x \in Discrs : i.sender # sessions[x].sender /\ i.sender # senderPorts[x]
            /\ \A c \in Clients : Calling(c) => i.sender # rpc[c].port
            /\ \A q \in Reloaders : \A j \in Held(q) : j.sender = i.sender => q = p /\ j = i
      BY <3>1 DEF OwnInv, OpenInv, ItemOwns
    <3>4. \A c \in Clients : Calling(c)' = Calling(c) /\ rpc'[c] = rpc[c] BY <2>1 DEF Calling
    <3>5. \A c \in Clients : Calling(c) => rpc[c].port \in Ports BY CallPort
    <3>6. OpenInv' BY <2>1, <2>6, <3>2, <3>3, <3>4 DEF OwnInv, OpenInv
    <3>7. SessionOwns' BY <2>1, <3>2, <3>3 DEF OwnInv, SessionOwns
    <3>8. CallOwns' BY <2>1, <3>2, <3>3, <3>4, <3>5, SMT DEF OwnInv, CallOwns
    <3>9. \A q \in Reloaders : \A j \in Held(q)' : j.sender \in Ports => j.sender # i.sender
      BY <2>5, <2>6, <3>3
    <3>10. ItemOwns' BY <2>1, <2>6, <3>2, <3>4, <3>9, SMT DEF OwnInv, ItemOwns
    <3> QED BY <3>6, <3>7, <3>8, <3>10 DEF OwnInv
  <2> QED BY <2>3, <2>7, <2>8
<1>5. CASE reconciled(p)
  <2>1. UNCHANGED <<sessions, senders, senderPorts, rpc>> BY <1>5 DEF reconciled, senderVars
  <2>2. Turns(p) BY <1>5, ReconciledTurns
  <2>3. Held(p)' = {} BY <2>2, TurnedHeld DEF Turns
  <2>4. \A q \in Reloaders \ {p} : Held(q)' = Held(q) BY <2>2 DEF Turns, Held
  <2>5. \A q \in Reloaders : Held(q)' \subseteq Held(q) BY <2>3, <2>4
  <2> QED BY <2>1, <2>5, OwnersGo
<1> QED BY <1>1, <1>2, <1>3, <1>4, <1>5 DEF reload

(* The steps of RPC handlers do so, too.                                   *)
LEMMA OwnCall ==
  ASSUME ShapeInv, OwnInv, NoteInv, NEW c \in Clients,
         handler(c) \/ AddSession(c) \/ DeleteSession(c)
  PROVE  OwnInv'
<1> USE DEF Others
<1>1. CASE AddSession(c)
  <2>1. UNCHANGED <<sessions, senderPorts, proc>> BY <1>1 DEF AddSession
  <2>2. \A q \in Reloaders : Held(q)' = Held(q) BY <2>1 DEF Held
  <2>3. CASE UNCHANGED <<senders, rpc>> BY <2>1, <2>2, <2>3, OwnersGo
  <2>4. CASE \E s \in Ports \ ports : /\ senders' = senders \cup {s} /\ Others(c)
                                      /\ rpc'[c].step = "create" /\ rpc'[c].port = s
    <3>1. PICK s \in Ports \ ports : /\ senders' = senders \cup ({s} \cap Ports) /\ Others(c)
                                     /\ rpc'[c].step = "create" /\ rpc'[c].port = s
      BY <2>4
    <3>2. \E b \in Clients : /\ rpc'[b].step = "create" /\ rpc'[b].port = s /\ s \in Ports
                             /\ Others(b)
      BY <3>1
    <3> QED BY <2>1, <2>2, <3>1, <3>2, OwnersCome
  <2> QED BY <1>1, <2>3, <2>4, AddEffect
<1>2. CASE createSessionWithSender(c)
  <2>0. rpc[c].step = "create" /\ senderPorts' = senderPorts BY <1>2 DEF createSessionWithSender
  <2>1. Calling(c) /\ rpc[c].port \in Ports BY <2>0, CallPort DEF Calling
  <2> DEFINE s == rpc[c].port
  <2>2. /\ s \in senders
        /\ \A d \in Discrs : s # sessions[d].sender /\ s # senderPorts[d]
        /\ \A b \in Clients : Calling(b) /\ rpc[b].port = s => b = c
        /\ \A q \in Reloaders : \A i \in Held(q) : i.sender # s
    BY <2>0, <2>1 DEF OwnInv, OpenInv, CallOwns, ItemOwns
  <2>3. \A b \in Clients : Calling(b) => rpc[b].port \in Ports BY CallPort
  <2>4. CASE registerSession(c)
    <3>1. /\ senders' = senders /\ Others(c) /\ rpc'[c].step = "track" /\ rpc'[c].port = s
          /\ \A q \in Reloaders : SamePlan(proc'[q], proc[q])
      BY <2>0, <2>4, TrackEffect
    <3>2. PICK d \in Discrs :
            /\ Fresh(d) /\ rpc'[c].discr = d
            /\ sessions' = [sessions EXCEPT ![d] = [tab |-> "bfd", key |-> rpc[c].key, sender |-> s]]
      BY <2>0, <2>4, TrackEffect
    <3>3. \A q \in Reloaders : Held(q)' = Held(q) BY <3>1, SameHeld
    <3>4. sessions'[d].sender = s /\ \A x \in Discrs \ {d} : sessions'[x].sender = sessions[x].sender
      BY <3>2 DEF ShapeInv
    <3>5. \A b \in Clients : Calling(b)' => Calling(b) /\ rpc'[b].port = rpc[b].port
      BY <2>1, <3>1 DEF Calling
    <3> HIDE DEF s
    <3>6. OpenInv' BY <2>0, <2>2, <3>1, <3>3, <3>4, <3>5 DEF OwnInv, OpenInv
    <3>7. SessionOwns' BY <2>0, <2>2, <3>4, SMT DEF OwnInv, SessionOwns
    <3>8. CallOwns'
      <4>1. \A a, b \in Clients : Calling(a)' /\ Calling(b)' /\ rpc'[a].port = rpc'[b].port => a = b
        BY <3>5 DEF OwnInv, CallOwns
      <4>2. \A b \in Clients, x \in Discrs : Calling(b)' => rpc'[b].port # senderPorts'[x]
        BY <2>0, <3>5, SMT DEF OwnInv, CallOwns
      <4>3. ASSUME NEW b \in Clients, NEW x \in Discrs, Calling(b)', rpc'[b].port = sessions'[x].sender
            PROVE  rpc'[b].step = "track" /\ rpc'[b].discr = x
        <5>1. CASE x = d
          <6>1. b = c BY <2>2, <3>4, <3>5, <4>3, <5>1
          <6> QED BY <3>1, <3>2, <5>1, <6>1
        <5>2. CASE x # d
          <6>1. rpc[b].port = sessions[x].sender /\ Calling(b) BY <3>4, <3>5, <4>3, <5>2
          <6>2. rpc[b].step = "track" /\ rpc[b].discr = x BY <6>1 DEF OwnInv, CallOwns
          <6>3. b # c BY <2>0, <6>2
          <6> QED BY <3>1, <6>2, <6>3
        <5> QED BY <5>1, <5>2
      <4> QED BY <4>1, <4>2, <4>3 DEF CallOwns
    <3>9. ItemOwns' BY <2>0, <2>2, <3>3, <3>4, <3>5, SMT DEF OwnInv, ItemOwns
    <3> QED BY <3>6, <3>7, <3>8, <3>9 DEF OwnInv
  <2>5. CASE CloseSender(s) /\ rpc' = [rpc EXCEPT ![c] = Idle] /\ UNCHANGED proc
    <3>1. sessions' = sessions /\ senders' = senders \ {s} BY <2>0, <2>5, RefuseEffect
    <3>2. rpc'[c].step = "idle" /\ Others(c) BY <2>5, Returns
    <3>3. \A q \in Reloaders : Held(q)' = Held(q) BY <2>5 DEF Held
    <3>4. \A b \in Clients : Calling(b)' => Calling(b) /\ rpc'[b] = rpc[b] /\ rpc[b].port # s
      BY <2>2, <3>2 DEF Calling
    <3> HIDE DEF s
    <3>5. OpenInv' BY <2>0, <2>2, <3>1, <3>3, <3>4 DEF OwnInv, OpenInv
    <3>6. SessionOwns' BY <2>0, <3>1 DEF OwnInv, SessionOwns
    <3>7. CallOwns' BY <2>0, <3>1, <3>4, SMTT(30) DEF OwnInv, CallOwns
    <3>8. ItemOwns' BY <2>0, <3>1, <3>3, <3>4, SMT DEF OwnInv, ItemOwns
    <3> QED BY <3>5, <3>6, <3>7, <3>8 DEF OwnInv
  <2> QED BY <1>2, <2>4, <2>5 DEF createSessionWithSender
<1>3. CASE trackSenderPort(c)
  <2>1. /\ rpc[c].step = "track" /\ UNCHANGED <<sessions, senders, proc>>
        /\ senderPorts' = [senderPorts EXCEPT ![rpc[c].discr] = rpc[c].port]
        /\ rpc' = [rpc EXCEPT ![c] = Idle]
    BY <1>3 DEF trackSenderPort
  <2>2. PICK d \in Discrs : d = rpc[c].discr BY <2>1 DEF ShapeInv, CallShape
  <2>3. PICK s \in Ports : s = rpc[c].port BY <2>1, CallPort DEF Calling
  <2>4. Calling(c) BY <2>1 DEF Calling
  <2>5. /\ s \in senders
        /\ \A x \in Discrs : s = sessions[x].sender => x = d
        /\ \A x \in Discrs : s # senderPorts[x]
        /\ \A b \in Clients : Calling(b) /\ rpc[b].port = s => b = c
        /\ \A q \in Reloaders : \A i \in Held(q) : i.sender # s
    BY <2>2, <2>3, <2>4 DEF OwnInv, OpenInv, CallOwns, ItemOwns
  <2>6. senderPorts'[d] = s /\ \A x \in Discrs \ {d} : senderPorts'[x] = senderPorts[x]
    BY <2>1, <2>2, <2>3 DEF ShapeInv
  <2>7. rpc'[c].step = "idle" /\ Others(c) BY <2>1, Returns
  <2>8. \A q \in Reloaders : Held(q)' = Held(q) BY <2>1 DEF Held
  <2>9. \A b \in Clients : Calling(b)' => Calling(b) /\ rpc'[b] = rpc[b] /\ rpc[b].port # s
    BY <2>5, <2>7 DEF Calling
  <2>10. OpenInv' BY <2>1, <2>5, <2>6, <2>8, <2>9, SMTT(30) DEF OwnInv, OpenInv
  <2>11. SessionOwns' BY <2>1, <2>5, <2>6, SMTT(30) DEF OwnInv, SessionOwns
  <2>12. CallOwns' BY <2>1, <2>6, <2>9, SMTT(30) DEF OwnInv, CallOwns
  <2>13. ItemOwns' BY <2>1, <2>5, <2>6, <2>8, <2>9, SMT DEF OwnInv, ItemOwns
  <2> QED BY <2>10, <2>11, <2>12, <2>13 DEF OwnInv
<1>4. CASE DeleteSession(c)
  <2>1. UNCHANGED <<senders, senderPorts>> BY <1>4 DEF DeleteSession, senderVars
  <2>2. /\ Others(c) /\ rpc'[c].step = "cleanup" /\ \A q \in Reloaders : SamePlan(proc'[q], proc[q])
        /\ \E d \in InTable("bfd") : sessions' = [sessions EXCEPT ![d] = Absent]
    BY <1>4, DeleteEffect
  <2>3. \A d \in Discrs : sessions'[d] = sessions[d] \/ sessions'[d] = Absent BY <2>2 DEF ShapeInv
  <2>4. \A q \in Reloaders : Held(q)' = Held(q) BY <2>2, SameHeld
  <2>5. \A b \in Clients : rpc'[b] = rpc[b] \/ ~Calling(b)' BY <2>2 DEF Calling
  <2> QED BY <2>1, <2>3, <2>4, <2>5, OwnersGo
<1>5. CASE cleanupSender(c)
  <2>1. PICK d \in Discrs : d = rpc[c].discr BY <1>5 DEF cleanupSender, ShapeInv, CallShape
  <2>2. /\ senderPorts' = [senderPorts EXCEPT ![d] = NoPort] /\ sessions' = sessions
        /\ senders' = senders \ {senderPorts[d]} /\ sessions[d] = Absent
    BY <1>5, <2>1, CleanupEffect
  <2>3. rpc'[c].step = "idle" /\ Others(c) /\ proc' = proc BY <1>5, Returns DEF cleanupSender
  <2>4. \A q \in Reloaders : Held(q)' = Held(q) BY <2>3 DEF Held
  <2>5. \A b \in Clients : Calling(b)' => Calling(b) /\ rpc'[b] = rpc[b] /\ rpc[b].port \in Ports
    BY <2>3, CallPort DEF Calling
  <2>6. senderPorts'[d] = NoPort /\ \A x \in Discrs \ {d} : senderPorts'[x] = senderPorts[x]
    BY <2>2 DEF ShapeInv
  <2>7. NoPort \notin Ports /\ sessions[d].sender \notin Ports BY <2>2, AbsentShape
  <2>8. OpenInv'
    <3>1. \A x \in Discrs : sessions'[x].sender \in Ports => sessions'[x].sender \in senders'
      BY <2>2, <2>7 DEF OwnInv, OpenInv, SessionOwns
    <3>2. \A x \in Discrs : senderPorts'[x] \in Ports => senderPorts'[x] \in senders'
      BY <2>2, <2>6, <2>7, SMTT(30) DEF OwnInv, OpenInv, SessionOwns
    <3>3. \A b \in Clients : Calling(b)' => rpc'[b].port \in senders'
      BY <2>2, <2>5, SMT DEF OwnInv, OpenInv, CallOwns
    <3>4. \A q \in Reloaders : \A i \in Held(q)' : i.sender \in Ports => i.sender \in senders'
      BY <2>2, <2>4 DEF OwnInv, OpenInv, ItemOwns
    <3> QED BY <3>1, <3>2, <3>3, <3>4 DEF OpenInv
  <2>9. SessionOwns' BY <2>2, <2>6, <2>7, SMTT(30) DEF OwnInv, SessionOwns
  <2>10. CallOwns' BY <2>2, <2>5, <2>6, <2>7, SMT DEF OwnInv, CallOwns
  <2>11. ItemOwns' BY <2>2, <2>4, <2>5, <2>6, <2>7, SMT DEF OwnInv, ItemOwns
  <2> QED BY <2>8, <2>9, <2>10, <2>11 DEF OwnInv
<1> QED BY <1>1, <1>2, <1>3, <1>4, <1>5 DEF handler

(* And what else happens takes sockets from owners only.                   *)
LEMMA OwnOther ==
  ASSUME ShapeInv, OwnInv, Aside \/ Turning \/ gracefulShutdown \/ exit
  PROVE  OwnInv'
<1>1. UNCHANGED <<senders, senderPorts, rpc>>
  BY DEF Aside, Turning, EditFile, HangUp, Stop, ShutdownServers, vars, senderVars,
         startOverlayReceivers, handleSIGHUP, reloadConfig, hupStops, gracefulShutdown, exit
<1>2. CASE Aside
  <2>1. UNCHANGED <<sessions, proc>>
    BY <1>2 DEF Aside, EditFile, HangUp, Stop, ShutdownServers, vars
  <2>2. \A q \in Reloaders : Held(q)' = Held(q) BY <2>1 DEF Held
  <2> QED BY <1>1, <2>1, <2>2, OwnersGo
<1>3. CASE Turning
  <2>1. sessions' = sessions
    BY <1>3 DEF Turning, startOverlayReceivers, handleSIGHUP, reloadConfig, hupStops
  <2>2. Turns("main") \/ Turns("hup") BY <1>3, StartTurns, HupTurns DEF Turning
  <2>3. \A q \in Reloaders : Held(q)' = Held(q) \/ Held(q)' = {}
    <3>1. "main" \in Reloaders /\ "hup" \in Reloaders BY DEF Reloaders
    <3>2. ASSUME NEW p \in Reloaders, Turns(p) PROVE \A q \in Reloaders : Held(q)' = Held(q) \/ Held(q)' = {}
      <4>1. Held(p)' = {} BY <3>2, TurnedHeld DEF Turns
      <4>2. \A q \in Reloaders \ {p} : Held(q)' = Held(q) BY <3>2 DEF Turns, Held
      <4> QED BY <4>1, <4>2
    <3> QED BY <2>2, <3>1, <3>2
  <2>4. \A q \in Reloaders : Held(q)' \subseteq Held(q) BY <2>3
  <2> QED BY <1>1, <2>1, <2>4, OwnersGo
<1>4. CASE gracefulShutdown \/ exit
  <2>1. closeManager BY <1>4 DEF gracefulShutdown, exit
  <2>2. /\ \A d \in Discrs : sessions'[d] = Absent
        /\ \A q \in Reloaders : SamePlan(proc'[q], proc[q])
    BY <2>1, CloseAllEffect
  <2>3. \A q \in Reloaders : Held(q)' = Held(q) BY <2>2, SameHeld
  <2> QED BY <1>1, <2>2, <2>3, OwnersGo
<1> QED BY <1>2, <1>3, <1>4

-----------------------------------------------------------------------------
(* The notes of the RPC server                                             *)

(* Sessions come under fresh discriminators; one that goes away leaves its *)
(* socket to the note or to the leaks.  Then the notes stay right.         *)
LEMMA NotesStay ==
  ASSUME ShapeInv, NoteInv, senderPorts' = senderPorts, leaked \subseteq leaked',
         \A d \in Discrs :
           \/ sessions'[d] = sessions[d]
           \/ /\ sessions'[d] = Absent
              /\ \/ senderPorts[d] # NoPort
                 \/ sessions[d].sender \in Ports => sessions[d].sender \in leaked'
           \/ Fresh(d),
         \A c \in Clients :
           \/ rpc'[c] = rpc[c]
           \/ rpc'[c].step \in {"idle", "create"}
           \/ /\ rpc'[c].step = "cleanup" /\ rpc'[c].discr \in Discrs
              /\ sessions'[rpc'[c].discr] = Absent
  PROVE  NoteInv'
<1>1. ASSUME NEW c \in Clients, NEW d \in Discrs, rpc[c].discr = d
      PROVE  ~Fresh(d)
  BY <1>1 DEF Fresh
<1>2. \A c \in Clients : rpc[c].step \in {"track", "cleanup"} => rpc[c].discr \in Discrs
  BY DEF ShapeInv, CallShape
<1>3. \A c \in Clients : rpc[c].step = "track" => rpc[c].port \in Ports BY DEF ShapeInv, CallShape
<1>4. \A c \in Clients : rpc'[c].step = "track" => rpc'[c] = rpc[c] OBVIOUS
<1>5. ASSUME NEW c \in Clients, rpc'[c].step = "cleanup"
      PROVE  sessions'[rpc'[c].discr] = Absent
  <2>1. CASE rpc'[c] = rpc[c] BY <1>1, <1>2, <1>5, <2>1, SMT DEF NoteInv
  <2> QED BY <1>5, <2>1
<1>6. ASSUME NEW c \in Clients, rpc'[c].step = "track"
      PROVE  /\ senderPorts'[rpc'[c].discr] = NoPort
             /\ sessions'[rpc'[c].discr] # Absent => sessions'[rpc'[c].discr].sender = rpc'[c].port
             /\ sessions'[rpc'[c].discr] = Absent => rpc'[c].port \in leaked'
  <2>1. rpc'[c] = rpc[c] BY <1>4, <1>6
  <2>2. PICK d \in Discrs : d = rpc[c].discr BY <1>2, <1>6, <2>1
  <2>3. rpc[c].step = "track" /\ ~Fresh(d) /\ rpc[c].port \in Ports
    BY <1>1, <1>3, <1>6, <2>1, <2>2
  <2>4. /\ senderPorts[d] = NoPort
        /\ sessions[d] # Absent => sessions[d].sender = rpc[c].port
        /\ sessions[d] = Absent => rpc[c].port \in leaked
    BY <2>2, <2>3 DEF NoteInv
  <2> QED BY <2>1, <2>2, <2>3, <2>4
<1>7. \A b, c \in Clients :
        rpc'[b].step = "track" /\ rpc'[c].step = "track" /\ rpc'[b].discr = rpc'[c].discr => b = c
  BY <1>4, SMT DEF NoteInv
<1>8. \A d \in Discrs : sessions'[d] # Absent /\ senderPorts'[d] # NoPort
                        => sessions'[d].sender = senderPorts'[d]
  BY DEF NoteInv, Fresh
<1> QED BY <1>5, <1>6, <1>7, <1>8 DEF NoteInv

(* The reloads leave the notes right.                                      *)
LEMMA NoteReload ==
  ASSUME ShapeInv, NoteInv, NEW p \in Reloaders, reload(p)
  PROVE  NoteInv'
<1>1. UNCHANGED <<senderPorts, rpc>>
  BY DEF reload, buildNext, ReconcileSessions, destroyNext, createNext, reconciled, senderVars
<1>2. CASE buildNext(p) BY <1>1, <1>2, NotesStay DEF buildNext
<1>3. CASE ReconcileSessions(p)
  <2>1. leaked \subseteq leaked' BY <1>3, ReconcileEffect
  <2> QED BY <1>1, <1>3, <2>1, NotesStay DEF ReconcileSessions
<1>4. CASE destroyNext(p)
  <2>1. PICK d \in proc[p].destroy : /\ sessions' = [sessions EXCEPT ![d] = Absent]
                                     /\ leaked' = leaked \cup forgotten(d)
    BY <1>4, DestroyEffect
  <2>2. \A x \in Discrs : \/ sessions'[x] = sessions[x]
                          \/ /\ sessions'[x] = Absent
                             /\ sessions[x].sender \in Ports => sessions[x].sender \in leaked'
    BY <2>1 DEF ShapeInv, forgotten
  <2> QED BY <1>1, <2>1, <2>2, NotesStay
<1>5. CASE createNext(p)
  <2>1. leaked \subseteq leaked' BY <1>5, CreateEffect
  <2>2. \/ sessions' = sessions
        \/ \E d \in Discrs : \E x : Fresh(d) /\ sessions' = [sessions EXCEPT ![d] = x]
    BY <1>5, CreateEffect, SMT
  <2>3. \A d \in Discrs : sessions'[d] = sessions[d] \/ Fresh(d) BY <2>2 DEF ShapeInv
  <2> QED BY <1>1, <2>1, <2>3, NotesStay
<1>6. CASE reconciled(p) BY <1>1, <1>6, NotesStay DEF reconciled
<1> QED BY <1>2, <1>3, <1>4, <1>5, <1>6 DEF reload

(* So do the RPC handlers, in any order.                                   *)
LEMMA NoteCall ==
  ASSUME ShapeInv, OwnInv, NoteInv, NEW c \in Clients,
         handler(c) \/ AddSession(c) \/ DeleteSession(c)
  PROVE  NoteInv'
<1> USE DEF Others
<1>1. CASE AddSession(c)
  <2>1. UNCHANGED <<sessions, senderPorts, leaked>> BY <1>1 DEF AddSession
  <2>2. rpc' = rpc \/ (Others(c) /\ rpc'[c].step = "create") BY <1>1, AddEffect
  <2>3. \A b \in Clients : rpc'[b] = rpc[b] \/ rpc'[b].step \in {"idle", "create"} BY <2>2
  <2> QED BY <2>1, <2>3, NotesStay
<1>2. CASE createSessionWithSender(c)
  <2>0. rpc[c].step = "create" /\ senderPorts' = senderPorts BY <1>2 DEF createSessionWithSender
  <2>1. CASE registerSession(c)
    <3>1. /\ leaked' = leaked /\ Others(c) /\ rpc'[c].step = "track" /\ rpc'[c].port = rpc[c].port
      BY <2>0, <2>1, TrackEffect
    <3> DEFINE new == [tab |-> "bfd", key |-> rpc[c].key, sender |-> rpc[c].port]
    <3>2. PICK d \in Discrs : /\ Fresh(d) /\ rpc'[c].discr = d
                              /\ sessions' = [sessions EXCEPT ![d] = new]
      BY <2>0, <2>1, TrackEffect
    <3>3. new.tab = "bfd" /\ new.sender = rpc[c].port OBVIOUS
    <3>4. new # Absent BY <3>3, AbsentShape DEF None
    <3> HIDE DEF new
    <3>5. sessions'[d] = new /\ \A x \in Discrs \ {d} : sessions'[x] = sessions[x]
      BY <3>2 DEF ShapeInv
    <3>6. senderPorts[d] = NoPort /\ \A b \in Clients : rpc[b].discr # d BY <3>2 DEF Fresh
    <3>7. \A b \in Clients : rpc[b].step \in {"track", "cleanup"} => rpc[b].discr \in Discrs \ {d}
      BY <3>6 DEF ShapeInv, CallShape
    <3>8. \A b \in Clients : rpc'[b].step = "cleanup" => sessions'[rpc'[b].discr] = Absent
      BY <3>1, <3>5, <3>7, SMT DEF NoteInv
    <3>9. ASSUME NEW b \in Clients, rpc'[b].step = "track"
          PROVE  /\ senderPorts'[rpc'[b].discr] = NoPort
                 /\ sessions'[rpc'[b].discr] # Absent => sessions'[rpc'[b].discr].sender = rpc'[b].port
                 /\ sessions'[rpc'[b].discr] = Absent => rpc'[b].port \in leaked'
      <4>1. CASE b = c BY <2>0, <3>1, <3>2, <3>3, <3>4, <3>5, <3>6, <4>1
      <4>2. CASE b # c
        <5>1. rpc'[b] = rpc[b] /\ rpc[b].step = "track" BY <3>1, <3>9, <4>2
        <5>2. sessions'[rpc[b].discr] = sessions[rpc[b].discr] BY <3>5, <3>7, <5>1
        <5> QED BY <2>0, <3>1, <5>1, <5>2, SMT DEF NoteInv
      <4> QED BY <4>1, <4>2
    <3>10. \A a, b \in Clients :
             rpc'[a].step = "track" /\ rpc'[b].step = "track" /\ rpc'[a].discr = rpc'[b].discr => a = b
      BY <3>1, <3>2, <3>6, SMT DEF NoteInv
    <3>11. \A x \in Discrs : sessions'[x] # Absent /\ senderPorts'[x] # NoPort
                             => sessions'[x].sender = senderPorts'[x]
      BY <2>0, <3>5, <3>6 DEF NoteInv
    <3> QED BY <3>8, <3>9, <3>10, <3>11 DEF NoteInv
  <2>2. CASE CloseSender(rpc[c].port) /\ rpc' = [rpc EXCEPT ![c] = Idle]
    <3>1. sessions' = sessions /\ leaked' = leaked \ {rpc[c].port} BY <2>0, <2>2, RefuseEffect
    <3>2. rpc'[c].step = "idle" /\ Others(c) BY <2>2, Returns
    <3>3. \A b \in Clients : rpc[b].step = "track" => rpc[b].port # rpc[c].port
      BY <2>0 DEF OwnInv, CallOwns, Calling
    <3> QED BY <2>0, <3>1, <3>2, <3>3, SMT DEF NoteInv
  <2> QED BY <1>2, <2>1, <2>2 DEF createSessionWithSender
<1>3. CASE trackSenderPort(c)
  <2>1. /\ rpc[c].step = "track" /\ UNCHANGED <<sessions, leaked>>
        /\ senderPorts' = [senderPorts EXCEPT ![rpc[c].discr] = rpc[c].port]
        /\ rpc' = [rpc EXCEPT ![c] = Idle]
    BY <1>3 DEF trackSenderPort
  <2>2. PICK d \in Discrs : d = rpc[c].discr BY <2>1 DEF ShapeInv, CallShape
  <2>3. rpc'[c].step = "idle" /\ Others(c) BY <2>1, Returns
  <2>4. \A x \in Discrs \ {d} : senderPorts'[x] = senderPorts[x] BY <2>1, <2>2 DEF ShapeInv
  <2>5. senderPorts'[d] = rpc[c].port BY <2>1, <2>2 DEF ShapeInv
  <2>6. \A b \in Clients : rpc'[b].step = "track" => rpc[b].discr \in Discrs \ {d} /\ rpc'[b] = rpc[b]
    BY <2>1, <2>2, <2>3 DEF ShapeInv, CallShape, NoteInv
  <2>7. sessions[d] # Absent => sessions[d].sender = rpc[c].port BY <2>1, <2>2 DEF NoteInv
  <2> QED BY <2>1, <2>3, <2>4, <2>5, <2>6, <2>7, SMTT(30) DEF NoteInv
<1>4. CASE DeleteSession(c)
  <2>1. senderPorts' = senderPorts BY <1>4 DEF DeleteSession, senderVars
  <2>2. Others(c) /\ rpc'[c].step = "cleanup" BY <1>4, DeleteEffect
  <2>3. PICK d \in InTable("bfd") :
          /\ sessions' = [sessions EXCEPT ![d] = Absent] /\ rpc'[c].discr = d
          /\ leaked' = IF senderPorts[d] = NoPort THEN leaked \cup forgotten(d) ELSE leaked
    BY <1>4, DeleteEffect
  <2>4. d \in Discrs /\ sessions'[d] = Absent BY <2>3 DEF ShapeInv, InTable
  <2>5. leaked \subseteq leaked' BY <2>3
  <2>6. \A x \in Discrs : \/ sessions'[x] = sessions[x]
                          \/ /\ sessions'[x] = Absent
                             /\ \/ senderPorts[x] # NoPort
                                \/ sessions[x].sender \in Ports => sessions[x].sender \in leaked'
    BY <2>3 DEF ShapeInv, forgotten
  <2>7. \A b \in Clients : \/ rpc'[b] = rpc[b]
                           \/ /\ rpc'[b].step = "cleanup" /\ rpc'[b].discr \in Discrs
                              /\ sessions'[rpc'[b].discr] = Absent
    BY <2>2, <2>3, <2>4
  <2> QED BY <2>1, <2>5, <2>6, <2>7, NotesStay
<1>5. CASE cleanupSender(c)
  <2>1. PICK d \in Discrs : d = rpc[c].discr BY <1>5 DEF cleanupSender, ShapeInv, CallShape
  <2>2. /\ senderPorts' = [senderPorts EXCEPT ![d] = NoPort] /\ sessions' = sessions
        /\ leaked' = leaked \ {senderPorts[d]}
    BY <1>5, <2>1, CleanupEffect
  <2>3. rpc'[c].step = "idle" /\ Others(c) BY <1>5, Returns DEF cleanupSender
  <2>4. senderPorts'[d] = NoPort /\ \A x \in Discrs \ {d} : senderPorts'[x] = senderPorts[x]
    BY <2>2 DEF ShapeInv
  <2>5. \A b \in Clients : rpc[b].step = "track" => rpc[b].port # senderPorts[d] /\ rpc[b].discr \in Discrs
    BY DEF OwnInv, CallOwns, Calling, ShapeInv, CallShape
  <2> QED BY <2>2, <2>3, <2>4, <2>5, SMT DEF NoteInv
<1> QED BY <1>1, <1>2, <1>3, <1>4, <1>5 DEF handler

(* And so does all the rest.                                               *)
LEMMA NoteOther ==
  ASSUME ShapeInv, OwnInv, NoteInv, Aside \/ Turning \/ gracefulShutdown \/ exit
  PROVE  NoteInv'
<1>1. UNCHANGED <<senderPorts, rpc>>
  BY DEF Aside, Turning, EditFile, HangUp, Stop, ShutdownServers, vars, senderVars,
         startOverlayReceivers, handleSIGHUP, reloadConfig, hupStops, gracefulShutdown, exit
<1>2. CASE Aside \/ Turning
  <2>1. UNCHANGED <<sessions, leaked>>
    BY <1>2 DEF Aside, Turning, EditFile, HangUp, Stop, ShutdownServers, vars,
         startOverlayReceivers, handleSIGHUP, reloadConfig, hupStops
  <2> QED BY <1>1, <2>1, NotesStay
<1>3. CASE gracefulShutdown \/ exit
  <2>1. closeManager BY <1>3 DEF gracefulShutdown, exit
  <2> QED BY <1>1, <2>1, CloseAllEffect, NotesStay
<1> QED BY <1>2, <1>3

-----------------------------------------------------------------------------
(* Every open socket is accounted for                                      *)

(* Somebody has the socket s, or it has leaked.                            *)
Accounted(s) ==
  \/ s \in leaked
  \/ \E d \in Discrs : sessions[d].sender = s
  \/ \E c \in Clients : Calling(c) /\ rpc[c].port = s
  \/ \E c \in Clients : rpc[c].step = "cleanup" /\ senderPorts[rpc[c].discr] = s
  \/ \E p \in Reloaders : \E i \in Held(p) : i.sender = s

AccountInv == \A s \in senders : Accounted(s)

(* SendersAccounted, socket by socket.                                     *)
LEMMA OneByOne == AccountInv => SendersAccounted
BY SMT DEF SendersAccounted, AccountInv, Accounted, Calling, Held

(* A socket that somebody had is with somebody after a step of a reload.   *)
LEMMA AccountReload ==
  ASSUME ShapeInv, AccountInv, NEW p \in Reloaders, reload(p)
  PROVE  AccountInv'
<1> SUFFICES ASSUME NEW s \in senders' PROVE Accounted(s)' BY DEF AccountInv
<1>0. UNCHANGED <<senderPorts, rpc>>
  BY DEF reload, buildNext, ReconcileSessions, destroyNext, createNext, reconciled, senderVars
<1>1. \A c \in Clients : Calling(c)' = Calling(c) BY <1>0 DEF Calling
<1>2. CASE buildNext(p)
  <2>1. /\ \A q \in Reloaders \ {p} : proc'[q] = proc[q]
        /\ proc[p].step = "build" /\ proc'[p].step = "build"
    BY <1>2, BuildEffect
  <2>2. PICK e \in proc[p].build, y \in Senders :
              \/ /\ proc'[p].desired = proc[p].desired \cup {ItemOf(proc[p].cfg, e, y)}
                 /\ senders' = senders \cup ({y} \cap Ports)
              \/ /\ proc'[p].desired = proc[p].desired
                 /\ senders' = senders
    BY <1>2, BuildEffect, SMT
  <2>3. UNCHANGED <<sessions, leaked>> BY <1>2 DEF buildNext
  <2>4. \A q \in Reloaders : Held(q) \subseteq Held(q)' BY <2>1, <2>2 DEF Held
  <2>5. CASE s \in senders BY <1>0, <1>1, <2>3, <2>4, <2>5 DEF AccountInv, Accounted
  <2>6. CASE s \notin senders
    <3>1. s = y /\ proc'[p].desired = proc[p].desired \cup {ItemOf(proc[p].cfg, e, y)}
      BY <2>2, <2>6
    <3>2. ItemOf(proc[p].cfg, e, y).sender = s BY <3>1 DEF ItemOf
    <3>3. ItemOf(proc[p].cfg, e, y) \in Held(p)' BY <2>1, <3>1 DEF Held
    <3> QED BY <3>2, <3>3 DEF Accounted
  <2> QED BY <2>5, <2>6
<1>3. s \in Ports /\ (~buildNext(p) => s \in senders)
  <2>1. CASE buildNext(p) BY <2>1, BuildEffect DEF ShapeInv
  <2>2. CASE ~buildNext(p)
    BY <2>2 DEF reload, ReconcileSessions, destroyNext, createNext, reconciled, senderVars, ShapeInv
  <2> QED BY <2>1, <2>2
<1>4. CASE ReconcileSessions(p)
  <2>1. sessions' = sessions /\ s \in senders
    BY <1>4 DEF ReconcileSessions, senderVars
  <2>2. \A q \in Reloaders \ {p} : Held(q)' = Held(q) BY <1>4, ReconcileEffect DEF Held
  <2>3. Held(p) = proc[p].desired BY <1>4, ReconcileEffect DEF Held
  <2>4. leaked \subseteq leaked' BY <1>4, ReconcileEffect
  <2>5. \A i \in Held(p) : i.sender = s => i \in Held(p)' \/ s \in leaked'
    <3>1. CASE Turns(p) /\ proc[p].desired = {} BY <2>3, <3>1
    <3>2. CASE ~(Turns(p) /\ proc[p].desired = {})
      <4>1. /\ proc'[p].step = "apply"
            /\ \E exist \in SUBSET proc[p].desired :
                 /\ proc'[p].create = proc[p].desired \ exist
                 /\ leaked' = leaked \cup ({i.sender : i \in exist} \cap Ports)
        BY <1>4, <3>2, ReconcileEffect
      <4>2. Held(p)' = proc'[p].create BY <4>1 DEF Held
      <4> QED BY <1>3, <2>3, <4>1, <4>2
    <3> QED BY <3>1, <3>2
  <2> QED BY <1>0, <1>1, <2>1, <2>2, <2>4, <2>5 DEF AccountInv, Accounted
<1>5. CASE destroyNext(p)
  <2>1. PICK d \in proc[p].destroy :
          /\ sessions' = [sessions EXCEPT ![d] = Absent]
          /\ leaked' = leaked \cup forgotten(d)
          /\ proc'[p].step = "apply" /\ proc'[p].create = proc[p].create
          /\ \A q \in Reloaders \ {p} : SamePlan(proc'[q], proc[q])
    BY <1>5, DestroyEffect
  <2>2. proc[p].step = "apply" BY <1>5, DestroyEffect
  <2>3. \A q \in Reloaders \ {p} : Held(q)' = Held(q) BY <2>1, SameHeld
  <2>4. Held(p)' = Held(p) BY <2>1, <2>2 DEF Held
  <2>5. \A q \in Reloaders : Held(q)' = Held(q) BY <2>3, <2>4
  <2>6. \A x \in Discrs : sessions[x].sender = s => sessions'[x].sender = s \/ s \in leaked'
    BY <1>3, <2>1 DEF ShapeInv, forgotten
  <2>7. s \in senders /\ leaked \subseteq leaked' BY <1>5, <2>1 DEF destroyNext, senderVars
  <2> QED BY <1>0, <1>1, <2>5, <2>6, <2>7, SMT DEF AccountInv, Accounted
<1>6. CASE createNext(p)
  <2>1. /\ proc[p].step = "apply" /\ proc'[p].step = "apply"
        /\ \A q \in Reloaders \ {p} : SamePlan(proc'[q], proc[q])
    BY <1>6, CreateEffect
  <2>2. PICK i \in proc[p].create :
          /\ proc'[p].create = proc[p].create \ {i}
          /\ \/ leaked' = leaked \cup ({i.sender} \cap Ports) /\ sessions' = sessions
             \/ /\ leaked' = leaked
                /\ \E d \in Discrs :
                     /\ Fresh(d)
                     /\ sessions' = [sessions EXCEPT ![d] =
                          [tab |-> table(kindOf(p)), key |-> i.key, sender |-> i.sender]]
    BY <1>6, CreateEffect
  <2>3. \A q \in Reloaders \ {p} : Held(q)' = Held(q) BY <2>1, SameHeld
  <2>4. Held(p) = proc[p].create /\ Held(p)' = Held(p) \ {i} BY <2>1, <2>2 DEF Held
  <2>5. s \in senders BY <1>6 DEF createNext, senderVars
  <2>6. CASE leaked' = leaked \cup ({i.sender} \cap Ports) /\ sessions' = sessions
    <3>1. \A q \in Reloaders : \A j \in Held(q) : j.sender = s => j \in Held(q)' \/ s \in leaked'
      BY <1>3, <2>3, <2>4, <2>6
    <3> QED BY <1>0, <1>1, <2>5, <2>6, <3>1 DEF AccountInv, Accounted
  <2>7. ASSUME leaked' = leaked, NEW d \in Discrs, Fresh(d),
               sessions' = [sessions EXCEPT ![d] =
                          [tab |-> table(kindOf(p)), key |-> i.key, sender |-> i.sender]]
        PROVE  Accounted(s)'
    <3>1. sessions'[d].sender = i.sender /\ \A x \in Discrs \ {d} : sessions'[x] = sessions[x]
      BY <2>7 DEF ShapeInv
    <3>2. sessions[d].sender # s BY <1>3, <2>7, AbsentShape DEF Fresh
    <3>3. \A x \in Discrs : sessions[x].sender = s => sessions'[x].sender = s BY <3>1, <3>2
    <3>4. \A q \in Reloaders : \A j \in Held(q) :
            j.sender = s => j \in Held(q)' \/ sessions'[d].sender = s
      BY <2>3, <2>4, <3>1
    <3> QED BY <1>0, <1>1, <2>5, <2>7, <3>3, <3>4 DEF AccountInv, Accounted
  <2> QED BY <2>2, <2>6, <2>7
<1>7. CASE reconciled(p)
  <2>1. UNCHANGED <<sessions, leaked>> /\ s \in senders BY <1>7 DEF reconciled, senderVars
  <2>2. Held(p) = {} BY <1>7 DEF reconciled, Held
  <2>3. \A q \in Reloaders \ {p} : Held(q)' = Held(q) BY <1>7, ReconciledTurns DEF Turns, Held
  <2>4. \A q \in Reloaders : Held(q) \subseteq Held(q)' BY <2>2, <2>3
  <2> QED BY <1>0, <1>1, <2>1, <2>4 DEF AccountInv, Accounted
<1> QED BY <1>2, <1>4, <1>5, <1>6, <1>7 DEF reload

(* The same for a step of an RPC handler.                                  *)
LEMMA AccountCall ==
  ASSUME ShapeInv, OwnInv, NoteInv, AccountInv, NEW c \in Clients,
         handler(c) \/ AddSession(c) \/ DeleteSession(c)
  PROVE  AccountInv'
<1> USE DEF Others
<1> SUFFICES ASSUME NEW s \in senders' PROVE Accounted(s)' BY DEF AccountInv
<1>1. CASE AddSession(c)
  <2>1. UNCHANGED <<sessions, senderPorts, proc, leaked>> BY <1>1 DEF AddSession
  <2>2. \A q \in Reloaders : Held(q)' = Held(q) BY <2>1 DEF Held
  <2>3. CASE UNCHANGED <<senders, rpc>> BY <2>1, <2>2, <2>3 DEF AccountInv, Accounted, Calling
  <2>4. CASE \E y \in Ports \ ports :
               /\ senders' = senders \cup {y} /\ Others(c) /\ rpc[c].step = "idle"
               /\ rpc'[c].step = "create" /\ rpc'[c].port = y
    <3>1. CASE s \in senders
      <4>1. \A b \in Clients \ {c} : rpc'[b] = rpc[b] /\ Calling(b)' = Calling(b) BY <2>4 DEF Calling
      <4>2. ~Calling(c) /\ rpc[c].step # "cleanup" BY <2>4 DEF Calling
      <4> QED BY <2>1, <2>2, <3>1, <4>1, <4>2, SMTT(30) DEF AccountInv, Accounted
    <3>2. CASE s \notin senders BY <2>4, <3>2 DEF Accounted, Calling
    <3> QED BY <3>1, <3>2
  <2> QED BY <1>1, <2>3, <2>4, AddEffect
<1>2. CASE createSessionWithSender(c)
  <2>0. rpc[c].step = "create" /\ senderPorts' = senderPorts BY <1>2 DEF createSessionWithSender
  <2>1. CASE registerSession(c)
    <3>1. /\ UNCHANGED <<senders, leaked>> /\ Others(c)
          /\ rpc'[c].step = "track" /\ rpc'[c].port = rpc[c].port
          /\ \A q \in Reloaders : SamePlan(proc'[q], proc[q])
      BY <2>0, <2>1, TrackEffect
    <3>2. \A q \in Reloaders : Held(q)' = Held(q) BY <3>1, SameHeld
    <3>3. PICK d \in Discrs : Fresh(d) /\ \E x : sessions' = [sessions EXCEPT ![d] = x]
      BY <2>0, <2>1, TrackEffect
    <3>4. sessions[d].sender # s BY <3>1, <3>3, AbsentShape DEF Fresh, ShapeInv
    <3>5. \A x1 \in Discrs : sessions[x1].sender = s => sessions'[x1].sender = s
      BY <3>3, <3>4 DEF ShapeInv
    <3>6. \A b \in Clients : Calling(b) => Calling(b)' /\ rpc'[b].port = rpc[b].port
      BY <3>1 DEF Calling
    <3>7. \A b \in Clients : rpc[b].step = "cleanup" => rpc'[b] = rpc[b] BY <2>0, <3>1
    <3> QED BY <2>0, <3>1, <3>2, <3>5, <3>6, <3>7, SMTT(30) DEF AccountInv, Accounted
  <2>2. CASE CloseSender(rpc[c].port) /\ rpc' = [rpc EXCEPT ![c] = Idle] /\ UNCHANGED proc
    <3>1. /\ sessions' = sessions /\ senders' = senders \ {rpc[c].port}
          /\ leaked' = leaked \ {rpc[c].port}
      BY <2>0, <2>2, RefuseEffect
    <3>2. Others(c) BY <2>2, Returns
    <3>3. \A q \in Reloaders : Held(q)' = Held(q) BY <2>2 DEF Held
    <3>4. \A b \in Clients : Calling(b) /\ rpc[b].port = s => Calling(b)' /\ rpc'[b].port = s
      BY <3>1, <3>2 DEF Calling
    <3>5. \A b \in Clients : rpc[b].step = "cleanup" => rpc'[b] = rpc[b] BY <2>0, <3>2
    <3> QED BY <2>0, <3>1, <3>3, <3>4, <3>5, SMTT(30) DEF AccountInv, Accounted
  <2> QED BY <1>2, <2>1, <2>2 DEF createSessionWithSender
<1>3. CASE trackSenderPort(c)
  <2>1. /\ rpc[c].step = "track" /\ UNCHANGED <<sessions, leaked, senders, proc>>
        /\ senderPorts' = [senderPorts EXCEPT ![rpc[c].discr] = rpc[c].port]
        /\ rpc' = [rpc EXCEPT ![c] = Idle]
    BY <1>3 DEF trackSenderPort
  <2>2. PICK d \in Discrs : d = rpc[c].discr BY <2>1 DEF ShapeInv, CallShape
  <2>3. Others(c) BY <2>1, Returns
  <2>4. \A q \in Reloaders : Held(q)' = Held(q) BY <2>1 DEF Held
  <2>5. senderPorts[d] = NoPort /\ (sessions[d].sender = rpc[c].port \/ rpc[c].port \in leaked)
    BY <2>1, <2>2 DEF NoteInv
  <2>6. \A x \in Discrs : senderPorts[x] = s => senderPorts'[x] = s
    <3>1. s # NoPort BY <2>1, AbsentShape DEF ShapeInv
    <3> QED BY <2>1, <2>2, <2>5, <3>1 DEF ShapeInv
  <2>7. \A b \in Clients : rpc[b].step = "cleanup" => rpc'[b] = rpc[b] /\ rpc[b].discr \in Discrs
    BY <2>1, <2>3 DEF ShapeInv, CallShape
  <2>8. \A b \in Clients : Calling(b) /\ rpc[b].port = s =>
          \/ Calling(b)' /\ rpc'[b].port = s
          \/ s \in leaked \/ \E x \in Discrs : sessions[x].sender = s
    BY <2>2, <2>3, <2>5 DEF Calling
  <2> QED BY <2>1, <2>4, <2>6, <2>7, <2>8, SMTT(30) DEF AccountInv, Accounted
<1>4. CASE DeleteSession(c)
  <2>1. UNCHANGED <<senders, senderPorts>> BY <1>4 DEF DeleteSession, senderVars
  <2>2. /\ Others(c) /\ rpc[c].step = "idle" /\ rpc'[c].step = "cleanup"
        /\ \A q \in Reloaders : SamePlan(proc'[q], proc[q])
    BY <1>4, DeleteEffect
  <2>3. PICK d \in InTable("bfd") :
          /\ sessions' = [sessions EXCEPT ![d] = Absent] /\ rpc'[c].discr = d
          /\ leaked' = IF senderPorts[d] = NoPort THEN leaked \cup forgotten(d) ELSE leaked
    BY <1>4, DeleteEffect
  <2>4. d \in Discrs /\ s \in Ports BY <2>1 DEF InTable, ShapeInv
  <2>5. \A q \in Reloaders : Held(q)' = Held(q) BY <2>2, SameHeld
  <2>6. \A b \in Clients : rpc[b].step # "idle" => rpc'[b] = rpc[b] /\ Calling(b)' = Calling(b)
    BY <2>2 DEF Calling
  <2>7. ASSUME sessions[d].sender = s
        PROVE  s \in leaked' \/ senderPorts'[rpc'[c].discr] = s
    <3>1. CASE senderPorts[d] = NoPort BY <2>3, <2>4, <2>7, <3>1 DEF forgotten
    <3>2. CASE senderPorts[d] # NoPort
      <4>1. sessions[d] # Absent BY <2>4, <2>7, AbsentShape
      <4>2. senderPorts[d] = s BY <2>4, <2>7, <3>2, <4>1 DEF NoteInv
      <4> QED BY <2>1, <2>3, <4>2
    <3> QED BY <3>1, <3>2
  <2>8. \A x \in Discrs : sessions[x].sender = s =>
          sessions'[x].sender = s \/ s \in leaked' \/ senderPorts'[rpc'[c].discr] = s
    BY <2>3, <2>7, SMT DEF ShapeInv
  <2>9. leaked \subseteq leaked' BY <2>3
  <2>10. ~Calling(c) /\ \A b \in Clients : Calling(b) => Calling(b)' /\ rpc'[b] = rpc[b]
    BY <2>2, <2>6 DEF Calling
  <2> QED BY <2>1, <2>2, <2>5, <2>6, <2>8, <2>9, <2>10, SMTT(30) DEF AccountInv, Accounted
<1>5. CASE cleanupSender(c)
  <2>1. PICK d \in Discrs : d = rpc[c].discr BY <1>5 DEF cleanupSender, ShapeInv, CallShape
  <2>2. /\ senderPorts' = [senderPorts EXCEPT ![d] = NoPort] /\ sessions' = sessions
        /\ senders' = senders \ {senderPorts[d]} /\ rpc[c].step = "cleanup"
        /\ leaked' = leaked \ {senderPorts[d]}
    BY <1>5, <2>1, CleanupEffect
  <2>3. Others(c) /\ proc' = proc BY <1>5, Returns DEF cleanupSender
  <2>4. \A q \in Reloaders : Held(q)' = Held(q) BY <2>3 DEF Held
  <2>5. \A x \in Discrs : senderPorts[x] = s => senderPorts'[x] = s /\ x # d BY <2>2 DEF ShapeInv
  <2>6. \A b \in Clients : rpc[b].step = "cleanup" => rpc[b].discr \in Discrs
    BY DEF ShapeInv, CallShape
  <2>7. \A b \in Clients : rpc[b].step = "cleanup" /\ senderPorts[rpc[b].discr] = s
          => rpc'[b] = rpc[b] /\ senderPorts'[rpc[b].discr] = s
    BY <2>1, <2>3, <2>5, <2>6
  <2>8. \A b \in Clients : Calling(b) => Calling(b)' /\ rpc'[b] = rpc[b] BY <2>2, <2>3 DEF Calling
  <2> QED BY <2>2, <2>4, <2>7, <2>8, SMTT(30) DEF AccountInv, Accounted
<1> QED BY <1>1, <1>2, <1>3, <1>4, <1>5 DEF handler

(* And for everything else.                                                *)
LEMMA AccountOther ==
  ASSUME ShapeInv, OwnInv, AccountInv, Aside \/ Turning \/ gracefulShutdown \/ exit
  PROVE  AccountInv'
<1> SUFFICES ASSUME NEW s \in senders' PROVE Accounted(s)' BY DEF AccountInv
<1>1. UNCHANGED <<senders, senderPorts, rpc>>
  BY DEF Aside, Turning, EditFile, HangUp, Stop, ShutdownServers, vars, senderVars,
         startOverlayReceivers, handleSIGHUP, reloadConfig, hupStops, gracefulShutdown, exit
<1>2. \A c \in Clients : Calling(c)' = Calling(c) BY <1>1 DEF Calling
<1>3. CASE Aside
  <2>1. UNCHANGED <<sessions, proc, leaked>>
    BY <1>3 DEF Aside, EditFile, HangUp, Stop, ShutdownServers, vars
  <2>2. \A q \in Reloaders : Held(q)' = Held(q) BY <2>1 DEF Held
  <2> QED BY <1>1, <1>2, <2>1, <2>2 DEF AccountInv, Accounted
<1>4. CASE Turning
  <2>1. UNCHANGED <<sessions, leaked>>
    BY <1>4 DEF Turning, startOverlayReceivers, handleSIGHUP, reloadConfig, hupStops
  <2>2. \E p \in Reloaders : Turns(p) /\ proc[p].step \in {"overlay", "idle", "load"}
    BY <1>4, StartTurns, HupTurns DEF Turning, Reloaders, startOverlayReceivers
  <2>3. PICK p \in Reloaders : Turns(p) /\ proc[p].step \in {"overlay", "idle", "load"} BY <2>2
  <2>4. Held(p) = {} BY <2>3 DEF ShapeInv, WorkShape, Held
  <2>5. \A q \in Reloaders \ {p} : Held(q)' = Held(q) BY <2>3 DEF Turns, Held
  <2>6. \A q \in Reloaders : Held(q) \subseteq Held(q)' BY <2>4, <2>5
  <2> QED BY <1>1, <1>2, <2>1, <2>6 DEF AccountInv, Accounted
<1>5. CASE gracefulShutdown \/ exit
  <2>1. closeManager BY <1>5 DEF gracefulShutdown, exit
  <2>2. /\ leaked \subseteq leaked'
        /\ \A d \in Discrs : sessions[d].sender \in Ports => sessions[d].sender \in leaked'
        /\ \A q \in Reloaders : SamePlan(proc'[q], proc[q])
    BY <2>1, CloseAllEffect
  <2>3. \A q \in Reloaders : Held(q)' = Held(q) BY <2>2, SameHeld
  <2>4. s \in Ports BY <1>1 DEF ShapeInv
  <2> QED BY <1>1, <1>2, <2>2, <2>3, <2>4 DEF AccountInv, Accounted
<1> QED BY <1>3, <1>4, <1>5

-----------------------------------------------------------------------------
(* What reloads plan and do                                                *)

(* Turning to a kind, all its entries are to be built (advance).           *)
LEMMA TurnedPlan == ASSUME NEW r, Turned(r) PROVE Planned(r)
BY DEF Turned, Planned

(* The plan is a matter of the work.                                       *)
LEMMA SameWorkPlan ==
  ASSUME NEW r, NEW s, Planned(r), SameWork(s, r), r.step \in {"build", "apply"},
         s.step = "apply" => r.build = {}
  PROVE  Planned(s)
BY DEF SameWork, Planned

(* A step that does not touch the record.                                  *)
LEMMA SamePlanPlan ==
  ASSUME NEW r, NEW s, Planned(r), SamePlan(s, r)
  PROVE  Planned(s)
BY DEF SamePlan, SameWork, Planned

(* The sessions that are to be destroyed can only go: their discriminators *)
(* are not drawn again.                                                    *)
LEMMA DoomedStay ==
  ASSUME ShapeInv, NEW p \in Reloaders, Doomed(p),
         proc'[p].destroy \subseteq proc[p].destroy,
         proc'[p].n = proc[p].n, proc'[p].desired = proc[p].desired,
         \A d \in Discrs : sessions'[d] = sessions[d] \/ sessions'[d] = Absent \/ Fresh(d)
  PROVE  Doomed(p)'
<1>1. \A d \in proc[p].destroy : d \in Discrs /\ ~Fresh(d) BY DEF ShapeInv, Procs, Fresh
<1>2. kindOf(p)' = kindOf(p) BY DEF kindOf
<1>3. \A d \in proc[p].destroy : sessions'[d] = sessions[d] \/ sessions'[d] = Absent BY <1>1
<1>4. \A d \in proc[p].destroy : sessions'[d] = sessions[d] => sessionText(d)' = sessionText(d)
  BY DEF sessionText
<1> QED BY <1>2, <1>3, <1>4 DEF Doomed

(* Nobody else interferes as long as alone is set.                         *)
LEMMA ConvergingStays ==
  ASSUME ShapeInv, NEW p \in Reloaders, Converging(p), SamePlan(proc'[p], proc[p]),
         proc'[p].alone => proc[p].alone /\ sessions' = sessions
  PROVE  Converging(p)'
<1>1. kindOf(p)' = kindOf(p) BY DEF kindOf, SamePlan, SameWork
<1>2. sessions' = sessions => InTable("bfd")' = InTable("bfd") BY DEF InTable
<1> QED BY <1>1, <1>2, SMT DEF Converging, SamePlan, SameWork

(* The keys of the table stay different when sessions go.                  *)
LEMMA KeysStay ==
  ASSUME KeyInv, \A d \in Discrs : sessions'[d] = sessions[d] \/ sessions'[d] = Absent
  PROVE  KeyInv'
<1>1. \A d \in InTable("bfd")' : d \in InTable("bfd") /\ sessions'[d] = sessions[d]
  BY AbsentShape DEF InTable, None
<1> QED BY <1>1 DEF KeyInv

(* And when one comes that is no duplicate.                                *)
LEMMA KeysCome ==
  ASSUME ShapeInv, KeyInv, NEW d \in Discrs, NEW x, ~duplicate(x.tab, x.key),
         sessions' = [sessions EXCEPT ![d] = x]
  PROVE  KeyInv'
<1>1. sessions'[d] = x /\ \A y \in Discrs \ {d} : sessions'[y] = sessions[y] BY DEF ShapeInv
<1>2. \A y \in InTable("bfd")' : y = d \/ (y \in InTable("bfd") /\ sessions'[y] = sessions[y])
  BY <1>1 DEF InTable
<1>3. d \in InTable("bfd")' => \A y \in InTable("bfd") : sessions[y].key # x.key
  BY <1>1 DEF InTable, duplicate
<1> QED BY <1>1, <1>2, <1>3 DEF KeyInv

(* A step that changes the record of no reload and lets sessions go.       *)
LEMMA PlansStay ==
  ASSUME ShapeInv, PlanInv, KeyInv',
         \A q \in Reloaders : SamePlan(proc'[q], proc[q]),
         \A q \in Reloaders : proc'[q].alone => proc[q].alone /\ sessions' = sessions,
         \A d \in Discrs : sessions'[d] = sessions[d] \/ sessions'[d] = Absent \/ Fresh(d)
  PROVE  PlanInv'
<1>1. ASSUME NEW q \in Reloaders PROVE Planned(proc'[q]) /\ Doomed(q)' /\ Converging(q)'
  <2>1. Planned(proc'[q]) BY SamePlanPlan DEF PlanInv
  <2>2. Doomed(q)' BY DoomedStay DEF PlanInv, SamePlan, SameWork
  <2>3. Converging(q)' BY ConvergingStays DEF PlanInv
  <2> QED BY <2>1, <2>2, <2>3
<1> QED BY <1>1 DEF PlanInv

(* A goroutine that turns away.                                            *)
LEMMA PlansTurn ==
  ASSUME ShapeInv, PlanInv, NEW p \in Reloaders, Turns(p), sessions' = sessions
  PROVE  PlanInv'
<1>1. ASSUME NEW q \in Reloaders PROVE Planned(proc'[q]) /\ Doomed(q)' /\ Converging(q)'
  <2>1. CASE q = p
    <3>1. Turned(proc'[p]) BY DEF Turns
    <3>2. Planned(proc'[p]) BY <3>1, TurnedPlan
    <3>3. Doomed(p)' BY <3>1 DEF Turned, Doomed
    <3>4. Converging(p)' BY <3>1 DEF Turned, Converging
    <3> QED BY <2>1, <3>2, <3>3, <3>4
  <2>2. CASE q # p
    <3>1. proc'[q] = proc[q] BY <2>2 DEF Turns
    <3>2. SamePlan(proc'[q], proc[q]) BY <3>1 DEF SamePlan, SameWork
    <3>3. Planned(proc'[q]) BY <3>1 DEF PlanInv
    <3>4. Doomed(q)' BY <3>2, DoomedStay DEF PlanInv, SamePlan, SameWork
    <3>5. Converging(q)' BY <3>1, <3>2, ConvergingStays DEF PlanInv
    <3> QED BY <3>3, <3>4, <3>5
  <2> QED BY <2>1, <2>2
<1>2. KeyInv' BY KeysStay DEF PlanInv
<1> QED BY <1>1, <1>2 DEF PlanInv

(* buildNext extends the plan by the item of one entry.                    *)
LEMMA PlanBuild ==
  ASSUME ShapeInv, PlanInv, NEW p \in Reloaders, buildNext(p)
  PROVE  Planned(proc'[p])
<1> DEFINE r == proc[p]
           t == proc'[p]
<1>1. r.step = "build" /\ t.step = "build" /\ t.cfg = r.cfg /\ t.n = r.n BY BuildEffect
<1>2. PICK e \in r.build, s \in Senders :
        /\ t.build = r.build \ {e}
        /\ \/ /\ t.desired = r.desired \cup {ItemOf(r.cfg, e, s)} /\ t.skipped = r.skipped
           \/ t.desired = r.desired /\ t.skipped
  BY BuildEffect, SMT
<1>3. Planned(r) BY DEF PlanInv
<1> HIDE DEF r, t
<1>4. r.build \subseteq entriesOf(r.cfg, Kinds[r.n]) BY <1>1, <1>3 DEF Planned
<1>5. PICK i : i = ItemOf(r.cfg, e, s) OBVIOUS
<1>6. i.text = Text(e) /\ i.sender = s BY <1>5 DEF ItemOf
<1>7. \A j \in t.desired : \E x \in entriesOf(r.cfg, Kinds[r.n]) : j = ItemOf(r.cfg, x, j.sender)
  <2>1. \A j \in t.desired : j \in r.desired \/ j = i BY <1>2, <1>5
  <2>2. \A j \in r.desired : \E x \in entriesOf(r.cfg, Kinds[r.n]) : j = ItemOf(r.cfg, x, j.sender)
    BY <1>1, <1>3 DEF Planned
  <2>3. e \in entriesOf(r.cfg, Kinds[r.n]) /\ i = ItemOf(r.cfg, e, i.sender) BY <1>4, <1>5, <1>6
  <2> QED BY <2>1, <2>2, <2>3
<1>8. ASSUME ~t.skipped, NEW x \in entriesOf(r.cfg, Kinds[r.n])
      PROVE  x \in t.build \/ \E j \in t.desired : j.text = Text(x)
  <2>1. t.desired = r.desired \cup {i} /\ ~r.skipped BY <1>2, <1>5, <1>8
  <2>2. x \in r.build \/ \E j \in r.desired : j.text = Text(x) BY <1>1, <1>3, <1>8, <2>1 DEF Planned
  <2>3. CASE x = e BY <1>6, <2>1, <2>3
  <2>4. CASE x # e BY <1>2, <2>1, <2>2, <2>4
  <2> QED BY <2>3, <2>4
<1>9. Planned(t) BY <1>1, <1>2, <1>4, <1>7, <1>8 DEF Planned
<1> QED BY <1>9 DEF t

(* The text of an item tells its key, and the text of a session that has   *)
(* an item of a kind of the shared table is that of the item.              *)
LEMMA TextIsKey ==
  ASSUME NEW d \in Discrs, sessions[d].tab = "bfd", NEW f, NEW e, NEW s, e.kind # "echo",
         NEW i, i = ItemOf(f, e, s), i.text = sessionText(d)
  PROVE  i.key = sessions[d].key
<1>1. i.text = Text(e) /\ i.key = e.key BY DEF ItemOf
<1>2. sessionText(d) = <<"canonical", sessions[d].key>> BY DEF sessionText
<1>3. CASE e.kind = "session"
  <2>1. Text(e) = <<e.spelling, e.key>> BY <1>3 DEF Text, SessionKey
  <2>2. <<e.spelling, e.key>> = <<"canonical", sessions[d].key>> BY <1>1, <1>2, <2>1
  <2>3. e.key = sessions[d].key BY <2>2
  <2> QED BY <1>1, <2>3
<1>4. CASE e.kind = "member"
  <2>1. Text(e) = <<"canonical", e.key>> BY <1>4 DEF Text, memberKey
  <2>2. <<"canonical", e.key>> = <<"canonical", sessions[d].key>> BY <1>1, <1>2, <2>1
  <2>3. e.key = sessions[d].key BY <2>2
  <2> QED BY <1>1, <2>3
<1>5. CASE e.kind \notin {"session", "member"}
  <2>1. Text(e) = <<e.kind, e.spelling, e.key>> BY <1>5 DEF Text, OverlaySessionKey
  <2>2. <<e.kind, e.spelling, e.key>> = <<"canonical", sessions[d].key>> BY <1>1, <1>2, <2>1
  <2>3. Len(<<e.kind, e.spelling, e.key>>) = 3 /\ Len(<<"canonical", sessions[d].key>>) = 2 OBVIOUS
  <2>4. FALSE BY <2>2, <2>3
  <2> QED BY <2>4
<1> QED BY <1>3, <1>4, <1>5

(* ReconcileSessions: the plan is right for the snapshot.                  *)
LEMMA PlanReconcile ==
  ASSUME ShapeInv, PlanInv, NEW p \in Reloaders, ReconcileSessions(p), ~Turns(p)
  PROVE  Planned(proc'[p]) /\ Doomed(p)' /\ Converging(p)'
<1> DEFINE r == proc[p]
           t == proc'[p]
<1>1. /\ r.step = "build" /\ r.build = {} /\ t.step = "apply" /\ SameWork(t, r)
  BY ReconcileEffect
<1>2. PICK current \in sessionKeySets(table(kindOf(p))) :
        LET wanted == {i.text : i \in r.desired}
            running == {sessionText(d) : d \in current}
            exist == {i \in r.desired : i.text \in running}
        IN  /\ t.destroy = {d \in current : sessionText(d) \notin wanted}
            /\ t.create = r.desired \ exist
  BY ReconcileEffect
<1>3. /\ \A d : d \in t.destroy <=> d \in current /\ \A i \in r.desired : i.text # sessionText(d)
      /\ \A i : i \in t.create <=> i \in r.desired /\ \A d \in current : i.text # sessionText(d)
  BY <1>2
<1>4. sessions' = sessions BY DEF ReconcileSessions
<1>5. t.desired = r.desired /\ t.n = r.n BY <1>1 DEF SameWork
<1>6. kindOf(p)' = kindOf(p) BY <1>5 DEF kindOf
<1>7. current \subseteq InTable(table(kindOf(p))) BY DEF sessionKeySets
<1>8. Planned(r) BY DEF PlanInv
<1>9. Planned(t) BY <1>1, <1>8, SameWorkPlan
<1>10. \A d \in Discrs : sessionText(d)' = sessionText(d) BY <1>4 DEF sessionText
<1>11. Doomed(p)' BY <1>3, <1>4, <1>5, <1>6, <1>7, <1>10 DEF Doomed, InTable
<1>12. Converging(p)'
  <2> SUFFICES ASSUME kindOf(p) # "echo"
               PROVE  /\ \A d \in InTable("bfd")' :
                           d \in t.destroy \/ \E i \in t.desired : i.key = sessions'[d].key
                      /\ \A i \in t.desired :
                           i \in t.create
                           \/ \E d \in InTable("bfd")' \ t.destroy : sessions'[d].key = i.key
    BY <1>6 DEF Converging
  <2>1. InTable("bfd")' = InTable("bfd") BY <1>4 DEF InTable
  <2>2. table(kindOf(p)) = "bfd" BY DEF table
  <2>3. ASSUME NEW d \in InTable("bfd") PROVE d \in current
    <3>1. PICK e \in current : sessions[e].key = sessions[d].key
      BY <2>2, <2>3 DEF sessionKeySets
    <3>2. e \in InTable("bfd") BY <1>7, <2>2
    <3>3. e = d BY <2>3, <3>1, <3>2 DEF PlanInv, KeyInv
    <3> QED BY <3>3
  <2>4. ASSUME NEW i \in r.desired, NEW d \in InTable("bfd"), i.text = sessionText(d)
        PROVE  i.key = sessions[d].key
    <3>1. PICK e \in entriesOf(r.cfg, Kinds[r.n]) : i = ItemOf(r.cfg, e, i.sender)
      BY <1>1, <1>8 DEF Planned
    <3>2. e.kind # "echo" BY DEF entriesOf, kindOf
    <3>3. d \in Discrs /\ sessions[d].tab = "bfd" BY DEF InTable
    <3> QED BY <2>4, <3>1, <3>2, <3>3, TextIsKey, SMTT(30)
  <2>5. \A d \in InTable("bfd") : d \in t.destroy \/ \E i \in t.desired : i.key = sessions[d].key
    BY <1>3, <1>5, <2>3, <2>4
  <2>6. \A i \in t.desired : i \in t.create \/ \E d \in InTable("bfd") \ t.destroy : sessions[d].key = i.key
    BY <1>3, <1>5, <1>7, <2>2, <2>4
  <2> QED BY <1>4, <2>1, <2>5, <2>6
<1> QED BY <1>9, <1>11, <1>12

(* The steps of one reload keep the plans of both.                         *)
LEMMA PlanReload ==
  ASSUME ShapeInv, PlanInv, NEW p \in Reloaders, reload(p)
  PROVE  PlanInv'
<1> DEFINE Fine(q) == Planned(proc'[q]) /\ Doomed(q)' /\ Converging(q)'
<1>0. ASSUME NEW q \in Reloaders, SamePlan(proc'[q], proc[q]),
             proc'[q].alone => proc[q].alone /\ sessions' = sessions,
             \A d \in Discrs : sessions'[d] = sessions[d] \/ sessions'[d] = Absent \/ Fresh(d)
      PROVE  Fine(q)
  <2>1. Planned(proc'[q]) BY <1>0, SamePlanPlan DEF PlanInv
  <2>2. Doomed(q)' BY <1>0, DoomedStay DEF PlanInv, SamePlan, SameWork
  <2>3. Converging(q)' BY <1>0, ConvergingStays DEF PlanInv
  <2> QED BY <2>1, <2>2, <2>3
<1>1. CASE buildNext(p)
  <2>1. sessions' = sessions BY <1>1 DEF buildNext
  <2>2. \A q \in Reloaders \ {p} : proc'[q] = proc[q] BY <1>1, BuildEffect
  <2>3. \A q \in Reloaders \ {p} : Fine(q) BY <1>0, <2>1, <2>2 DEF SamePlan, SameWork
  <2>4. /\ proc'[p].step = "build" /\ proc[p].step = "build" /\ proc'[p].destroy = proc[p].destroy
    BY <1>1, BuildEffect
  <2>5. proc'[p].destroy = {} BY <2>4 DEF ShapeInv, WorkShape
  <2>6. Fine(p) BY <1>1, <2>4, <2>5, PlanBuild DEF Doomed, Converging
  <2>7. KeyInv' BY <2>1, KeysStay DEF PlanInv
  <2> QED BY <2>3, <2>6, <2>7 DEF PlanInv
<1>2. CASE ReconcileSessions(p)
  <2>1. sessions' = sessions BY <1>2 DEF ReconcileSessions
  <2>2. CASE Turns(p) BY <2>1, <2>2, PlansTurn
  <2>3. CASE ~Turns(p)
    <3>1. \A q \in Reloaders \ {p} : proc'[q] = proc[q] BY <1>2, ReconcileEffect
    <3>2. \A q \in Reloaders \ {p} : Fine(q) BY <1>0, <2>1, <3>1 DEF SamePlan, SameWork
    <3>3. Fine(p) BY <1>2, <2>3, PlanReconcile
    <3>4. KeyInv' BY <2>1, KeysStay DEF PlanInv
    <3> QED BY <3>2, <3>3, <3>4 DEF PlanInv
  <2> QED BY <2>2, <2>3
<1>3. CASE destroyNext(p)
  <2>1. PICK d \in proc[p].destroy :
              /\ sessions' = [sessions EXCEPT ![d] = Absent]
              /\ proc'[p].step = "apply" /\ SameWork(proc'[p], proc[p])
              /\ proc'[p].destroy = proc[p].destroy \ {d}
              /\ proc'[p].create = proc[p].create
              /\ proc'[p].alone => proc[p].alone
              /\ \A q \in Reloaders \ {p} :
                   /\ SamePlan(proc'[q], proc[q])
                   /\ proc'[q].alone => proc[q].alone /\ sessions[d] = Absent
    BY <1>3, DestroyEffect
  <2>2. proc[p].step = "apply" /\ d \in Discrs BY <1>3, DestroyEffect DEF ShapeInv, Procs
  <2>3. sessions'[d] = Absent /\ \A x \in Discrs \ {d} : sessions'[x] = sessions[x]
    BY <2>1, <2>2 DEF ShapeInv
  <2>4. \A x \in Discrs : sessions'[x] = sessions[x] \/ sessions'[x] = Absent \/ Fresh(x) BY <2>3
  <2>5. sessions[d] = Absent => sessions' = sessions BY <2>1 DEF ShapeInv
  <2>6. \A q \in Reloaders \ {p} : Fine(q) BY <1>0, <2>1, <2>4, <2>5
  <2>7. Planned(proc'[p])
    <3>1. Planned(proc[p]) BY DEF PlanInv
    <3>2. proc[p].build = {} BY <2>2, <3>1 DEF Planned
    <3> QED BY <2>1, <2>2, <3>1, <3>2, SameWorkPlan
  <2>8. Doomed(p)' BY <2>1, <2>4, DoomedStay DEF PlanInv, SameWork
  <2>9. Converging(p)'
    <3>1. kindOf(p)' = kindOf(p) /\ proc'[p].desired = proc[p].desired BY <2>1 DEF kindOf, SameWork
    <3>2. \A x \in InTable("bfd")' : x \in InTable("bfd") /\ x # d /\ sessions'[x] = sessions[x]
      BY <2>3, AbsentShape DEF InTable, None
    <3>3. \A x \in InTable("bfd") \ proc[p].destroy :
            x \in InTable("bfd")' \ proc'[p].destroy /\ sessions'[x] = sessions[x]
      BY <2>1, <2>3 DEF InTable
    <3>4. Converging(p) BY DEF PlanInv
    <3> QED BY <2>1, <2>2, <3>1, <3>2, <3>3, <3>4, SMTT(30) DEF Converging
  <2>10. KeyInv' BY <2>3, KeysStay DEF PlanInv
  <2> QED BY <2>6, <2>7, <2>8, <2>9, <2>10 DEF PlanInv
<1>4. CASE createNext(p)
  <2>1. /\ proc[p].step = "apply" /\ proc[p].destroy = {}
        /\ \A q \in Reloaders \ {p} : SamePlan(proc'[q], proc[q])
        /\ proc'[p].step = "apply" /\ SameWork(proc'[p], proc[p]) /\ proc'[p].destroy = {}
    BY <1>4, CreateEffect
  <2>2. PICK i \in proc[p].create :
              /\ proc'[p].create = proc[p].create \ {i}
              /\ \/ /\ duplicate(table(kindOf(p)), i.key) \/ ~accepts(kindOf(p), i.terms)
                    /\ sessions' = sessions
                    /\ \A q \in Reloaders : proc'[q].alone = proc[q].alone
                 \/ /\ ~duplicate(table(kindOf(p)), i.key)
                    /\ \A q \in Reloaders : proc'[q].alone => q = p /\ proc[q].alone
                    /\ \E d \in Discrs :
                         /\ Fresh(d)
                         /\ sessions' = [sessions EXCEPT ![d] =
                              [tab |-> table(kindOf(p)), key |-> i.key, sender |-> i.sender]]
    BY <1>4, CreateEffect
  <2>3. Planned(proc'[p])
    <3>1. Planned(proc[p]) BY DEF PlanInv
    <3>2. proc[p].build = {} BY <2>1, <3>1 DEF Planned
    <3> QED BY <2>1, <3>1, <3>2, SameWorkPlan
  <2>4. Doomed(p)' BY <2>1 DEF Doomed
  <2>5. kindOf(p)' = kindOf(p) /\ proc'[p].desired = proc[p].desired BY <2>1 DEF kindOf, SameWork
  <2>6. i \in proc[p].desired BY DEF ShapeInv, WorkShape
  <2>7. Converging(p) BY DEF PlanInv
  <2>8. CASE /\ duplicate(table(kindOf(p)), i.key) \/ ~accepts(kindOf(p), i.terms)
             /\ sessions' = sessions
             /\ \A q \in Reloaders : proc'[q].alone = proc[q].alone
    <3>1. \A q \in Reloaders \ {p} : Fine(q) BY <1>0, <2>1, <2>8
    <3>2. InTable("bfd")' = InTable("bfd") BY <2>8 DEF InTable
    <3>3. accepts(kindOf(p), i.terms) => \E d \in InTable("bfd") : sessions[d].key = i.key
      BY <2>8 DEF duplicate
    <3>4. Converging(p)' BY <2>1, <2>2, <2>5, <2>7, <2>8, <3>2, <3>3, SMTT(120) DEF Converging
    <3>5. KeyInv' BY <2>8, KeysStay DEF PlanInv
    <3> QED BY <2>3, <2>4, <3>1, <3>4, <3>5 DEF PlanInv
  <2>9. ASSUME ~duplicate(table(kindOf(p)), i.key),
               \A q \in Reloaders : proc'[q].alone => q = p /\ proc[q].alone,
               NEW d \in Discrs, Fresh(d),
               sessions' = [sessions EXCEPT ![d] =
                              [tab |-> table(kindOf(p)), key |-> i.key, sender |-> i.sender]]
        PROVE  PlanInv'
    <3>1. PICK x : x = [tab |-> table(kindOf(p)), key |-> i.key, sender |-> i.sender] OBVIOUS
    <3>2. x.tab = table(kindOf(p)) /\ x.key = i.key BY <3>1
    <3>3. sessions'[d] = x /\ \A y \in Discrs \ {d} : sessions'[y] = sessions[y]
      BY <2>9, <3>1 DEF ShapeInv
    <3>4. KeyInv' BY <2>9, <3>1, <3>2, KeysCome DEF PlanInv
    <3>5. \A q \in Reloaders \ {p} : Fine(q) BY <1>0, <2>1, <2>9, <3>3
    <3>6. Converging(p)'
      <4>1. kindOf(p) # "echo" => x.tab = "bfd" BY <3>2 DEF table
      <4>2. \A y \in InTable("bfd")' : y = d \/ (y \in InTable("bfd") /\ sessions'[y] = sessions[y])
        BY <3>3 DEF InTable
      <4>3. \A y \in InTable("bfd") : y # d
        BY <2>9, AbsentShape DEF InTable, Fresh, None
      <4>4. \A y \in InTable("bfd") : y \in InTable("bfd")' /\ sessions'[y] = sessions[y]
        BY <3>3, <4>3 DEF InTable
      <4>5. kindOf(p) # "echo" => d \in InTable("bfd")' BY <3>3, <4>1 DEF InTable
      <4>6. sessions'[d].key = i.key BY <3>2, <3>3
      <4> QED BY <2>1, <2>2, <2>5, <2>6, <2>7, <2>9, <4>2, <4>4, <4>5, <4>6, SMTT(120) DEF Converging
    <3> QED BY <2>3, <2>4, <3>4, <3>5, <3>6 DEF PlanInv
  <2> QED BY <2>2, <2>8, <2>9
<1>5. CASE reconciled(p)
  <2>1. sessions' = sessions BY <1>5 DEF reconciled
  <2> QED BY <1>5, <2>1, ReconciledTurns, PlansTurn
<1> QED BY <1>1, <1>2, <1>3, <1>4, <1>5 DEF reload

(* RPCs set alone back whenever they change a table.                       *)
LEMMA PlanCall ==
  ASSUME ShapeInv, OwnInv, NoteInv, PlanInv, NEW c \in Clients,
         handler(c) \/ AddSession(c) \/ DeleteSession(c)
  PROVE  PlanInv'
<1>1. ASSUME UNCHANGED <<sessions, proc>> PROVE PlanInv'
  <2>1. KeyInv' BY <1>1, KeysStay DEF PlanInv
  <2>2. \A q \in Reloaders : SamePlan(proc'[q], proc[q]) BY <1>1 DEF SamePlan, SameWork
  <2> QED BY <1>1, <2>1, <2>2, PlansStay
<1>2. CASE AddSession(c) BY <1>1, <1>2 DEF AddSession
<1>3. CASE createSessionWithSender(c)
  <2>0. rpc[c].step = "create" BY <1>3 DEF createSessionWithSender
  <2>1. CASE registerSession(c)
    <3>1. /\ ~duplicate("bfd", rpc[c].key)
          /\ \A q \in Reloaders : SamePlan(proc'[q], proc[q]) /\ ~proc'[q].alone
      BY <2>0, <2>1, TrackEffect
    <3> DEFINE new == [tab |-> "bfd", key |-> rpc[c].key, sender |-> rpc[c].port]
    <3>2. PICK d \in Discrs : Fresh(d) /\ sessions' = [sessions EXCEPT ![d] = new]
      BY <2>0, <2>1, TrackEffect
    <3>3. new.tab = "bfd" /\ new.key = rpc[c].key OBVIOUS
    <3> HIDE DEF new
    <3>4. KeyInv' BY <3>1, <3>2, <3>3, KeysCome DEF PlanInv
    <3>5. \A x \in Discrs : sessions'[x] = sessions[x] \/ Fresh(x) BY <3>2 DEF ShapeInv
    <3> QED BY <3>1, <3>4, <3>5, PlansStay
  <2>2. CASE CloseSender(rpc[c].port) /\ UNCHANGED proc
    <3>1. sessions' = sessions BY <2>0, <2>2, RefuseEffect
    <3> QED BY <1>1, <2>2, <3>1
  <2> QED BY <1>3, <2>1, <2>2 DEF createSessionWithSender
<1>4. CASE trackSenderPort(c) BY <1>1, <1>4 DEF trackSenderPort
<1>5. CASE DeleteSession(c)
  <2>1. /\ \A q \in Reloaders : SamePlan(proc'[q], proc[q]) /\ ~proc'[q].alone
        /\ \E d \in InTable("bfd") : sessions' = [sessions EXCEPT ![d] = Absent]
    BY <1>5, DeleteEffect
  <2>2. \A x \in Discrs : sessions'[x] = sessions[x] \/ sessions'[x] = Absent BY <2>1 DEF ShapeInv
  <2>3. KeyInv' BY <2>2, KeysStay DEF PlanInv
  <2> QED BY <2>1, <2>2, <2>3, PlansStay
<1>6. CASE cleanupSender(c)
  <2>1. PICK d \in Discrs : d = rpc[c].discr BY <1>6 DEF cleanupSender, ShapeInv, CallShape
  <2>2. sessions' = sessions BY <1>6, <2>1, CleanupEffect
  <2> QED BY <1>1, <1>6, <2>2 DEF cleanupSender
<1> QED BY <1>2, <1>3, <1>4, <1>5, <1>6 DEF handler

(* Nothing else changes a plan, but Close takes the sessions away.         *)
LEMMA PlanOther ==
  ASSUME ShapeInv, OwnInv, PlanInv, Aside \/ Turning \/ gracefulShutdown \/ exit
  PROVE  PlanInv'
<1>1. CASE Aside
  <2>1. UNCHANGED <<sessions, proc>>
    BY <1>1 DEF Aside, EditFile, HangUp, Stop, ShutdownServers, vars
  <2>2. KeyInv' BY <2>1, KeysStay DEF PlanInv
  <2>3. \A q \in Reloaders : SamePlan(proc'[q], proc[q]) BY <2>1 DEF SamePlan, SameWork
  <2> QED BY <2>1, <2>2, <2>3, PlansStay
<1>2. CASE Turning
  <2>1. sessions' = sessions
    BY <1>2 DEF Turning, startOverlayReceivers, handleSIGHUP, reloadConfig, hupStops
  <2>2. \E p \in Reloaders : Turns(p) BY <1>2, StartTurns, HupTurns DEF Turning, Reloaders
  <2> QED BY <2>1, <2>2, PlansTurn
<1>3. CASE gracefulShutdown \/ exit
  <2>1. closeManager BY <1>3 DEF gracefulShutdown, exit
  <2>2. /\ \A d \in Discrs : sessions'[d] = Absent
        /\ \A q \in Reloaders : SamePlan(proc'[q], proc[q]) /\ ~proc'[q].alone
    BY <2>1, CloseAllEffect
  <2>3. KeyInv' BY <2>2, KeysStay DEF PlanInv
  <2> QED BY <2>2, <2>3, PlansStay
<1> QED BY <1>1, <1>2, <1>3

(* A step of a reload is one of the SIGHUP goroutine once the shutdown has *)
(* come to Close, and there is none after the end.                         *)
LEMMA ExitReload ==
  ASSUME ShapeInv, ExitInv, NEW p \in Reloaders, reload(p)
  PROVE  ExitInv'
<1>1. proc[p].step \in {"build", "apply"}
  BY DEF reload, buildNext, ReconcileSessions, destroyNext, createNext, reconciled
<1>2. phase' = phase
  BY DEF reload, buildNext, ReconcileSessions, destroyNext, createNext, reconciled
<1>3. \A q \in Reloaders \ {p} : proc'[q].step = proc[q].step
  <2>1. CASE buildNext(p) BY <2>1, BuildEffect
  <2>2. CASE ReconcileSessions(p) BY <2>2, ReconcileEffect
  <2>3. CASE destroyNext(p) BY <2>3, DestroyEffect DEF SamePlan
  <2>4. CASE createNext(p) BY <2>4, CreateEffect DEF SamePlan
  <2>5. CASE reconciled(p) BY <2>5, ReconciledTurns DEF Turns
  <2> QED BY <2>1, <2>2, <2>3, <2>4, <2>5 DEF reload
<1>4. phase # "exited" BY <1>1 DEF ExitInv, Reloaders
<1>5. phase \in {"closed", "refusing"} => p # "main" BY <1>1 DEF ExitInv
<1> QED BY <1>2, <1>3, <1>4, <1>5 DEF ExitInv, Reloaders

(* Nor is there an RPC after the end.                                      *)
LEMMA ExitCall ==
  ASSUME ShapeInv, ExitInv, NEW c \in Clients, handler(c) \/ AddSession(c) \/ DeleteSession(c)
  PROVE  ExitInv'
<1>1. phase' = phase
  BY DEF handler, createSessionWithSender, trackSenderPort, cleanupSender, AddSession, DeleteSession
<1>2. phase # "exited"
  BY DEF handler, createSessionWithSender, trackSenderPort, cleanupSender, AddSession,
         DeleteSession, Serving, ExitInv
<1>3. proc'["main"].step = proc["main"].step
  <2>1. CASE proc' = touched(proc, None) BY <2>1, TouchAll DEF SamePlan, Reloaders
  <2>2. CASE UNCHANGED proc BY <2>2
  <2> QED BY <2>1, <2>2 DEF handler, createSessionWithSender, registerSession, trackSenderPort,
                            cleanupSender, AddSession, DeleteSession
<1> QED BY <1>1, <1>2, <1>3 DEF ExitInv

(* The shutdown comes to Close when start-up is over, and to the end when  *)
(* everybody it waits for is done.                                         *)
LEMMA ExitOther ==
  ASSUME ShapeInv, OwnInv, ExitInv, Aside \/ Turning \/ gracefulShutdown \/ exit
  PROVE  ExitInv'
<1>1. CASE UNCHANGED vars BY <1>1 DEF ExitInv, vars
<1>2. CASE EditFile \/ HangUp \/ Stop \/ ShutdownServers
  BY <1>2 DEF ExitInv, EditFile, HangUp, Stop, ShutdownServers
<1>3. CASE startOverlayReceivers
  <2>1. proc["main"].step = "overlay" /\ phase' = phase BY <1>3 DEF startOverlayReceivers
  <2> QED BY <2>1 DEF ExitInv
<1>4. CASE handleSIGHUP \/ reloadConfig \/ hupStops
  <2>1. phase' = phase BY <1>4 DEF handleSIGHUP, reloadConfig, hupStops
  <2>2. proc["hup"].step \in {"idle", "load"} /\ proc'["main"] = proc["main"]
    BY <1>4, HupTurns DEF Turns, Reloaders
  <2> QED BY <2>1, <2>2 DEF ExitInv
<1>5. CASE gracefulShutdown \/ exit
  <2>1. closeManager /\ UNCHANGED rpc BY <1>5 DEF gracefulShutdown, exit
  <2>2. /\ \A d \in Discrs : sessions'[d] = Absent
        /\ \A q \in Reloaders : proc'[q].step = proc[q].step
    BY <2>1, CloseAllEffect DEF SamePlan
  <2>3. CASE gracefulShutdown BY <2>2, <2>3 DEF gracefulShutdown, ExitInv, Reloaders
  <2>4. CASE exit BY <2>1, <2>2, <2>4 DEF exit, ExitInv, Reloaders
  <2> QED BY <1>5, <2>3, <2>4
<1> QED BY <1>1, <1>2, <1>3, <1>4, <1>5 DEF Aside, Turning

-----------------------------------------------------------------------------
(* The inductive invariant of the daemon                                   *)

(* What the administrator, signals and clients did so far.                 *)
CountInv == edits \in 0..MaxEdits /\ signals \in 0..MaxSignals /\ calls \in 0..MaxCalls

(* The channel of the signals has one place.                               *)
ChannelInv == sigHUP \in BOOLEAN

DaemonInv ==
  ShapeInv /\ OwnInv /\ NoteInv /\ AccountInv /\ PlanInv /\ ExitInv /\ CountInv /\ ChannelInv

(* main has read the file, and nothing else has happened.                  *)
LEMMA DaemonInit == Init => DaemonInv
<1> SUFFICES ASSUME Init PROVE DaemonInv OBVIOUS
<1>1. PICK m : m = [Resting EXCEPT !.step = "overlay", !.cfg = file] OBVIOUS
<1>2. proc = [p \in Reloaders |-> IF p = "main" THEN m ELSE Resting] BY <1>1 DEF Init
<1>3. file \in FileSet BY DEF Init
<1>4. m = [step |-> "overlay", cfg |-> file, n |-> 0, build |-> {}, desired |-> {},
           destroy |-> {}, create |-> {}, alone |-> FALSE, skipped |-> FALSE]
  BY <1>1 DEF Resting
<1>5. m \in Procs /\ WorkShape(m) /\ m.step = "overlay" /\ m.destroy = {} /\ m.create = {}
  BY <1>3, <1>4, SMTT(60) DEF Procs, WorkShape
<1>6. Resting \in Procs /\ WorkShape(Resting) /\ Resting.step = "idle" /\ Resting.destroy = {}
      /\ Resting.create = {}
  <2>1. 0 \in 0..5 /\ NoFile \in FileSet \cup {NoFile} BY SMT
  <2>2. Resting \in Procs BY <2>1, SMTT(30) DEF Resting, Procs
  <2>3. /\ Resting.step = "idle" /\ Resting.desired = {} /\ Resting.destroy = {}
        /\ Resting.create = {}
    BY SMTT(30) DEF Resting
  <2> QED BY <2>2, <2>3 DEF WorkShape
<1>7. \A p \in Reloaders : /\ proc[p] \in Procs /\ WorkShape(proc[p])
                           /\ proc[p].step \in {"overlay", "idle"}
                           /\ proc[p].destroy = {} /\ proc[p].create = {}
  BY <1>2, <1>5, <1>6
<1>8. \A c \in Clients : rpc[c] = Idle /\ rpc[c].step = "idle" BY IdleShape DEF Init
<1>9. \A d \in Discrs : sessions[d] = Absent /\ senderPorts[d] = NoPort BY DEF Init
<1>10. ShapeInv
  <2>1. rpc \in [Clients -> Calls] /\ \A c \in Clients : CallShape(rpc[c])
    BY IdleShape DEF Init
  <2>2. proc \in [Reloaders -> Procs] BY <1>2, <1>7
  <2>3. sessions \in [Discrs -> Sessions] BY AbsentShape DEF Init
  <2>4. senderPorts \in [Discrs -> Ports \cup {NoPort}] BY DEF Init
  <2> QED BY <1>3, <1>7, <2>1, <2>2, <2>3, <2>4 DEF Init, ShapeInv
<1>11. \A p \in Reloaders : Held(p) = {} BY <1>7 DEF Held
<1>12. OwnInv
  <2>1. OpenInv BY <1>8, <1>9, <1>11, AbsentShape DEF OpenInv, Calling
  <2>2. SessionOwns BY <1>9, AbsentShape DEF SessionOwns
  <2>3. CallOwns BY <1>8 DEF CallOwns, Calling
  <2>4. ItemOwns BY <1>11 DEF ItemOwns
  <2> QED BY <2>1, <2>2, <2>3, <2>4 DEF OwnInv
<1>13. NoteInv BY <1>8, <1>9 DEF NoteInv
<1>14. AccountInv BY DEF Init, AccountInv
<1>15. PlanInv
  <2>1. KeyInv BY <1>9, AbsentShape DEF KeyInv, InTable, None
  <2> QED BY <1>7, <2>1 DEF PlanInv, Planned, Doomed, Converging
<1>16. ExitInv BY DEF Init, ExitInv
<1>17. CountInv BY DaemonAssumption, SMT DEF Init, CountInv
<1>18. ChannelInv BY DEF Init, ChannelInv
<1> QED BY <1>10, <1>12, <1>13, <1>14, <1>15, <1>16, <1>17, <1>18 DEF DaemonInv

(* Only edits, signals, RPCs and handleSIGHUP change the counters and the  *)
(* channel.                                                                *)
LEMMA CountersStay ==
  ASSUME [Next]_vars
  PROVE  \/ UNCHANGED <<edits, signals, sigHUP, calls>> \/ EditFile \/ HangUp \/ handleSIGHUP
         \/ \E c \in Clients : AddSession(c) \/ DeleteSession(c)
<1>1. ASSUME NEW p \in Reloaders, reload(p) PROVE UNCHANGED <<fileVars, calls>>
  BY <1>1 DEF reload, buildNext, ReconcileSessions, destroyNext, createNext, reconciled
<1>2. ASSUME NEW c \in Clients, handler(c) PROVE UNCHANGED <<fileVars, calls>>
  BY <1>2 DEF handler, createSessionWithSender, trackSenderPort, cleanupSender
<1>3. startOverlayReceivers \/ reloadConfig \/ hupStops => UNCHANGED <<fileVars, calls>>
  BY DEF startOverlayReceivers, reloadConfig, hupStops, fileVars
<1>4. Stop \/ gracefulShutdown \/ ShutdownServers \/ exit => UNCHANGED <<fileVars, calls>>
  BY DEF Stop, gracefulShutdown, ShutdownServers, exit
<1>5. UNCHANGED vars => UNCHANGED <<fileVars, calls>> BY DEF vars
<1>6. UNCHANGED <<fileVars, calls>> => UNCHANGED <<edits, signals, sigHUP, calls>> BY DEF fileVars
<1> QED BY <1>1, <1>2, <1>3, <1>4, <1>5, <1>6 DEF Next, System, Environment, Exited

(* The guards of EditFile, HangUp and the RPCs keep the bounds.            *)
LEMMA CountStep == CountInv /\ [Next]_vars => CountInv'
<1> SUFFICES ASSUME CountInv, [Next]_vars PROVE CountInv' OBVIOUS
<1>1. CASE EditFile BY <1>1, DaemonAssumption, SMT DEF EditFile, CountInv
<1>2. CASE HangUp BY <1>2, DaemonAssumption, SMT DEF HangUp, CountInv
<1>3. ASSUME NEW c \in Clients, AddSession(c) \/ DeleteSession(c) PROVE CountInv'
  <2>1. calls < MaxCalls /\ calls' = calls + 1 /\ UNCHANGED <<edits, signals>>
    BY <1>3 DEF AddSession, DeleteSession, Serving, fileVars
  <2> QED BY <2>1, DaemonAssumption, SMT DEF CountInv
<1>4. CASE handleSIGHUP BY <1>4 DEF handleSIGHUP, CountInv
<1>5. CASE UNCHANGED <<edits, signals, sigHUP, calls>> BY <1>5 DEF CountInv
<1> QED BY <1>1, <1>2, <1>3, <1>4, <1>5, CountersStay

(* Signals fill the channel and handleSIGHUP empties it.                   *)
LEMMA ChannelStep == ChannelInv /\ [Next]_vars => ChannelInv'
<1> SUFFICES ASSUME ChannelInv, [Next]_vars PROVE ChannelInv' OBVIOUS
<1>1. EditFile \/ HangUp \/ handleSIGHUP => sigHUP' = sigHUP \/ sigHUP' = TRUE \/ sigHUP' = FALSE
  BY DEF EditFile, HangUp, handleSIGHUP
<1>2. ASSUME NEW c \in Clients, AddSession(c) \/ DeleteSession(c) PROVE sigHUP' = sigHUP
  BY <1>2 DEF AddSession, DeleteSession, fileVars
<1> QED BY <1>1, <1>2, CountersStay DEF ChannelInv

(* The steps by who takes them.                                            *)
LEMMA DaemonSteps ==
  ASSUME [Next]_vars
  PROVE  \/ \E p \in Reloaders : reload(p)
         \/ \E c \in Clients : handler(c) \/ AddSession(c) \/ DeleteSession(c)
         \/ Aside \/ Turning \/ gracefulShutdown \/ exit
BY DEF Next, System, Environment, Exited, Aside, Turning

(* Every step keeps the invariant.                                         *)
LEMMA DaemonStep == DaemonInv /\ [Next]_vars => DaemonInv'
<1> SUFFICES ASSUME DaemonInv, [Next]_vars PROVE DaemonInv' OBVIOUS
<1>1. ShapeInv /\ OwnInv /\ NoteInv /\ AccountInv /\ PlanInv /\ ExitInv BY DEF DaemonInv
<1>2. CountInv' /\ ChannelInv' BY CountStep, ChannelStep DEF DaemonInv
<1>3. ASSUME NEW p \in Reloaders, reload(p) PROVE DaemonInv'
  <2>1. ShapeInv' /\ OwnInv' /\ NoteInv'
    BY <1>1, <1>3, ShapeReload, OwnReload, NoteReload
  <2>2. AccountInv' /\ PlanInv' /\ ExitInv'
    BY <1>1, <1>3, AccountReload, PlanReload, ExitReload
  <2> QED BY <1>2, <2>1, <2>2 DEF DaemonInv
<1>4. ASSUME NEW c \in Clients, handler(c) \/ AddSession(c) \/ DeleteSession(c) PROVE DaemonInv'
  <2>1. ShapeInv' /\ OwnInv' /\ NoteInv'
    BY <1>1, <1>4, ShapeCall, OwnCall, NoteCall
  <2>2. AccountInv' /\ PlanInv' /\ ExitInv'
    BY <1>1, <1>4, AccountCall, PlanCall, ExitCall
  <2> QED BY <1>2, <2>1, <2>2 DEF DaemonInv
<1>5. CASE Aside \/ Turning \/ gracefulShutdown \/ exit
  <2>1. ShapeInv' /\ OwnInv' /\ NoteInv'
    BY <1>1, <1>5, ShapeOther, OwnOther, NoteOther
  <2>2. AccountInv' /\ PlanInv' /\ ExitInv'
    BY <1>1, <1>5, AccountOther, PlanOther, ExitOther
  <2> QED BY <1>2, <2>1, <2>2 DEF DaemonInv
<1> QED BY <1>3, <1>4, <1>5, DaemonSteps

(* Start-up, reloads, RPCs and the shutdown keep the invariant.            *)
THEOREM DaemonInvariant == Spec => []DaemonInv
BY DaemonInit, DaemonStep, PTL DEF Spec

(* The variables have their types, and the senders are open sockets on     *)
(* allocated ports of the range (factory.go).                              *)
THEOREM DaemonTyped == Spec => []TypeOK
<1>1. DaemonInv => TypeOK
  <2> SUFFICES ASSUME DaemonInv PROVE TypeOK OBVIOUS
  <2>1. ShapeInv /\ CountInv BY DEF DaemonInv
  <2> DEFINE Full == [tab : {"bfd", "echo"}, key : Keys, sender : Ports \cup {Overlay, Closed}]
  <2>2. Sessions \subseteq {Absent} \cup Full BY DEF Sessions, Senders
  <2>3. sessions \in [Discrs -> {Absent} \cup Full] BY <2>1, <2>2 DEF ShapeInv
  <2>4. Len(Kinds) = 5 BY FiveKinds
  <2>5. \A p \in Reloaders :
          /\ proc[p].step \in {"overlay", "idle", "load", "build", "apply", "ready", "gone"}
          /\ proc[p].n \in 0..Len(Kinds) /\ proc[p].destroy \subseteq Discrs
          /\ proc[p].create \subseteq proc[p].desired
    BY <2>1, <2>4 DEF ShapeInv, Procs, WorkShape
  <2>6. \A c \in Clients : /\ rpc[c].step \in {"idle", "create", "track", "cleanup"}
                           /\ rpc[c].port \in Ports \cup {NoPort}
                           /\ rpc[c].discr \in Discrs \cup {NoDiscr}
    BY <2>1 DEF ShapeInv, Calls
  <2>7. sigHUP \in BOOLEAN BY DEF DaemonInv, ChannelInv
  <2> QED BY <2>1, <2>3, <2>5, <2>6, <2>7 DEF TypeOK, ShapeInv, CountInv
<1> QED BY <1>1, DaemonInvariant, PTL

(* No call and no reload closes the socket of a session that is still      *)
(* registered (server.go: DestroySession before cleanupSender).            *)
THEOREM SendersLive == Spec => []LiveSenders
<1>1. DaemonInv => LiveSenders
  <2> SUFFICES ASSUME DaemonInv, NEW d \in Discrs PROVE sessions[d].sender # Closed
    BY DEF LiveSenders
  <2>1. sessions[d] \in Sessions BY DEF DaemonInv, ShapeInv
  <2>2. sessions[d].sender = NoPort \/ sessions[d].sender \in Senders
    BY <2>1, AbsentShape DEF Sessions
  <2> QED BY <2>2, DaemonAssumption, SMT DEF Senders, NoPort, Overlay, Closed
<1> QED BY <1>1, DaemonInvariant, PTL

(* Sockets are lost in the places SendersAccounted names and nowhere else. *)
THEOREM SendersAlwaysAccounted == Spec => []SendersAccounted
<1>1. DaemonInv => SendersAccounted BY OneByOne DEF DaemonInv
<1> QED BY <1>1, DaemonInvariant, PTL

(* ReconcileSessions, when nobody interferes, leaves exactly the sessions  *)
(* that the file declares and that could be built and created.             *)
THEOREM ReloadsConverge == Spec => []ReloadConverges
<1>1. DaemonInv => ReloadConverges
  <2> SUFFICES ASSUME DaemonInv, NEW p \in Reloaders,
                      proc[p].step = "apply", proc[p].destroy = {}, proc[p].create = {},
                      proc[p].alone, kindOf(p) # "echo"
               PROVE  LET running == {sessions[d].key : d \in InTable("bfd")}
                      IN  /\ running \subseteq {i.key : i \in proc[p].desired}
                          /\ \A i \in proc[p].desired :
                               accepts(kindOf(p), i.terms) => i.key \in running
    BY DEF ReloadConverges
  <2>1. Converging(p) BY DEF DaemonInv, PlanInv
  <2>2. \A d \in InTable("bfd") : \E i \in proc[p].desired : i.key = sessions[d].key
    BY <2>1 DEF Converging
  <2>3. \A i \in proc[p].desired : accepts(kindOf(p), i.terms) =>
          \E d \in InTable("bfd") : sessions[d].key = i.key
    BY <2>1 DEF Converging
  <2> QED BY <2>2, <2>3
<1> QED BY <1>1, DaemonInvariant, PTL

(* The deferred Close stops what was created after the first one.          *)
THEOREM NothingLeftAtExit == Spec => []NothingRunsAtExit
<1>1. DaemonInv => NothingRunsAtExit BY DEF DaemonInv, ExitInv, NothingRunsAtExit
<1> QED BY <1>1, DaemonInvariant, PTL

(* Only destroyNext takes a session off the list of those to be destroyed. *)
LEMMA DestroyOnly ==
  ASSUME DaemonInv, [Next]_vars, NEW p \in Reloaders,
         NEW d \in proc[p].destroy, d \notin proc'[p].destroy
  PROVE  destroyNext(p)
<1>1. ShapeInv /\ OwnInv BY DEF DaemonInv
<1>2. proc[p].step = "apply" BY <1>1 DEF ShapeInv, WorkShape
<1>3. proc'[p].destroy # proc[p].destroy OBVIOUS
<1>4. ASSUME NEW q \in Reloaders, reload(q) PROVE destroyNext(p)
  <2>1. CASE buildNext(q) BY <1>1, <1>2, <1>3, <2>1, BuildEffect
  <2>2. CASE ReconcileSessions(q) BY <1>1, <1>2, <1>3, <2>2, ReconcileEffect
  <2>3. CASE destroyNext(q) BY <1>1, <1>3, <2>3, DestroyEffect DEF SamePlan
  <2>4. CASE createNext(q) BY <1>1, <1>3, <2>4, CreateEffect DEF SamePlan
  <2>5. CASE reconciled(q)
    <3>1. q = p BY <1>1, <1>3, <2>5, ReconciledTurns DEF Turns
    <3>2. proc[p].destroy = {} BY <2>5, <3>1 DEF reconciled
    <3> QED BY <3>2
  <2> QED BY <1>4, <2>1, <2>2, <2>3, <2>4, <2>5 DEF reload
<1>5. CASE proc' = touched(proc, None) BY <1>1, <1>3, <1>5, TouchAll DEF SamePlan
<1>6. CASE UNCHANGED proc BY <1>3, <1>6
<1>7. CASE Turning
  <2>1. CASE startOverlayReceivers
    <3>1. proc["main"].step = "overlay" BY <2>1 DEF startOverlayReceivers
    <3> QED BY <1>1, <1>2, <1>3, <2>1, <3>1, StartTurns DEF Turns
  <2>2. CASE handleSIGHUP \/ reloadConfig \/ hupStops
    BY <1>1, <1>2, <1>3, <2>2, HupTurns DEF Turns
  <2> QED BY <1>7, <2>1, <2>2 DEF Turning
<1>8. ASSUME NEW c \in Clients, handler(c) \/ AddSession(c) \/ DeleteSession(c)
      PROVE  proc' = touched(proc, None) \/ UNCHANGED proc
  BY <1>8 DEF handler, createSessionWithSender, registerSession, trackSenderPort, cleanupSender,
              AddSession, DeleteSession
<1>9. Aside => UNCHANGED proc BY DEF Aside, EditFile, HangUp, Stop, ShutdownServers, vars
<1>10. gracefulShutdown \/ exit => proc' = touched(proc, None)
  BY DEF gracefulShutdown, exit, closeManager
<1> QED BY <1>4, <1>5, <1>6, <1>7, <1>8, <1>9, <1>10, DaemonSteps

(* The text of an entry of a plain file is that of its session.            *)
LEMMA KeyIsText ==
  ASSUME NEW d \in Discrs, sessions[d].tab = "bfd", NEW e, e.key = sessions[d].key,
         e.kind = "member" \/ (e.kind = "session" /\ e.spelling = "canonical")
  PROVE  Text(e) = sessionText(d)
<1>1. sessionText(d) = <<"canonical", sessions[d].key>> BY DEF sessionText
<1>2. CASE e.kind = "member" BY <1>1, <1>2 DEF Text, memberKey
<1>3. CASE e.kind = "session" BY <1>1, <1>3 DEF Text, SessionKey
<1> QED BY <1>2, <1>3

(* No reload destroys a session that its file declares, whatever runs      *)
(* beside it ("Existing sessions are left untouched", reload.go).          *)
THEOREM DeclaredAlwaysKept == Spec => DeclaredKept
<1> DEFINE Keeps == \A p \in Reloaders, d \in Discrs :
             /\ d \in proc[p].destroy /\ d \notin proc'[p].destroy
             /\ Plain(proc[p].cfg, kindOf(p)) /\ ~proc[p].skipped
             => \A e \in proc[p].cfg.entries :
                  table(e.kind) = sessions[d].tab => e.key # sessions[d].key
<1>1. DaemonInv /\ [Next]_vars => Keeps
  <2> SUFFICES ASSUME DaemonInv, [Next]_vars, NEW p \in Reloaders, NEW d \in Discrs,
                      d \in proc[p].destroy, d \notin proc'[p].destroy,
                      Plain(proc[p].cfg, kindOf(p)), ~proc[p].skipped,
                      NEW e \in proc[p].cfg.entries,
                      table(e.kind) = sessions[d].tab, e.key = sessions[d].key
               PROVE  FALSE
    OBVIOUS
  <2>1. proc[p].step = "apply" BY DestroyOnly DEF destroyNext
  <2>2. Planned(proc[p]) /\ Doomed(p) BY DEF DaemonInv, PlanInv
  <2>3. kindOf(p) \in {"session", "member"} /\ e.kind \in {kindOf(p), "echo"}
        /\ (e.kind = "session" => e.spelling = "canonical")
    BY DEF Plain
  <2>4. sessions[d] # Absent BY AbsentShape DEF table, None
  <2>5. /\ sessions[d].tab = table(kindOf(p))
        /\ \A i \in proc[p].desired : i.text # sessionText(d)
    BY <2>2, <2>4 DEF Doomed
  <2>6. sessions[d].tab = "bfd" BY <2>3, <2>5 DEF table
  <2>7. e.kind = kindOf(p) BY <2>3, <2>6 DEF table
  <2>8. Text(e) = sessionText(d) BY <2>3, <2>6, <2>7, KeyIsText
  <2>9. e \in entriesOf(proc[p].cfg, Kinds[proc[p].n]) BY <2>7 DEF entriesOf, kindOf
  <2>10. proc[p].build = {} BY <2>1, <2>2 DEF Planned
  <2>11. \E i \in proc[p].desired : i.text = Text(e) BY <2>1, <2>2, <2>9, <2>10 DEF Planned
  <2> QED BY <2>5, <2>8, <2>11
<1>2. Spec => [][Next]_vars BY PTL DEF Spec
<1> QED BY <1>1, <1>2, DaemonInvariant, PTL DEF DeclaredKept
=============================================================================
