------------------------------- MODULE Daemon -------------------------------
(***************************************************************************)
(* The gobfd process: start-up and shutdown (cmd/gobfd/main.go and         *)
(* shutdown.go), the reload on SIGHUP (reload.go, overlay.go,              *)
(* micro_bfd.go), the senders and their source ports (factory.go and       *)
(* netio), and the RPCs that create and delete sessions                    *)
(* (internal/server).                                                      *)
(*                                                                         *)
(* main, the SIGHUP goroutine and the RPC handlers share one manager.  Its *)
(* calls are atomic here (module Manager opens them up).  The manager has  *)
(* two tables: one of echo sessions, and one that plain sessions, members  *)
(* of micro-BFD groups and overlay sessions share.  Fresh makes the same   *)
(* assumption about discriminators as modules Manager and Echo.            *)
(***************************************************************************)
EXTENDS Config, Sequences

CONSTANTS Keys,       \* peer, local address and interface
          Discrs,
          Ports,      \* RFC 5881 source ports
          FileSet,    \* what the administrator may write into the file
          Clients,    \* concurrent RPC handlers
          MaxEdits,   \* bound on edits of the file
          MaxSignals, \* bound on SIGHUPs
          MaxCalls    \* bound on RPCs

(* Zero is neither a port nor a discriminator, and Keys has all keys.      *)
ASSUME DaemonAssumption ==
  /\ Ports \subseteq Nat \ {0} /\ Discrs \subseteq Nat \ {0}
  /\ \A f \in FileSet : \A e \in f.entries : e.key \in Keys
  /\ MaxEdits \in Nat /\ MaxSignals \in Nat /\ MaxCalls \in Nat

VARIABLES file,          \* the configuration file
          edits,         \* how often it was written
          sigHUP,        \* channel of capacity one: whether a signal is in it
          signals,       \* SIGHUPs so far
          sessions,      \* both tables of the manager
          ports,         \* SourcePortAllocator
          senders,       \* ports of the open sockets of udpSenderFactory
          senderPorts,   \* the port the RPC server noted for a discriminator
          overlayConn,   \* the overlay backends that are running
          proc,          \* where main and the SIGHUP goroutine are
          rpc,           \* where each RPC handler is
          calls,         \* RPCs so far
          phase,         \* of the shutdown
          leaked         \* history: sockets whose last owner forgot them

fileVars == <<file, edits, sigHUP, signals>>
senderVars == <<ports, senders, senderPorts>>
vars == <<fileVars, sessions, senderVars, overlayConn, proc, rpc, calls, phase, leaked>>

None == "none"
NoFile == [entries |-> {}]
NoDiscr == 0
NoPort == 0
Overlay == -1   \* the sender that overlay sessions share
Closed == -2    \* a socket that CloseSender has closed
Reloaders == {"main", "hup"}

Absent == [tab |-> None, key |-> None, sender |-> NoPort]

table(kind) == IF kind = "echo" THEN "echo" ELSE "bfd"

InTable(tab) == {d \in Discrs : sessions[d].tab = tab}

entriesOf(cfg, kind) == {e \in cfg.entries : e.kind = kind}

-----------------------------------------------------------------------------
(* Reconciliation of one kind after the other                              *)

Resting == [step |-> "idle", cfg |-> NoFile, n |-> 0, build |-> {}, desired |-> {},
            destroy |-> {}, create |-> {}, alone |-> FALSE, skipped |-> FALSE]

(* The kinds from n on that are not skipped: the file has entries of them  *)
(* and, for overlays, the backend was started.                             *)
toReconcile(cfg, n, conns) ==
  {m \in n..Len(Kinds) : /\ entriesOf(cfg, Kinds[m]) # {}
                         /\ Kinds[m] \in {"vxlan", "geneve"} => Kinds[m] \in conns}

(* p turns to the next kind, or is done.                                   *)
advance(p, cfg, n, conns) ==
  LET left == toReconcile(cfg, n, conns)
      next == CHOOSE m \in left : \A k \in left : m <= k
  IN  IF left = {}
      THEN [Resting EXCEPT !.step = IF p = "main" THEN "ready" ELSE "idle"]
      ELSE [Resting EXCEPT !.step = "build", !.cfg = cfg, !.n = next,
                           !.build = entriesOf(cfg, Kinds[next])]

Idle == [step |-> "idle", key |-> None, port |-> NoPort, discr |-> NoDiscr]

Init ==
  /\ file \in {f \in FileSet : Validate(f)}
  /\ edits = 0 /\ signals = 0
  /\ sigHUP = FALSE
  /\ sessions = [d \in Discrs |-> Absent]
  /\ ports = {} /\ senders = {} /\ leaked = {}
  /\ senderPorts = [d \in Discrs |-> NoPort]
  /\ overlayConn = {}
  /\ proc = [p \in Reloaders |-> IF p = "main" THEN [Resting EXCEPT !.step = "overlay", !.cfg = file]
                                 ELSE Resting]
  /\ rpc = [c \in Clients |-> Idle]
  /\ calls = 0
  /\ phase = "up"

kindOf(p) == Kinds[proc[p].n]

(* Nobody else changed a table since p took its snapshot of the keys.      *)
touched(pr, p) == [q \in Reloaders |-> IF q = p THEN pr[q] ELSE [pr[q] EXCEPT !.alone = FALSE]]

-----------------------------------------------------------------------------
(* Sockets                                                                 *)

freePorts == Ports \ ports

(* The draw is random; which port it is makes no difference.               *)
Allocate == CHOOSE p \in freePorts : TRUE

(* After Release the port may be drawn again before the socket is closed,  *)
(* which SO_REUSEADDR permits.  A session that still has the socket can    *)
(* send no more.                                                           *)
CloseSender(p) ==
  /\ senders' = senders \ {p} /\ leaked' = leaked \ {p}
  /\ ports' = IF p \in senders THEN ports \ {p} ELSE ports
  /\ sessions' = [d \in Discrs |-> IF p \in senders /\ sessions[d].sender = p
                                  THEN [sessions[d] EXCEPT !.sender = Closed]
                                  ELSE sessions[d]]

(* The socket of a session that goes away without CloseSender.             *)
forgotten(d) == {sessions[d].sender} \cap Ports

Fresh(d) == /\ sessions[d] = Absent /\ senderPorts[d] = NoPort
            /\ \A p \in Reloaders : d \notin proc[p].destroy
            /\ \A c \in Clients : rpc[c].discr # d

(* Discrs bounds the sessions that are registered at a time.               *)
roomLeft == \E d \in Discrs : Fresh(d)

drawn == CHOOSE d \in Discrs : Fresh(d)

(* CreateSession refuses a second session of a key, CreateEchoSession not. *)
duplicate(tab, key) == tab = "bfd" /\ \E d \in InTable("bfd") : sessions[d].key = key

-----------------------------------------------------------------------------
(* Start-up and reload                                                     *)

(* One backend for each enabled overlay, bound to the local address of its *)
(* first peer, with a source port for the inner header.                    *)
startOverlayReceivers ==
  /\ proc["main"].step = "overlay"
  /\ LET cfg == proc["main"].cfg
         bindable == {k \in {"vxlan", "geneve"} : \E e \in entriesOf(cfg, k) : e.local = "ok"}
     IN  \E up \in SUBSET bindable, taken \in SUBSET freePorts :
           /\ Cardinality(up) = Cardinality(taken)
           /\ up = bindable \/ taken = freePorts
           /\ overlayConn' = up
           /\ ports' = ports \cup taken
           /\ proc' = [proc EXCEPT !["main"] = advance("main", cfg, 1, up)]
  /\ UNCHANGED <<fileVars, sessions, senders, senderPorts, rpc, calls, phase, leaked>>

EditFile ==
  /\ edits < MaxEdits /\ phase = "up"
  /\ file' \in FileSet \ {file}
  /\ edits' = edits + 1
  /\ UNCHANGED <<sigHUP, signals, sessions, senderVars, overlayConn, proc, rpc,
                 calls, phase, leaked>>

(* Delivered from startDaemonGoroutines on; with the channel full it is    *)
(* dropped.  One that comes after the context is cancelled is left out: it *)
(* can only repeat what one that is still pending then does.               *)
HangUp ==
  /\ proc["main"].step # "overlay" /\ phase = "up"
  /\ signals < MaxSignals
  /\ sigHUP' = TRUE
  /\ signals' = signals + 1
  /\ UNCHANGED <<file, edits, sessions, senderVars, overlayConn, proc, rpc, calls,
                 phase, leaked>>

handleSIGHUP ==
  /\ proc["main"].step # "overlay" /\ proc["hup"].step = "idle" /\ sigHUP
  /\ sigHUP' = FALSE
  /\ proc' = [proc EXCEPT !["hup"].step = "load"]
  /\ UNCHANGED <<file, edits, signals, sessions, senderVars, overlayConn, rpc,
                 calls, phase, leaked>>

(* A file that cannot be loaded ends the reload.                           *)
reloadConfig ==
  /\ proc["hup"].step = "load"
  /\ proc' = [proc EXCEPT !["hup"] = IF Validate(file) THEN advance("hup", file, 1, overlayConn)
                                     ELSE Resting]
  /\ UNCHANGED <<file, edits, sigHUP, signals, sessions, senderVars, overlayConn, rpc,
                 calls, phase, leaked>>

(* reconcileSessions and its siblings build the desired set: one entry is  *)
(* converted and, unless it is an overlay, given a sender of its own, also *)
(* when its session exists already.  An entry that fails is left out.      *)
buildNext(p) ==
  /\ proc[p].step = "build"
  /\ proc[p].build # {}
  /\ LET e == CHOOSE e \in proc[p].build : TRUE
         overlay == e.kind \in {"vxlan", "geneve"}
         ok == /\ converts(proc[p].cfg, e)
               /\ overlay \/ (senderBinds(e) /\ freePorts # {})
         sender == IF overlay THEN Overlay ELSE Allocate
         item == [text |-> Text(e), key |-> e.key, terms |-> terms(proc[p].cfg, e),
                  sender |-> sender]
     IN  /\ proc' = [proc EXCEPT ![p].build = @ \ {e},
                                 ![p].desired = IF ok THEN @ \cup {item} ELSE @,
                                 ![p].skipped = @ \/ ~ok]
         /\ ports' = IF ok /\ ~overlay THEN ports \cup {sender} ELSE ports
         /\ senders' = IF ok /\ ~overlay THEN senders \cup {sender} ELSE senders
  /\ UNCHANGED <<fileVars, sessions, senderPorts, overlayConn, rpc, calls, phase, leaked>>

(* sessionKeySet and echoSessionKeySet: the text of a running session.     *)
sessionText(d) == IF sessions[d].tab = "echo" THEN <<"echo", "canonical", sessions[d].key>>
                  ELSE <<"canonical", sessions[d].key>>

(* One discriminator for each key of the table.                            *)
sessionKeySets(tab) ==
  {s \in SUBSET InTable(tab) :
     /\ \A d \in InTable(tab) : \E e \in s : sessions[e].key = sessions[d].key
     /\ \A d, e \in s : sessions[d].key = sessions[e].key => d = e}

(* Every running session is destroyed and created again.                   *)
MutReconcileSessions(p) ==
  /\ proc[p].step = "build" /\ proc[p].build = {}
  /\ IF kindOf(p) = "member" /\ proc[p].desired = {}
     THEN /\ proc' = [proc EXCEPT ![p] = advance(p, @.cfg, @.n + 1, overlayConn)]
          /\ UNCHANGED leaked
     ELSE \E current \in sessionKeySets(table(kindOf(p))) :
            /\ proc' = [proc EXCEPT ![p].step = "apply", ![p].alone = TRUE,
                          ![p].destroy = current, ![p].create = proc[p].desired]
            /\ UNCHANGED leaked
  /\ UNCHANGED <<fileVars, sessions, senderVars, overlayConn, rpc, calls, phase>>

(* ReconcileSessions and ReconcileEchoSessions compare the keys; only      *)
(* reconcileMicroBFDMemberSessions stops when nothing is desired.  The     *)
(* sender built for a session that exists is forgotten.                    *)
ReconcileSessions(p) ==
  /\ proc[p].step = "build" /\ proc[p].build = {}
  /\ IF kindOf(p) = "member" /\ proc[p].desired = {}
     THEN /\ proc' = [proc EXCEPT ![p] = advance(p, @.cfg, @.n + 1, overlayConn)]
          /\ UNCHANGED leaked
     ELSE \E current \in sessionKeySets(table(kindOf(p))) :
            LET wanted == {i.text : i \in proc[p].desired}
                running == {sessionText(d) : d \in current}
                exist == {i \in proc[p].desired : i.text \in running}
            IN  /\ proc' = [proc EXCEPT ![p].step = "apply", ![p].alone = TRUE,
                              ![p].destroy = {d \in current : sessionText(d) \notin wanted},
                              ![p].create = proc[p].desired \ exist]
                /\ leaked' = leaked \cup ({i.sender : i \in exist} \cap Ports)
  /\ UNCHANGED <<fileVars, sessions, senderVars, overlayConn, rpc, calls, phase>>

(* DestroySession: the socket stays open.                                  *)
destroyNext(p) ==
  /\ proc[p].step = "apply"
  /\ \E d \in proc[p].destroy :
       /\ sessions' = [sessions EXCEPT ![d] = Absent]
       /\ leaked' = leaked \cup forgotten(d)
       /\ proc' = LET pr == [proc EXCEPT ![p].destroy = @ \ {d}]
                  IN  IF sessions[d] = Absent THEN pr ELSE touched(pr, p)
  /\ UNCHANGED <<fileVars, senderVars, overlayConn, rpc, calls, phase>>

(* The first session that cannot be created ends the loop.                 *)
MutCreateNext(p) ==
  /\ proc[p].step = "apply" /\ proc[p].destroy = {}
  /\ \E i \in proc[p].create :
       LET tab == table(kindOf(p))
       IN  IF duplicate(tab, i.key) \/ ~accepts(kindOf(p), i.terms)
           THEN /\ proc' = [proc EXCEPT ![p].create = {}]
                /\ leaked' = leaked \cup ({j.sender : j \in proc[p].create} \cap Ports)
                /\ UNCHANGED sessions
           ELSE /\ roomLeft
                /\ sessions' = [sessions EXCEPT ![drawn] = [tab |-> tab, key |-> i.key,
                                                             sender |-> i.sender]]
                /\ proc' = touched([proc EXCEPT ![p].create = @ \ {i}], p)
                /\ UNCHANGED leaked
  /\ UNCHANGED <<fileVars, senderVars, overlayConn, rpc, calls, phase>>

(* CreateSession; when it fails, the sender is forgotten and the loop goes *)
(* on.                                                                     *)
createNext(p) ==
  /\ proc[p].step = "apply" /\ proc[p].destroy = {}
  /\ \E i \in proc[p].create :
       LET tab == table(kindOf(p))
       IN  IF duplicate(tab, i.key) \/ ~accepts(kindOf(p), i.terms)
           THEN /\ proc' = [proc EXCEPT ![p].create = @ \ {i}]
                /\ leaked' = leaked \cup ({i.sender} \cap Ports)
                /\ UNCHANGED sessions
           ELSE /\ roomLeft
                /\ sessions' = [sessions EXCEPT ![drawn] = [tab |-> tab, key |-> i.key,
                                                             sender |-> i.sender]]
                /\ proc' = touched([proc EXCEPT ![p].create = @ \ {i}], p)
                /\ UNCHANGED leaked
  /\ UNCHANGED <<fileVars, senderVars, overlayConn, rpc, calls, phase>>

reconciled(p) ==
  /\ proc[p].step = "apply" /\ proc[p].destroy = {} /\ proc[p].create = {}
  /\ proc' = [proc EXCEPT ![p] = advance(p, @.cfg, @.n + 1, overlayConn)]
  /\ UNCHANGED <<fileVars, sessions, senderVars, overlayConn, rpc, calls, phase, leaked>>

-----------------------------------------------------------------------------
(* RPCs                                                                    *)

Serving == phase \in {"up", "stopping", "closed"} /\ calls < MaxCalls

(* AddSession: CreateSender, ...                                           *)
AddSession(c) ==
  /\ rpc[c].step = "idle" /\ Serving
  /\ calls' = calls + 1
  /\ \E k \in Keys :
       IF freePorts = {}
       THEN UNCHANGED <<ports, senders, rpc>>
       ELSE /\ ports' = ports \cup {Allocate}
            /\ senders' = senders \cup {Allocate}
            /\ rpc' = [rpc EXCEPT ![c] = [Idle EXCEPT !.step = "create", !.key = k,
                                                     !.port = Allocate]]
  /\ UNCHANGED <<fileVars, sessions, senderPorts, overlayConn, proc, phase, leaked>>

registerSession(c) ==
  /\ ~duplicate("bfd", rpc[c].key) /\ roomLeft
  /\ sessions' = [sessions EXCEPT ![drawn] = [tab |-> "bfd", key |-> rpc[c].key,
                                             sender |-> rpc[c].port]]
  /\ proc' = touched(proc, None)
  /\ rpc' = [rpc EXCEPT ![c].step = "track", ![c].discr = drawn]
  /\ UNCHANGED <<senders, ports, leaked>>

(* The sender of a refused session is forgotten.                           *)
MutCreateSessionWithSender(c) ==
  /\ rpc[c].step = "create"
  /\ \/ registerSession(c)
     \/ /\ rpc' = [rpc EXCEPT ![c] = Idle]
        /\ UNCHANGED <<sessions, senders, ports, proc, leaked>>
  /\ UNCHANGED <<fileVars, senderPorts, overlayConn, calls, phase>>

(* ... CreateSession, which may refuse what the client asked for, ...      *)
createSessionWithSender(c) ==
  /\ rpc[c].step = "create"
  /\ \/ registerSession(c)
     \/ /\ CloseSender(rpc[c].port)
        /\ rpc' = [rpc EXCEPT ![c] = Idle]
        /\ UNCHANGED proc
  /\ UNCHANGED <<fileVars, senderPorts, overlayConn, calls, phase>>

(* ... and the port is noted.                                              *)
trackSenderPort(c) ==
  /\ rpc[c].step = "track"
  /\ senderPorts' = [senderPorts EXCEPT ![rpc[c].discr] = rpc[c].port]
  /\ rpc' = [rpc EXCEPT ![c] = Idle]
  /\ UNCHANGED <<fileVars, sessions, ports, senders, overlayConn, proc, calls, phase, leaked>>

(* The sender is closed first and the session destroyed after it.          *)
MutDeleteSession(c) ==
  /\ rpc[c].step = "idle" /\ Serving
  /\ calls' = calls + 1
  /\ \E d \in InTable("bfd") :
       /\ rpc' = [rpc EXCEPT ![c] = [Idle EXCEPT !.step = "cleanup", !.discr = d]]
       /\ IF senderPorts[d] \in Ports THEN CloseSender(senderPorts[d])
          ELSE UNCHANGED <<sessions, ports, senders, leaked>>
       /\ proc' = touched(proc, None)
  /\ UNCHANGED <<fileVars, senderPorts, overlayConn, phase>>

(* DestroySession, ...                                                     *)
DeleteSession(c) ==
  /\ rpc[c].step = "idle" /\ Serving
  /\ calls' = calls + 1
  /\ \E d \in InTable("bfd") :
       /\ sessions' = [sessions EXCEPT ![d] = Absent]
       /\ rpc' = [rpc EXCEPT ![c] = [Idle EXCEPT !.step = "cleanup", !.discr = d]]
       /\ leaked' = IF senderPorts[d] = NoPort THEN leaked \cup forgotten(d) ELSE leaked
       /\ proc' = touched(proc, None)
  /\ UNCHANGED <<fileVars, senderVars, overlayConn, phase>>

(* ... then the noted port, if any, is given back.                         *)
cleanupSender(c) ==
  /\ rpc[c].step = "cleanup"
  /\ senderPorts' = [senderPorts EXCEPT ![rpc[c].discr] = NoPort]
  /\ IF senderPorts[rpc[c].discr] \in Ports
     THEN CloseSender(senderPorts[rpc[c].discr])
     ELSE UNCHANGED <<sessions, ports, senders, leaked>>
  /\ rpc' = [rpc EXCEPT ![c] = Idle]
  /\ UNCHANGED <<fileVars, overlayConn, proc, calls, phase>>

-----------------------------------------------------------------------------
(* Shutdown                                                                *)

(* SIGTERM, SIGINT, or a server that fails: the context is cancelled.      *)
Stop ==
  /\ phase = "up"
  /\ phase' = "stopping"
  /\ UNCHANGED <<fileVars, sessions, senderVars, overlayConn, proc, rpc, calls, leaked>>

closeManager ==
  /\ sessions' = [d \in Discrs |-> Absent]
  /\ leaked' = leaked \cup UNION {forgotten(d) : d \in Discrs}
  /\ proc' = touched(proc, None)

(* The goroutine is started when start-up is over.  It drains, waits and   *)
(* closes the manager: what is created before Close is stopped by it, and  *)
(* whoever is still running may create sessions afterwards.  What the      *)
(* drain does to a session is in modules Session and Link.                 *)
gracefulShutdown ==
  /\ phase = "stopping" /\ proc["main"].step = "ready"
  /\ phase' = "closed"
  /\ closeManager
  /\ UNCHANGED <<fileVars, senderVars, overlayConn, rpc, calls>>

(* http.Server.Shutdown: no new requests, and wait for those under way.    *)
ShutdownServers ==
  /\ phase = "closed"
  /\ phase' = "refusing"
  /\ UNCHANGED <<fileVars, sessions, senderVars, overlayConn, proc, rpc, calls, leaked>>

(* A break instead of the return: it leaves the select, not the loop.      *)
MutHupStops ==
  /\ phase # "up" /\ proc["hup"].step = "idle" /\ proc["main"].step # "overlay"
  /\ UNCHANGED vars

(* When a signal is pending as well, select takes either.                  *)
hupStops ==
  /\ phase # "up" /\ proc["hup"].step = "idle" /\ proc["main"].step # "overlay"
  /\ proc' = [proc EXCEPT !["hup"].step = "gone"]
  /\ UNCHANGED <<fileVars, sessions, senderVars, overlayConn, rpc, calls, phase, leaked>>

(* The deferred mgr.Close is left out.                                     *)
MutExit ==
  /\ phase = "refusing" /\ \A c \in Clients : rpc[c].step = "idle"
  /\ proc["hup"].step = "gone"
  /\ phase' = "exited"
  /\ UNCHANGED <<fileVars, sessions, senderVars, overlayConn, proc, rpc, calls, leaked>>

(* g.Wait returns, and the deferred mgr.Close of run stops what was        *)
(* created since the first one.                                            *)
exit ==
  /\ phase = "refusing" /\ \A c \in Clients : rpc[c].step = "idle"
  /\ proc["hup"].step = "gone"
  /\ phase' = "exited"
  /\ closeManager
  /\ UNCHANGED <<fileVars, senderVars, overlayConn, rpc, calls>>

Exited == phase = "exited" /\ UNCHANGED vars

-----------------------------------------------------------------------------
reload(p) == buildNext(p) \/ ReconcileSessions(p) \/ destroyNext(p) \/ createNext(p) \/ reconciled(p)

handler(c) == createSessionWithSender(c) \/ trackSenderPort(c) \/ cleanupSender(c)

(* What the process does by itself ...                                     *)
System ==
  \/ startOverlayReceivers \/ handleSIGHUP \/ reloadConfig \/ hupStops
  \/ gracefulShutdown \/ ShutdownServers \/ exit
  \/ \E p \in Reloaders : reload(p)
  \/ \E c \in Clients : handler(c)

(* ... and what is done to it.                                             *)
Environment ==
  \/ EditFile \/ HangUp \/ Stop
  \/ \E c \in Clients : AddSession(c) \/ DeleteSession(c)

Next == System \/ Environment \/ Exited

Spec == Init /\ [][Next]_vars

(* Some goroutine that can run does run.  With finitely many signals and   *)
(* RPCs this is all that is needed of the scheduler; nothing is assumed of *)
(* signals, edits and clients.                                             *)
FairSpec == Spec /\ WF_vars(System)

-----------------------------------------------------------------------------
(* Properties                                                              *)

(* Every sender is a socket on an allocated port of the range, and every   *)
(* step and index is one of those in use (cmd/gobfd/factory.go).           *)
TypeOK ==
  /\ file \in FileSet /\ sigHUP \in BOOLEAN
  /\ edits \in 0..MaxEdits /\ signals \in 0..MaxSignals
  /\ sessions \in [Discrs -> {Absent} \cup [tab : {"bfd", "echo"}, key : Keys,
                                           sender : Ports \cup {Overlay, Closed}]]
  /\ ports \subseteq Ports /\ senders \subseteq ports /\ leaked \subseteq senders
  /\ senderPorts \in [Discrs -> Ports \cup {NoPort}]
  /\ overlayConn \subseteq {"vxlan", "geneve"}
  /\ \A p \in Reloaders :
       /\ proc[p].step \in {"overlay", "idle", "load", "build", "apply", "ready", "gone"}
       /\ proc[p].n \in 0..Len(Kinds) /\ proc[p].destroy \subseteq Discrs
       /\ proc[p].create \subseteq proc[p].desired
  /\ \A c \in Clients : /\ rpc[c].step \in {"idle", "create", "track", "cleanup"}
                        /\ rpc[c].port \in Ports \cup {NoPort} /\ rpc[c].discr \in Discrs \cup {NoDiscr}
  /\ calls \in 0..MaxCalls
  /\ phase \in {"up", "stopping", "closed", "refusing", "exited"}

(* DeleteSession, the failure path of AddSession and a reload that runs    *)
(* between their steps never close the socket of a session that is still   *)
(* registered (server.go: DestroySession before cleanupSender).            *)
LiveSenders == \A d \in Discrs : sessions[d].sender # Closed

(* Every open socket belongs to a session, to a call or reload under way,  *)
(* or was lost in one of the places where the code is known to forget one: *)
(* a reload that finds the session or cannot create it, a session          *)
(* destroyed by something other than DeleteSession, DeleteSession before   *)
(* trackSenderPort.  There is no other leak.                               *)
SendersAccounted ==
  senders \subseteq
    leaked \cup {sessions[d].sender : d \in Discrs}
    \cup {rpc[c].port : c \in {c \in Clients : rpc[c].step \in {"create", "track"}}}
    \cup {senderPorts[rpc[c].discr] : c \in {c \in Clients : rpc[c].step = "cleanup"}}
    \cup UNION {{i.sender : i \in IF proc[p].step = "build" THEN proc[p].desired
                                 ELSE proc[p].create} : p \in Reloaders}

(* A reload that nobody else interferes with leaves, of the table it works *)
(* on, exactly the sessions that the file declares of that kind and that   *)
(* could be built and created: an entry that fails takes no other with it  *)
(* (ReconcileSessions accumulates errors).                                 *)
ReloadConverges ==
  \A p \in Reloaders :
    /\ proc[p].step = "apply" /\ proc[p].destroy = {} /\ proc[p].create = {}
    /\ proc[p].alone /\ kindOf(p) # "echo"
    => LET running == {sessions[d].key : d \in InTable("bfd")}
       IN  /\ running \subseteq {i.key : i \in proc[p].desired}
           /\ \A i \in proc[p].desired : accepts(kindOf(p), i.terms) => i.key \in running

(* All entries of the file that live in the shared table are of one kind   *)
(* whose keys can match those of running sessions.                         *)
Plain(cfg, kind) ==
  /\ kind \in {"session", "member"}
  /\ \A e \in cfg.entries : /\ e.kind \in {kind, "echo"}
                            /\ e.kind = "session" => e.spelling = "canonical"

(* With such a file, and when every entry could be built, a reload, at     *)
(* start-up or on SIGHUP and whatever runs beside it, destroys no session  *)
(* that its file declares ("Existing sessions are left untouched").        *)
DeclaredKept ==
  [][\A p \in Reloaders, d \in Discrs :
       /\ d \in proc[p].destroy /\ d \notin proc'[p].destroy
       /\ Plain(proc[p].cfg, kindOf(p)) /\ ~proc[p].skipped
       => \A e \in proc[p].cfg.entries :
            table(e.kind) = sessions[d].tab => e.key # sessions[d].key]_vars

(* Sessions that RPCs or a reload created after the first mgr.Close are    *)
(* stopped before the process ends (deferred mgr.Close in run).            *)
NothingRunsAtExit == phase = "exited" => \A d \in Discrs : sessions[d] = Absent

(* A cancelled context ends the process: start-up, a reload under way, the *)
(* RPC handlers and the shutdown goroutine do not wait for each other for  *)
(* ever (g.Wait in runServers).                                            *)
ShutdownCompletes == phase = "stopping" ~> phase = "exited"

(* "Sessions defined under sessions: are created on daemon startup and     *)
(* reconciled on SIGHUP reload" (docs/en/03-configuration.md): as long as  *)
(* the file is not edited and no RPC comes, every legal entry has its      *)
(* session once start-up is over.                                          *)
DeclaredRunning ==
  /\ phase = "up" /\ edits = 0 /\ calls = 0 /\ freePorts # {}
  /\ proc["main"].step = "ready" /\ proc["hup"].step = "idle"
  => \A e \in entriesOf(file, "session") :
       /\ converts(file, e) /\ senderBinds(e) /\ accepts("session", terms(file, e))
       => \E d \in InTable("bfd") : sessions[d].key = e.key

=============================================================================
