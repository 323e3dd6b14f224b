------------------------------- MODULE Config -------------------------------
(***************************************************************************)
(* The configuration file: internal/config/config.go (validation), the     *)
(* conversions of cmd/gobfd (factory.go, reload.go, overlay.go,            *)
(* micro_bfd.go), and internal/bfd/intervals.go.                           *)
(*                                                                         *)
(* An entry of the file is a record.  key stands for the parsed peer,      *)
(* local address and interface; spelling says whether the text of the file *)
(* is the text netip.Addr.String gives back.  peerOK, checksOK: the peer   *)
(* parses; type, authentication, backend and VNI are legal.  local: the    *)
(* local address parses ("ok"), is omitted ("none") or is neither ("bad"). *)
(* A multiplier or interval of 0 is one the file leaves to the defaults.   *)
(* Intervals are in microseconds, the unit of the wire.  The echo, VXLAN   *)
(* and Geneve sections that are not enabled contribute no entries.         *)
(***************************************************************************)
EXTENDS Integers, FiniteSets

CONSTANT MaxWireInterval   \* the largest interval the wire format holds

ASSUME WireAssumption == MaxWireInterval \in Nat \ {0}

(* In the order in which reloadConfig reconciles them.                     *)
Kinds == <<"session", "echo", "member", "vxlan", "geneve">>

-----------------------------------------------------------------------------
(* RFC 7419                                                                *)

CommonIntervals == {3300, 10000, 20000, 50000, 100000, 1000000}

IsCommonInterval(d) == d \in CommonIntervals

AlignToCommonInterval(d) ==
  IF d <= 0 \/ \A ci \in CommonIntervals : d > ci
  THEN d
  ELSE CHOOSE ci \in CommonIntervals :
         d <= ci /\ \A other \in CommonIntervals : d <= other => ci <= other

absDuration(d) == IF d < 0 THEN -d ELSE d

NearestCommonInterval(d) ==
  IF d <= 0
  THEN 3300
  ELSE CHOOSE ci \in CommonIntervals :
         \A other \in CommonIntervals :
           \/ absDuration(d - ci) < absDuration(d - other)
           \/ absDuration(d - ci) = absDuration(d - other) /\ ci <= other

-----------------------------------------------------------------------------
(* Keys of entries, as texts: only the spelling can differ.                *)

SessionKey(e) == <<e.spelling, e.key>>

EchoSessionKey(e) == <<"echo", e.spelling, e.key>>

(* Built from parsed addresses.                                            *)
memberKey(e) == <<"canonical", e.key>>

OverlaySessionKey(e) == <<e.kind, e.spelling, e.key>>

Text(e) == CASE e.kind = "session" -> SessionKey(e)
             [] e.kind = "echo" -> EchoSessionKey(e)
             [] e.kind = "member" -> memberKey(e)
             [] OTHER -> OverlaySessionKey(e)

-----------------------------------------------------------------------------
(* Validation: a file that fails it is not loaded.                         *)

(* A multiplier of at least one is an empty demand on an unsigned number   *)
(* that is not zero.                                                       *)
validSession(e) == e.peerOK /\ e.checksOK

validEchoPeer(e) == e.peerOK

validOverlayPeer(e) == e.peerOK /\ e.checksOK /\ e.mult <= 255

validEntry(e) == CASE e.kind = "session" -> validSession(e)
                   [] e.kind = "echo" -> validEchoPeer(e)
                   [] e.kind \in {"vxlan", "geneve"} -> validOverlayPeer(e)
                   [] OTHER -> TRUE

(* settingsOK: the address of the RPC server and the GoBGP and actuator    *)
(* settings are legal.  The defaults of echo and overlay are not checked.  *)
Validate(file) ==
  /\ file.settingsOK
  /\ LET d == file.default["bfd"] IN d.mult >= 1 /\ d.tx > 0 /\ d.rx > 0
  /\ \A e \in file.entries : validEntry(e)
  /\ \A e, f \in file.entries :
       e.kind = f.kind /\ e.kind # "member" /\ Text(e) = Text(f) => e = f

-----------------------------------------------------------------------------
(* Conversion of an entry to the configuration of a session                *)

(* The section of the file that holds the defaults of a kind.              *)
section(kind) == IF kind \in {"session", "member"} THEN "bfd" ELSE kind

orDefault(v, default) == IF v = 0 THEN default ELSE v

align(file, d) == IF file.align THEN AlignToCommonInterval(d) ELSE d

(* The terms a session of the entry is created with.  Only plain sessions  *)
(* are aligned, and buildMemberSessions compares the multiplier with 255   *)
(* before the default, not after: uint8 wraps that one.                    *)
terms(file, e) ==
  LET default == file.default[section(e.kind)]
      mult == orDefault(e.mult, default.mult)
      tx == orDefault(e.tx, default.tx)
      rx == orDefault(e.rx, default.rx)
  IN  CASE e.kind = "session" -> [mult |-> mult, tx |-> align(file, tx),
                                  rx |-> align(file, rx)]
        [] e.kind = "echo" -> [mult |-> mult, tx |-> tx, rx |-> tx]
        [] e.kind = "member" -> [mult |-> mult % 256, tx |-> tx, rx |-> rx]
        [] OTHER -> [mult |-> mult, tx |-> tx, rx |-> rx]

configSessionToBFD(file, e) ==
  /\ e.peerOK /\ e.local # "bad"
  /\ terms(file, e).mult <= 255
  /\ e.checksOK

configEchoToBFD(file, e) ==
  /\ e.peerOK /\ e.local # "bad"
  /\ terms(file, e).mult <= 255

buildMemberSessions(file, e) == e.peerOK /\ e.local = "ok" /\ e.mult <= 255

buildOverlaySessionConfig(file, e) ==
  /\ e.peerOK /\ e.local # "bad"
  /\ terms(file, e).mult <= 255

(* The conversion of the entry succeeds.                                   *)
converts(file, e) == CASE e.kind = "session" -> configSessionToBFD(file, e)
                       [] e.kind = "echo" -> configEchoToBFD(file, e)
                       [] e.kind = "member" -> buildMemberSessions(file, e)
                       [] OTHER -> buildOverlaySessionConfig(file, e)

(* A UDP sender is bound to the local address: without one the listen      *)
(* address has no text that ListenPacket accepts.                          *)
senderBinds(e) == e.local = "ok"

(* The manager accepts the terms.                                          *)
validateSessionConfig(t) ==
  t.mult >= 1 /\ t.tx \in 1..MaxWireInterval /\ t.rx \in 1..MaxWireInterval

validateEchoConfig(t) == t.mult >= 1 /\ t.tx > 0

accepts(kind, t) == IF kind = "echo" THEN validateEchoConfig(t)
                    ELSE validateSessionConfig(t)

=============================================================================
