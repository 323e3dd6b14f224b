------------------------------ MODULE MCDaemon ------------------------------
(***************************************************************************)
(* Instances of Daemon for TLC.                                            *)
(***************************************************************************)
EXTENDS Daemon

Bfd == [mult |-> 3, tx |-> 20000, rx |-> 20000]
Defaults == [s \in {"bfd", "echo", "vxlan", "geneve"} |-> Bfd]

(* An entry as it should be, of a kind and a key.                          *)
Entry(kind, key) ==
  [kind |-> kind, key |-> key, spelling |-> "canonical", peerOK |-> TRUE, checksOK |-> TRUE,
   local |-> "ok", mult |-> 0, tx |-> 0, rx |-> 0]

File(entries) == [settingsOK |-> TRUE, align |-> TRUE, default |-> Defaults, entries |-> entries]

(* Entries that validation lets through: one that no session can be built  *)
(* from and that is spelled differently, one that CreateSession refuses.   *)
Wide == [Entry("session", "b") EXCEPT !.spelling = "other", !.mult = 300]
Negative == [Entry("session", "a") EXCEPT !.tx = -1]

ReloadFiles ==
  {File({Entry("session", "a")}),
   File({Entry("session", "b"), Negative, Wide}),
   File({Entry("vxlan", "a")}),
   [File({}) EXCEPT !.settingsOK = FALSE]}

MixedFiles == {File({Entry("session", "a"), Entry("member", "b")})}

(* While start-up is not over, either RPCs or signals come, not both.      *)
TwoAtATime == proc["main"].step # "ready" => calls = 0 \/ signals = 0
=============================================================================
