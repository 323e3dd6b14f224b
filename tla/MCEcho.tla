-------------------------------- MODULE MCEcho ------------------------------
(***************************************************************************)
(* An instance of Echo for TLC: one peer whose configuration is valid and  *)
(* one without an interval, which CreateEchoSession refuses.               *)
(***************************************************************************)
EXTENDS Echo

Interval == [a |-> 1, x |-> 0]
Files == {{"x"}, {"a", "x"}}
=============================================================================
