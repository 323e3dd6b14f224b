------------------------------ MODULE Registry ------------------------------
(***************************************************************************)
(* What the session manager promises its callers, whatever goroutines are  *)
(* inside it: a table from keys to discriminators, and the discriminators  *)
(* whose goroutine runs.  A session enters the table and starts in one     *)
(* step, under a key that has none and with a discriminator no goroutine   *)
(* still uses; it leaves the table first and stops later, except at        *)
(* Shutdown, which does both at once for every session.                    *)
(***************************************************************************)
CONSTANTS Keys, Discrs, Absent

VARIABLES table,   \* key -> discriminator of its session, or Absent
          alive    \* discriminators whose goroutine has not been cancelled

registryVars == <<table, alive>>

Listed == {table[k] : k \in {x \in Keys : table[x] # Absent}}

Init ==
  /\ table = [k \in Keys |-> Absent]
  /\ alive = {}

Open(k, d) ==
  /\ table[k] = Absent /\ d \notin alive
  /\ table' = [table EXCEPT ![k] = d]
  /\ alive' = alive \cup {d}

Forget(k) ==
  /\ table[k] # Absent
  /\ table' = [table EXCEPT ![k] = Absent]
  /\ UNCHANGED alive

Stop(d) ==
  /\ d \in alive \ Listed
  /\ alive' = alive \ {d}
  /\ UNCHANGED table

Shutdown ==
  /\ table' = [k \in Keys |-> Absent]
  /\ alive' = alive \ Listed

Next ==
  \/ \E k \in Keys, d \in Discrs : Open(k, d)
  \/ \E k \in Keys : Forget(k)
  \/ \E d \in Discrs : Stop(d)
  \/ Shutdown

Spec == Init /\ [][Next]_registryVars
=============================================================================
