-------------------------- MODULE CircuitLifecycle --------------------------
(***************************************************************************)
(* What origin circuit construction promises, without cells, hops,        *)
(* channels or counters: each circuit slot is idle, building, open,        *)
(* probing (kept open for an end-of-life probe) or closed, and a circuit   *)
(* whose build counted for its guard carries a close tally that is         *)
(* pending until the circuit closes and then settled, exactly once.  A     *)
(* circuit handed to a purpose path bias ignores becomes exempt.           *)
(*                                                                         *)
(* Several circuits may move in one step (a channel event or a clock jump  *)
(* acts on all the circuits it concerns); each one moves along its own     *)
(* transition relation.                                                    *)
(***************************************************************************)
CONSTANT Circs

VARIABLES
  phase,  \* phase[c]: "idle", "building", "open", "probing" or "closed"
  tally   \* tally[c]: "none", "pending", "settled" or "exempt"

vars == <<phase, tally>>

Phases  == {"idle", "building", "open", "probing", "closed"}
Tallies == {"none", "pending", "settled", "exempt"}
Live    == {"building", "open", "probing"}

Init ==
  /\ phase = [c \in Circs |-> "idle"]
  /\ tally = [c \in Circs |-> "none"]

(* Each transition of one circuit: from <<phase, tally>> to the primed.    *)
(* A slot is launched, or launched and discarded at once, with no tally.   *)
Launch(p, t, p2, t2) == p \in {"idle", "closed"} /\ p2 \in {"building", "closed"} /\ t2 = "none"

(* The circuit opens; a first build success makes the tally pending.       *)
Open(p, t, p2, t2) ==
  /\ p = "building" /\ p2 = "open"
  /\ t2 \in IF t = "none" THEN {"none", "pending"} ELSE {t}

(* An open circuit is reused for a new exit, perhaps for an exempt purpose.*)
Reuse(p, t, p2, t2) ==
  /\ p = "open" /\ p2 = "building"
  /\ t2 \in IF t = "pending" THEN {"pending", "exempt"} ELSE {t}

(* An open circuit stays open for a probe instead of closing.              *)
Defer(p, t, p2, t2) == p = "open" /\ p2 = "probing" /\ t2 = t

(* A live circuit closes and its pending tally is settled.                 *)
Close(p, t, p2, t2) ==
  /\ p \in Live /\ p2 = "closed"
  /\ t2 = IF t = "pending" THEN "settled" ELSE t

(* A circuit built for measurement opens and is closed at once, its build  *)
(* success counted and settled in the same step.                           *)
OpenAndClose(p, t, p2, t2) ==
  p = "building" /\ p2 = "closed" /\ t \in {"none", "pending"} /\ t2 = "settled"

(* A reused circuit whose extend fails closes in the same step; a pending *)
(* tally is settled, or left unsettled if the new purpose is exempt.       *)
ReuseAndClose(p, t, p2, t2) ==
  /\ p = "open" /\ p2 = "closed"
  /\ t2 \in IF t = "pending" THEN {"settled", "exempt"} ELSE {t}

Moves(p, t, p2, t2) ==
  \/ Launch(p, t, p2, t2) \/ Open(p, t, p2, t2) \/ Reuse(p, t, p2, t2)
  \/ Defer(p, t, p2, t2) \/ Close(p, t, p2, t2) \/ OpenAndClose(p, t, p2, t2)
  \/ ReuseAndClose(p, t, p2, t2)

Step(c) == Moves(phase[c], tally[c], phase'[c], tally'[c])

Next ==
  /\ phase' \in [Circs -> Phases] /\ tally' \in [Circs -> Tallies]
  /\ \A c \in Circs : Step(c) \/ (phase'[c] = phase[c] /\ tally'[c] = tally[c])

Spec == Init /\ [][Next]_vars
=============================================================================
