------------------------------ MODULE PathBias ------------------------------
(***************************************************************************)
(* The path-bias accountant of circuitbuild.c: the per-guard counters and  *)
(* the operations on one guard record (rate measurement, scaling, the      *)
(* attempt increment).  The operations that need the global circuit list   *)
(* (pathbias_count_circs_in_states) receive its result as an argument; the *)
(* module CircuitBuild computes it from its circuits and applies these     *)
(* operators inside its actions.                                           *)
(*                                                                         *)
(* Counters are doubles in the code.  Here they are integers in units of   *)
(* 1/Unit circuit, so one circuit is Unit and scaling by MultFactor /      *)
(* ScaleFactor stays exact; Exact aborts the run if it would not.          *)
(***************************************************************************)
EXTENDS Integers, TLC

CONSTANTS
  MinCircs,       \* pathbias_get_min_circs      (pb_mincircs,   >= 5)
  NoticePct,      \* pathbias_get_notice_rate    (pb_noticepct,  percent)
  WarnPct,        \* pathbias_get_warn_rate      (pb_warnpct)
  ExtremePct,     \* pathbias_get_extreme_rate   (pb_extremepct)
  ScaleCircs,     \* pathbias_get_scale_threshold (pb_scalecircs, >= 10)
  MinUse,         \* pathbias_get_min_use        (pb_minuse,     >= 3)
  NoticeUsePct,   \* pathbias_get_notice_use_rate
  ExtremeUsePct,  \* pathbias_get_extreme_use_rate
  ScaleUse,       \* pathbias_get_scale_use_threshold (pb_scaleuse, >= 10)
  MultFactor,     \* pb_multfactor, numerator of the scale ratio
  ScaleFactor,    \* pb_scalefactor, denominator of the scale ratio
  DropGuards,     \* pathbias_get_dropguards
  Unit            \* fixed-point denominator of the counters

\* The clamps the getters apply to consensus parameters and options.
ASSUME MinCircs >= 5 /\ ScaleCircs >= 10 /\ MinUse >= 3 /\ ScaleUse >= 10
ASSUME ScaleFactor >= 2 /\ MultFactor \in 1..ScaleFactor
ASSUME \A p \in {NoticePct, WarnPct, ExtremePct, NoticeUsePct, ExtremeUsePct} :
         p \in 0..100
ASSUME DropGuards \in BOOLEAN /\ Unit \in Nat \ {0}

(* path_state_t, in the order of the enum; the code compares them with <.  *)
NEW_CIRC         == 0
BUILD_ATTEMPTED  == 1
BUILD_SUCCEEDED  == 2
USE_ATTEMPTED    == 3
USE_SUCCEEDED    == 4
USE_FAILED       == 5
ALREADY_COUNTED  == 6
PathStates == NEW_CIRC..ALREADY_COUNTED

Counters == {"circ_attempts", "circ_successes", "successful_circuits_closed",
             "collapsed_circuits", "unusable_circuits", "timeouts",
             "use_attempts", "use_successes"}
Flags == {"path_bias_noticed", "path_bias_warned", "path_bias_extreme",
          "path_bias_disabled", "path_bias_use_noticed", "path_bias_use_extreme"}

(* A guard record whose counters are the given whole-circuit counts and    *)
(* whose alert flags are clear: a record as entrynodes.c loads it.         *)
GuardRecord(cnt) ==
  [k \in Counters \cup Flags |-> IF k \in Counters THEN cnt[k] * Unit ELSE FALSE]

(* count/total < pct/100, the strict comparison the code relies on.        *)
RateBelow(count, total, pct) == 100 * count < pct * total

(* x * MultFactor / ScaleFactor, which the doubles compute exactly.        *)
Exact(x) ==
  IF (x * MultFactor) % ScaleFactor = 0
  THEN (x * MultFactor) \div ScaleFactor
  ELSE Assert(FALSE, "counter scaling not exact: increase Unit")

(* pathbias_measure_close_rate: cs is pathbias_get_close_success_count.    *)
pathbias_measure_close_rate(gr, cs) ==
  IF gr.circ_attempts <= MinCircs * Unit THEN gr
  ELSE IF RateBelow(cs, gr.circ_attempts, ExtremePct)
       THEN IF DropGuards THEN [gr EXCEPT !.path_bias_disabled = TRUE]
                          ELSE [gr EXCEPT !.path_bias_extreme = TRUE]
  ELSE IF RateBelow(cs, gr.circ_attempts, WarnPct)
       THEN [gr EXCEPT !.path_bias_warned = TRUE]
  ELSE IF RateBelow(cs, gr.circ_attempts, NoticePct)
       THEN [gr EXCEPT !.path_bias_noticed = TRUE]
  ELSE gr

(* pathbias_measure_use_rate: us is pathbias_get_use_success_count.        *)
pathbias_measure_use_rate(gr, us) ==
  IF gr.use_attempts <= MinUse * Unit THEN gr
  ELSE IF RateBelow(us, gr.use_attempts, ExtremeUsePct)
       THEN IF DropGuards THEN [gr EXCEPT !.path_bias_disabled = TRUE]
                          ELSE [gr EXCEPT !.path_bias_use_extreme = TRUE]
  ELSE IF RateBelow(us, gr.use_attempts, NoticeUsePct)
       THEN [gr EXCEPT !.path_bias_use_noticed = TRUE]
  ELSE gr

(* Seeded fault for mutation analysis: attempts scaled whole, open        *)
(* circuits included.                                                      *)
ScaleCloseAllAttempts(gr, oa, ob) ==
  IF gr.circ_attempts <= ScaleCircs * Unit THEN gr
  ELSE [gr EXCEPT
          !.circ_attempts  = Exact(@),
          !.circ_successes = Exact(@ - ob * Unit) + ob * Unit,
          !.timeouts                   = Exact(@),
          !.successful_circuits_closed = Exact(@),
          !.collapsed_circuits         = Exact(@),
          !.unusable_circuits          = Exact(@)]

(* pathbias_scale_close_rates: oa circuits are open in BUILD_ATTEMPTED and *)
(* ob in BUILD_SUCCEEDED..USE_FAILED; they are taken out of the counts,    *)
(* the closed history is scaled, and they are put back.                    *)
pathbias_scale_close_rates(gr, oa, ob) ==
  IF gr.circ_attempts <= ScaleCircs * Unit THEN gr
  ELSE [gr EXCEPT
          !.circ_attempts  = Exact(@ - (oa + ob) * Unit) + (oa + ob) * Unit,
          !.circ_successes = Exact(@ - ob * Unit) + ob * Unit,
          !.timeouts                   = Exact(@),
          !.successful_circuits_closed = Exact(@),
          !.collapsed_circuits         = Exact(@),
          !.unusable_circuits          = Exact(@)]

(* Seeded fault for mutation analysis: use attempts scaled whole.         *)
ScaleUseAllAttempts(gr, ou) ==
  IF gr.use_attempts <= ScaleUse * Unit THEN gr
  ELSE [gr EXCEPT !.use_attempts = Exact(@), !.use_successes = Exact(@)]

(* pathbias_scale_use_rates: ou circuits are open in USE_ATTEMPTED..       *)
(* USE_SUCCEEDED.                                                          *)
pathbias_scale_use_rates(gr, ou) ==
  IF gr.use_attempts <= ScaleUse * Unit THEN gr
  ELSE [gr EXCEPT !.use_attempts  = Exact(@ - ou * Unit) + ou * Unit,
                  !.use_successes = Exact(@)]

(* entry_guard_inc_circ_attempt_count: measure, refuse a disabled guard,   *)
(* scale, count.  The result's ok is FALSE when the code returns -1.       *)
entry_guard_inc_circ_attempt_count(gr, cs, oa, ob) ==
  LET measured == pathbias_measure_close_rate(gr, cs)
  IN  IF measured.path_bias_disabled
      THEN [ok |-> FALSE, guard |-> measured]
      ELSE [ok |-> TRUE,
            guard |-> [pathbias_scale_close_rates(measured, oa, ob)
                         EXCEPT !.circ_attempts = @ + Unit]]

(* The guard part of pathbias_count_use_attempt, run while the circuit is  *)
(* in BUILD_SUCCEEDED: measure, scale, count.                              *)
GuardUseAttempt(gr, us, ou) ==
  [pathbias_scale_use_rates(pathbias_measure_use_rate(gr, us), ou)
     EXCEPT !.use_attempts = @ + Unit]

(* Add one circuit to counter k.                                           *)
Bump(gr, k) == [gr EXCEPT ![k] = @ + Unit]
=============================================================================
