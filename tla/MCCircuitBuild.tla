--------------------------- MODULE MCCircuitBuild ---------------------------
(* Model of CircuitBuild for TLC: one guard, two circuit slots, consensus *)
(* parameters at the lowest values the getters allow so that measuring    *)
(* and scaling happen after a few circuits, and a guard whose history puts *)
(* it next to the thresholds.                                               *)
EXTENDS CircuitBuild, PathBiasParams

(* The path bias tunables as the getters compute them for a torrc that   *)
(* sets PathBiasUseThreshold 3, PathBiasNoticeUseRate 0.95,               *)
(* PathBiasExtremeUseRate 0.91 and PathBiasDropGuards 1, and a consensus  *)
(* carrying pb_mincircs=0, pb_scaleuse=1 and pb_multfactor=0 (each       *)
(* clamped up to its floor) and pb_scalecircs=10; the other rates and      *)
(* pb_scalefactor are the defaults.  PathBias's ASSUMEs check the results. *)
MCMinCircs      == pathbias_get_min_circs(-1, <<0>>)
MCNoticePct     == pathbias_get_notice_rate(-100, <<>>)
MCWarnPct       == pathbias_get_warn_rate(-100, <<>>)
MCExtremePct    == pathbias_get_extreme_rate(-100, <<>>)
MCScaleCircs    == pathbias_get_scale_threshold(-1, <<10>>)
MCMinUse        == pathbias_get_min_use(3, <<>>)
MCNoticeUsePct  == pathbias_get_notice_use_rate(95, <<>>)
MCExtremeUsePct == pathbias_get_extreme_use_rate(91, <<>>)
MCScaleUse      == pathbias_get_scale_use_threshold(-1, <<1>>)
MCMultFactor    == pathbias_get_scale_ratio(<<>>, <<0>>).mult
MCScaleFactor   == pathbias_get_scale_ratio(<<>>, <<0>>).den
MCDropGuards    == pathbias_get_dropguards(1, <<>>) = 1

(* Counters of the guard as loaded from the state file: every attempt so  *)
(* far succeeded, both for builds and for use; the close-success rate      *)
(* 3/10 sits at the extreme threshold (30%) and one more collapse crosses  *)
(* it; a single failed use brings the use-success rate below the use       *)
(* thresholds of the cfg (95% and 91%); one more attempt crosses the scale *)
(* thresholds.                                                             *)
MCSeed ==
  [circ_attempts |-> 10, circ_successes |-> 10, successful_circuits_closed |-> 3,
   collapsed_circuits |-> 3, unusable_circuits |-> 1, timeouts |-> 1,
   use_attempts |-> 10, use_successes |-> 10]
=============================================================================
