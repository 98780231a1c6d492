---------------------------- MODULE PathBiasParams ----------------------------
(* The path bias tunables of circuitbuild.c: each getter takes the torrc  *)
(* option when it is set to an acceptable value and otherwise the         *)
(* consensus parameter, clamped by networkstatus_get_param.  Rates are     *)
(* kept in hundredths: an option rate of 0.70 is 70, the unset default     *)
(* -1.0 is -100, and a consensus percentage divided by 100.0 is the        *)
(* percentage itself.  A consensus parameter is a sequence: <<>> when the *)
(* consensus does not carry it, <<v>> when it carries v.                   *)
EXTENDS Integers, Sequences

INT32_MAX == 2147483647

(* networkstatus_get_param (networkstatus.c): the default when the         *)
(* parameter is absent, else its value clamped into [lo, hi].              *)
networkstatus_get_param(p, dflt, lo, hi) ==
  IF p = <<>> THEN dflt
  ELSE IF p[1] < lo THEN lo
  ELSE IF p[1] > hi THEN hi
  ELSE p[1]

(* An integer tunable: the option if it is at least floor, else the      *)
(* consensus parameter.  A rate: the option if it is not negative, else   *)
(* the consensus percentage (already in hundredths).                       *)
IntTunable(opt, p, floor, dflt) ==
  IF opt >= floor THEN opt ELSE networkstatus_get_param(p, dflt, floor, INT32_MAX)
RateTunable(opt, p, dflt) ==
  IF opt >= 0 THEN opt ELSE networkstatus_get_param(p, dflt, 0, 100)

pathbias_get_min_circs(opt, p)       == IntTunable(opt, p, 5, 150)
pathbias_get_notice_rate(opt, p)     == RateTunable(opt, p, 70)
pathbias_get_warn_rate(opt, p)       == RateTunable(opt, p, 50)
pathbias_get_extreme_rate(opt, p)    == RateTunable(opt, p, 30)
pathbias_get_dropguards(opt, p)      ==
  IF opt >= 0 THEN opt ELSE networkstatus_get_param(p, 0, 0, 1)
pathbias_get_scale_threshold(opt, p) == IntTunable(opt, p, 10, 300)
pathbias_get_min_use(opt, p)         == IntTunable(opt, p, 3, 20)
pathbias_get_notice_use_rate(opt, p) == RateTunable(opt, p, 80)
pathbias_get_extreme_use_rate(opt, p) == RateTunable(opt, p, 60)
pathbias_get_scale_use_threshold(opt, p) == IntTunable(opt, p, 10, 100)

(* pathbias_get_scale_ratio: pb_multfactor / pb_scalefactor, the          *)
(* numerator clamped into [1, denominator]; kept as the fraction.          *)
pathbias_get_scale_ratio(pf, pm) ==
  LET den == networkstatus_get_param(pf, 2, 2, INT32_MAX)
  IN  [mult |-> networkstatus_get_param(pm, 1, 1, den), den |-> den]

=============================================================================
