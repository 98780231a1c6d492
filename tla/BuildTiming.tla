---------------------------- MODULE BuildTiming -----------------------------
(***************************************************************************)
(* The build-time measurement of origin circuits: where timestamp_began is *)
(* set (the launch, the first create cell in circuit_deliver_create_cell,  *)
(* cannibalization in circuit_extend_to_new_exit), and the block of        *)
(* circuit_send_next_onion_skin that, when the last hop opens, measures    *)
(* the build with tor_gettimeofday, discards it as a clock jump outside    *)
(* [0, 2*close_ms+1000], and otherwise hands it to circuitstats.c.         *)
(*                                                                         *)
(* tor_gettimeofday is the wall clock `now`; it ticks with real time and   *)
(* may jump.  main.c reports a jump to circuit_note_clock_jumped only past *)
(* its own threshold, so whether a jump is reported is an input.  The      *)
(* ghost fields `created` (real time of the first create cell) and         *)
(* `jumped` (a jump happened since) let properties compare a recorded time *)
(* with the true one.  Path-bias accounting, modelled in CircuitBuild, and *)
(* the channel layer are left out: a channel is open at launch or not.     *)
(***************************************************************************)
EXTENDS Integers, Sequences

CONSTANTS
  Circs,        \* circuit slots
  CloseMs,      \* circ_times.close_ms, in clock units
  Slack,        \* the 1000 ms of the clock-jump filter, in clock units
  MaxTime,      \* bound on real time
  JumpSizes,    \* the jumps the wall clock may make (non-zero integers)
  MaxJumps,     \* bound on clock jumps
  MaxLaunch,    \* bound on circuit launches
  LaunchLens,   \* desired_path_len a launch may get from new_route_len
  CbtDisabled   \* circuit_build_times_disabled()

ASSUME CloseMs \in Nat /\ Slack \in Nat /\ MaxTime \in Nat /\ MaxJumps \in Nat
ASSUME JumpSizes \subseteq Int \ {0} /\ LaunchLens \subseteq Nat \ {0}
ASSUME CbtDisabled \in BOOLEAN

VARIABLES
  now,        \* the wall clock tor_gettimeofday reads
  real,       \* real time (ghost)
  jumps,      \* clock jumps so far
  launches,   \* circuits launched so far
  circ,       \* circ[c]: the origin circuit in slot c
  history,    \* every build time measured, with its fate (ghost)
  netSuccess  \* circuit_build_times_network_circ_success calls

vars == <<now, real, jumps, launches, circ, history, netSuccess>>

DEFAULT_ROUTE_LEN == 3

CircRec == [st: {"free", "chan_wait", "building", "open", "closed"},
            purpose: {"general", "measure"}, len: Nat, left: Nat,
            began: Int, opened: BOOLEAN, dirty: BOOLEAN, unusable: BOOLEAN,
            id: Nat, created: Nat, jumped: BOOLEAN]

Live(r) == r.st \in {"chan_wait", "building", "open"}

(* The outcomes of a measured build time. *)
Fates == {"clock_jump", "added", "not_live", "disabled"}

(* A slot with no circuit in it: never used, or freed after a close.     *)
Slot(st) == [st |-> st, purpose |-> "general", len |-> 0, left |-> 0, began |-> 0,
             opened |-> FALSE, dirty |-> FALSE, unusable |-> FALSE, id |-> 0,
             created |-> 0, jumped |-> FALSE]

Init ==
  /\ now = 0 /\ real = 0 /\ jumps = 0 /\ launches = 0
  /\ circ = [c \in Circs |-> Slot("free")]
  /\ history = <<>>
  /\ netSuccess = 0

(* Time passes: the wall clock follows real time. *)
Tick ==
  /\ real < MaxTime
  /\ real' = real + 1 /\ now' = now + 1
  /\ UNCHANGED <<jumps, launches, circ, history, netSuccess>>

(* circuit_timeout_want_to_count_circ: a first build of default length.   *)
circuit_timeout_want_to_count_circ(r) == ~r.opened /\ r.len = DEFAULT_ROUTE_LEN

(* Seeded fault for mutation analysis: the first create cell leaves        *)
(* timestamp_began at the launch.                                          *)
SendFirstCreateKeepsBegan(r) ==
  [r EXCEPT !.st = "building", !.created = real, !.jumped = FALSE]

(* circuit_deliver_create_cell for the first hop of r: timestamp_began is  *)
(* reset to the time the create cell goes out.                             *)
SendFirstCreate(r) ==
  [r EXCEPT !.st = "building", !.began = now, !.created = real, !.jumped = FALSE]

(* Seeded fault for mutation analysis: the clock-jump filter rejects a     *)
(* build time equal to its upper bound.                                    *)
ClockJumpAtEdge(timediff) == timediff < 0 \/ timediff >= 2 * CloseMs + Slack

(* The filter of circuit_send_next_onion_skin: a build time below zero or  *)
(* beyond twice the close timeout plus a second is taken for a clock jump. *)
ClockJumped(timediff) == timediff < 0 \/ timediff > 2 * CloseMs + Slack

(* The last hop of r opened (the no-hop-left branch of circuit_send_next_  *)
(* onion_skin): the circuit is open; a first build of default length is    *)
(* measured and, unless filtered, added to the histogram when the network  *)
(* is live (live) and counted as a network success unless it is a          *)
(* measurement circuit; circuit_has_opened sets has_opened; a measurement  *)
(* circuit is closed.  The result is the record, whether it was measured,  *)
(* the history entry, and whether the network success was noted.          *)
BuildDone(r, live) ==
  LET timediff == now - r.began
      want     == circuit_timeout_want_to_count_circ(r)
      fate     == CASE ClockJumped(timediff) -> "clock_jump"
                    [] CbtDisabled            -> "disabled"
                    [] live                   -> "added"
                    [] OTHER                  -> "not_live"
  IN  [rec      |-> IF r.purpose = "measure" THEN Slot("closed")
                     ELSE [r EXCEPT !.st = "open", !.left = 0, !.opened = TRUE],
       measured |-> want,
       entry    |-> [id |-> r.id, v |-> timediff, d |-> real - r.created,
                     jumped |-> r.jumped, fate |-> fate],
       success  |-> want /\ fate \in {"added", "not_live"} /\ r.purpose # "measure"]

(* circuit_establish_circuit with circuit_handle_first_hop: the circuit is *)
(* stamped at creation (origin_circuit_new); with an open channel the      *)
(* first create cell goes out at once (ok: no error), otherwise a channel  *)
(* is connected (ok: channel_connect_for_circuit returned one) and the     *)
(* circuit waits for it; an error closes the circuit.                      *)
Launch(c, len, purpose, chanOpen, ok) ==
  LET r0 == [st |-> "chan_wait", purpose |-> purpose, len |-> len, left |-> len,
             began |-> now, opened |-> FALSE, dirty |-> FALSE, unusable |-> FALSE,
             id |-> launches + 1, created |-> real, jumped |-> FALSE]
  IN  /\ launches < MaxLaunch
      /\ circ[c].st \in {"free", "closed"}
      /\ launches' = launches + 1
      /\ circ' = [circ EXCEPT ![c] =
                    IF ~ok THEN Slot("closed")
                    ELSE IF chanOpen THEN SendFirstCreate(r0) ELSE r0]
      /\ UNCHANGED <<now, real, jumps, history, netSuccess>>

(* circuit_n_chan_done for a circuit waiting on its channel: a failed      *)
(* channel closes it; otherwise the first create cell goes out (ok), or    *)
(* the error closes it.                                                    *)
circuit_n_chan_done(c, status, ok) ==
  /\ circ[c].st = "chan_wait"
  /\ circ' = [circ EXCEPT ![c] = IF status /\ ok THEN SendFirstCreate(@)
                                 ELSE Slot("closed")]
  /\ UNCHANGED <<now, real, jumps, launches, history, netSuccess>>

(* circuit_finish_handshake then circuit_send_next_onion_skin on a         *)
(* created/extended reply: the hop opens and the next extend goes out, or, *)
(* with no hop left, the build is done; a handshake or send error (~ok)    *)
(* closes the circuit.                                                     *)
circuit_finish_handshake(c, ok, live) ==
  LET r    == [circ[c] EXCEPT !.left = @ - 1]
      done == BuildDone(r, live)
  IN  /\ circ[c].st = "building"
      /\ IF ~ok
         THEN /\ circ' = [circ EXCEPT ![c] = Slot("closed")]
              /\ UNCHANGED <<history, netSuccess>>
         ELSE IF r.left > 0
         THEN /\ circ' = [circ EXCEPT ![c] = r]
              /\ UNCHANGED <<history, netSuccess>>
         ELSE /\ circ' = [circ EXCEPT ![c] = done.rec]
              /\ history' = IF done.measured THEN Append(history, done.entry) ELSE history
              /\ netSuccess' = IF done.success THEN netSuccess + 1 ELSE netSuccess
      /\ UNCHANGED <<now, real, jumps, launches>>

(* circuit_extend_to_new_exit on a clean open general circuit: restamped,  *)
(* one hop longer (circuit_append_new_exit), building again; the extend    *)
(* goes out (ok) or the circuit is closed.                                 *)
circuit_extend_to_new_exit(c, ok) ==
  LET r == circ[c]
  IN  /\ r.st = "open" /\ r.purpose = "general" /\ ~r.dirty /\ ~r.unusable
      /\ r.len <= DEFAULT_ROUTE_LEN
      /\ circ' = [circ EXCEPT ![c] =
                    IF ok THEN [r EXCEPT !.began = now, !.len = @ + 1, !.left = 1,
                                         !.st = "building"]
                    ELSE Slot("closed")]
      /\ UNCHANGED <<now, real, jumps, launches, history, netSuccess>>

(* A stream is attached to an open general circuit: it becomes dirty.      *)
AttachStream(c) ==
  /\ circ[c].st = "open" /\ circ[c].purpose = "general" /\ ~circ[c].unusable
  /\ circ' = [circ EXCEPT ![c].dirty = TRUE]
  /\ UNCHANGED <<now, real, jumps, launches, history, netSuccess>>

(* A live circuit is closed: truncated, destroyed, timed out or no longer  *)
(* wanted.                                                                 *)
Close(c) ==
  /\ Live(circ[c])
  /\ circ' = [circ EXCEPT ![c] = Slot("closed")]
  /\ UNCHANGED <<now, real, jumps, launches, history, netSuccess>>

(* The wall clock jumps by d.  If main.c reports it, circuit_note_clock_   *)
(* jumped closes every live circuit that never carried a stream            *)
(* (circuit_mark_all_unused_circs) and stops handing out the dirty ones    *)
(* (circuit_mark_all_dirty_circs_as_unusable).                             *)
ClockJump(d, reported) ==
  /\ jumps < MaxJumps
  /\ jumps' = jumps + 1
  /\ now' = now + d
  /\ circ' = [c \in Circs |->
                LET r == IF Live(circ[c]) THEN [circ[c] EXCEPT !.jumped = TRUE]
                         ELSE circ[c]
                IN  CASE ~reported \/ ~Live(r) -> r
                      [] ~r.dirty              -> Slot("closed")
                      [] OTHER                 -> [r EXCEPT !.unusable = TRUE]]
  /\ UNCHANGED <<real, launches, history, netSuccess>>

Next ==
  \/ Tick
  \/ \E c \in Circs, len \in LaunchLens, p \in {"general", "measure"},
        chanOpen, ok \in BOOLEAN : Launch(c, len, p, chanOpen, ok)
  \/ \E c \in Circs, status, ok \in BOOLEAN : circuit_n_chan_done(c, status, ok)
  \/ \E c \in Circs, ok, live \in BOOLEAN : circuit_finish_handshake(c, ok, live)
  \/ \E c \in Circs, ok \in BOOLEAN : circuit_extend_to_new_exit(c, ok)
  \/ \E c \in Circs : AttachStream(c) \/ Close(c)
  \/ \E d \in JumpSizes, reported \in BOOLEAN : ClockJump(d, reported)

Spec == Init /\ [][Next]_vars
-----------------------------------------------------------------------------
(* A build time handed to circuitstats.c for a build no clock jump         *)
(* disturbed is the real time from the first create cell to the last hop   *)
(* opening: timestamp_began is reset when the first create cell goes out,  *)
(* so the wait for the guard's channel is not counted, and a circuit that  *)
(* has opened (one cannibalized to the default length from a shorter one)  *)
(* is not measured from its new timestamp.                                 *)
SampleIsBuildTime ==
  \A i \in 1..Len(history) :
    history[i].fate = "added" /\ ~history[i].jumped => history[i].v = history[i].d

(* A build no clock jump disturbed is never discarded as a clock jump when *)
(* its real duration is within the filter's window, its bound included.    *)
GenuineBuildKept ==
  \A i \in 1..Len(history) :
    ~history[i].jumped /\ history[i].d <= 2 * CloseMs + Slack
      => history[i].fate # "clock_jump"

(* Spec 4.4, clock-jump hook: a clock jump invalidates the build-time      *)
(* statistics of circuits in flight, so no build time measured across a   *)
(* jump reaches the histogram.                                             *)
NoSampleAcrossJump ==
  \A i \in 1..Len(history) : history[i].fate = "added" => ~history[i].jumped
=============================================================================
