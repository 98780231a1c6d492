---------------------------- MODULE CircuitBuild ----------------------------
(***************************************************************************)
(* Origin-side circuit construction of circuitbuild.c together with the   *)
(* path-bias accounting it drives.  Every circuit has a first hop at one   *)
(* of the entry guards, a cpath of hop states, a purpose and a path_state. *)
(* The guards' counters are the records of module PathBias.  Channels to  *)
(* the guards connect, open and close under the circuits.                 *)
(*                                                                         *)
(* Events that reach this file from the rest of Tor (created/extended and *)
(* truncated cells, stream attach and detach, the build timer, channel     *)
(* events, a clock jump, a local close) are the actions; each action is    *)
(* the whole handler, the mark-for-close with its pathbias_check_close     *)
(* included.                                                               *)
(***************************************************************************)
EXTENDS PathBias, SequencesExt, FiniteSets

CONSTANTS
  Circs,          \* circuit slots; a closed slot may be reused by a launch
  Guards,         \* entry guards (model values)
  Seed,           \* counters of every guard as loaded from the state file
  MaxLaunch,      \* bound on circuit_establish_circuit calls
  MaxHops,        \* bound on the cpath length reached by cannibalization
  NumAcceptable,  \* count_acceptable_nodes() of the consensus
  ProbeSendFaults \* whether the probe's relay send may fail (a fault)

ASSUME Seed \in [Counters -> Nat]
ASSUME MaxLaunch \in Nat /\ MaxHops \in Nat /\ NumAcceptable \in Nat
ASSUME ProbeSendFaults \in BOOLEAN

VARIABLES
  circ,      \* circ[c]: the origin circuit in slot c
  guard,     \* guard[g]: the entry_guard_t accounting record of g
  chan,      \* chan[g]: the client's channel to g
  launches   \* number of circuits launched so far

vars == <<circ, guard, chan, launches>>

CircStates == {"free", "chan_wait", "building", "open", "closed"}
HopStates  == {"closed", "awaiting", "open"}        \* CPATH_STATE_*
Purposes   == {"general", "measure", "intro", "pbtest"}
ChanStates == {"none", "connecting", "open"}
(* How a close reason looks to pathbias_check_close: with the REMOTE flag, *)
(* CHANNEL_CLOSED of a channel we did not close, or any other local reason.*)
Reasons    == {"remote", "chan_closed", "local"}
(* What the environment's part of pathbias_send_usable_probe may do.       *)
ProbeOutcomes == {"sent", "refused"} \cup (IF ProbeSendFaults THEN {"sendfail"} ELSE {})

CircRec == [st: CircStates, first: Guards, hops: Seq(HopStates),
            purpose: Purposes, onehop: BOOLEAN, ps: PathStates,
            opened: BOOLEAN, dirty: BOOLEAN, probe: BOOLEAN, unusable: BOOLEAN]

Live(r) == r.st \in {"chan_wait", "building", "open"}

(* pathbias_should_count: intro circuits and one-hop tunnels are ignored.  *)
pathbias_should_count(r) == r.purpose # "intro" /\ ~r.onehop

pathbias_is_new_circ_attempt(r) == Len(r.hops) > 1 /\ r.hops[2] = "awaiting"

(* Seeded fault for mutation analysis: the next hop taken as the first    *)
(* closed one, passing over a hop that awaits keys.                        *)
NextClosedHop(hops) == SelectInSeq(hops, LAMBDA h : h = "closed")

(* onion_next_hop_in_cpath: index of the first hop not open, 0 if none.    *)
onion_next_hop_in_cpath(hops) == SelectInSeq(hops, LAMBDA h : h # "open")

(* pathbias_count_circs_in_states over the circuit table cf.               *)
pathbias_count_circs_in_states(cf, g, from, to) ==
  Cardinality({c \in Circs : Live(cf[c]) /\ cf[c].first = g
                             /\ cf[c].ps \in from..to
                             /\ pathbias_should_count(cf[c])})

pathbias_get_close_success_count(gr, cf, g) ==
  gr.successful_circuits_closed
    + Unit * pathbias_count_circs_in_states(cf, g, BUILD_SUCCEEDED, USE_SUCCEEDED)

pathbias_get_use_success_count(gr, cf, g) ==
  gr.use_successes
    + Unit * pathbias_count_circs_in_states(cf, g, USE_ATTEMPTED, USE_SUCCEEDED)

(* entry_guard_inc_circ_attempt_count with the open-circuit counts of cf. *)
IncAttempt(gr, cf, g) ==
  entry_guard_inc_circ_attempt_count(gr,
     pathbias_get_close_success_count(gr, cf, g),
     pathbias_count_circs_in_states(cf, g, BUILD_ATTEMPTED, BUILD_ATTEMPTED),
     pathbias_count_circs_in_states(cf, g, BUILD_SUCCEEDED, USE_FAILED))

(* pathbias_count_use_attempt for circuit c of table cf: measure and scale *)
(* while c is still BUILD_SUCCEEDED, then move c to USE_ATTEMPTED.         *)
pathbias_count_use_attempt(cf, c, gr) ==
  IF pathbias_should_count(cf[c]) /\ cf[c].ps = BUILD_SUCCEEDED
  THEN [rec |-> [cf[c] EXCEPT !.ps = USE_ATTEMPTED],
        gr  |-> GuardUseAttempt(gr,
                   pathbias_get_use_success_count(gr, cf, cf[c].first),
                   pathbias_count_circs_in_states(cf, cf[c].first,
                                                  USE_ATTEMPTED, USE_SUCCEEDED))]
  ELSE [rec |-> cf[c], gr |-> gr]

(* What pathbias_send_usable_probe does for r when the environment's part *)
(* of it turns out as po: "sent" (a stream id was free and the BEGIN cell  *)
(* went out), "refused" (it returned -1 with no side effect that matters:  *)
(* no free stream id), or "sendfail" (relay_send_command_from_edge failed   *)
(* after the purpose and the probe id were set).  The code's own early     *)
(* returns come first: the last hop not open, a probe already outstanding, *)
(* the channel not open.                                                   *)
pathbias_send_usable_probe(r, ch, po) ==
  IF /\ r.hops[Len(r.hops)] = "open"
     /\ ~(r.purpose = "pbtest" /\ r.probe)
     /\ ch[r.first] = "open"
  THEN po ELSE "refused"

(* pathbias_check_close defers the close: the probe went out.              *)
Deferred(r, po) ==
  pathbias_should_count(r) /\ r.ps = USE_ATTEMPTED /\ po = "sent"

(* How many times each counter is bumped: once for each counter of ks.     *)
Tally(ks) == [k \in Counters |-> IF k \in ks THEN 1 ELSE 0]

(* pathbias_count_use_success: the counters a close in USE_SUCCEEDED adds  *)
(* to use_successes; nothing for a circuit path bias ignores, or one in a  *)
(* strange path state (the code only logs it).                             *)
pathbias_count_use_success(r) ==
  IF pathbias_should_count(r) /\ r.ps = USE_SUCCEEDED THEN {"use_successes"} ELSE {}

(* Seeded fault for mutation analysis: a USE_ATTEMPTED circuit is counted *)
(* unusable even when its close is deferred into a probe.                  *)
BumpsBeforeProbe(r, reason, po) ==
  IF ~pathbias_should_count(r) THEN Tally({})
  ELSE CASE r.ps = BUILD_SUCCEEDED ->
              IF reason \in {"remote", "chan_closed"}
              THEN Tally({"collapsed_circuits"})
              ELSE Tally({"successful_circuits_closed"})
         [] r.ps \in {USE_ATTEMPTED, USE_FAILED} -> Tally({"unusable_circuits"})
         [] r.ps = USE_SUCCEEDED ->
              Tally({"successful_circuits_closed"} \cup pathbias_count_use_success(r))
         [] OTHER -> Tally({})

(* The counters pathbias_check_close bumps for r closing for reason, with  *)
(* the probe outcome po.  When the probe's relay send fails, relay.c marks *)
(* the circuit for close from inside pathbias_send_usable_probe; that      *)
(* inner pathbias_check_close finds the probe already set up, counts       *)
(* pathbias_count_use_failed, and the outer one counts it again.           *)
CloseBumps(r, reason, po) ==
  IF ~pathbias_should_count(r) THEN Tally({})
  ELSE CASE r.ps = BUILD_SUCCEEDED ->
              IF reason \in {"remote", "chan_closed"}
              THEN Tally({"collapsed_circuits"})
              ELSE Tally({"successful_circuits_closed"})
         [] r.ps = USE_ATTEMPTED ->
              CASE po = "sent"     -> Tally({})
                [] po = "sendfail" -> [Tally({"unusable_circuits"}) EXCEPT
                                         !["unusable_circuits"] = 2]
                [] OTHER           -> Tally({"unusable_circuits"})
         [] r.ps = USE_SUCCEEDED ->
              Tally({"successful_circuits_closed"} \cup pathbias_count_use_success(r))
         [] r.ps = USE_FAILED -> Tally({"unusable_circuits"})
         [] OTHER -> Tally({})

(* Seeded fault for mutation analysis: the close leaves path_state as it  *)
(* was instead of marking it ALREADY_COUNTED.                              *)
CheckCloseKeepsState(r, po) ==
  IF Deferred(r, po)
  THEN [r EXCEPT !.purpose = "pbtest", !.probe = TRUE, !.dirty = TRUE]
  ELSE [r EXCEPT !.st = "closed"]

(* circuit_mark_for_close of r: deferred into a probe (the purpose becomes *)
(* PATH_BIAS_TESTING and the circuit freshly dirty), or marked with its    *)
(* path_state ALREADY_COUNTED.                                             *)
pathbias_check_close(r, po) ==
  IF Deferred(r, po)
  THEN [r EXCEPT !.purpose = "pbtest", !.probe = TRUE, !.dirty = TRUE]
  ELSE [r EXCEPT !.st = "closed",
                 !.ps = IF pathbias_should_count(r) THEN ALREADY_COUNTED ELSE @]

(* The guard record gr of g after the circuits S of table cf close, each   *)
(* for reason rsn[c], with probe outcome pos[c].                           *)
CloseAll(gr, g, cf, S, rsn, pos) ==
  [k \in DOMAIN gr |->
     IF k \in Counters
     THEN gr[k] + Unit * MapThenSumSet(LAMBDA c : CloseBumps(cf[c], rsn[c], pos[c])[k],
                                       {c \in S : cf[c].first = g})
     ELSE gr[k]]

(* Close the single circuit c of table cf against guard record gr.         *)
CloseOne(cf, c, gr, reason, po) ==
  [rec |-> pathbias_check_close(cf[c], po),
   gr  |-> CloseAll(gr, cf[c].first, cf, {c},
                    [x \in {c} |-> reason], [x \in {c} |-> po])]
(* pathbias_count_build_success for the circuit r opening: a counted       *)
(* circuit that never opened before and is BUILD_ATTEMPTED becomes         *)
(* BUILD_SUCCEEDED and its guard gets a success; any other path state is   *)
(* only logged.                                                            *)
pathbias_count_build_success(r, gr) ==
  IF pathbias_should_count(r) /\ ~r.opened /\ r.ps = BUILD_ATTEMPTED
  THEN [rec |-> [r EXCEPT !.ps = BUILD_SUCCEEDED], gr |-> Bump(gr, "circ_successes")]
  ELSE [rec |-> r, gr |-> gr]

(* circuit_send_next_onion_skin for circuit c of table cf, its mark for    *)
(* close on an error included.  With the first hop closed the create cell  *)
(* goes out (ok: onion_skin_create and circuit_deliver_create_cell         *)
(* succeeded) and the circuit is building.  Otherwise the next hop not     *)
(* open gets an extend (ok: the onionskin, the cell and the relay send     *)
(* succeeded); with none left the circuit opens, its build success is      *)
(* counted, circuit_has_opened sets has_opened, and a MEASURE_TIMEOUT      *)
(* circuit is closed with FINISHED.                                        *)
circuit_send_next_onion_skin(cf, c, gr, ok) ==
  LET r     == cf[c]
      next  == onion_next_hop_in_cpath(r.hops)
      bs    == pathbias_count_build_success([r EXCEPT !.st = "open"], gr)
      built == [bs.rec EXCEPT !.opened = TRUE]
  IN  IF r.hops[1] = "closed" \/ next # 0
      THEN IF ok
           THEN [rec |-> [r EXCEPT !.st = "building", !.hops[next] = "awaiting"],
                 gr  |-> gr]
           ELSE CloseOne(cf, c, gr, "local", "refused")
      ELSE IF built.purpose = "measure"
      THEN CloseOne([cf EXCEPT ![c] = built], c, bs.gr, "local", "refused")
      ELSE [rec |-> built, gr |-> bs.gr]
-----------------------------------------------------------------------------
(* new_route_len for a circuit launched without a chosen exit.             *)
DEFAULT_ROUTE_LEN == 3
new_route_len ==
  IF NumAcceptable < 2 THEN -1
  ELSE IF NumAcceptable < DEFAULT_ROUTE_LEN THEN NumAcceptable
  ELSE DEFAULT_ROUTE_LEN

(* origin_circuit_init and onion_populate_cpath: a circuit in chan_wait    *)
(* with len closed hops, the first at guard g.                             *)
origin_circuit_init(g, onehop, purpose, len) ==
  [st |-> "chan_wait", first |-> g, hops |-> [i \in 1..len |-> "closed"],
   purpose |-> purpose, onehop |-> onehop, ps |-> NEW_CIRC, opened |-> FALSE,
   dirty |-> FALSE, probe |-> FALSE, unusable |-> FALSE]

Init ==
  /\ circ = [c \in Circs |-> [origin_circuit_init(CHOOSE g \in Guards : TRUE,
                                                  FALSE, "general", 0)
                               EXCEPT !.st = "free"]]
  /\ guard = [g \in Guards |-> GuardRecord(Seed)]
  /\ chan = [g \in Guards |-> "none"]
  /\ launches = 0

(* circuit_establish_circuit when onion_pick_cpath_exit or the cpath       *)
(* fails: no route (fewer than 2 acceptable nodes) or no usable guard      *)
(* (choose_random_entry skips guards disabled by path bias).  The circuit  *)
(* is closed with NOPATH.                                                  *)
LaunchNoPath(c) ==
  /\ launches < MaxLaunch
  /\ circ[c].st \in {"free", "closed"}
  /\ new_route_len < 1 \/ \A g \in Guards : guard[g].path_bias_disabled
  /\ circ' = [circ EXCEPT ![c] = pathbias_check_close(
                 origin_circuit_init(CHOOSE g \in Guards : TRUE, FALSE,
                                     "general", 0), "refused")]
  /\ launches' = launches + 1
  /\ UNCHANGED <<guard, chan>>

(* Seeded fault for mutation analysis: the launch bound checked with <=.   *)
LaunchPastBound(c, g, onehop, purpose, ok) ==
  LET len == IF onehop THEN 1 ELSE new_route_len
      r   == origin_circuit_init(g, onehop, purpose, len)
  IN
  /\ launches <= MaxLaunch
  /\ circ[c].st \in {"free", "closed"}
  /\ len >= 1
  /\ onehop \/ ~guard[g].path_bias_disabled
  /\ chan[g] = "connecting" => ok
  /\ launches' = launches + 1
  /\ circ' = [circ EXCEPT ![c] =
        IF chan[g] = "open"
        THEN circuit_send_next_onion_skin([circ EXCEPT ![c] = r], c, guard[g], ok).rec
        ELSE IF ok THEN r ELSE pathbias_check_close(r, "refused")]
  /\ chan' = IF chan[g] = "none" /\ ok THEN [chan EXCEPT ![g] = "connecting"]
                                       ELSE chan
  /\ UNCHANGED guard

(* circuit_establish_circuit then circuit_handle_first_hop: an open        *)
(* channel to the guard gets the create cell at once (ok: the onionskin    *)
(* and a circuit id were had, else INTERNAL/RESOURCELIMIT); with no        *)
(* channel one is launched (ok: channel_connect_for_circuit returned one,  *)
(* else CONNECTFAILED); a channel already connecting is waited for.  A     *)
(* one-hop tunnel goes to its chosen exit, which may be any of the relays. *)
Launch(c, g, onehop, purpose, ok) ==
  LET len == IF onehop THEN 1 ELSE new_route_len
      r   == origin_circuit_init(g, onehop, purpose, len)
  IN
  /\ launches < MaxLaunch
  /\ circ[c].st \in {"free", "closed"}
  /\ len >= 1
  /\ onehop \/ ~guard[g].path_bias_disabled
  /\ chan[g] = "connecting" => ok
  /\ launches' = launches + 1
  /\ circ' = [circ EXCEPT ![c] =
        IF chan[g] = "open"
        THEN circuit_send_next_onion_skin([circ EXCEPT ![c] = r], c, guard[g], ok).rec
        ELSE IF ok THEN r ELSE pathbias_check_close(r, "refused")]
  /\ chan' = IF chan[g] = "none" /\ ok THEN [chan EXCEPT ![g] = "connecting"]
                                       ELSE chan
  /\ UNCHANGED guard

(* circuit_n_chan_done: every circuit waiting in chan_wait on g's channel  *)
(* is closed with CHANNEL_CLOSED if the channel failed; otherwise each     *)
(* gets circuit_send_next_onion_skin, whose create cell went out when      *)
(* sent[c] and whose error closes the circuit otherwise.                   *)
circuit_n_chan_done(g, status) ==
  LET waiting == {c \in Circs : circ[c].st = "chan_wait" /\ circ[c].first = g}
  IN
  /\ chan[g] = "connecting"
  /\ chan' = [chan EXCEPT ![g] = IF status THEN "open" ELSE "none"]
  /\ \E sent \in [waiting -> BOOLEAN] :
       circ' = [c \in Circs |->
          IF c \notin waiting THEN circ[c]
          ELSE IF ~status THEN pathbias_check_close(circ[c], "refused")
          ELSE circuit_send_next_onion_skin(circ, c, guard[g], sent[c]).rec]
  /\ UNCHANGED <<guard, launches>>
(* pathbias_count_build_attempt then the rest of circuit_finish_handshake  *)
(* and circuit_send_next_onion_skin, on a created/extended reply for c.    *)
(* The attempt is counted when the reply for the second hop arrives, with  *)
(* the circuit already in BUILD_ATTEMPTED while the guard is measured and  *)
(* scaled; a disabled guard fails the circuit with TORPROTOCOL.  Then the  *)
(* first hop not open takes its keys (ok: the handshake and the key        *)
(* derivation succeeded, else TORPROTOCOL); a reply with no hop awaiting   *)
(* it is a TORPROTOCOL error.  Then command.c calls                        *)
(* circuit_send_next_onion_skin (extOk: it had no error).                  *)
circuit_finish_handshake(c, ok, extOk, po) ==
  LET r     == circ[c]
      g     == r.first
      isNew == /\ pathbias_should_count(r) /\ pathbias_is_new_circ_attempt(r)
               /\ ~r.opened /\ r.ps = NEW_CIRC
      r1    == IF isNew THEN [r EXCEPT !.ps = BUILD_ATTEMPTED] ELSE r
      cf1   == [circ EXCEPT ![c] = r1]
      inc   == IncAttempt(guard[g], cf1, g)
      gr1   == IF isNew THEN inc.guard ELSE guard[g]
      hop   == onion_next_hop_in_cpath(r1.hops)
      r2    == [r1 EXCEPT !.hops[hop] = "open"]
      fail  == (isNew /\ ~inc.ok) \/ hop = 0 \/ ~ok
      res   == IF fail
               THEN CloseOne(cf1, c, gr1, "local", pathbias_send_usable_probe(r1, chan, po))
               ELSE circuit_send_next_onion_skin([circ EXCEPT ![c] = r2], c, gr1, extOk)
  IN
  /\ r.st \in {"building", "open"}
  /\ circ' = [circ EXCEPT ![c] = res.rec]
  /\ guard' = [guard EXCEPT ![g] = res.gr]
  /\ UNCHANGED <<chan, launches>>

(* circuit_truncated: a TRUNCATED cell (or a DESTROY from the guard)       *)
(* closes the circuit with the REMOTE flag.                                *)
circuit_truncated(c, po) ==
  LET res == CloseOne(circ, c, guard[circ[c].first], "remote",
                      pathbias_send_usable_probe(circ[c], chan, po))
  IN
  /\ circ[c].st \in {"building", "open"}
  /\ circ' = [circ EXCEPT ![c] = res.rec]
  /\ guard' = [guard EXCEPT ![circ[c].first] = res.gr]
  /\ UNCHANGED <<chan, launches>>

(* Seeded fault for mutation analysis: the build timer skips probing      *)
(* circuits.                                                               *)
ExpireSkipsProbes(c, po) ==
  LET r   == circ[c]
      gr0 == IF pathbias_should_count(r) /\ r.ps # USE_SUCCEEDED
             THEN Bump(guard[r.first], "timeouts") ELSE guard[r.first]
      res == CloseOne(circ, c, gr0, "local", pathbias_send_usable_probe(r, chan, po))
  IN
  /\ r.st \in {"chan_wait", "building"}
  /\ circ' = [circ EXCEPT ![c] = res.rec]
  /\ guard' = [guard EXCEPT ![r.first] = res.gr]
  /\ UNCHANGED <<chan, launches>>

(* circuit_expire_building: a circuit still being built, or a probing      *)
(* circuit, whose timer ran out gets pathbias_count_timeout (not for       *)
(* USE_SUCCEEDED) and is closed with TIMEOUT.  circuit_expire_building is  *)
(* in circuituse.c, absent here; which circuits it visits is spec 6 (the   *)
(* build timeout runs from timestamp_began, set at launch).                *)
pathbias_count_timeout(c, po) ==
  LET r   == circ[c]
      gr0 == IF pathbias_should_count(r) /\ r.ps # USE_SUCCEEDED
             THEN Bump(guard[r.first], "timeouts") ELSE guard[r.first]
      res == CloseOne(circ, c, gr0, "local", pathbias_send_usable_probe(r, chan, po))
  IN
  /\ r.st \in {"chan_wait", "building"} \/ (r.st = "open" /\ r.purpose = "pbtest")
  /\ circ' = [circ EXCEPT ![c] = res.rec]
  /\ guard' = [guard EXCEPT ![r.first] = res.gr]
  /\ UNCHANGED <<chan, launches>>

(* A local close of a live circuit (its use is over, or it is no longer    *)
(* wanted): circuit_mark_for_close with a local reason.                    *)
LocalClose(c, po) ==
  LET res == CloseOne(circ, c, guard[circ[c].first], "local",
                      pathbias_send_usable_probe(circ[c], chan, po))
  IN
  /\ circ[c].st = "open"
  /\ circ' = [circ EXCEPT ![c] = res.rec]
  /\ guard' = [guard EXCEPT ![circ[c].first] = res.gr]
  /\ UNCHANGED <<chan, launches>>
(* A stream is attached to the open circuit c: pathbias_count_use_attempt, *)
(* and the circuit becomes dirty.  Circuits made unusable by a clock jump  *)
(* get no new streams.                                                     *)
UseAttempt(c) ==
  LET res == pathbias_count_use_attempt(circ, c, guard[circ[c].first])
  IN
  /\ circ[c].st = "open" /\ circ[c].purpose = "general" /\ ~circ[c].unusable
  /\ circ' = [circ EXCEPT ![c] = [res.rec EXCEPT !.dirty = TRUE]]
  /\ guard' = [guard EXCEPT ![circ[c].first] = res.gr]
  /\ UNCHANGED <<chan, launches>>

(* pathbias_mark_use_success: a stream on c succeeded end to end.  A      *)
(* circuit not yet USE_ATTEMPTED gets its use attempt counted first.       *)
pathbias_mark_use_success(cf, c, gr) ==
  IF ~pathbias_should_count(cf[c]) THEN [rec |-> cf[c], gr |-> gr]
  ELSE LET att == IF cf[c].ps < USE_ATTEMPTED
                  THEN pathbias_count_use_attempt(cf, c, gr)
                  ELSE [rec |-> cf[c], gr |-> gr]
       IN  [rec |-> [att.rec EXCEPT !.ps = USE_SUCCEEDED], gr |-> att.gr]

UseSuccess(c) ==
  LET res == pathbias_mark_use_success(circ, c, guard[circ[c].first])
  IN
  /\ circ[c].st = "open" /\ circ[c].purpose = "general" /\ circ[c].dirty
  /\ circ' = [circ EXCEPT ![c] = res.rec]
  /\ guard' = [guard EXCEPT ![circ[c].first] = res.gr]
  /\ UNCHANGED <<chan, launches>>

(* Seeded fault for mutation analysis: rollback without the state check.  *)
RollbackAnyState(c) ==
  /\ circ[c].st = "open" /\ circ[c].purpose = "general"
  /\ circ' = [circ EXCEPT ![c].ps = USE_ATTEMPTED]
  /\ UNCHANGED <<guard, chan, launches>>

(* pathbias_mark_use_rollback: a stream detached in a retriable way.       *)
pathbias_mark_use_rollback(c) ==
  /\ circ[c].st = "open" /\ circ[c].purpose = "general"
  /\ circ[c].ps = USE_SUCCEEDED
  /\ circ' = [circ EXCEPT ![c].ps = USE_ATTEMPTED]
  /\ UNCHANGED <<guard, chan, launches>>

(* pathbias_check_probe_response with the echoed nonce: the use succeeds  *)
(* and the circuit is closed with FINISHED.  A reply that does not match   *)
(* changes nothing here; the circuit waits for its timer.                  *)
pathbias_check_probe_response(c) ==
  LET mu  == pathbias_mark_use_success(circ, c, guard[circ[c].first])
      res == CloseOne([circ EXCEPT ![c] = mu.rec], c, mu.gr, "local", "refused")
  IN
  /\ circ[c].st = "open" /\ circ[c].purpose = "pbtest" /\ circ[c].probe
  /\ circ' = [circ EXCEPT ![c] = res.rec]
  /\ guard' = [guard EXCEPT ![circ[c].first] = res.gr]
  /\ UNCHANGED <<chan, launches>>

(* circuit_extend_to_new_exit on a clean open general circuit handed to a  *)
(* new purpose (cannibalization): append the hop, back to building, send   *)
(* the extend (extOk), else close.                                         *)
circuit_extend_to_new_exit(c, purpose, extOk) ==
  LET r1  == [circ[c] EXCEPT !.purpose = purpose, !.st = "building",
                             !.hops = Append(@, "closed")]
      res == circuit_send_next_onion_skin([circ EXCEPT ![c] = r1], c,
                                          guard[r1.first], extOk)
  IN
  /\ circ[c].st = "open" /\ circ[c].purpose = "general"
  /\ ~circ[c].dirty /\ ~circ[c].onehop /\ ~circ[c].unusable
  /\ Len(circ[c].hops) < MaxHops
  /\ circ' = [circ EXCEPT ![c] = res.rec]
  /\ guard' = [guard EXCEPT ![r1.first] = res.gr]
  /\ UNCHANGED <<chan, launches>>

(* The open channel to g closes: requested by us, or because it failed.   *)
(* Every circuit on it is closed with CHANNEL_CLOSED; no probe can be sent *)
(* on a closing channel.                                                   *)
ChanClose(g, requested) ==
  LET S == {c \in Circs : circ[c].first = g /\ circ[c].st \in {"building", "open"}}
      rsn == [c \in S |-> IF requested THEN "local" ELSE "chan_closed"]
      snt == [c \in S |-> "refused"]
  IN
  /\ chan[g] = "open"
  /\ chan' = [chan EXCEPT ![g] = "none"]
  /\ guard' = [guard EXCEPT ![g] = CloseAll(@, g, circ, S, rsn, snt)]
  /\ circ' = [c \in Circs |-> IF c \in S THEN pathbias_check_close(circ[c], "refused")
                              ELSE circ[c]]
  /\ launches' = launches

(* circuit_note_clock_jumped: circuit_mark_all_unused_circs closes every   *)
(* live circuit that never carried a stream; circuit_mark_all_dirty_circs_ *)
(* as_unusable stops handing out the dirty ones.                           *)
circuit_note_clock_jumped ==
  LET S   == {c \in Circs : Live(circ[c]) /\ ~circ[c].dirty}
      rsn == [c \in S |-> "local"]
      snt == [c \in S |-> "refused"]
  IN
  /\ S # {} \/ \E c \in Circs : Live(circ[c]) /\ ~circ[c].unusable
  /\ guard' = [g \in Guards |-> CloseAll(guard[g], g, circ, S, rsn, snt)]
  /\ circ' = [c \in Circs |->
                IF c \in S THEN pathbias_check_close(circ[c], "refused")
                ELSE IF Live(circ[c]) THEN [circ[c] EXCEPT !.unusable = TRUE]
                ELSE circ[c]]
  /\ UNCHANGED <<chan, launches>>
-----------------------------------------------------------------------------
Next ==
  \/ \E c \in Circs : LaunchNoPath(c)
  \/ \E c \in Circs, g \in Guards, onehop, ok \in BOOLEAN,
        p \in {"general", "measure"} : Launch(c, g, onehop, p, ok)
  \/ \E g \in Guards, status \in BOOLEAN : circuit_n_chan_done(g, status)
  \/ \E c \in Circs, ok, extOk \in BOOLEAN, po \in ProbeOutcomes :
        circuit_finish_handshake(c, ok, extOk, po)
  \/ \E c \in Circs, po \in ProbeOutcomes :
        \/ circuit_truncated(c, po)
        \/ pathbias_count_timeout(c, po)
        \/ LocalClose(c, po)
  \/ \E c \in Circs :
        \/ UseAttempt(c)
        \/ UseSuccess(c)
        \/ pathbias_mark_use_rollback(c)
        \/ pathbias_check_probe_response(c)
  \/ \E c \in Circs, p \in {"general", "intro"}, extOk \in BOOLEAN :
        circuit_extend_to_new_exit(c, p, extOk)
  \/ \E g \in Guards, requested \in BOOLEAN : ChanClose(g, requested)
  \/ circuit_note_clock_jumped

(* The build timer always fires for a circuit still building or probing.  *)
Fairness == \A c \in Circs : WF_vars(\E po \in ProbeOutcomes :
                                        pathbias_count_timeout(c, po))

Spec == Init /\ [][Next]_vars /\ Fairness
-----------------------------------------------------------------------------
TypeOK ==
  /\ circ \in [Circs -> CircRec]
  /\ \A g \in Guards : /\ DOMAIN guard[g] = Counters \cup Flags
                       /\ \A k \in Counters : guard[g][k] \in Nat
                       /\ \A k \in Flags : guard[g][k] \in BOOLEAN
  /\ chan \in [Guards -> ChanStates]
  /\ launches \in 0..MaxLaunch

Open(g, from, to) == Unit * pathbias_count_circs_in_states(circ, g, from, to)

(* Spec invariant 2 and 6, build side: a guard's successes never exceed    *)
(* its attempts, less the counted circuits still in BUILD_ATTEMPTED, across *)
(* the attempt counting of pathbias_count_build_attempt, the scaling of    *)
(* pathbias_scale_close_rates that takes open circuits out and puts them   *)
(* back, and the success counting of pathbias_count_build_success.         *)
SuccessesBounded ==
  \A g \in Guards :
    guard[g].circ_successes + Open(g, BUILD_ATTEMPTED, BUILD_ATTEMPTED)
      <= guard[g].circ_attempts

(* Spec invariant 2, use side: use_successes plus the open circuits in     *)
(* USE_ATTEMPTED or USE_SUCCEEDED never exceed use_attempts, across        *)
(* pathbias_count_use_attempt, pathbias_scale_use_rates, rollbacks, probes *)
(* and the close-time pathbias_count_use_success.                          *)
UseBalance ==
  \A g \in Guards :
    guard[g].use_successes + Open(g, USE_ATTEMPTED, USE_SUCCEEDED)
      <= guard[g].use_attempts

(* Every built circuit is closed-accounted at most once: the successful    *)
(* closes, collapses and unusable circuits of a guard, with its built      *)
(* circuits still open, never exceed its build successes.  A close that    *)
(* counts twice (a probe deferral re-entered, a re-close) breaks this.     *)
BuildBalance ==
  \A g \in Guards :
    guard[g].successful_circuits_closed + guard[g].collapsed_circuits
      + guard[g].unusable_circuits + Open(g, BUILD_SUCCEEDED, USE_FAILED)
      <= guard[g].circ_successes

(* The cpath ring invariant of spec 3: hop states never increase from the *)
(* head outward (open hops, then at most one awaiting keys, then closed), *)
(* across the create, extend, cannibalization and channel-done steps that  *)
(* each advance one hop.                                                   *)
HopRank(h) == CASE h = "open" -> 2 [] h = "awaiting" -> 1 [] OTHER -> 0
CpathMonotone ==
  \A c \in Circs :
    Live(circ[c]) =>
      /\ \A i, j \in DOMAIN circ[c].hops :
            i < j => HopRank(circ[c].hops[i]) >= HopRank(circ[c].hops[j])
      /\ Cardinality({i \in DOMAIN circ[c].hops : circ[c].hops[i] = "awaiting"}) <= 1

(* Spec invariant 3: a live circuit's path_state moves only along          *)
(* NEW_CIRC -> BUILD_ATTEMPTED -> BUILD_SUCCEEDED -> USE_ATTEMPTED ->      *)
(* USE_SUCCEEDED (the reply for a last second hop takes both build steps, *)
(* a stream success both use steps, at once), back                         *)
(* from USE_SUCCEEDED to USE_ATTEMPTED on rollback, and into               *)
(* ALREADY_COUNTED; only a launch into a freed slot starts over.           *)
PathEdges == {<<0, 1>>, <<1, 2>>, <<0, 2>>, <<2, 3>>, <<3, 4>>, <<2, 4>>, <<4, 3>>}
             \cup {<<p, ALREADY_COUNTED>> : p \in PathStates}
PathStateGraph ==
  [][\A c \in Circs :
       circ'[c].ps # circ[c].ps =>
         \/ <<circ[c].ps, circ'[c].ps>> \in PathEdges
         \/ circ[c].st \in {"free", "closed"}]_vars

(* Spec 4.6, attempt counting point: a counted circuit is in                *)
(* BUILD_ATTEMPTED (or later) from the moment its second hop is awaiting   *)
(* keys, when a guard could first tag it end to end.                        *)
AttemptCountedAtSecondHop ==
  \A c \in Circs :
    (/\ Live(circ[c]) /\ pathbias_should_count(circ[c]) /\ ~circ[c].opened
     /\ pathbias_is_new_circ_attempt(circ[c]))
      => circ[c].ps >= BUILD_ATTEMPTED

AbsPhase(r) ==
  CASE r.st = "free"                        -> "idle"
    [] r.st \in {"chan_wait", "building"}   -> "building"
    [] r.st = "open" /\ r.purpose = "pbtest" -> "probing"
    [] r.st = "open"                        -> "open"
    [] OTHER                                -> "closed"

AbsTally(r) ==
  CASE ~pathbias_should_count(r) /\ r.ps \in BUILD_SUCCEEDED..USE_FAILED -> "exempt"
    [] Live(r) /\ r.ps \in BUILD_SUCCEEDED..USE_FAILED                   -> "pending"
    [] r.st = "closed" /\ r.ps = ALREADY_COUNTED /\ r.opened              -> "settled"
    [] OTHER                                                             -> "none"

Lifecycle == INSTANCE CircuitLifecycle
               WITH phase <- [c \in Circs |-> AbsPhase(circ[c])],
                    tally <- [c \in Circs |-> AbsTally(circ[c])]

(* Circuit construction implements the abstract lifecycle: every step of   *)
(* every handler (launch, channel done, the handshake reply, truncation,   *)
(* the build timer, stream use, probes, cannibalization, channel loss and  *)
(* the clock jump) moves each circuit along the lifecycle, and a counted   *)
(* circuit's close is accounted exactly when it closes, never before,      *)
(* never again, and never lost.                                            *)
LifecycleRefined == Lifecycle!Spec

(* Every end-of-life probe is resolved: a PATH_BIAS_TESTING circuit is     *)
(* eventually closed, by a valid reply, a local close or its timer.        *)
ProbeResolves ==
  \A c \in Circs :
    (circ[c].st = "open" /\ circ[c].purpose = "pbtest") ~> circ[c].st = "closed"
=============================================================================
