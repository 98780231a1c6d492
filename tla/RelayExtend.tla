---------------------------- MODULE RelayExtend -----------------------------
(***************************************************************************)
(* The relay side of circuit construction in circuitbuild.c: a CREATE     *)
(* answered by onionskin_answer, an EXTEND handled by circuit_extend       *)
(* (validated, then forwarded as a create cell on an open channel to the  *)
(* next relay, or parked in CHAN_WAIT until one opens), and the relay     *)
(* branch of circuit_n_chan_done that forwards the parked create cells.    *)
(*                                                                         *)
(* Relays are identities (model values); a channel is kept per next       *)
(* relay.  channel_get_for_extend (channel.c) returns an open channel to  *)
(* the relay if there is one, and otherwise asks for a launch unless a    *)
(* connection to it is already in progress.  The ghost fields `accepted`  *)
(* (the first next hop the circuit took on) and `fwd` (the relays a       *)
(* create cell was forwarded to) let properties speak of what was sent.   *)
(***************************************************************************)
EXTENDS Integers, Sequences

CONSTANTS
  Circs,      \* or_circuit slots
  Relays,     \* relay identities: previous hops and extend targets
  ZeroId,     \* the all-zero identity digest an EXTEND may carry
  None,       \* no next hop / no channel
  ServerMode, \* server_mode(get_options())
  ExtendAllowPrivateAddresses,
  MaxExtends  \* bound on EXTEND cells received

ASSUME ZeroId \notin Relays /\ None \notin Relays \cup {ZeroId}
ASSUME ServerMode \in BOOLEAN /\ ExtendAllowPrivateAddresses \in BOOLEAN
ASSUME MaxExtends \in Nat

VARIABLES
  circ,     \* circ[c]: the or_circuit in slot c
  chan,     \* chan[r]: our channel to relay r
  extends   \* EXTEND cells received so far

vars == <<circ, chan, extends>>

CircStates == {"free", "onionskin", "open", "chan_wait", "closed"}

CircRec == [st: CircStates, prev: Relays, n_hop: Relays \cup {None},
            n_chan: Relays \cup {None}, accepted: Relays \cup {None},
            fwd: Seq(Relays)]

Live(r) == r.st \in {"onionskin", "open", "chan_wait"}

(* The next hop r has taken on, or None. *)
NextHop(r) == IF r.n_chan # None THEN r.n_chan ELSE r.n_hop

Init ==
  /\ circ = [c \in Circs |-> [st |-> "free", prev |-> CHOOSE p \in Relays : TRUE,
                              n_hop |-> None, n_chan |-> None, accepted |-> None,
                              fwd |-> <<>>]]
  /\ chan = [r \in Relays |-> "none"]
  /\ extends = 0

(* A circuit marked for close. *)
Closed(r) == [r EXCEPT !.st = "closed"]

(* command_process_create_cell: a CREATE from relay p opens a circuit     *)
(* whose onionskin is queued for the cpuworker.                            *)
CreateCell(c, p) ==
  /\ circ[c].st \in {"free", "closed"}
  /\ circ' = [circ EXCEPT ![c] = [st |-> "onionskin", prev |-> p, n_hop |-> None,
                                  n_chan |-> None, accepted |-> None, fwd |-> <<>>]]
  /\ UNCHANGED <<chan, extends>>

(* onionskin_answer: the created cell is formatted and the keys set up    *)
(* (ok), the circuit is open and the CREATED goes back; a failure returns *)
(* -1 and the caller closes the circuit.                                   *)
onionskin_answer(c, ok) ==
  /\ circ[c].st = "onionskin"
  /\ circ' = [circ EXCEPT ![c] = IF ok THEN [@ EXCEPT !.st = "open"] ELSE Closed(@)]
  /\ UNCHANGED <<chan, extends>>

(* Seeded faults for mutation analysis: the n_chan check, or the n_hop    *)
(* check, of circuit_extend is dropped.                                    *)
ExtendRejectedNoChanCheck(r, t, valid, private) ==
  \/ r.n_hop # None \/ ~ServerMode \/ ~valid
  \/ private /\ ~ExtendAllowPrivateAddresses
  \/ t = ZeroId \/ t = r.prev

ExtendRejectedNoHopCheck(r, t, valid, private) ==
  \/ r.n_chan # None \/ ~ServerMode \/ ~valid
  \/ private /\ ~ExtendAllowPrivateAddresses
  \/ t = ZeroId \/ t = r.prev

(* The early returns of circuit_extend, in the code's order: a next hop    *)
(* already attached or launched, running as a client, an unparsable cell   *)
(* or a zero port or address (~valid), a private address not allowed, a    *)
(* zero identity, and the previous hop's identity.                         *)
ExtendRejected(r, t, valid, private) ==
  \/ r.n_chan # None \/ r.n_hop # None \/ ~ServerMode \/ ~valid
  \/ private /\ ~ExtendAllowPrivateAddresses
  \/ t = ZeroId \/ t = r.prev

(* Seeded fault for mutation analysis: a relay with no channel and none    *)
(* in progress is waited for instead of connected to.                      *)
ExtendNoLaunch(c, t, valid, private, ok) ==
  LET r   == circ[c]
      acc == [r EXCEPT !.accepted = IF @ = None THEN t ELSE @]
  IN  /\ r.st \in {"open", "chan_wait"}
      /\ extends < MaxExtends
      /\ extends' = extends + 1
      /\ IF ExtendRejected(r, t, valid, private)
         THEN circ' = [circ EXCEPT ![c] = Closed(r)] /\ UNCHANGED chan
         ELSE IF chan[t] = "open"
         THEN /\ circ' = [circ EXCEPT ![c] =
                            IF ok THEN [acc EXCEPT !.n_chan = t, !.fwd = Append(@, t)]
                            ELSE Closed([acc EXCEPT !.n_chan = t])]
              /\ UNCHANGED chan
         ELSE /\ circ' = [circ EXCEPT ![c] = [acc EXCEPT !.n_hop = t, !.st = "chan_wait"]]
              /\ UNCHANGED chan

(* circuit_extend on an EXTEND for relay t arriving on circuit c (relay.c *)
(* closes the circuit when it returns -1).  With an open channel to t the *)
(* create cell is forwarded at once (ok: circuit_deliver_create_cell found *)
(* an id); otherwise the circuit waits in CHAN_WAIT with n_hop = t, and a  *)
(* connection is launched unless one is in progress (ok: channel_connect_  *)
(* for_circuit returned a channel, else the circuit is closed).            *)
circuit_extend(c, t, valid, private, ok) ==
  LET r   == circ[c]
      acc == [r EXCEPT !.accepted = IF @ = None THEN t ELSE @]
  IN  /\ r.st \in {"open", "chan_wait"}
      /\ extends < MaxExtends
      /\ extends' = extends + 1
      /\ IF ExtendRejected(r, t, valid, private)
         THEN circ' = [circ EXCEPT ![c] = Closed(r)] /\ UNCHANGED chan
         ELSE CASE chan[t] = "open" ->
                     /\ circ' = [circ EXCEPT ![c] =
                                   IF ok THEN [acc EXCEPT !.n_chan = t, !.fwd = Append(@, t)]
                                   ELSE Closed([acc EXCEPT !.n_chan = t])]
                     /\ UNCHANGED chan
                [] chan[t] = "connecting" ->
                     /\ circ' = [circ EXCEPT ![c] = [acc EXCEPT !.n_hop = t, !.st = "chan_wait"]]
                     /\ UNCHANGED chan
                [] OTHER ->
                     /\ circ' = [circ EXCEPT ![c] =
                                   IF ok THEN [acc EXCEPT !.n_hop = t, !.st = "chan_wait"]
                                   ELSE Closed([acc EXCEPT !.n_hop = t])]
                     /\ chan' = IF ok THEN [chan EXCEPT ![t] = "connecting"] ELSE chan

(* circuit_n_chan_done, relay branch: the connection to t finished with    *)
(* status.  Every circuit waiting in CHAN_WAIT for t is closed if it       *)
(* failed; otherwise it takes the channel, drops n_hop, and its parked     *)
(* create cell is forwarded (sent[c]) and the circuit is open, or the      *)
(* delivery failed and it is closed with RESOURCELIMIT.                    *)
circuit_n_chan_done(t, status) ==
  LET pending == {c \in Circs : circ[c].st = "chan_wait" /\ circ[c].n_hop = t}
  IN  /\ chan[t] = "connecting"
      /\ chan' = [chan EXCEPT ![t] = IF status THEN "open" ELSE "none"]
      /\ \E sent \in [pending -> BOOLEAN] :
           circ' = [c \in Circs |->
              IF c \notin pending THEN circ[c]
              ELSE IF ~status THEN Closed(circ[c])
              ELSE LET r1 == [circ[c] EXCEPT !.n_chan = t, !.n_hop = None]
                   IN  IF sent[c] THEN [r1 EXCEPT !.fwd = Append(@, t), !.st = "open"]
                       ELSE Closed(r1)]
      /\ UNCHANGED extends

(* Our open channel to t closes: every circuit using it is closed.        *)
ChanClose(t) ==
  /\ chan[t] = "open"
  /\ chan' = [chan EXCEPT ![t] = "none"]
  /\ circ' = [c \in Circs |-> IF Live(circ[c]) /\ circ[c].n_chan = t
                              THEN Closed(circ[c]) ELSE circ[c]]
  /\ UNCHANGED extends

(* A DESTROY from either side, or the previous hop's channel closing,     *)
(* closes a live circuit.                                                  *)
Destroy(c) ==
  /\ Live(circ[c])
  /\ circ' = [circ EXCEPT ![c] = Closed(@)]
  /\ UNCHANGED <<chan, extends>>

Next ==
  \/ \E c \in Circs, p \in Relays : CreateCell(c, p)
  \/ \E c \in Circs, ok \in BOOLEAN : onionskin_answer(c, ok)
  \/ \E c \in Circs, t \in Relays \cup {ZeroId}, valid, private, ok \in BOOLEAN :
        circuit_extend(c, t, valid, private, ok)
  \/ \E t \in Relays, status \in BOOLEAN : circuit_n_chan_done(t, status)
  \/ \E t \in Relays : ChanClose(t)
  \/ \E c \in Circs : Destroy(c)

(* A connection attempt always ends: the channel layer opens it or gives   *)
(* up on it, and then calls circuit_n_chan_done.                           *)
Fairness == \A t \in Relays : WF_vars(\E status \in BOOLEAN : circuit_n_chan_done(t, status))

Spec == Init /\ [][Next]_vars /\ Fairness
-----------------------------------------------------------------------------
(* A relay forwards at most one create cell per circuit, to the relay the  *)
(* first EXTEND it accepted named, never back to the previous hop: the     *)
(* n_chan and n_hop checks of circuit_extend against a second EXTEND, and  *)
(* circuit_n_chan_done forwarding only circuits still waiting.             *)
ForwardOnce ==
  \A c \in Circs :
    /\ Len(circ[c].fwd) <= 1
    /\ \A i \in 1..Len(circ[c].fwd) :
         circ[c].fwd[i] = circ[c].accepted /\ circ[c].fwd[i] # circ[c].prev

(* Once a live circuit has taken on a next hop, every step keeps it: a     *)
(* later EXTEND cannot redirect a circuit waiting for its channel.         *)
NextHopStable ==
  [][\A c \in Circs :
       Live(circ[c]) /\ NextHop(circ[c]) # None /\ Live(circ'[c])
         => NextHop(circ'[c]) = NextHop(circ[c])]_vars

(* Every circuit parked in CHAN_WAIT is eventually forwarded or closed:    *)
(* circuit_extend launches a connection unless one to the relay is in      *)
(* progress, and circuit_n_chan_done serves every circuit waiting on it.   *)
ExtendResolves ==
  \A c \in Circs : circ[c].st = "chan_wait" ~> circ[c].st \in {"open", "closed"}
=============================================================================
