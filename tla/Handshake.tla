----------------------------- MODULE Handshake ------------------------------
(***************************************************************************)
(* Handshake choice and key setup along one circuit in circuitbuild.c:     *)
(* circuit_send_next_onion_skin picks the first hop's create cell          *)
(* (should_use_create_fast_for_circuit, circuit_pick_create_handshake) and *)
(* each later hop's extend cell (circuit_pick_extend_handshake); each      *)
(* reply is turned into hop keys by circuit_init_cpath_crypto, at the      *)
(* client (circuit_finish_handshake) and at the relay (onionskin_answer).  *)
(*                                                                         *)
(* What the code reads and does not control is chosen in Init: the        *)
(* options (FastFirstHopPK, UseNTorHandshake, the consensus parameter,     *)
(* how we run: client, bridge or public relay) and what the node list      *)
(* knows of each hop (onion key, curve25519 key, extend2 version flag).    *)
(* Key material is a sequence of distinct bytes, so that where each byte   *)
(* ends up tells the split apart.                                          *)
(***************************************************************************)
EXTENDS Integers, Sequences

CONSTANTS
  Path,            \* the cpath: a sequence of distinct relays
  Modes,           \* how we may run: subset of {"client", "bridge", "public"}
  DIGEST_LEN,
  CIPHER_KEY_LEN,
  KeyMaterial      \* the key material a handshake may produce

CPATH_KEY_MATERIAL_LEN == 2 * DIGEST_LEN + 2 * CIPHER_KEY_LEN

ASSUME Len(Path) >= 1 /\ Modes \subseteq {"client", "bridge", "public"}
ASSUME \A k \in KeyMaterial : Len(k) = CPATH_KEY_MATERIAL_LEN

VARIABLES
  opt,    \* the options and consensus parameter the choice reads
  node,   \* node[r]: what the node list knows of relay r
  hop,    \* the hop the next cell is for (cpath position)
  st,     \* building, awaiting (keys of hop), answered, open, closed,
          \* or internal (onion_skin_create failed)
  wire,   \* the key material both ends derived for the hop awaiting keys
  cells,  \* cells[i]: the cell sent to reach hop i
  ckeys,  \* ckeys[i]: the client's keys for hop i
  rkeys   \* rkeys[i]: the keys relay Path[i] stored on its or_circuit

vars == <<opt, node, hop, st, wire, cells, ckeys, rkeys>>

Hops == 1..Len(Path)

OptRec == [FastFirstHopPK: BOOLEAN, mode: Modes,
           UseNTorHandshake: {-1, 0, 1}, consensus_ntor: BOOLEAN]

(* A hop other than the first was chosen from the node list and so has a  *)
(* descriptor with an onion key, and node_get_by_id finds it.              *)
NodeRec(i) == [onion_key: IF i = 1 THEN BOOLEAN ELSE {TRUE},
               known: IF i = 1 THEN BOOLEAN ELSE {TRUE},
               curve25519: BOOLEAN, extend2: BOOLEAN]

Init ==
  /\ opt \in OptRec
  /\ node \in {n \in [{Path[i] : i \in Hops} -> UNION {NodeRec(i) : i \in Hops}] :
                 \A i \in Hops : n[Path[i]] \in NodeRec(i)}
  /\ hop = 1
  /\ st = "building"
  /\ wire = <<>>
  /\ cells = <<>>
  /\ ckeys = <<>>
  /\ rkeys = <<>>

(* public_server_mode (router.c): a relay that publishes its descriptor.   *)
public_server_mode == opt.mode = "public"

(* Seeded fault for mutation analysis: a relay that publishes its        *)
(* descriptor still honours FastFirstHopPK.                               *)
FastIgnoresServerMode ==
  \/ ~node[Path[1]].onion_key
  \/ opt.FastFirstHopPK

should_use_create_fast_for_circuit ==
  \/ ~node[Path[1]].onion_key
  \/ opt.FastFirstHopPK /\ ~public_server_mode

circuits_can_use_ntor ==
  IF opt.UseNTorHandshake # -1 THEN opt.UseNTorHandshake = 1
  ELSE opt.consensus_ntor

(* The handshake type for relay r: ntor if it has a curve25519 key.        *)
circuit_pick_create_handshake(r) ==
  IF node[r].curve25519 /\ circuits_can_use_ntor
  THEN [cell |-> "CREATE2", hs |-> "ntor"]
  ELSE [cell |-> "CREATE", hs |-> "tap"]

(* EXTEND2 carrying CREATE2 when the handshake is not TAP and the previous *)
(* hop is known to take extend2 cells; otherwise EXTEND carrying CREATE    *)
(* (an ntor handshake then travels in a CREATE cell).                      *)
circuit_pick_extend_handshake(prev, r) ==
  LET hs == circuit_pick_create_handshake(r).hs
  IN  IF node[prev].known /\ hs # "tap" /\ (node[prev].curve25519 \/ node[prev].extend2)
      THEN [cell |-> "EXTEND2", create |-> "CREATE2", hs |-> hs]
      ELSE [cell |-> "EXTEND", create |-> "CREATE", hs |-> hs]

(* onion_skin_create (onion.c): TAP needs the relay's onion key, ntor its  *)
(* curve25519 key; CREATE_FAST uses no public key.                         *)
onion_skin_create(hs, r) ==
  \/ hs = "fast"
  \/ hs = "tap" /\ node[r].onion_key
  \/ hs = "ntor" /\ node[r].curve25519

(* The cell circuit_send_next_onion_skin sends to reach hop i: a create    *)
(* cell for the first hop, an extend cell through hop i-1 for the others.  *)
NextCell(i) ==
  IF i = 1
  THEN IF should_use_create_fast_for_circuit
       THEN [cell |-> "CREATE_FAST", create |-> "CREATE_FAST", hs |-> "fast"]
       ELSE LET c == circuit_pick_create_handshake(Path[1])
            IN  [cell |-> c.cell, create |-> c.cell, hs |-> c.hs]
  ELSE circuit_pick_extend_handshake(Path[i - 1], Path[i])

(* circuit_send_next_onion_skin for hop i: past the last hop the circuit   *)
(* opens; otherwise the skin is created for the chosen handshake (a        *)
(* failure returns -END_CIRC_REASON_INTERNAL and the circuit is closed)    *)
(* and the cell is sent.                                                   *)
circuit_send_next_onion_skin(i) ==
  IF i > Len(Path)
  THEN st' = "open" /\ UNCHANGED cells
  ELSE IF onion_skin_create(NextCell(i).hs, Path[i])
  THEN st' = "awaiting" /\ cells' = Append(cells, NextCell(i))
  ELSE st' = "internal" /\ UNCHANGED cells

(* The first skin, sent once the channel to the first hop is open.         *)
SendFirstSkin ==
  /\ st = "building"
  /\ circuit_send_next_onion_skin(1)
  /\ UNCHANGED <<opt, node, hop, wire, ckeys, rkeys>>

(* circuit_init_cpath_crypto: the first DIGEST_LEN bytes seed the forward  *)
(* digest, the next DIGEST_LEN the backward one, then CIPHER_KEY_LEN bytes *)
(* key each cipher, forward first; reverse swaps forward and backward.     *)
circuit_init_cpath_crypto(kd, reverse) ==
  LET f_digest == SubSeq(kd, 1, DIGEST_LEN)
      b_digest == SubSeq(kd, DIGEST_LEN + 1, 2 * DIGEST_LEN)
      f_crypto == SubSeq(kd, 2 * DIGEST_LEN + 1, 2 * DIGEST_LEN + CIPHER_KEY_LEN)
      b_crypto == SubSeq(kd, 2 * DIGEST_LEN + CIPHER_KEY_LEN + 1, CPATH_KEY_MATERIAL_LEN)
  IN  IF reverse
      THEN [f_digest |-> b_digest, b_digest |-> f_digest,
            f_crypto |-> b_crypto, b_crypto |-> f_crypto]
      ELSE [f_digest |-> f_digest, b_digest |-> b_digest,
            f_crypto |-> f_crypto, b_crypto |-> b_crypto]

(* Seeded fault for mutation analysis: the responder asks                 *)
(* circuit_init_cpath_crypto to reverse the keys.                          *)
OnionskinAnswerReversed(kd, ok) ==
  LET cp == circuit_init_cpath_crypto(kd, TRUE)
  IN  /\ st = "awaiting"
      /\ IF ok
         THEN /\ st' = "answered"
              /\ wire' = kd
              /\ rkeys' = Append(rkeys, [n_digest |-> cp.f_digest, n_crypto |-> cp.f_crypto,
                                         p_digest |-> cp.b_digest, p_crypto |-> cp.b_crypto])
         ELSE st' = "closed" /\ UNCHANGED <<wire, rkeys>>
      /\ UNCHANGED <<opt, node, hop, cells, ckeys>>

(* onionskin_answer at relay Path[hop]: the created cell is formatted and  *)
(* the keys from the handshake installed, forward keys on the n side and   *)
(* backward keys on the p side; a failure (formatting, cipher setup)       *)
(* closes the relay's circuit, and the client sees it torn down.           *)
onionskin_answer(kd, ok) ==
  LET cp == circuit_init_cpath_crypto(kd, FALSE)
  IN  /\ st = "awaiting"
      /\ IF ok
         THEN /\ st' = "answered"
              /\ wire' = kd
              /\ rkeys' = Append(rkeys, [n_digest |-> cp.f_digest, n_crypto |-> cp.f_crypto,
                                         p_digest |-> cp.b_digest, p_crypto |-> cp.b_crypto])
         ELSE st' = "closed" /\ UNCHANGED <<wire, rkeys>>
      /\ UNCHANGED <<opt, node, hop, cells, ckeys>>

(* circuit_finish_handshake at the client: the reply's key material seeds  *)
(* the hop's keys (a failure closes the circuit), the hop is open, and     *)
(* circuit_send_next_onion_skin goes on with the next hop.                 *)
circuit_finish_handshake(ok) ==
  /\ st = "answered"
  /\ IF ok
     THEN /\ ckeys' = Append(ckeys, circuit_init_cpath_crypto(wire, FALSE))
          /\ hop' = hop + 1
          /\ circuit_send_next_onion_skin(hop + 1)
     ELSE st' = "closed" /\ UNCHANGED <<ckeys, hop, cells>>
  /\ UNCHANGED <<opt, node, wire, rkeys>>

Next ==
  \/ SendFirstSkin
  \/ \E kd \in KeyMaterial, ok \in BOOLEAN : onionskin_answer(kd, ok)
  \/ \E ok \in BOOLEAN : circuit_finish_handshake(ok)

Spec == Init /\ [][Next]_vars
-----------------------------------------------------------------------------
(* The choice spec 4.3 describes.  FAST when the first hop's onion key is  *)
(* unknown or, by FastFirstHopPK, for a client that is not a relay; NTOR   *)
(* when the target has a curve25519 key and UseNTorHandshake is on, or is  *)
(* auto and the consensus parameter is on; TAP otherwise.  An extend is    *)
(* EXTEND2 carrying CREATE2 when the handshake is not TAP and the previous *)
(* hop is known to take extend2 (curve25519 key or version flag).          *)
SpecHandshake(i) ==
  LET ntorOn == opt.UseNTorHandshake = 1 \/ (opt.UseNTorHandshake = -1 /\ opt.consensus_ntor)
  IN  IF i = 1 /\ (~node[Path[1]].onion_key \/ (opt.FastFirstHopPK /\ opt.mode = "client"))
      THEN "fast"
      ELSE IF node[Path[i]].curve25519 /\ ntorOn THEN "ntor" ELSE "tap"

SpecCell(i) ==
  LET hs   == SpecHandshake(i)
      prev == node[Path[i - 1]]
  IN  IF i = 1
      THEN LET c == CASE hs = "fast" -> "CREATE_FAST"
                      [] hs = "ntor" -> "CREATE2"
                      [] hs = "tap"  -> "CREATE"
           IN  [cell |-> c, create |-> c, hs |-> hs]
      ELSE IF hs # "tap" /\ prev.known /\ (prev.curve25519 \/ prev.extend2)
      THEN [cell |-> "EXTEND2", create |-> "CREATE2", hs |-> hs]
      ELSE [cell |-> "EXTEND", create |-> "CREATE", hs |-> hs]

(* Every create or extend cell circuit_send_next_onion_skin sends carries  *)
(* the handshake and cell types spec 4.3 prescribes for its hop, given     *)
(* the options, how we run, and what is known of the hop and of the one    *)
(* before it.                                                              *)
HandshakeAsSpecified == \A i \in DOMAIN cells : cells[i] = SpecCell(i)

(* For every hop both ends hold the same keys per direction: the client's  *)
(* forward digest and cipher are what the relay keeps on its n side, the   *)
(* backward ones what it keeps on its p side; and the four keys are        *)
(* consecutive, disjoint slices covering the whole key material.           *)
KeysAgree ==
  \A i \in DOMAIN ckeys :
    LET c == ckeys[i]
        r == rkeys[i]
    IN  /\ c.f_digest = r.n_digest /\ c.f_crypto = r.n_crypto
        /\ c.b_digest = r.p_digest /\ c.b_crypto = r.p_crypto
        /\ c.f_digest \o c.b_digest \o c.f_crypto \o c.b_crypto \in KeyMaterial
        /\ Len(c.f_digest) = DIGEST_LEN /\ Len(c.f_crypto) = CIPHER_KEY_LEN
=============================================================================
