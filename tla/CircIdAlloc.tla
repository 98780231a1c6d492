---------------------------- MODULE CircIdAlloc ----------------------------
(***************************************************************************)
(* The circuit-id allocator of one channel: get_unique_circ_id_by_chan as  *)
(* called by circuit_deliver_create_cell, the release of an id when its    *)
(* circuit is freed, and the peer's circuits on the same channel, which    *)
(* draw from the other half of the id space.  Ids are width bits plus the  *)
(* side bit; the width is a small constant here.                           *)
(***************************************************************************)
EXTENDS Integers, FiniteSets, Bitwise

CONSTANTS
  Width,    \* chan->wide_circ_ids ? 31 : 15, scaled down
  IdType,   \* chan->circ_id_type: "higher", "lower" or "neither"
  Slots     \* our circuits that may hold an id on this channel

ASSUME Width \in 1..4 /\ IdType \in {"higher", "lower", "neither"}

VARIABLES
  next_circ_id,  \* chan->next_circ_id
  ours,          \* ours[s]: n_circ_id of our circuit s on this channel, 0 if none
  peer,          \* ids of the peer's circuits on this channel
  lastId         \* the value get_unique_circ_id_by_chan last returned

vars == <<next_circ_id, ours, peer, lastId>>

max_range == 2^Width
high_bit  == IF IdType = "higher" THEN max_range ELSE 0
(* The peer allocates with the other side bit.                             *)
PeerIds   == {t | (max_range - high_bit) : t \in 1..(max_range - 1)}
CursorVals == 0..max_range

InUse == ({ours[s] : s \in Slots} \cup peer) \ {0}

(* Seeded faults for mutation analysis: the loop without the reset for a  *)
(* zero cursor, with the wrap test off by one, without the side bit.       *)
RECURSIVE LoopNoZeroWrap(_, _, _)
LoopNoZeroWrap(nxt, attempts, used) ==
  LET wrap == nxt >= max_range
      test == IF wrap THEN 1 ELSE nxt
      nx   == IF wrap THEN 2 ELSE nxt + 1
  IN  IF attempts + 1 > max_range THEN [id |-> 0, next |-> nx]
      ELSE IF (test | high_bit) \in used
           THEN LoopNoZeroWrap(nx, attempts + 1, used)
           ELSE [id |-> test | high_bit, next |-> nx]

RECURSIVE LoopWrapPastEnd(_, _, _)
LoopWrapPastEnd(nxt, attempts, used) ==
  LET wrap == nxt = 0 \/ nxt > max_range
      test == IF wrap THEN 1 ELSE nxt
      nx   == IF wrap THEN 2 ELSE nxt + 1
  IN  IF attempts + 1 > max_range THEN [id |-> 0, next |-> nx]
      ELSE IF (test | high_bit) \in used
           THEN LoopWrapPastEnd(nx, attempts + 1, used)
           ELSE [id |-> test | high_bit, next |-> nx]

RECURSIVE LoopNoSideBit(_, _, _)
LoopNoSideBit(nxt, attempts, used) ==
  LET wrap == nxt = 0 \/ nxt >= max_range
      test == IF wrap THEN 1 ELSE nxt
      nx   == IF wrap THEN 2 ELSE nxt + 1
  IN  IF attempts + 1 > max_range THEN [id |-> 0, next |-> nx]
      ELSE IF test \in used
           THEN LoopNoSideBit(nx, attempts + 1, used)
           ELSE [id |-> test, next |-> nx]

(* The do-while loop of get_unique_circ_id_by_chan from cursor nxt after   *)
(* attempts tries: the returned id (0 on failure) and the final cursor.    *)
RECURSIVE ProbeLoop(_, _, _)
ProbeLoop(nxt, attempts, used) ==
  LET wrap == nxt = 0 \/ nxt >= max_range
      test == IF wrap THEN 1 ELSE nxt
      nx   == IF wrap THEN 2 ELSE nxt + 1
  IN  IF attempts + 1 > max_range THEN [id |-> 0, next |-> nx]
      ELSE IF (test | high_bit) \in used
           THEN ProbeLoop(nx, attempts + 1, used)
           ELSE [id |-> test | high_bit, next |-> nx]

get_unique_circ_id_by_chan(nxt, used) ==
  IF IdType = "neither" THEN [id |-> 0, next |-> nxt]
  ELSE ProbeLoop(nxt, 0, used)

Init ==
  /\ next_circ_id \in CursorVals
  /\ ours = [s \in Slots |-> 0]
  /\ peer = {}
  /\ lastId = 0

(* circuit_deliver_create_cell: pick an id and bind it to the circuit; on  *)
(* failure the circuit is closed with RESOURCELIMIT and holds no id.       *)
circuit_deliver_create_cell(s) ==
  LET res == get_unique_circ_id_by_chan(next_circ_id, InUse)
  IN  /\ ours[s] = 0
      /\ next_circ_id' = res.next
      /\ lastId' = res.id
      /\ ours' = [ours EXCEPT ![s] = res.id]
      /\ UNCHANGED peer

(* Our circuit s is freed and its id leaves the channel's map.             *)
ReleaseId(s) ==
  /\ ours[s] # 0
  /\ ours' = [ours EXCEPT ![s] = 0]
  /\ UNCHANGED <<next_circ_id, peer, lastId>>

(* The peer opens or frees a circuit of its own on the channel.            *)
PeerOpen(id) ==
  /\ id \notin peer
  /\ peer' = peer \cup {id}
  /\ UNCHANGED <<next_circ_id, ours, lastId>>

PeerClose(id) ==
  /\ id \in peer
  /\ peer' = peer \ {id}
  /\ UNCHANGED <<next_circ_id, ours, lastId>>

Next ==
  \/ \E s \in Slots : circuit_deliver_create_cell(s) \/ ReleaseId(s)
  \/ \E id \in PeerIds : PeerOpen(id) \/ PeerClose(id)

Spec == Init /\ [][Next]_vars
-----------------------------------------------------------------------------
TypeOK ==
  /\ next_circ_id \in 0..max_range
  /\ ours \in [Slots -> 0..(2 * max_range - 1)]
  /\ peer \subseteq PeerIds
  /\ lastId \in 0..(2 * max_range - 1)

(* Spec invariant 4: no two live circuits on the channel, ours or the      *)
(* peer's, share an id, and every id of ours carries our side bit.          *)
NoIdCollision ==
  /\ \A s, t \in Slots : s # t /\ ours[s] # 0 => ours[s] # ours[t]
  /\ \A s \in Slots : ours[s] \notin peer
  /\ \A s \in Slots : ours[s] # 0 => ours[s] \div max_range = high_bit \div max_range

(* Reference allocator from spec 4.1: the first id, in cyclic order over   *)
(* [1, max_range) from the cursor, that is not in use; 0 when there is     *)
(* none or the peer gave no identity.                                      *)
CyclicOrder(nxt) ==
  LET start == IF nxt = 0 \/ nxt >= max_range THEN 1 ELSE nxt
  IN  [i \in 1..(max_range - 1) |-> ((start - 1 + i - 1) % (max_range - 1)) + 1]

FirstFree(nxt, used) ==
  LET ord  == CyclicOrder(nxt)
      free == {i \in DOMAIN ord : (ord[i] + high_bit) \notin used}
  IN  IF IdType = "neither" \/ free = {} THEN 0
      ELSE ord[CHOOSE i \in free : \A j \in free : i <= j] + high_bit

(* Every allocation of circuit_deliver_create_cell returns exactly the id  *)
(* of the reference allocator: the wrap of the cursor, the side bit, the   *)
(* attempt bound of the loop and its failure when the half is full.        *)
AllocMatchesReference ==
  [][\A s \in Slots :
       circuit_deliver_create_cell(s) => lastId' = FirstFree(next_circ_id, InUse)]_vars
=============================================================================
