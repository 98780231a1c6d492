----------------------------- MODULE PathSelect -----------------------------
(***************************************************************************)
(* Path choice for one origin circuit: onion_pick_cpath_exit with          *)
(* new_route_len and count_acceptable_nodes, then onion_populate_cpath,    *)
(* one onion_extend_cpath per step, with choose_good_entry_server and      *)
(* choose_good_middle_server.  The general exit is chosen by the           *)
(* operator of ExitSelect, composed here with no stream waiting and no     *)
(* predicted port (its scoring is checked in ExitSelect).                  *)
(*                                                                         *)
(* router_choose_random_node, nodelist_add_node_and_family and             *)
(* choose_random_entry live in routerlist.c, nodelist.c and entrynodes.c;  *)
(* they are taken from spec 4.2.  A relay's declared family is an          *)
(* undirected relation, a set of two-element sets.  No firewall and no     *)
(* ExcludeNodes are configured.                                            *)
(***************************************************************************)
EXTENDS Integers, Sequences, FiniteSets

CONSTANTS
  Nodes,          \* relays of the consensus (model values)
  NoNode,         \* the NULL node
  UseEntryGuards, \* options->UseEntryGuards
  GuardStore      \* the guards of the guard store (entry_guards)

ASSUME
  /\ NoNode \notin Nodes
  /\ UseEntryGuards \in BOOLEAN
  /\ GuardStore \subseteq Nodes

VARIABLES
  nodes,     \* nodes[n]: the relay as path choice sees it
  family,    \* the declared families, as undirected pairs of relays
  req,       \* the circuit_establish_circuit request being served
  desired,   \* build_state->desired_path_len
  chosenExit,\* build_state->chosen_exit
  hops,      \* the cpath so far, first hop first
  phase      \* "idle", "picking", "done" (populated) or "failed"

vars == <<nodes, family, req, desired, chosenExit, hops, phase>>

DEFAULT_ROUTE_LEN == 3

(* up: running, valid and with a descriptor (count_acceptable_nodes);      *)
(* exit: passes every hard filter of the general exit choice; stable: not  *)
(* unreliable for a circuit needing uptime/capacity; guard: the Guard flag.*)
NodeView ==
  {v \in [up: BOOLEAN, exit: BOOLEAN, stable: BOOLEAN, guard: BOOLEAN] : v.exit => v.up}

Pairs == {{a, b} : a, b \in Nodes} \ {{a} : a \in Nodes}

Purposes == {"general", "testing", "intro", "rend"}

(* The requests the launchers make: testing and introduction circuits     *)
(* always come with their exit; a one-hop tunnel is a general circuit to   *)
(* a given directory; is_internal matters only for a general circuit       *)
(* whose exit is chosen here.                                              *)
Requests ==
  {r \in [purpose: Purposes, exit: Nodes \cup {NoNode}, need: BOOLEAN,
          internal: BOOLEAN, onehop: BOOLEAN] :
     /\ r.purpose \in {"testing", "intro"} => r.exit # NoNode
     /\ r.onehop => r.exit # NoNode /\ r.purpose = "general"
     /\ r.internal => r.exit = NoNode /\ r.purpose = "general"}

Ex == INSTANCE ExitSelect
        WITH Ports <- {"p"}, Streams <- {}, NoPort <- "none", LongLivedPorts <- {},
             nodes <- [n \in Nodes |-> [usable |-> nodes[n].exit,
                                        reliable |-> nodes[n].stable,
                                        policy |-> IF nodes[n].exit THEN {"p"} ELSE {}]],
             pending <- [s \in {} |-> "none"], predicted <- {},
             last <- [asked |-> FALSE, need |-> FALSE, needed |-> {}, out |-> NoNode]

(* nodelist_add_node_and_family: the node and every relay of its family.   *)
FamilyOf(n) == {n} \cup {m \in Nodes : {m, n} \in family}

(* router_choose_random_node: the relays it may return, or {NoNode}.       *)
router_choose_random_node(excluded, need, needGuard) ==
  LET S == {n \in Nodes : /\ nodes[n].up /\ n \notin excluded
                          /\ need => nodes[n].stable
                          /\ needGuard => nodes[n].guard}
  IN  IF S = {} THEN {NoNode} ELSE S

count_acceptable_nodes == Cardinality({n \in Nodes : nodes[n].up})

new_route_len(purpose, exitGiven) ==
  LET routelen == DEFAULT_ROUTE_LEN +
                    (IF exitGiven /\ purpose \notin {"testing", "intro"} THEN 1 ELSE 0)
  IN  IF count_acceptable_nodes < 2 THEN -1
      ELSE IF count_acceptable_nodes < routelen THEN count_acceptable_nodes
      ELSE routelen

(* choose_good_exit_server: purposes other than general and rendezvous     *)
(* are unhandled and yield NULL.                                           *)
choose_good_exit_server(purpose, need, internal) ==
  CASE purpose = "general" /\ ~internal -> Ex!choose_good_exit_server_general(need, {}).exits
    [] purpose \in {"general", "rend"}  -> router_choose_random_node({}, need, FALSE)
    [] OTHER                            -> {NoNode}

(* choose_random_entry: a guard of the store (spec 4.2), NULL if none runs.*)
choose_random_entry ==
  LET G == {g \in GuardStore : nodes[g].up} IN IF G = {} THEN {NoNode} ELSE G

choose_good_entry_server ==
  IF UseEntryGuards /\ req.purpose # "testing"
  THEN choose_random_entry
  ELSE router_choose_random_node(
         FamilyOf(chosenExit) \cup
           (IF UseEntryGuards THEN UNION {FamilyOf(g) : g \in GuardStore} ELSE {}),
         req.need, TRUE)

(* Seeded fault for mutation analysis: the loop over the committed hops    *)
(* stops one hop short.                                                    *)
MiddleSkipsLastHop(cur) ==
  router_choose_random_node(
    FamilyOf(chosenExit) \cup UNION {FamilyOf(hops[i]) : i \in 1..(cur - 1)},
    req.need, FALSE)

choose_good_middle_server(cur) ==
  router_choose_random_node(
    FamilyOf(chosenExit) \cup UNION {FamilyOf(hops[i]) : i \in 1..cur},
    req.need, FALSE)

Init ==
  /\ nodes \in [Nodes -> NodeView]
  /\ family \in SUBSET Pairs
  /\ req = CHOOSE r \in Requests : r.purpose = "general" /\ r.exit = NoNode
                                   /\ ~r.need /\ ~r.internal
  /\ desired = 0
  /\ chosenExit = NoNode
  /\ hops = <<>>
  /\ phase = "idle"

(* circuit_establish_circuit up to onion_pick_cpath_exit: the route length *)
(* and the exit, or the circuit is discarded.                              *)
onion_pick_cpath_exit(r) ==
  LET len   == IF r.onehop THEN 1 ELSE new_route_len(r.purpose, r.exit # NoNode)
      exits == IF r.exit # NoNode THEN {r.exit}
               ELSE choose_good_exit_server(r.purpose, r.need, r.internal)
  IN  /\ phase # "picking"
      /\ req' = r
      /\ hops' = <<>>
      /\ \E x \in exits :
           IF len < 1 \/ x = NoNode
           THEN /\ phase' = "failed" /\ desired' = len /\ chosenExit' = NoNode
           ELSE /\ phase' = "picking" /\ desired' = len /\ chosenExit' = x
      /\ UNCHANGED <<nodes, family>>

(* Seeded fault for mutation analysis: the completeness test is strict,   *)
(* so one hop past the desired length is picked.                           *)
ExtendPastDesired ==
  LET cur  == Len(hops)
      pick == IF cur = desired - 1 THEN {chosenExit}
              ELSE IF cur = 0 THEN choose_good_entry_server
              ELSE choose_good_middle_server(cur)
  IN  /\ phase = "picking"
      /\ IF cur > desired
         THEN phase' = "done" /\ UNCHANGED hops
         ELSE \E x \in pick :
                IF x = NoNode THEN phase' = "failed" /\ UNCHANGED hops
                ELSE hops' = Append(hops, x) /\ UNCHANGED phase
      /\ UNCHANGED <<nodes, family, req, desired, chosenExit>>

(* onion_extend_cpath: the path is complete, or the last hop is the chosen *)
(* exit, the first the entry, any other a middle; no choice fails it.      *)
onion_extend_cpath ==
  LET cur  == Len(hops)
      pick == IF cur = desired - 1 THEN {chosenExit}
              ELSE IF cur = 0 THEN choose_good_entry_server
              ELSE choose_good_middle_server(cur)
  IN  /\ phase = "picking"
      /\ IF cur >= desired
         THEN phase' = "done" /\ UNCHANGED hops
         ELSE \E x \in pick :
                IF x = NoNode THEN phase' = "failed" /\ UNCHANGED hops
                ELSE hops' = Append(hops, x) /\ UNCHANGED phase
      /\ UNCHANGED <<nodes, family, req, desired, chosenExit>>

Next ==
  \/ \E r \in Requests : onion_pick_cpath_exit(r)
  \/ onion_extend_cpath

Spec == Init /\ [][Next]_vars
-----------------------------------------------------------------------------
TypeOK ==
  /\ nodes \in [Nodes -> NodeView]
  /\ family \subseteq Pairs
  /\ req \in Requests
  /\ desired \in -1..(DEFAULT_ROUTE_LEN + 1)
  /\ chosenExit \in Nodes \cup {NoNode}
  /\ hops \in Seq(Nodes) /\ (phase = "picking" => Len(hops) <= desired)
  /\ phase \in {"idle", "picking", "done", "failed"}

(* A populated path has the desired length, ends at the chosen exit, and   *)
(* no two of its hops are the same relay or of one family: the entry       *)
(* choice excludes the exit's family, each middle choice the exit's and    *)
(* every committed hop's, and the exit is appended last unchecked.         *)
PathFamiliesDistinct ==
  phase = "done" =>
    /\ Len(hops) = desired /\ hops[desired] = chosenExit
    /\ \A i, j \in 1..Len(hops) : i # j => hops[j] \notin FamilyOf(hops[i])
=============================================================================
