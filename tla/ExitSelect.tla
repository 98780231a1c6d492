----------------------------- MODULE ExitSelect -----------------------------
(***************************************************************************)
(* Exit choice for a general-purpose circuit: choose_good_exit_server_     *)
(* general with its helpers ap_stream_wants_exit_attention and             *)
(* node_handles_some_port, and the predicted-port history it prunes.       *)
(*                                                                         *)
(* A node is abstracted to what the choice tells apart: whether it passes  *)
(* the hard filters of the first loop, whether it is reliable enough for   *)
(* a circuit that needs uptime or capacity (node_is_unreliable), and the   *)
(* ports its exit policy accepts.  A waiting stream is the port it wants.  *)
(* node_sl_choose_by_bandwidth picks any member of a non-empty list.       *)
(***************************************************************************)
EXTENDS Integers, FiniteSetsExt

CONSTANTS
  Nodes,    \* relays of the consensus (model values)
  Ports,    \* exit ports streams ask for
  Streams,  \* AP connections that may wait for a circuit
  NoNode,   \* the NULL result
  NoPort,   \* a stream that does not want exit attention
  LongLivedPorts \* options->LongLivedPorts

ASSUME NoNode \notin Nodes /\ NoPort \notin Ports /\ LongLivedPorts \subseteq Ports

VARIABLES
  nodes,      \* nodes[n]: the node as the exit choice sees it
  pending,    \* pending[s]: the port stream s waits for, or NoPort
  predicted,  \* rep_hist's predicted ports
  last        \* the last request and its result

vars == <<nodes, pending, predicted, last>>

NodeView == [usable: BOOLEAN, reliable: BOOLEAN, policy: SUBSET Ports]

(* ap_stream_wants_exit_attention over the connection array.               *)
Waiting == {s \in Streams : pending[s] # NoPort}

(* The filter chain of the first loop: -1 unless the node may be an exit;  *)
(* with need set, node_is_unreliable rejects an unreliable node, and a     *)
(* policy that rejects all ports is rejected.                              *)
Candidate(n, need) ==
  /\ nodes[n].usable
  /\ need => nodes[n].reliable
  /\ nodes[n].policy # {}

(* n_supported[i]: how many waiting streams connection_ap_can_use_exit     *)
(* would let leave from n.                                                 *)
Support(n) == Cardinality({s \in Waiting : pending[s] \in nodes[n].policy})

(* The nodes that reach the best_support comparison: with streams waiting, *)
(* a candidate supporting none of them is skipped.                         *)
Scored(need) ==
  {n \in Nodes : Candidate(n, need) /\ ~(Waiting # {} /\ Support(n) = 0)}

(* Seeded fault for mutation analysis: the comparison with best_support   *)
(* is reversed, keeping the least-supporting scored node.                  *)
BestSupportLeast(need) ==
  IF Scored(need) = {} THEN -1 ELSE Min({Support(n) : n \in Scored(need)})

BestSupport(need) ==
  IF Scored(need) = {} THEN -1 ELSE Max({Support(n) : n \in Scored(need)})

node_handles_some_port(n, ports) == nodes[n].policy \cap ports # {}

(* Seeded fault for mutation analysis: the fallback loop stops after the  *)
(* predicted-port attempt.                                                 *)
RECURSIVE ExitNoSecondAttempt(_, _)
ExitNoSecondAttempt(need, needed) ==
  LET best == BestSupport(need)
      pp   == {n \in Nodes : Candidate(n, need) /\ node_handles_some_port(n, needed)}
  IN  IF best > 0
      THEN [exits |-> {n \in Scored(need) : Support(n) = best}, removed |-> {}]
      ELSE IF best = -1 /\ need THEN ExitNoSecondAttempt(FALSE, needed)
      ELSE IF pp # {} THEN [exits |-> pp, removed |-> {}]
      ELSE [exits |-> {NoNode}, removed |-> needed]

(* choose_good_exit_server_general(need, ...) with the unhandled predicted *)
(* ports needed: the nodes it may return (NoNode for NULL) and the ports   *)
(* it removes from the prediction history.  With no node supporting a      *)
(* waiting stream and no candidate scored, it starts over without the      *)
(* uptime/capacity need; otherwise it tries the nodes handling a needed    *)
(* port, drops the needed ports if there are none, and takes any candidate.*)
RECURSIVE choose_good_exit_server_general(_, _)
choose_good_exit_server_general(need, needed) ==
  LET best == BestSupport(need)
      pp   == {n \in Nodes : Candidate(n, need) /\ node_handles_some_port(n, needed)}
      any  == {n \in Nodes : Candidate(n, need)}
  IN  IF best > 0
      THEN [exits |-> {n \in Scored(need) : Support(n) = best}, removed |-> {}]
      ELSE IF best = -1 /\ need THEN choose_good_exit_server_general(FALSE, needed)
      ELSE IF pp # {} THEN [exits |-> pp, removed |-> {}]
      ELSE [exits |-> IF any = {} THEN {NoNode} ELSE any, removed |-> needed]

(* No exit has been asked for yet. *)
NoRequest == [asked |-> FALSE, need |-> FALSE, needed |-> {}, out |-> NoNode]

Init ==
  /\ nodes \in [Nodes -> NodeView]
  /\ pending \in [Streams -> Ports \cup {NoPort}]
  /\ predicted = {}
  /\ last = NoRequest

(* rep_hist_note_used_port: a port used by a stream becomes predicted.     *)
PredictPort(p) ==
  /\ p \notin predicted
  /\ predicted' = predicted \cup {p}
  /\ UNCHANGED <<nodes, pending, last>>

(* A general exit is chosen for a circuit that may need uptime/capacity;   *)
(* needed is circuit_get_unhandled_ports, the predicted ports no current   *)
(* circuit handles.                                                        *)
ChooseExit(need, needed) ==
  LET res == choose_good_exit_server_general(need, needed)
  IN  /\ \E x \in res.exits : last' = [asked |-> TRUE, need |-> need, needed |-> needed, out |-> x]
      /\ predicted' = predicted \ res.removed
      /\ UNCHANGED <<nodes, pending>>

(* circuit_all_predicted_ports_handled with the unhandled ports: enough   *)
(* when there are none; capacity is always needed, uptime for a            *)
(* long-lived port.                                                        *)
circuit_all_predicted_ports_handled(unhandled) ==
  [enough |-> unhandled = {}, need_uptime |-> unhandled \cap LongLivedPorts # {},
   need_capacity |-> TRUE]

(* A predictive circuit is launched for the unhandled predicted ports with *)
(* the needs circuit_all_predicted_ports_handled reports.                  *)
PredictiveLaunch(needed) ==
  LET h == circuit_all_predicted_ports_handled(needed)
  IN  ~h.enough /\ ChooseExit(h.need_uptime \/ h.need_capacity, needed)

Next ==
  \/ \E p \in Ports : PredictPort(p)
  \/ \E need \in BOOLEAN, needed \in SUBSET predicted : ChooseExit(need, needed)
  \/ \E needed \in SUBSET predicted : PredictiveLaunch(needed)

Spec == Init /\ [][Next]_vars
-----------------------------------------------------------------------------
(* When a node that meets the circuit's needs can carry a waiting stream,  *)
(* the exit chosen meets those needs and carries as many waiting streams   *)
(* as any such node: the scoring loop, the skip of unsupported nodes and   *)
(* the best_support bookkeeping of choose_good_exit_server_general.        *)
ExitServesMost ==
  last.asked =>
  LET C == {n \in Nodes : Candidate(n, last.need)}
  IN  (\E n \in C : Support(n) > 0) =>
        /\ last.out \in C
        /\ \A n \in C : Support(n) <= Support(last.out)

(* The exit choice fails only when no node at all may be an exit, whatever *)
(* the needs, the waiting streams and the predicted ports: the relaxed     *)
(* retry and the second fallback attempt always find a node otherwise.     *)
ExitFoundWhenAnyUsable ==
  last.asked /\ last.out = NoNode => \A n \in Nodes : ~Candidate(n, FALSE)

(* Spec 3.2, exit selection: among the candidates, the best-scoring ones   *)
(* if any scores positive, else those handling a predicted port, else any  *)
(* candidate; the uptime/capacity needs are relaxed only if the first pass *)
(* found no candidate at all.                                              *)
RECURSIVE SpecExits(_, _)
SpecExits(need, needed) ==
  LET C   == {n \in Nodes : Candidate(n, need)}
      top == IF C = {} THEN 0 ELSE Max({Support(n) : n \in C})
      pp  == {n \in C : node_handles_some_port(n, needed)}
  IN  IF C = {} /\ need THEN SpecExits(FALSE, needed)
      ELSE IF top > 0 THEN {n \in C : Support(n) = top}
      ELSE IF pp # {} THEN pp
      ELSE IF C # {} THEN C
      ELSE {NoNode}

(* Every exit the code chooses is one the spec's procedure may choose.     *)
ExitAsSpecified == last.asked => last.out \in SpecExits(last.need, last.needed)
=============================================================================
