------------------------------ MODULE NodeTypes ------------------------------
(***************************************************************************)
(* The vocabulary of a mesh node (mycelium-core/src/energy.rs and data.rs,   *)
(* mycelium-node/src/forwarding.rs): energy states, message priorities and   *)
(* the policies that depend on them.                                        *)
(***************************************************************************)
EXTENDS Integers

CONSTANT Peer       \* the other nodes

NodeState == {"Active", "Intermittent", "Passive"}

\* priority_rank
Low == 0
Normal == 1
High == 2
Priority == {Low, Normal, High}

\* SimpleEnergyPolicy::can_forward
CanForward(state, priority) ==
    \/ state = "Active"
    \/ state = "Intermittent" /\ priority # Low
    \/ state = "Passive" /\ priority = High

\* base_fanout: how many peers a message is forwarded to at most
BaseFanout(state, priority) ==
    CASE state = "Active"       -> priority + 2
      [] state = "Intermittent" -> priority
      [] state = "Passive"      -> IF priority = High THEN 1 ELSE 0
=============================================================================
