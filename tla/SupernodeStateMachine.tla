------------------------ MODULE SupernodeStateMachine ------------------------
(***************************************************************************)
(* What x/supernode promises about the state of a supernode, whoever asks  *)
(* for the change: an operator, a staking hook or the audit module.  A     *)
(* step changes any number of supernodes (an epoch end visits them all),   *)
(* each of them along one edge of the diagram.                             *)
(***************************************************************************)
CONSTANT Nodes

Unregistered == "None"

NodeStates == {"Active", "Disabled", "Stopped", "Postponed", "StorageFull"}

(* No edge leaves Disabled except re-registration, only Active nodes are   *)
(* postponed, and Stopped nodes come back as Active and nothing else.      *)
Edges ==
  { <<Unregistered, "Active">>, <<"Disabled", "Active">>,
    <<"Stopped", "Active">>,
    <<"Active", "Stopped">>, <<"Active", "Postponed">>,
    <<"Active", "StorageFull">>,
    <<"StorageFull", "Active">>, <<"StorageFull", "Stopped">>,
    <<"Postponed", "Active">>, <<"Postponed", "StorageFull">>,
    <<"Postponed", "Stopped">> }
  \cup { <<s, "Disabled">> : s \in NodeStates \ {"Disabled"} }

VARIABLE life   \* the current state of every node

TypeOK == life \in [Nodes -> NodeStates \cup {Unregistered}]

Init == life = [v \in Nodes |-> Unregistered]

Next ==
  /\ life' \in [Nodes -> NodeStates \cup {Unregistered}]
  /\ \A v \in Nodes : life'[v] # life[v] => <<life[v], life'[v]>> \in Edges

Spec == Init /\ [][Next]_life
=============================================================================
