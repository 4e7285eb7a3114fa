------------------------------ MODULE NodeRegistry ------------------------------
(***************************************************************************)
(* The register of trusted nodes (ant_colony/colony/node_registry.py).     *)
(*                                                                         *)
(* The Queen asks it whether a node may receive a mission.  Every call is  *)
(* one dictionary operation, so it is one step; a question that takes      *)
(* several calls is not.                                                   *)
(***************************************************************************)
CONSTANTS
  Nodes,       \* node ids
  Biomes,      \* biome ids
  AntTypes,    \* agent types
  Permits,     \* the permissions a node may be registered with: [biomes, antTypes]
  Unknown      \* what get returns for a node that is not registered

NodeStatus == {"active", "stale", "suspended", "untrusted"}

ASSUME RegistryAssumption ==
  /\ Permits \subseteq [biomes : SUBSET Biomes, antTypes : SUBSET AntTypes]
  /\ Unknown \notin [status : NodeStatus, permit : Permits]

\* nodes[n]: the registered Node, with its status and its permit, or Unknown.
VARIABLE nodes

RegistryInit == nodes = [n \in Nodes |-> Unknown]

IsTrusted(n)      == nodes[n] # Unknown /\ nodes[n].status = "active"
CanRunAnt(n, t)   == IsTrusted(n) /\ t \in nodes[n].permit.antTypes
CanRunBiome(n, b) == IsTrusted(n) /\ b \in nodes[n].permit.biomes

\* register: a node of the same id is overwritten, its status included.
Register(n, status, permit) ==
  nodes' = [nodes EXCEPT ![n] = [status |-> status, permit |-> permit]]

\* Mutant: the node is marked as removed, with a status the schema does not know.
Unregister_Marks(n) == nodes[n] # Unknown /\ nodes' = [nodes EXCEPT ![n].status = "removed"]

\* unregister, set_status and record_heartbeat ignore an unknown node.
Unregister(n) == nodes[n] # Unknown /\ nodes' = [nodes EXCEPT ![n] = Unknown]

SetStatus(n, status) == nodes[n] # Unknown /\ nodes' = [nodes EXCEPT ![n].status = status]

\* record_heartbeat: back to ACTIVE, whatever the status was.
NodeHeartbeat(n) ==
  nodes[n] # Unknown /\ nodes' = [nodes EXCEPT ![n].status = "active"]

RegistryTypeOK ==
  nodes \in [Nodes -> [status : NodeStatus, permit : Permits] \cup {Unknown}]
================================================================================
