----------------------------- MODULE HrbacRoles -----------------------------
(* The role, permission and zone tables of the HRBAC chaincode             *)
(* (chaincode/hrbac/roles.go, zones.go) and the two questions asked of     *)
(* them, as constant operators.                                            *)

Roles == {"Admin", "Gateway", "Farmer", "Agronomist", "Certifier",
          "SupplyChain", "Sensor"}

Permissions == {"ReadOwn", "ReadZone", "ReadAll", "WriteSensor",
                "ControlZone", "ControlAll", "ReadAudit", "ManageRoles",
                "IssueCrossZone", "AdminAll"}

rolePermissions ==
  [SupplyChain |-> {"ReadOwn"},
   Certifier   |-> {"ReadZone", "ReadAudit"},
   Agronomist  |-> {"ControlZone", "IssueCrossZone"},
   Farmer      |-> {"WriteSensor"},
   Sensor      |-> {"WriteSensor"},
   Gateway     |-> {"ReadZone", "ControlZone"},
   Admin       |-> {"ReadAll", "ControlAll", "ManageRoles", "AdminAll"}]

(* The transitive closure of the hierarchy, flattened by hand.             *)
roleAncestors ==
  [SupplyChain |-> {"SupplyChain"},
   Certifier   |-> {"Certifier", "SupplyChain"},
   Agronomist  |-> {"Agronomist", "Certifier", "SupplyChain"},
   Farmer      |-> {"Farmer", "Agronomist", "Certifier", "SupplyChain"},
   Sensor      |-> {"Sensor"},
   Gateway     |-> {"Gateway", "Sensor"},
   Admin       |-> Roles]

(* A role outside the table (the empty role of a certificate without one)  *)
(* has no permissions.                                                     *)
GetEffectivePermissions(r) ==
  UNION {rolePermissions[a] : a \in {b \in Roles : r \in Roles /\ b \in roleAncestors[r]}}

hasPermission(r, p) ==
  p # "" /\ GetEffectivePermissions(r) \cap {p, "AdminAll"} # {}

needsZoneCheck(p) == p \in {"ReadZone", "WriteSensor", "ControlZone"}

validZones == {"North", "South", "East", "West"}

(* What normalizeZones accepts: any of the four zones and the wildcard,    *)
(* and at least one of them when the caller requires it.                   *)
ZonesAccepted(zones, required) ==
  /\ zones \subseteq validZones \cup {"*"}
  /\ required => zones # {}

validateZoneAccess(zones, requested) ==
  /\ requested # ""
  /\ zones \cap {"*", requested} # {}
=============================================================================
