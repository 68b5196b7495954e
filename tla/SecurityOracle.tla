--------------------------- MODULE SecurityOracle ---------------------------
(* The role oracle the paper's security analysis scores the recorded       *)
(* denials with (paper_iot/V10/analysis/scripts/06_security_oracle.py): a  *)
(* copy of the chaincode's tables, the corrected tables, and the scoring.  *)
EXTENDS HrbacRoles, Integers, Sequences, FiniteSets

ROLE_PERMISSIONS_DEPLOYED ==
  [SupplyChain |-> {"ReadOwn"},
   Certifier   |-> {"ReadZone", "ReadAudit"},
   Agronomist  |-> {"ControlZone", "IssueCrossZone"},
   Farmer      |-> {"WriteSensor"},
   Sensor      |-> {"WriteSensor"},
   Gateway     |-> {"ReadZone", "ControlZone"},
   Admin       |-> {"ReadAll", "ControlAll", "ManageRoles", "AdminAll"}]

ROLE_PERMISSIONS_INTENDED ==
  [SupplyChain |-> {"ReadOwn"},
   Certifier   |-> {"ReadAudit"},
   Agronomist  |-> {"IssueCrossZone", "ReadZone"},
   Farmer      |-> {"WriteSensor", "ControlZone", "ReadZone"},
   Sensor      |-> {"WriteSensor"},
   Gateway     |-> {"ReadZone", "ControlZone"},
   Admin       |-> {"ReadAll", "ControlAll", "ManageRoles", "AdminAll"}]

(* Slip: gateways and administrators inherit nothing.                       *)
ROLE_ANCESTORS_SLIP ==
  [SupplyChain |-> {"SupplyChain"},
   Certifier   |-> {"Certifier", "SupplyChain"},
   Agronomist  |-> {"Agronomist", "Certifier", "SupplyChain"},
   Farmer      |-> {"Farmer", "Agronomist", "Certifier", "SupplyChain"},
   Sensor      |-> {"Sensor"},
   Gateway     |-> {"Gateway"},
   Admin       |-> {"Admin"}]

(* The same for both.                                                       *)
ROLE_ANCESTORS ==
  [SupplyChain |-> {"SupplyChain"},
   Certifier   |-> {"Certifier", "SupplyChain"},
   Agronomist  |-> {"Agronomist", "Certifier", "SupplyChain"},
   Farmer      |-> {"Farmer", "Agronomist", "Certifier", "SupplyChain"},
   Sensor      |-> {"Sensor"},
   Gateway     |-> {"Gateway", "Sensor"},
   Admin       |-> {"Admin", "Farmer", "Agronomist", "Certifier", "SupplyChain",
                    "Gateway", "Sensor"}]

effective_permissions(role, perms) ==
  IF role \in DOMAIN ROLE_ANCESTORS THEN UNION {perms[a] : a \in ROLE_ANCESTORS[role]} ELSE {}

has_permission(role, permission, perms) ==
  effective_permissions(role, perms) \cap {permission, "AdminAll"} # {}

(* s2_permission_matrix: a row of the supplement's table.                   *)
s2_permission_matrix(role) ==
  {p \in Permissions : {p, "AdminAll"} \cap effective_permissions(role, ROLE_PERMISSIONS_DEPLOYED) # {}}

-----------------------------------------------------------------------------
OPERATION_PERMISSION ==
  [WriteSensor |-> "WriteSensor", ReadSensorData |-> "ReadZone", ReadZone |-> "ReadZone",
   ControlZone |-> "ControlZone", ReadAudit |-> "ReadAudit", ReadProvenance |-> "ReadOwn",
   ReadEnvironmentalRecord |-> "ReadZone"]

ROLE_OP_DENY_REASONS == {"ROLE_INSUFFICIENT", "OP_NOT_PERMITTED"}

Mapped(a) == a.operation \in DOMAIN OPERATION_PERMISSION

should_permit(a, perms) == has_permission(a.role, OPERATION_PERMISSION[a.operation], perms)

(* main over a sequence of recorded attempts.  A row without a mapped       *)
(* operation is neither confirmed nor discrepant; without any row in scope  *)
(* the percentages divide by zero.                                          *)
Scored(attempts, perms) ==
  LET scope == {i \in DOMAIN attempts : attempts[i].deny_reason \in ROLE_OP_DENY_REASONS}
      mapped == {i \in scope : Mapped(attempts[i])}
      discrepant == {i \in mapped : should_permit(attempts[i], perms)}
  IN  [total |-> Len(attempts), scoped |-> Cardinality(scope),
       confirmed |-> Cardinality(mapped \ discrepant), discrepant |-> Cardinality(discrepant),
       pairs |-> {<<attempts[i].role, attempts[i].operation>> : i \in discrepant},
       unmapped |-> Cardinality({i \in DOMAIN attempts : ~Mapped(attempts[i])}),
       raises |-> scope = {}]
=============================================================================
