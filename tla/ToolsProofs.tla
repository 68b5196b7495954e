----------------------------- MODULE ToolsProofs -----------------------------
(* Theorems about ToolsCheck: what the tools' answers say of their inputs, *)
(* for inputs of any length.                                               *)
EXTENDS ToolsCheck, SequenceTheorems, FiniteSetTheorems, WellFoundedInduction, TLAPS

(* A tool that has run gave the answer to one of the inputs tried.         *)
Answered ==
  \/ tool = "none"
  \/ tool = "compare" /\ input \in Comparisons
     /\ result = Comp!build_report(input.paper, input.live, input.strict)
  \/ tool = "summarise" /\ input \in FilesTried /\ result = Raw!raw_summary(input)
  \/ tool = "page" /\ input \in PagesTried
     /\ result = Raw!raw_sensor_transactions(input.txns, input.limit)
  \/ tool = "score" /\ input \in AttemptsTried
     /\ result = [deployed |-> Oracle!Scored(input, Oracle!ROLE_PERMISSIONS_DEPLOYED),
                  intended |-> Oracle!Scored(input, Oracle!ROLE_PERMISSIONS_INTENDED)]
  \/ tool = "claim" /\ input \in ClaimsTried
     /\ result = [row |-> Claims!Row(input.claim, input.v10, input.v92),
                  validation |-> Claims!Validation(input.expected, input.v10)]
  \/ tool = "pack" /\ input \in PackagesTried
     /\ result = Package(input.cert, KeyFile(input.form, input.seed),
                         KeyFile(input.form, input.seed), input.zone)

LEMMA ToolsInvariance == Spec => []Answered
<1>1. Init => Answered
  BY DEF Init, Answered
<1>2. ASSUME Answered, [Next]_vars PROVE Answered'
  <2>1. CASE UNCHANGED vars
    BY <1>2, <2>1, Zenon DEF Answered, vars
  <2>2. CASE Compare
    BY <2>2, Zenon DEF Compare, Run, Answered
  <2>3. CASE Summarise
    BY <2>3, Zenon DEF Summarise, Run, Answered
  <2>4. CASE PageThrough
    BY <2>4, Zenon DEF PageThrough, Run, Answered
  <2>5. CASE Score
    BY <2>5, Zenon DEF Score, Run, Answered
  <2>6. CASE MapClaim
    BY <2>6, Zenon DEF MapClaim, Run, Answered
  <2>7. CASE Pack
    BY <2>7, Zenon DEF Pack, Run, Answered
  <2> QED
    BY <1>2, <2>1, <2>2, <2>3, <2>4, <2>5, <2>6, <2>7 DEF Next
<1> QED
  BY <1>1, <1>2, PTL DEF Spec

-----------------------------------------------------------------------------
LEMMA RowIs ==
  ASSUME NEW claim, NEW v10, NEW given
  PROVE  LET v92 == IF Claims!ROWS[claim].v92_key THEN given ELSE Nil
             status == Claims!classify(v10, v92, Claims!pct_diff(v10, v92))
         IN  /\ Claims!Row(claim, v10, given).status = status
             /\ Claims!Row(claim, v10, given).raises <=> status \notin Claims!Actions
<1> DEFINE v92 == IF Claims!ROWS[claim].v92_key THEN given ELSE Nil
           status == Claims!classify(v10, v92, Claims!pct_diff(v10, v92))
           row == Claims!Row(claim, v10, given)
<1>1. row = [status |-> status, raises |-> status \notin Claims!Actions]
  BY Zenon DEF Claims!Row
<1> HIDE DEF status, row
<1>2. row.status = status
  BY <1>1, Zenon
<1>3. row.raises <=> status \notin Claims!Actions
  BY <1>1, Zenon
<1> QED
  BY <1>2, <1>3, Zenon DEF status, row

LEMMA ValidationIs ==
  ASSUME NEW expected, NEW real
  PROVE  Claims!Validation(expected, real).match <=> real = expected
BY DEF Claims!Validation

(* A value is no difference from itself.                                    *)
LEMMA NoDifference ==
  ASSUME NEW v, Claims!IsNumber(v), v.value \in Int, Claims!pct_diff(v, v) # Nil
  PROVE  Claims!Below(Claims!pct_diff(v, v), 5)
<1>1. v.value # 0
  BY Zenon DEF Claims!pct_diff
<1>2. PICK n \in Int : n = v.value
  OBVIOUS
<1>3. Claims!pct_diff(v, v) = <<100 * (n - n), Claims!Abs(n)>>
  BY <1>1, <1>2, Zenon DEF Claims!pct_diff
<1>4. PICK zero \in Int, size \in Int : zero = 100 * (n - n) /\ size = Claims!Abs(n)
  BY DEF Claims!Abs
<1>5. zero = 0 /\ size > 0
  BY <1>1, <1>2, <1>4 DEF Claims!Abs
<1>6. Claims!Below(<<zero, size>>, 5)
  BY <1>5 DEF Claims!Below, Claims!Abs
<1> QED
  BY <1>3, <1>4, <1>6, Zenon

(* Every claim gets an action whatever its getter yielded: the status that  *)
(* the table lacks needs a Boolean beside a value of the paper, and the     *)
(* only claim that yields one has none (10_build_claim_map.py:189-205).     *)
THEOREM ClaimsAlwaysAct == Spec => []EveryClaimActs
<1>1. ASSUME Answered, tool = "claim"
      PROVE  /\ ~result.row.raises
             /\ result.validation.match /\ input.v10 # Nil /\ input.expected = input.v92
                  => result.row.status \in {"reproduced_exact", "no_v92_comparator", "not_comparable"}
  <2>1. /\ input.claim \in 1 .. 50
        /\ input.v10 = Nil \/ input.v10.type = Claims!ROWS[input.claim].yields
        /\ \A v \in {input.v10, input.v92} : Claims!IsNumber(v) => v.value \in Int
    BY <1>1, InputAssumption DEF Answered
  <2>2. /\ result.row = Claims!Row(input.claim, input.v10, input.v92)
        /\ result.validation = Claims!Validation(input.expected, input.v10)
    BY <1>1 DEF Answered
  <2> DEFINE v10 == input.v10
             v92 == IF Claims!ROWS[input.claim].v92_key THEN input.v92 ELSE Nil
             pct == Claims!pct_diff(v10, v92)
             status == Claims!classify(v10, v92, pct)
  <2>3. result.row.status = status /\ (result.row.raises <=> status \notin Claims!Actions)
    <3>1. /\ Claims!Row(input.claim, v10, input.v92).status = status
          /\ Claims!Row(input.claim, v10, input.v92).raises <=> status \notin Claims!Actions
      BY RowIs, Zenon
    <3> QED
      BY <2>2, <3>1, Zenon
  <2>4. Claims!IsBool(v10) => v92 = Nil
    <3>1. Claims!IsBool(v10) => Claims!ROWS[input.claim].yields = "bool"
      BY <2>1, Zenon DEF Claims!IsBool
    <3>2. Claims!ROWS[input.claim].yields = "bool" => ~Claims!ROWS[input.claim].v92_key
      BY <2>1 DEF Claims!ROWS
    <3> QED
      BY <3>1, <3>2, Zenon
  <2>5. status \in Claims!Actions
    <3> HIDE DEF v10, v92, pct
    <3> QED
      BY <2>4, Zenon DEF Claims!classify, Claims!Actions
  <2>6. ASSUME result.validation.match, v10 # Nil, input.expected = input.v92
        PROVE  status \in {"reproduced_exact", "no_v92_comparator", "not_comparable"}
    <3>1. input.v92 = v10
      <4>1. Claims!Validation(input.expected, v10).match <=> v10 = input.expected
        BY ValidationIs, Zenon
      <4> QED
        BY <2>2, <2>6, <4>1, Zenon
    <3>2. v92 = Nil \/ v92 = v10
      BY <3>1, Zenon
    <3>3. ASSUME v92 # Nil, pct # Nil PROVE Claims!Below(pct, 5)
      <4>1. v92 = v10 /\ Claims!IsNumber(v10)
        BY <3>2, <3>3, Zenon DEF Claims!pct_diff
      <4>2. v10.value \in Int
        BY <2>1, <4>1, Zenon
      <4> HIDE DEF v10, v92
      <4> QED
        BY <3>3, <4>1, <4>2, NoDifference, Zenon
    <3> HIDE DEF v10, v92, pct
    <3> QED
      BY <2>4, <2>6, <3>3, Zenon DEF Claims!classify
  <2> QED
    BY <2>3, <2>5, <2>6, Zenon
<1>2. Answered => EveryClaimActs
  BY <1>1, Zenon DEF EveryClaimActs
<1> QED
  BY <1>2, ToolsInvariance, PTL

-----------------------------------------------------------------------------
(* The oracle's copy of the tables is the chaincode's.                     *)
LEMMA SameTables ==
  /\ Oracle!ROLE_PERMISSIONS_DEPLOYED = Oracle!rolePermissions
  /\ DOMAIN Oracle!ROLE_ANCESTORS = Oracle!Roles
  /\ \A role \in Oracle!Roles :
       /\ Oracle!ROLE_ANCESTORS[role] = Oracle!roleAncestors[role]
       /\ Oracle!ROLE_ANCESTORS[role] \subseteq Oracle!Roles
<1>1. Oracle!ROLE_PERMISSIONS_DEPLOYED = Oracle!rolePermissions
  BY Zenon DEF Oracle!ROLE_PERMISSIONS_DEPLOYED, Oracle!rolePermissions
<1>2. DOMAIN Oracle!ROLE_ANCESTORS = Oracle!Roles
  BY DEF Oracle!ROLE_ANCESTORS, Oracle!Roles
<1>3. ASSUME NEW role \in Oracle!Roles
      PROVE  /\ Oracle!ROLE_ANCESTORS[role] = Oracle!roleAncestors[role]
             /\ Oracle!ROLE_ANCESTORS[role] \subseteq Oracle!Roles
  <2>1. CASE role = "Admin"
    BY <2>1 DEF Oracle!ROLE_ANCESTORS, Oracle!roleAncestors, Oracle!Roles
  <2>2. CASE role # "Admin"
    BY <2>2 DEF Oracle!ROLE_ANCESTORS, Oracle!roleAncestors, Oracle!Roles
  <2> QED
    BY <2>1, <2>2
<1> QED
  BY <1>1, <1>2, <1>3

LEMMA SamePermissions ==
  ASSUME NEW role
  PROVE  Oracle!effective_permissions(role, Oracle!ROLE_PERMISSIONS_DEPLOYED)
           = Oracle!GetEffectivePermissions(role)
<1>1. CASE role \in Oracle!Roles
  <2>1. {b \in Oracle!Roles : role \in Oracle!Roles /\ b \in Oracle!roleAncestors[role]}
          = Oracle!ROLE_ANCESTORS[role]
    BY <1>1, SameTables, Zenon
  <2> QED
    BY <1>1, <2>1, SameTables, Zenon DEF Oracle!effective_permissions, Oracle!GetEffectivePermissions
<1>2. CASE role \notin Oracle!Roles
  <2>1. {b \in Oracle!Roles : role \in Oracle!Roles /\ b \in Oracle!roleAncestors[role]} = {}
    BY <1>2, Zenon
  <2>2. UNION {Oracle!rolePermissions[a] : a \in {}} = {}
    BY Zenon
  <2> QED
    BY <1>2, <2>1, <2>2, SameTables, Zenon
    DEF Oracle!effective_permissions, Oracle!GetEffectivePermissions
<1> QED
  BY <1>1, <1>2

(* The corrected tables take permissions away and give none.               *)
LEMMA IntendedGrantsLess ==
  ASSUME NEW role
  PROVE  Oracle!effective_permissions(role, Oracle!ROLE_PERMISSIONS_INTENDED)
           \subseteq Oracle!effective_permissions(role, Oracle!ROLE_PERMISSIONS_DEPLOYED)
<1> DEFINE Permits(r, p, perms) == \E a \in Oracle!ROLE_ANCESTORS[r] : p \in perms[a]
<1>1. CASE role \in Oracle!Roles
  <2>1. SUFFICES ASSUME NEW p, NEW a \in Oracle!ROLE_ANCESTORS[role],
                        p \in Oracle!ROLE_PERMISSIONS_INTENDED[a]
                 PROVE  \E b \in Oracle!ROLE_ANCESTORS[role] :
                          p \in Oracle!ROLE_PERMISSIONS_DEPLOYED[b]
    BY <1>1, SameTables, Zenon DEF Oracle!effective_permissions
  <2>2. a \in Oracle!Roles
    BY <1>1, <2>1, SameTables, Zenon
  <2>3. CASE a \in {"SupplyChain", "Certifier", "Sensor", "Gateway", "Admin"}
    BY <2>1, <2>3 DEF Oracle!ROLE_PERMISSIONS_INTENDED, Oracle!ROLE_PERMISSIONS_DEPLOYED
  <2>4. CASE a = "Agronomist"
    <3>1. "Certifier" \in Oracle!ROLE_ANCESTORS[role] /\ "Agronomist" \in Oracle!ROLE_ANCESTORS[role]
      BY <1>1, <2>1, <2>4 DEF Oracle!ROLE_ANCESTORS, Oracle!Roles
    <3> QED
      BY <2>1, <2>4, <3>1 DEF Oracle!ROLE_PERMISSIONS_INTENDED, Oracle!ROLE_PERMISSIONS_DEPLOYED
  <2>5. CASE a = "Farmer"
    <3>1. /\ "Certifier" \in Oracle!ROLE_ANCESTORS[role] /\ "Agronomist" \in Oracle!ROLE_ANCESTORS[role]
          /\ "Farmer" \in Oracle!ROLE_ANCESTORS[role]
      BY <1>1, <2>1, <2>5 DEF Oracle!ROLE_ANCESTORS, Oracle!Roles
    <3> QED
      BY <2>1, <2>5, <3>1 DEF Oracle!ROLE_PERMISSIONS_INTENDED, Oracle!ROLE_PERMISSIONS_DEPLOYED
  <2> QED
    BY <2>2, <2>3, <2>4, <2>5 DEF Oracle!Roles
<1>2. CASE role \notin Oracle!Roles
  BY <1>2, SameTables, Zenon DEF Oracle!effective_permissions
<1> QED
  BY <1>1, <1>2

LEMMA SameAnswers ==
  ASSUME NEW role, NEW permission, permission # ""
  PROVE  /\ Oracle!has_permission(role, permission, Oracle!ROLE_PERMISSIONS_DEPLOYED)
              <=> Oracle!hasPermission(role, permission)
         /\ Oracle!has_permission(role, permission, Oracle!ROLE_PERMISSIONS_INTENDED)
              => Oracle!has_permission(role, permission, Oracle!ROLE_PERMISSIONS_DEPLOYED)
<1>1. Oracle!has_permission(role, permission, Oracle!ROLE_PERMISSIONS_DEPLOYED)
        <=> Oracle!hasPermission(role, permission)
  BY SamePermissions, Zenon DEF Oracle!has_permission, Oracle!hasPermission
<1>2. Oracle!has_permission(role, permission, Oracle!ROLE_PERMISSIONS_INTENDED)
        => Oracle!has_permission(role, permission, Oracle!ROLE_PERMISSIONS_DEPLOYED)
  <2> DEFINE few == Oracle!effective_permissions(role, Oracle!ROLE_PERMISSIONS_INTENDED)
             many == Oracle!effective_permissions(role, Oracle!ROLE_PERMISSIONS_DEPLOYED)
  <2>1. few \subseteq many
    BY IntendedGrantsLess, Zenon
  <2> HIDE DEF few, many
  <2>2. few \cap {permission, "AdminAll"} # {} => many \cap {permission, "AdminAll"} # {}
    BY <2>1
  <2> QED
    BY <2>2, Zenon DEF few, many, Oracle!has_permission
<1> QED
  BY <1>1, <1>2

(* The recorded denials in scope are confirmed, discrepant or unmapped.    *)
LEMMA ScopeSplits ==
  ASSUME NEW scope, IsFiniteSet(scope), NEW mapped, mapped \subseteq scope,
         NEW discrepant, discrepant \subseteq mapped
  PROVE  Cardinality(scope) = Cardinality(mapped \ discrepant) + Cardinality(discrepant)
                                + Cardinality(scope \ mapped)
<1>1. IsFiniteSet(mapped) /\ IsFiniteSet(discrepant)
  BY FS_Subset
<1>2. IsFiniteSet(mapped \ discrepant) /\ IsFiniteSet(scope \ mapped)
  BY <1>1, FS_Difference
<1>3. /\ Cardinality(scope) \in Nat /\ Cardinality(mapped) \in Nat /\ Cardinality(discrepant) \in Nat
      /\ Cardinality(mapped \ discrepant) \in Nat /\ Cardinality(scope \ mapped) \in Nat
  BY <1>1, <1>2, FS_CardinalityType
<1>4. /\ Cardinality(scope \ mapped) = Cardinality(scope) - Cardinality(scope \cap mapped)
      /\ Cardinality(mapped \ discrepant) = Cardinality(mapped) - Cardinality(mapped \cap discrepant)
  BY <1>1, FS_Difference
<1>5. scope \cap mapped = mapped /\ mapped \cap discrepant = discrepant
  OBVIOUS
<1>6. /\ Cardinality(scope \ mapped) = Cardinality(scope) - Cardinality(mapped)
      /\ Cardinality(mapped \ discrepant) = Cardinality(mapped) - Cardinality(discrepant)
  BY <1>4, <1>5, Zenon
<1> QED
  BY <1>3, <1>6

MappedIn(attempts) == {i \in Scoped(attempts) : Oracle!Mapped(attempts[i])}

DiscrepantIn(attempts, perms) ==
  {i \in MappedIn(attempts) : Oracle!should_permit(attempts[i], perms)}

PairsOf(attempts, I) == {<<attempts[i].role, attempts[i].operation>> : i \in I}

LEMMA SameCardinality == \A S : Oracle!Cardinality(S) = Cardinality(S)
BY Zenon DEF Cardinality, Oracle!Cardinality

LEMMA ScoredIs ==
  ASSUME NEW attempts, NEW perms
  PROVE  LET s == Oracle!Scored(attempts, perms)
         IN  /\ s.pairs = PairsOf(attempts, DiscrepantIn(attempts, perms))
             /\ s.scoped = Cardinality(Scoped(attempts))
             /\ s.confirmed = Cardinality(MappedIn(attempts) \ DiscrepantIn(attempts, perms))
             /\ s.discrepant = Cardinality(DiscrepantIn(attempts, perms))
<1> DEFINE s == Oracle!Scored(attempts, perms)
           total == Oracle!Len(attempts)
           scoped == Cardinality(Scoped(attempts))
           confirmed == Cardinality(MappedIn(attempts) \ DiscrepantIn(attempts, perms))
           discrepant == Cardinality(DiscrepantIn(attempts, perms))
           pairs == PairsOf(attempts, DiscrepantIn(attempts, perms))
           unmapped == Cardinality({i \in DOMAIN attempts : ~Oracle!Mapped(attempts[i])})
           raises == Scoped(attempts) = {}
<1>1. s = [total |-> total, scoped |-> scoped, confirmed |-> confirmed, discrepant |-> discrepant,
           pairs |-> pairs, unmapped |-> unmapped, raises |-> raises]
  BY SameCardinality, Zenon DEF Oracle!Scored, Scoped, MappedIn, DiscrepantIn, PairsOf
<1> HIDE DEF s, total, scoped, confirmed, discrepant, pairs, unmapped, raises
<1>2. s.pairs = pairs /\ s.scoped = scoped /\ s.confirmed = confirmed /\ s.discrepant = discrepant
  BY <1>1
<1> QED
  BY <1>2, Zenon DEF s, scoped, confirmed, discrepant, pairs

(* The chaincode grants attempt i.                                         *)
GrantedIn(attempts, i) ==
  /\ Oracle!Mapped(attempts[i])
  /\ Oracle!hasPermission(attempts[i].role, Oracle!OPERATION_PERMISSION[attempts[i].operation])

(* No operation asks for the empty permission, which nobody has.           *)
LEMMA AskedForSomething ==
  ASSUME NEW a, Oracle!Mapped(a)
  PROVE  Oracle!OPERATION_PERMISSION[a.operation] # ""
<1>1. a.operation \in {"WriteSensor", "ReadSensorData", "ReadZone", "ControlZone", "ReadAudit",
                       "ReadProvenance", "ReadEnvironmentalRecord"}
  BY DEF Oracle!Mapped, Oracle!OPERATION_PERMISSION
<1>2. /\ Oracle!OPERATION_PERMISSION["WriteSensor"] = "WriteSensor"
      /\ Oracle!OPERATION_PERMISSION["ReadSensorData"] = "ReadZone"
      /\ Oracle!OPERATION_PERMISSION["ReadZone"] = "ReadZone"
      /\ Oracle!OPERATION_PERMISSION["ControlZone"] = "ControlZone"
      /\ Oracle!OPERATION_PERMISSION["ReadAudit"] = "ReadAudit"
      /\ Oracle!OPERATION_PERMISSION["ReadProvenance"] = "ReadOwn"
      /\ Oracle!OPERATION_PERMISSION["ReadEnvironmentalRecord"] = "ReadZone"
  BY DEF Oracle!OPERATION_PERMISSION
<1> QED
  BY <1>1, <1>2, Zenon

LEMMA DiscrepantAreGranted ==
  ASSUME NEW attempts
  PROVE  /\ DiscrepantIn(attempts, Oracle!ROLE_PERMISSIONS_DEPLOYED)
              = {i \in Scoped(attempts) : GrantedIn(attempts, i)}
         /\ DiscrepantIn(attempts, Oracle!ROLE_PERMISSIONS_INTENDED)
              \subseteq DiscrepantIn(attempts, Oracle!ROLE_PERMISSIONS_DEPLOYED)
<1>1. \A i \in MappedIn(attempts) : Oracle!OPERATION_PERMISSION[attempts[i].operation] # ""
  BY AskedForSomething, Zenon DEF MappedIn
<1> QED
  BY <1>1, SameAnswers, Zenon DEF Oracle!should_permit, DiscrepantIn, MappedIn, GrantedIn

(* The oracle calls a denial discrepant exactly when the chaincode's tables *)
(* grant the operation (06_security_oracle.py:26-143, roles.go).            *)
THEOREM OracleAlwaysChaincode == Spec => []OracleIsChaincode
<1>1. ASSUME Answered, tool = "score"
      PROVE  /\ result.deployed.pairs = PairsOf(input, {i \in Scoped(input) : GrantedIn(input, i)})
             /\ result.deployed.scoped = result.deployed.confirmed + result.deployed.discrepant
                  + Cardinality({i \in Scoped(input) : ~Oracle!Mapped(input[i])})
             /\ result.intended.pairs \subseteq result.deployed.pairs
             /\ \A i \in DOMAIN input :
                  Oracle!s2_permission_matrix(input[i].role)
                    = {p \in Oracle!Permissions : Oracle!hasPermission(input[i].role, p)}
  <2>1. /\ result.deployed = Oracle!Scored(input, Oracle!ROLE_PERMISSIONS_DEPLOYED)
        /\ result.intended = Oracle!Scored(input, Oracle!ROLE_PERMISSIONS_INTENDED)
        /\ input \in AttemptsTried
    <3>1. /\ result = [deployed |-> Oracle!Scored(input, Oracle!ROLE_PERMISSIONS_DEPLOYED),
                       intended |-> Oracle!Scored(input, Oracle!ROLE_PERMISSIONS_INTENDED)]
          /\ input \in AttemptsTried
      BY <1>1, Zenon DEF Answered
    <3> QED
      BY <3>1, Zenon
  <2> DEFINE few == DiscrepantIn(input, Oracle!ROLE_PERMISSIONS_INTENDED)
             many == DiscrepantIn(input, Oracle!ROLE_PERMISSIONS_DEPLOYED)
             mapped == MappedIn(input)
  <2>2. /\ result.deployed.pairs = PairsOf(input, many)
        /\ result.deployed.scoped = Cardinality(Scoped(input))
        /\ result.deployed.confirmed = Cardinality(mapped \ many)
        /\ result.deployed.discrepant = Cardinality(many)
        /\ result.intended.pairs = PairsOf(input, few)
    BY <2>1, ScoredIs, Zenon
  <2>3. IsFiniteSet(Scoped(input))
    <3>1. PICK n \in Nat : DOMAIN input = 1 .. n
      BY <2>1, InputAssumption
    <3>2. IsFiniteSet(DOMAIN input)
      BY <3>1, FS_Interval
    <3> QED
      BY <3>2, FS_Subset DEF Scoped
  <2>4. many = {i \in Scoped(input) : GrantedIn(input, i)} /\ few \subseteq many
    BY DiscrepantAreGranted, Zenon
  <2>5. mapped \subseteq Scoped(input) /\ many \subseteq mapped
    BY Zenon DEF MappedIn, DiscrepantIn
  <2>6. Scoped(input) \ mapped = {i \in Scoped(input) : ~Oracle!Mapped(input[i])}
    BY Zenon DEF MappedIn
  <2> HIDE DEF few, many, mapped
  <2>7. Cardinality(Scoped(input)) = Cardinality(mapped \ many) + Cardinality(many)
                                       + Cardinality(Scoped(input) \ mapped)
    BY <2>3, <2>5, ScopeSplits, Zenon
  <2>8. PairsOf(input, few) \subseteq PairsOf(input, many)
    BY <2>4, Zenon DEF PairsOf
  <2>9. ASSUME NEW i \in DOMAIN input
        PROVE  Oracle!s2_permission_matrix(input[i].role)
                 = {p \in Oracle!Permissions : Oracle!hasPermission(input[i].role, p)}
    <3> DEFINE role == input[i].role
    <3>1. \A p \in Oracle!Permissions : Oracle!hasPermission(role, p) <=>
            {p, "AdminAll"} \cap Oracle!effective_permissions(role, Oracle!ROLE_PERMISSIONS_DEPLOYED) # {}
      <4>1. \A p \in Oracle!Permissions : p # ""
        BY DEF Oracle!Permissions
      <4> QED
        BY <4>1, SamePermissions, Zenon DEF Oracle!hasPermission
    <3> HIDE DEF role
    <3> QED
      BY <3>1, Zenon DEF role, Oracle!s2_permission_matrix
  <2> QED
    BY <2>2, <2>4, <2>6, <2>7, <2>8, <2>9, Zenon
<1>2. Answered => OracleIsChaincode
  BY <1>1, Zenon DEF OracleIsChaincode, PairsOf, GrantedIn
<1> QED
  BY <1>2, ToolsInvariance, PTL

-----------------------------------------------------------------------------
(* Sequences put behind each other.                                        *)
LEMMA Middle ==
  ASSUME NEW S, NEW a \in Seq(S), NEW b \in Seq(S), NEW c \in Seq(S),
         NEW m \in Int, m = Len(a) + 1, NEW n \in Int, n = Len(a) + Len(b)
  PROVE  SubSeq((a \o b) \o c, m, n) = b
<1> DEFINE w == (a \o b) \o c
           p == SubSeq(w, m, n)
<1>1. PICK la \in Nat, lb \in Nat, lc \in Nat : la = Len(a) /\ lb = Len(b) /\ lc = Len(c)
  BY LenProperties
<1>2. /\ a \o b \in Seq(S) /\ Len(a \o b) = la + lb
      /\ \A i \in 1 .. la + lb : (a \o b)[i] = IF i <= la THEN a[i] ELSE b[i - la]
  BY <1>1, ConcatProperties, Zenon
<1>3. /\ w \in Seq(S) /\ Len(w) = (la + lb) + lc
      /\ \A i \in 1 .. (la + lb) + lc : w[i] = IF i <= la + lb THEN (a \o b)[i] ELSE c[i - (la + lb)]
  <2> DEFINE ab == a \o b
  <2>1. ab \in Seq(S) /\ Len(ab) = la + lb
    BY <1>2, Zenon
  <2> HIDE DEF ab
  <2>2. /\ ab \o c \in Seq(S) /\ Len(ab \o c) = Len(ab) + Len(c)
        /\ \A i \in 1 .. Len(ab) + Len(c) : (ab \o c)[i] = IF i <= Len(ab) THEN ab[i] ELSE c[i - Len(ab)]
    BY <2>1, ConcatProperties, Zenon
  <2> QED
    BY <1>1, <2>1, <2>2, Zenon DEF ab
<1> HIDE DEF w
<1>4. \A i \in 1 .. lb : w[la + i] = b[i]
  <2> SUFFICES ASSUME NEW i \in 1 .. lb PROVE w[la + i] = b[i]
    OBVIOUS
  <2>1. PICK j \in Int : j = la + i
    OBVIOUS
  <2>2. j \in 1 .. la + lb /\ j \in 1 .. (la + lb) + lc /\ ~(j <= la) /\ j <= la + lb /\ j - la = i
    BY <2>1
  <2>3. w[j] = (a \o b)[j] /\ (a \o b)[j] = b[j - la]
    BY <1>2, <1>3, <2>2, Zenon
  <2> QED
    BY <2>1, <2>2, <2>3, Zenon
<1>5. \A i \in 1 .. Len(w) : w[i] \in S
  BY <1>3, ElementOfSeq, Zenon
<1>6. \A i \in m .. n : w[i] \in S
  <2>1. m .. n \subseteq 1 .. Len(w)
    BY <1>1, <1>3
  <2> QED
    BY <1>5, <2>1
<1>7. /\ p \in Seq(S) /\ Len(p) = IF m <= n THEN n - m + 1 ELSE 0
      /\ \A i \in 1 .. n - m + 1 : p[i] = w[m + i - 1]
  BY <1>6, SubSeqProperties
<1>8. n - m + 1 = lb /\ Len(p) = lb
  BY <1>1, <1>7
<1>9. \A i \in 1 .. lb : p[i] = b[i]
  <2> SUFFICES ASSUME NEW i \in 1 .. lb PROVE p[i] = b[i]
    OBVIOUS
  <2>1. p[i] = w[m + i - 1]
    BY <1>7, <1>8, Zenon
  <2>2. m + i - 1 = la + i
    BY <1>1
  <2> QED
    BY <1>4, <2>1, <2>2, Zenon
<1> HIDE DEF p
<1>10. p = b
  BY <1>1, <1>7, <1>8, <1>9, SeqEqual, Zenon
<1> QED
  BY <1>10, Zenon DEF p, w

LEMMA Behind ==
  ASSUME NEW S, NEW a \in Seq(S), NEW b \in Seq(S),
         NEW m \in Int, m = Len(a) + 1, NEW n \in Int, n = Len(a) + Len(b)
  PROVE  SubSeq(a \o b, m, n) = b
<1>1. <<>> \in Seq(S) /\ a \o b \in Seq(S)
  BY EmptySeq, ConcatProperties
<1>2. (a \o b) \o <<>> = a \o b
  BY <1>1, ConcatEmptySeq, Zenon
<1>3. SubSeq((a \o b) \o <<>>, m, n) = b
  <2>1. PICK c \in Seq(S) : c = <<>>
    BY <1>1
  <2>2. SubSeq((a \o b) \o c, m, n) = b
    BY Middle
  <2> QED
    BY <2>1, <2>2, Zenon
<1> QED
  BY <1>2, <1>3, Zenon

-----------------------------------------------------------------------------
(* The marker 04 20.                                                       *)
LEMMA StartIs ==
  ASSUME NEW bytes \in Seq(Int), NEW i \in 1 .. Len(bytes) - 1
  PROVE  i \in Starts(bytes) <=> bytes[i] = 4 /\ bytes[i + 1] = 32
<1> DEFINE p == SubSeq(bytes, i, i + 1)
<1>1. Len(bytes) \in Nat /\ i \in Int /\ i + 1 \in Int
  BY LenProperties
<1>2. \A j \in i .. i + 1 : bytes[j] \in Int
  BY <1>1, ElementOfSeq
<1>3. /\ p \in Seq(Int) /\ Len(p) = IF i <= i + 1 THEN (i + 1) - i + 1 ELSE 0
      /\ \A j \in 1 .. (i + 1) - i + 1 : p[j] = bytes[i + j - 1]
  BY <1>1, <1>2, SubSeqProperties
<1>4. Len(p) = 2 /\ p[1] = bytes[i] /\ p[2] = bytes[i + 1]
  <2> HIDE DEF p
  <2>1. (i + 1) - i + 1 = 2 /\ i <= i + 1 /\ i + 1 - 1 = i /\ i + 2 - 1 = i + 1
    BY <1>1
  <2>2. 1 \in 1 .. 2 /\ 2 \in 1 .. 2
    OBVIOUS
  <2> QED
    BY <1>3, <2>1, <2>2, Zenon
<1>5. <<4, 32>> \in Seq(Int) /\ Len(<<4, 32>>) = 2 /\ <<4, 32>>[1] = 4 /\ <<4, 32>>[2] = 32
  OBVIOUS
<1> HIDE DEF p
<1>6. p = <<4, 32>> <=> p[1] = 4 /\ p[2] = 32
  <2>1. ASSUME p[1] = 4, p[2] = 32 PROVE p = <<4, 32>>
    <3>1. \A j \in 1 .. Len(p) : p[j] = <<4, 32>>[j]
      BY <1>4, <1>5, <2>1
    <3> QED
      BY <1>3, <1>4, <1>5, <3>1, SeqEqual
  <2> QED
    BY <1>5, <2>1
<1> QED
  BY <1>4, <1>6 DEF p, Starts, Marker

LEMMA SmallestNat ==
  ASSUME NEW T, T \subseteq Nat, T # {}
  PROVE  \E n \in T : \A m \in T : n <= m
<1>1. PICK n \in T : \A m \in T : ~(<<m, n>> \in OpToRel(<, Nat))
  BY NatLessThanWellFounded, WFMin
<1>2. \A m \in T : ~(m < n)
  BY <1>1 DEF OpToRel
<1> QED
  BY <1>2

LEMMA MaximumExists ==
  ASSUME NEW n \in Nat, NEW T, T \subseteq 1 .. n, T # {}
  PROVE  \E m \in T : \A j \in T : j <= m
<1> DEFINE D == {n - j : j \in T}
<1>1. D \subseteq Nat /\ D # {}
  <2>1. \A j \in T : n - j \in Nat
    OBVIOUS
  <2> QED
    BY <2>1, Zenon
<1>2. PICK d \in D : \A e \in D : d <= e
  <2> HIDE DEF D
  <2> QED
    BY <1>1, SmallestNat
<1>3. PICK m \in T : d = n - m
  BY <1>2
<1>4. ASSUME NEW j \in T PROVE j <= m
  <2>1. n - j \in D
    OBVIOUS
  <2>2. d <= n - j /\ j \in Int /\ m \in Int
    BY <1>2, <2>1
  <2> QED
    BY <1>3, <2>2
<1> QED
  BY <1>4

(* What the search cuts out of a key file is its seed, or nothing when the *)
(* marker occurs again in the seed.                                        *)
LEMMA KeyLayout ==
  ASSUME NEW seed \in Seq(Int), NEW k \in Nat, k = Len(seed), k > 0,
         NEW der, der = <<4, 34, 4, 32>> \o seed
  PROVE  /\ der \in Seq(Int) /\ Len(der) = k + 4
         /\ der[1] = 4 /\ der[2] = 34 /\ der[3] = 4 /\ der[4] = 32
         /\ \A i \in 1 .. k : der[i + 4] = seed[i]
         /\ SubSeq(der, 5, k + 4) = seed
<1>1. PICK head \in Seq(Int) : /\ head = <<4, 34, 4, 32>> /\ Len(head) = 4
                               /\ head[1] = 4 /\ head[2] = 34 /\ head[3] = 4 /\ head[4] = 32
  <2>1. <<4, 34, 4, 32>> \in Seq(Int) /\ Len(<<4, 34, 4, 32>>) = 4
    OBVIOUS
  <2> QED
    BY <2>1
<1>2. /\ head \o seed \in Seq(Int) /\ Len(head \o seed) = Len(head) + Len(seed)
      /\ \A i \in 1 .. Len(head) + Len(seed) :
           (head \o seed)[i] = IF i <= Len(head) THEN head[i] ELSE seed[i - Len(head)]
  BY ConcatProperties, Zenon
<1>3. der \in Seq(Int) /\ Len(der) = k + 4
  BY <1>1, <1>2
<1>4. \A i \in 1 .. k + 4 : der[i] = IF i <= 4 THEN head[i] ELSE seed[i - 4]
  BY <1>1, <1>2
<1>5. der[1] = 4 /\ der[2] = 34 /\ der[3] = 4 /\ der[4] = 32
  BY <1>1, <1>4
<1>6. \A i \in 1 .. k : der[i + 4] = seed[i]
  BY <1>4
<1>7. SubSeq(head \o seed, 5, k + 4) = seed
  <2>1. PICK m \in Int, n \in Int : m = 5 /\ n = k + 4
    OBVIOUS
  <2>2. m = Len(head) + 1 /\ n = Len(head) + Len(seed)
    BY <1>1, <2>1
  <2>3. ASSUME NEW b \in Seq(Int), b = seed PROVE SubSeq(head \o b, m, n) = b
    <3>1. head \in Seq(Int) /\ m = Len(head) + 1 /\ n = Len(head) + Len(b)
      BY <2>2, <2>3, Zenon
    <3> QED
      BY <2>1, <3>1, Behind, ZenonT(60)
  <2>4. SubSeq(head \o seed, m, n) = seed
    BY <2>3, Zenon
  <2> QED
    BY <2>1, <2>4
<1> QED
  BY <1>1, <1>3, <1>5, <1>6, <1>7

LEMMA KeyExtracted ==
  ASSUME NEW seed \in Seq(Int), Len(seed) = RAW_ED25519_KEY_BYTES,
         NEW form \in {"raw", "pkcs8"}, NEW file, file = KeyFile(form, seed)
  PROVE  extract_raw_ed25519_private_key(file, file)
           = IF form = "pkcs8" /\ HasMarker(seed) THEN Nil ELSE seed
<1>1. PICK k \in Nat : k = RAW_ED25519_KEY_BYTES /\ k > 0 /\ k = Len(seed)
  BY PackageAssumption
<1>2. CASE form = "raw"
  BY <1>2, Zenon DEF KeyFile, extract_raw_ed25519_private_key
<1>3. CASE form = "pkcs8"
  <2>1. file = <<4, 34, 4, 32>> \o seed
    BY <1>3, Zenon DEF KeyFile
  <2>2. /\ file \in Seq(Int) /\ Len(file) = k + 4
        /\ file[1] = 4 /\ file[2] = 34 /\ file[3] = 4 /\ file[4] = 32
        /\ \A i \in 1 .. k : file[i + 4] = seed[i]
        /\ SubSeq(file, 5, k + 4) = seed
    BY <1>1, <2>1, KeyLayout
  <2>3. \A i \in 1 .. k + 3 : i \in Starts(file) <=> file[i] = 4 /\ file[i + 1] = 32
    <3>1. 1 .. Len(file) - 1 = 1 .. k + 3
      BY <1>1, <2>2
    <3> QED
      BY <2>2, <3>1, StartIs, Zenon
  <2>4. \A i \in 1 .. k - 1 : i \in Starts(seed) <=> seed[i] = 4 /\ seed[i + 1] = 32
    BY <1>1, StartIs, Zenon
  <2>5. Starts(file) \subseteq 1 .. k + 3 /\ Starts(seed) \subseteq 1 .. k - 1
    BY <1>1, <2>2 DEF Starts
  <2>6. 3 \in Starts(file)
    BY <2>2, <2>3
  <2>7. Len(file) # RAW_ED25519_KEY_BYTES
    BY <1>1, <2>2
  <2>8. CASE HasMarker(seed)
    <3>1. PICK i \in 1 .. k - 1 : i \in Starts(seed)
      BY <2>5, <2>8 DEF HasMarker
    <3>2. i + 4 \in Starts(file)
      <4>1. i \in 1 .. k /\ i + 1 \in 1 .. k /\ i + 4 \in 1 .. k + 3 /\ (i + 4) + 1 = (i + 1) + 4
        OBVIOUS
      <4>2. file[i + 4] = 4 /\ file[(i + 4) + 1] = 32
        BY <2>2, <2>4, <3>1, <4>1, SMTT(30)
      <4> QED
        BY <2>3, <4>1, <4>2
    <3>3. ASSUME NEW m \in Starts(file), \A j \in Starts(file) : j <= m
          PROVE  ~(Len(file) >= m + 1 + k)
      BY <2>2, <2>5, <3>2, <3>3, SMTT(30)
    <3>4. ~(Len(file) >= MarkerAt(file) + 1 + k)
      <4>1. \E m \in Starts(file) : \A j \in Starts(file) : j <= m
        BY <2>5, <2>6, MaximumExists
      <4>2. MarkerAt(file) \in Starts(file) /\ \A j \in Starts(file) : j <= MarkerAt(file)
        BY <4>1, Zenon DEF MarkerAt
      <4> QED
        BY <3>3, <4>2
    <3> QED
      BY <1>1, <1>3, <2>7, <2>8, <3>4, Zenon DEF extract_raw_ed25519_private_key
  <2>9. CASE ~HasMarker(seed)
    <3>1. \A j \in Starts(file) : j <= 3
      <4> SUFFICES ASSUME NEW j \in 1 .. k + 3, file[j] = 4, file[j + 1] = 32, ~(j <= 3)
                   PROVE  FALSE
        BY <2>3, <2>5
      <4>1. CASE j = 4
        BY <2>2, <4>1
      <4>2. CASE j # 4
        <5>1. PICK i \in 1 .. k - 1 : j = i + 4
          BY <4>2
        <5>2. seed[i] = 4 /\ seed[i + 1] = 32
          <6>1. i \in 1 .. k /\ i + 1 \in 1 .. k /\ j + 1 = (i + 1) + 4
            BY <5>1
          <6> QED
            BY <2>2, <5>1, <6>1
        <5> QED
          BY <2>4, <2>9, <5>2, Zenon DEF HasMarker
      <4> QED
        BY <4>1, <4>2
    <3>2. MarkerAt(file) = 3
      <4>1. Starts(file) \subseteq Int
        BY <2>5
      <4>2. MarkerAt(file) \in Starts(file) /\ \A j \in Starts(file) : j <= MarkerAt(file)
        BY <2>6, <3>1, Zenon DEF MarkerAt
      <4> QED
        BY <2>6, <3>1, <4>1, <4>2
    <3>3. /\ Starts(file) # {} /\ Len(file) >= MarkerAt(file) + 1 + k
          /\ MarkerAt(file) + 2 = 5 /\ MarkerAt(file) + 1 + k = k + 4
      BY <1>1, <2>2, <2>6, <3>2
    <3> QED
      BY <1>1, <1>3, <2>2, <2>7, <2>9, <3>3, Zenon DEF extract_raw_ed25519_private_key
  <2> QED
    BY <2>8, <2>9
<1> QED
  BY <1>2, <1>3

-----------------------------------------------------------------------------
LEMMA Regrouped ==
  ASSUME NEW S
  PROVE  \A x, y, t \in Seq(S) : (x \o y) \o t = x \o (y \o t)
<1> SUFFICES ASSUME NEW x \in Seq(S), NEW y \in Seq(S), NEW t \in Seq(S)
             PROVE  (x \o y) \o t = x \o (y \o t)
  OBVIOUS
<1> QED
  BY ConcatAssociative

LEMMA AnyMiddle ==
  ASSUME NEW S
  PROVE  \A x, y, t \in Seq(S) : \A m, n \in Int :
           m = Len(x) + 1 /\ n = Len(x) + Len(y) => SubSeq((x \o y) \o t, m, n) = y
<1> SUFFICES ASSUME NEW x \in Seq(S), NEW y \in Seq(S), NEW t \in Seq(S),
                    NEW m \in Int, NEW n \in Int, m = Len(x) + 1, n = Len(x) + Len(y)
             PROVE  SubSeq((x \o y) \o t, m, n) = y
  OBVIOUS
<1> QED
  BY Middle

(* Five sequences behind each other, of lengths lh, lc, ls, lz and any.     *)
LaidOut(S, h, c, s, z, e, lh, lc, ls, lz) ==
  LET w == (((h \o c) \o s) \o z) \o e
  IN  /\ w \in Seq(S) /\ Len(w) = lh + lc + ls + lz + Len(e)
      /\ \A i \in 1 .. lh : w[i] = h[i]
      /\ SubSeq(w, lh + 1, lh + lc) = c
      /\ SubSeq(w, lh + lc + 1, lh + lc + ls) = s
      /\ SubSeq(w, lh + lc + ls + 1, lh + lc + ls + lz) = z

(* They are read back at their offsets.                                    *)
LEMMA Layout ==
  ASSUME NEW S
  PROVE  \A h, c, s, z, e \in Seq(S) : \A lh, lc, ls, lz \in Nat :
           lh = Len(h) /\ lc = Len(c) /\ ls = Len(s) /\ lz = Len(z) =>
             LaidOut(S, h, c, s, z, e, lh, lc, ls, lz)
<1> DEFINE Q == Seq(S)
           Cat(x, y) == x \o y
<1>1. \A x \in Q : Len(x) \in Nat
  BY LenProperties
<1>2. \A x, y, t \in Q : Cat(Cat(x, y), t) = Cat(x, Cat(y, t))
  BY Regrouped
<1>3. \A x, y, t \in Q : \A m, n \in Int :
        m = Len(x) + 1 /\ n = Len(x) + Len(y) => SubSeq(Cat(Cat(x, y), t), m, n) = y
  BY AnyMiddle
<1>4. \A x, y \in Q : /\ Cat(x, y) \in Q /\ Len(Cat(x, y)) = Len(x) + Len(y)
                      /\ \A i \in 1 .. Len(x) + Len(y) :
                           Cat(x, y)[i] = IF i <= Len(x) THEN x[i] ELSE y[i - Len(x)]
  BY ConcatProperties
<1> HIDE DEF Cat, Q
<1>5. \A h, c, s, z, e \in Q : \A lh, lc, ls, lz \in Nat :
           lh = Len(h) /\ lc = Len(c) /\ ls = Len(s) /\ lz = Len(z) =>
             LET w == Cat(Cat(Cat(Cat(h, c), s), z), e)
             IN  /\ w \in Q /\ Len(w) = lh + lc + ls + lz + Len(e)
                 /\ \A i \in 1 .. lh : w[i] = h[i]
                 /\ SubSeq(w, lh + 1, lh + lc) = c
                 /\ SubSeq(w, lh + lc + 1, lh + lc + ls) = s
                 /\ SubSeq(w, lh + lc + ls + 1, lh + lc + ls + lz) = z
  <2> TAKE h, c, s, z, e \in Q
  <2> TAKE lh, lc, ls, lz \in Nat
  <2>1. HAVE lh = Len(h) /\ lc = Len(c) /\ ls = Len(s) /\ lz = Len(z)
  <2> DEFINE w == Cat(Cat(Cat(Cat(h, c), s), z), e)
  <2>6. PICK hc \in Q : hc = Cat(h, c) /\ Len(hc) = lh + lc
    BY <1>4, <2>1, Zenon
  <2>7. PICK hcs \in Q : hcs = Cat(hc, s) /\ Len(hcs) = lh + lc + ls
    <3>1. Cat(hc, s) \in Q /\ Len(Cat(hc, s)) = Len(hc) + Len(s)
      BY <1>4, Zenon
    <3> QED
      BY <2>1, <2>6, <3>1, Zenon
  <2>8. PICK hcsz \in Q : hcsz = Cat(hcs, z) /\ Len(hcsz) = lh + lc + ls + lz
    <3>1. Cat(hcs, z) \in Q /\ Len(Cat(hcs, z)) = Len(hcs) + Len(z)
      BY <1>4, Zenon
    <3> QED
      BY <2>1, <2>7, <3>1, Zenon
  <2>9. PICK ze \in Q, sze \in Q : ze = Cat(z, e) /\ sze = Cat(s, ze)
    BY <1>4, Zenon
  <2>10. w = Cat(hcsz, e) /\ Len(w) = Len(hcsz) + Len(e) /\ w \in Q
    <3>1. Cat(hcsz, e) \in Q /\ Len(Cat(hcsz, e)) = Len(hcsz) + Len(e)
      BY <1>4, Zenon
    <3> QED
      BY <2>6, <2>7, <2>8, <3>1, Zenon
  <2> HIDE DEF w
  <2>11. w = Cat(hcs, ze)
    <3>1. Cat(Cat(hcs, z), e) = Cat(hcs, Cat(z, e))
      BY <1>2, SMT
    <3> QED
      BY <2>8, <2>9, <2>10, <3>1, Zenon
  <2>12. w = Cat(hc, sze)
    <3>1. Cat(Cat(hc, s), ze) = Cat(hc, Cat(s, ze))
      BY <1>2, SMT
    <3> QED
      BY <2>7, <2>9, <2>11, <3>1, Zenon
  <2>13. SubSeq(Cat(Cat(h, c), sze), lh + 1, lh + lc) = c
    <3>1. lh + 1 \in Int /\ lh + lc \in Int
      OBVIOUS
    <3>2. lh + 1 = Len(h) + 1 /\ lh + lc = Len(h) + Len(c)
      BY <2>1, Zenon
    <3> QED
      BY <1>3, <3>1, <3>2, SMTT(30)
  <2>14. SubSeq(Cat(Cat(hc, s), ze), lh + lc + 1, lh + lc + ls) = s
    <3>1. lh + lc + 1 \in Int /\ lh + lc + ls \in Int
      OBVIOUS
    <3>2. lh + lc + 1 = Len(hc) + 1 /\ lh + lc + ls = Len(hc) + Len(s)
      BY <2>1, <2>6, Zenon
    <3> QED
      BY <1>3, <3>1, <3>2, SMTT(30)
  <2>15. SubSeq(Cat(Cat(hcs, z), e), lh + lc + ls + 1, lh + lc + ls + lz) = z
    <3>1. lh + lc + ls + 1 \in Int /\ lh + lc + ls + lz \in Int
      OBVIOUS
    <3>2. lh + lc + ls + 1 = Len(hcs) + 1 /\ lh + lc + ls + lz = Len(hcs) + Len(z)
      BY <2>1, <2>7, Zenon
    <3> QED
      BY <1>3, <3>1, <3>2, SMTT(30)
  <2>16. \A i \in 1 .. lh : w[i] = h[i]
    <3>1. PICK lr \in Nat : lr = Len(sze)
      BY <1>1, Zenon
    <3>2. \A i \in 1 .. lh + lc : hc[i] = IF i <= lh THEN h[i] ELSE c[i - lh]
      BY <1>4, <2>1, <2>6, ZenonT(60)
    <3>3. \A i \in 1 .. (lh + lc) + lr : w[i] = IF i <= lh + lc THEN hc[i] ELSE sze[i - (lh + lc)]
      <4>1. \A i \in 1 .. Len(hc) + Len(sze) :
              Cat(hc, sze)[i] = IF i <= Len(hc) THEN hc[i] ELSE sze[i - Len(hc)]
        BY <1>4, Zenon
      <4> QED
        BY <2>6, <2>12, <3>1, <4>1, Zenon
    <3>4. ASSUME NEW i \in 1 .. lh PROVE w[i] = h[i]
      <4>1. i \in 1 .. lh + lc /\ i \in 1 .. (lh + lc) + lr /\ i <= lh /\ i <= lh + lc
        OBVIOUS
      <4> QED
        BY <3>2, <3>3, <4>1, Zenon
    <3> QED
      BY <3>4
  <2> QED
    BY <2>6, <2>7, <2>8, <2>10, <2>11, <2>12, <2>13, <2>14, <2>15, <2>16, Zenon
<1> QED
  BY <1>5, Zenon DEF Cat, Q, LaidOut

(* A zone is padded with zero bytes, and read back without them.           *)
LEMMA ZonePadded ==
  ASSUME NEW zone \in Seq(Bytes \ {0}), zone # <<>>, Len(zone) <= ZONE_BYTES,
         NEW ez, ez = encode_zone(zone)
  PROVE  ez \in Seq(Int) /\ Len(ez) = ZONE_BYTES /\ ez # Nil /\ Unpadded(ez) = zone
<1>1. PICK l \in Nat, n \in Nat : l = Len(zone) /\ n = ZONE_BYTES /\ l <= n
  BY LenProperties, PackageAssumption
<1>2. zone \in Seq(Int) /\ \A i \in 1 .. l : zone[i] \in Int /\ zone[i] # 0
  <2>1. Bytes \ {0} \subseteq Int /\ \A b \in Bytes \ {0} : b # 0
    BY SMT DEF Bytes
  <2> QED
    BY <1>1, <2>1
<1>3. PICK pad \in Seq(Int) : pad = Zeros(n - l) /\ Len(pad) = n - l
  <2>1. PICK d \in Nat : d = n - l
    BY <1>1
  <2>2. \A i \in 1 .. d : [k \in 1 .. d |-> 0][i] \in Int
    OBVIOUS
  <2>3. [k \in 1 .. d |-> 0] \in Seq(Int) /\ Len([k \in 1 .. d |-> 0]) = d
    OBVIOUS
  <2> QED
    BY <2>1, <2>3, Zenon DEF Zeros
<1>4. \A i \in 1 .. n - l : pad[i] = 0
  BY <1>3 DEF Zeros
<1>5. ez = zone \o pad
  <2>1. ~(zone = <<>> \/ Len(zone) > ZONE_BYTES)
    BY <1>1
  <2> QED
    BY <1>1, <1>3, <2>1, Zenon DEF encode_zone
<1>6. /\ ez \in Seq(Int) /\ Len(ez) = Len(zone) + Len(pad)
      /\ \A i \in 1 .. Len(zone) + Len(pad) :
           ez[i] = IF i <= Len(zone) THEN zone[i] ELSE pad[i - Len(zone)]
  BY <1>2, <1>5, ConcatProperties, ZenonT(60)
<1>7. Len(ez) = n /\ DOMAIN ez = 1 .. n
  BY <1>1, <1>3, <1>6
<1>8. \A i \in 1 .. n : ez[i] = IF i <= l THEN zone[i] ELSE 0
  <2> SUFFICES ASSUME NEW i \in 1 .. n PROVE ez[i] = IF i <= l THEN zone[i] ELSE 0
    OBVIOUS
  <2>1. ez[i] = IF i <= l THEN zone[i] ELSE pad[i - l]
    BY <1>1, <1>3, <1>6
  <2>2. ~(i <= l) => i - l \in 1 .. n - l
    BY <1>1
  <2> QED
    BY <1>4, <2>1, <2>2, Zenon
<1>9. {i \in DOMAIN ez : \A j \in 1 .. i : ez[j] # 0} = 1 .. l
  <2>1. ASSUME NEW i \in 1 .. l PROVE i \in DOMAIN ez /\ \A j \in 1 .. i : ez[j] # 0
    <3>1. i \in 1 .. n /\ \A j \in 1 .. i : j \in 1 .. l /\ j \in 1 .. n /\ j <= l
      BY <1>1
    <3> QED
      BY <1>2, <1>7, <1>8, <3>1, Zenon
  <2>2. ASSUME NEW i \in 1 .. n, \A j \in 1 .. i : ez[j] # 0 PROVE i \in 1 .. l
    <3>1. i \in 1 .. i
      OBVIOUS
    <3>2. i <= l
      BY <1>8, <2>2, <3>1, Zenon
    <3> QED
      BY <3>2
  <2> QED
    BY <1>7, <2>1, <2>2, Zenon
<1>10. Cardinality(1 .. l) = l
  BY FS_Interval
<1>11. SubSeq(ez, 1, l) = zone
  <2>1. <<>> \in Seq(Int) /\ Len(<<>>) = 0
    BY EmptySeq
  <2>2. <<>> \o zone = zone
    BY <1>2, ConcatEmptySeq, Zenon
  <2>3. PICK empty \in Seq(Int), zoneInt \in Seq(Int), m \in Int, k \in Int :
          /\ empty = <<>> /\ zoneInt = zone
          /\ m = 1 /\ k = l /\ m = Len(empty) + 1 /\ k = Len(empty) + Len(zoneInt)
    <3>1. 1 = Len(<<>>) + 1 /\ l = Len(<<>>) + Len(zone)
      BY <1>1, <2>1
    <3>2. 1 \in Int /\ l \in Int
      OBVIOUS
    <3> QED
      BY <1>2, <2>1, <3>1, <3>2, Zenon
  <2>4. SubSeq((empty \o zoneInt) \o pad, m, k) = zoneInt
    BY <2>3, Middle
  <2> QED
    BY <1>5, <2>2, <2>3, <2>4, Zenon
<1>12. Unpadded(ez) = zone
  BY <1>9, <1>10, <1>11, Zenon DEF Unpadded
<1>13. ez # Nil
  BY <1>6, PackageAssumption
<1> QED
  BY <1>1, <1>6, <1>7, <1>12, <1>13

-----------------------------------------------------------------------------
LEMMA Wider ==
  ASSUME NEW A, NEW B, A \subseteq B, NEW s \in Seq(A)
  PROVE  s \in Seq(B)
<1>1. \A i \in 1 .. Len(s) : s[i] \in B
  BY ElementOfSeq
<1> QED
  BY <1>1

LEMMA Units ==
  ASSUME NEW S, NEW a \in S, NEW b \in S
  PROVE  /\ <<a, b>> \in Seq(S) /\ Len(<<a, b>>) = 2 /\ <<a, b>>[2] = b
         /\ <<a>> \in Seq(S) /\ Len(<<a>>) = 1
OBVIOUS

(* A package is read back as what was packed.                              *)
LEMMA PackageReads ==
  ASSUME NEW cert \in Seq(Int), NEW seed \in Seq(Int), NEW zone \in Seq(Bytes \ {0}),
         Len(seed) = RAW_ED25519_KEY_BYTES, zone # <<>>, Len(zone) <= ZONE_BYTES,
         ~(Len(cert) > MaxCert),
         NEW package, package = build_package(cert, seed, zone)
  PROVE  /\ Unpacked(package) = [cert |-> cert, seed |-> seed, zone |-> zone]
         /\ Len(package) = 3 + Len(cert) + RAW_ED25519_KEY_BYTES + ZONE_BYTES
<1>1. PICK lc \in Nat, ls \in Nat, lz \in Nat :
        lc = Len(cert) /\ ls = RAW_ED25519_KEY_BYTES /\ lz = ZONE_BYTES
  BY LenProperties, PackageAssumption
<1>2. PICK ez : /\ ez = encode_zone(zone) /\ ez \in Seq(Int) /\ Len(ez) = ZONE_BYTES
                /\ ez # Nil /\ Unpadded(ez) = zone
  BY ZonePadded
<1>3. PICK body : body = <<MAGIC, Len(cert)>> \o cert \o seed \o ez
  OBVIOUS
<1>4. package = Append(body, Crc(body))
  BY <1>2, <1>3, Zenon DEF build_package
<1> DEFINE S == Int \cup {MAGIC, Crc(body)}
<1>5. PICK h \in Seq(S) : h = <<MAGIC, Len(cert)>> /\ Len(h) = 2 /\ h[2] = lc
  <2>1. Len(cert) \in S
    BY <1>1
  <2> HIDE DEF S
  <2>2. MAGIC \in S
    BY DEF S
  <2>3. /\ <<MAGIC, Len(cert)>> \in Seq(S) /\ Len(<<MAGIC, Len(cert)>>) = 2
        /\ <<MAGIC, Len(cert)>>[2] = Len(cert)
    BY <2>1, <2>2, Units
  <2> QED
    BY <1>1, <2>3, Zenon
<1>6. PICK e \in Seq(S) : e = <<Crc(body)>> /\ Len(e) = 1
  <2>1. Crc(body) \in S
    OBVIOUS
  <2> HIDE DEF S
  <2>2. <<Crc(body)>> \in Seq(S) /\ Len(<<Crc(body)>>) = 1
    BY <2>1, Units
  <2> QED
    BY <2>2, Zenon
<1>7. cert \in Seq(S) /\ seed \in Seq(S) /\ ez \in Seq(S)
  <2>1. Int \subseteq S
    OBVIOUS
  <2> HIDE DEF S
  <2> QED
    BY <1>2, <2>1, Wider, Zenon
<1> HIDE DEF S
<1> DEFINE w == (((h \o cert) \o seed) \o ez) \o e
<1>8. package = w
  <2>1. PICK b \in Seq(S) : b = body
    <3>1. h \o cert \in Seq(S)
      BY <1>7, ConcatProperties, Zenon
    <3>2. (h \o cert) \o seed \in Seq(S)
      BY <1>7, <3>1, ConcatProperties, Zenon
    <3>3. ((h \o cert) \o seed) \o ez \in Seq(S)
      BY <1>7, <3>2, ConcatProperties, Zenon
    <3> QED
      BY <1>3, <1>5, <3>3
  <2>2. Crc(body) \in S
    BY DEF S
  <2>3. Append(b, Crc(body)) = b \o <<Crc(body)>>
    BY <2>2
  <2> QED
    BY <1>3, <1>4, <1>5, <1>6, <2>1, <2>3
<1>9. /\ Len(w) = 2 + lc + ls + lz + 1
      /\ w[2] = lc
      /\ SubSeq(w, 2 + 1, 2 + lc) = cert
      /\ SubSeq(w, 2 + lc + 1, 2 + lc + ls) = seed
      /\ SubSeq(w, 2 + lc + ls + 1, 2 + lc + ls + lz) = ez
  <2>1. 2 \in Nat
    OBVIOUS
  <2>2. LaidOut(S, h, cert, seed, ez, e, 2, lc, ls, lz)
    BY <1>1, <1>2, <1>5, <1>7, <2>1, Layout, Zenon
  <2>3. 2 \in 1 .. 2
    OBVIOUS
  <2> QED
    BY <1>5, <1>6, <2>2, <2>3, Zenon DEF LaidOut
<1> HIDE DEF w
<1>10. /\ 3 = 2 + 1 /\ lc + 2 = 2 + lc
       /\ lc + 3 = 2 + lc + 1 /\ lc + 2 + ls = 2 + lc + ls
       /\ lc + 3 + ls = 2 + lc + ls + 1 /\ Len(w) - 1 = 2 + lc + ls + lz
  BY <1>9
<1>11. /\ SubSeq(w, 3, lc + 2) = cert
       /\ SubSeq(w, lc + 3, lc + 2 + ls) = seed
       /\ SubSeq(w, lc + 3 + ls, Len(w) - 1) = ez
  BY <1>9, <1>10, Zenon
<1>12. Unpacked(w) = [cert |-> cert, seed |-> seed, zone |-> zone]
  BY <1>1, <1>2, <1>9, <1>11, Zenon DEF Unpacked
<1>13. Len(w) = 3 + lc + ls + lz
  BY <1>9
<1> QED
  BY <1>1, <1>8, <1>12, <1>13, Zenon

(* A flash package holds the certificate, the zone and the very seed of    *)
(* the key file, at the offsets a reader takes them from, or none is       *)
(* written (make_flash_package.py:27-82), whatever their lengths.          *)
THEOREM PackagesAlwaysExact == Spec => []PackageExact
<1>1. ASSUME Answered, tool = "pack" PROVE PackageExact
  <2>1. /\ result = Package(input.cert, KeyFile(input.form, input.seed),
                            KeyFile(input.form, input.seed), input.zone)
        /\ input \in PackagesTried
    BY <1>1, Zenon DEF Answered
  <2>2. PICK cert, seed, form, zone :
          /\ cert = input.cert /\ seed = input.seed /\ form = input.form /\ zone = input.zone
    OBVIOUS
  <2>3. /\ cert \in Seq(Bytes) /\ seed \in Seq(Bytes) /\ form \in {"raw", "pkcs8"}
        /\ zone \in Seq(Bytes \ {0}) /\ Len(seed) = RAW_ED25519_KEY_BYTES
    BY <2>1, <2>2, InputAssumption
  <2>4. cert \in Seq(Int) /\ seed \in Seq(Int)
    <3>1. Bytes \subseteq Int
      BY SMT DEF Bytes
    <3> QED
      BY <2>3, <3>1, Wider, Zenon
  <2>5. PICK file : file = KeyFile(form, seed)
    OBVIOUS
  <2>6. extract_raw_ed25519_private_key(file, file)
          = IF form = "pkcs8" /\ HasMarker(seed) THEN Nil ELSE seed
    BY <2>3, <2>4, <2>5, KeyExtracted
  <2>7. result = Package(cert, file, file, zone)
    BY <2>1, <2>2, <2>5, Zenon
  <2>8. Refused(input) <=> \/ Len(cert) > MaxCert \/ zone = <<>> \/ Len(zone) > ZONE_BYTES
                           \/ form = "pkcs8" /\ HasMarker(seed)
    BY <2>2, Zenon DEF Refused
  <2>9. CASE Refused(input)
    <3>1. result = Nil
      BY <2>6, <2>7, <2>8, <2>9, Zenon DEF Package, build_package, encode_zone
    <3> QED
      BY <2>9, <3>1, Zenon DEF PackageExact
  <2>10. CASE ~Refused(input)
    <3>1. seed # Nil
      BY <2>4, PackageAssumption
    <3>2. result = build_package(cert, seed, zone)
      BY <2>6, <2>7, <2>8, <2>10, <3>1, Zenon DEF Package
    <3>3. ~(Len(zone) > ZONE_BYTES) => Len(zone) <= ZONE_BYTES
      <4>1. Len(zone) \in Nat /\ ZONE_BYTES \in Nat
        BY <2>3, LenProperties, PackageAssumption
      <4> QED
        BY <4>1
    <3>4. /\ Unpacked(result) = [cert |-> cert, seed |-> seed, zone |-> zone]
          /\ Len(result) = 3 + Len(cert) + RAW_ED25519_KEY_BYTES + ZONE_BYTES
      BY <2>3, <2>4, <2>8, <2>10, <3>2, <3>3, PackageReads
    <3> QED
      BY <2>2, <2>10, <3>4, Zenon DEF PackageExact
  <2> QED
    BY <2>9, <2>10
<1>2. Answered => PackageExact
  BY <1>1, Zenon DEF PackageExact
<1> QED
  BY <1>2, ToolsInvariance, PTL

-----------------------------------------------------------------------------
(* Sums over finite sets.  h sums f over the subsets of S, as the fold      *)
(* does.                                                                   *)
Chosen(s) == CHOOSE x \in s : TRUE

SumStep(h, f, s) == h[s] = IF s = {} THEN 0 ELSE f[Chosen(s)] + h[s \ {Chosen(s)}]

SumOf(h, f, S) ==
  h = [s \in SUBSET S |-> IF s = {} THEN 0 ELSE f[Chosen(s)] + h[s \ {Chosen(s)}]]

LEMMA Shrinks ==
  ASSUME NEW S, IsFiniteSet(S)
  PROVE  /\ \A s \in SUBSET S : IsFiniteSet(s) /\ Cardinality(s) \in Nat
         /\ \A s \in SUBSET S : s # {} =>
              /\ Chosen(s) \in s /\ s \ {Chosen(s)} \in SUBSET S
              /\ Cardinality(s \ {Chosen(s)}) = Cardinality(s) - 1
<1>1. ASSUME NEW s \in SUBSET S PROVE IsFiniteSet(s) /\ Cardinality(s) \in Nat
  BY FS_Subset, FS_CardinalityType
<1>2. ASSUME NEW s \in SUBSET S, s # {}
      PROVE  /\ Chosen(s) \in s /\ s \ {Chosen(s)} \in SUBSET S
             /\ Cardinality(s \ {Chosen(s)}) = Cardinality(s) - 1
  <2>1. Chosen(s) \in s
    BY <1>2 DEF Chosen
  <2> QED
    BY <1>1, <2>1, FS_RemoveElement
<1> QED
  BY <1>1, <1>2

LEMMA SumExists ==
  ASSUME NEW S, IsFiniteSet(S), NEW f \in [S -> Int]
  PROVE  \E h : SumOf(h, f, S)
<1> DEFINE Below(g, n) == \A s \in SUBSET S : Cardinality(s) <= n => SumStep(g, f, s)
           T == {n \in Nat : ~\E g \in [SUBSET S -> Int] : Below(g, n)}
<1>1. /\ \A s \in SUBSET S : Cardinality(s) \in Nat
      /\ \A s \in SUBSET S : s # {} =>
           /\ Chosen(s) \in S /\ s \ {Chosen(s)} \in SUBSET S
           /\ Cardinality(s \ {Chosen(s)}) = Cardinality(s) - 1
  BY Shrinks
<1>2. ASSUME T # {} PROVE FALSE
  <2>1. PICK m \in T : \A k \in T : m <= k
    BY <1>2, SmallestNat
  <2>2. PICK g \in [SUBSET S -> Int] : m # 0 => Below(g, m - 1)
    <3>1. CASE m = 0
      <4>1. [s \in SUBSET S |-> 0] \in [SUBSET S -> Int]
        OBVIOUS
      <4> QED
        BY <3>1, <4>1
    <3>2. CASE m # 0
      <4>1. m - 1 \in Nat /\ m \in Nat
        BY <2>1, <3>2
      <4>2. m - 1 \notin T
        <5> HIDE DEF T
        <5> QED
          BY <2>1, <4>1
      <4> QED
        BY <3>2, <4>1, <4>2
    <3> QED
      BY <3>1, <3>2
  <2> DEFINE h == [s \in SUBSET S |-> IF s = {} THEN 0 ELSE f[Chosen(s)] + g[s \ {Chosen(s)}]]
  <2>3. h \in [SUBSET S -> Int]
    <3> SUFFICES ASSUME NEW s \in SUBSET S, s # {} PROVE f[Chosen(s)] + g[s \ {Chosen(s)}] \in Int
      OBVIOUS
    <3>1. f[Chosen(s)] \in Int /\ g[s \ {Chosen(s)}] \in Int
      BY <1>1, <2>2
    <3> QED
      BY <3>1
  <2>4. ASSUME NEW s \in SUBSET S, Cardinality(s) <= m PROVE SumStep(h, f, s)
    <3>1. CASE s = {}
      BY <3>1 DEF SumStep
    <3>2. CASE s # {}
      <4> DEFINE r == s \ {Chosen(s)}
      <4>1. r \in SUBSET S /\ Cardinality(r) \in Nat /\ Cardinality(r) <= m - 1 /\ m # 0
        <5>1. r \in SUBSET S /\ Cardinality(r) = Cardinality(s) - 1 /\ Cardinality(s) \in Nat
          BY <1>1, <3>2
        <5>2. Cardinality(r) \in Nat
          BY <1>1, <5>1
        <5> HIDE DEF r
        <5>3. m \in Nat
          BY <2>1
        <5> QED
          BY <2>4, <5>1, <5>2, <5>3
      <4> HIDE DEF r
      <4>2. g[r] = IF r = {} THEN 0 ELSE f[Chosen(r)] + g[r \ {Chosen(r)}]
        BY <2>2, <4>1 DEF SumStep
      <4>3. h[r] = g[r]
        BY <4>1, <4>2
      <4>4. h[s] = f[Chosen(s)] + g[r]
        BY <3>2 DEF r
      <4> QED
        BY <3>2, <4>3, <4>4, Zenon DEF SumStep, r
    <3> QED
      BY <3>1, <3>2
  <2> HIDE DEF h
  <2>5. Below(h, m)
    BY <2>4
  <2> QED
    BY <2>1, <2>3, <2>5
<1>3. PICK g \in [SUBSET S -> Int] : Below(g, Cardinality(S))
  BY <1>1, <1>2
<1>4. \A s \in SUBSET S : Cardinality(s) <= Cardinality(S)
  BY FS_Subset
<1>5. \A s \in SUBSET S : SumStep(g, f, s)
  BY <1>3, <1>4
<1> QED
  BY <1>5 DEF SumOf, SumStep

(* Sums compare as their terms do.                                         *)
LEMMA SumsCompare ==
  ASSUME NEW S, IsFiniteSet(S), NEW f \in [S -> Int], NEW g \in [S -> Int],
         \A x \in S : f[x] <= g[x],
         NEW h, SumOf(h, f, S), NEW k, SumOf(k, g, S)
  PROVE  /\ h[S] \in Int /\ k[S] \in Int /\ h[S] <= k[S]
         /\ h[S] = k[S] => \A x \in S : f[x] = g[x]
<1> DEFINE Good(s) == /\ h[s] \in Int /\ k[s] \in Int /\ h[s] <= k[s]
                      /\ h[s] = k[s] => \A x \in s : f[x] = g[x]
           T == {n \in Nat : \E s \in SUBSET S : Cardinality(s) = n /\ ~Good(s)}
<1>1. /\ \A s \in SUBSET S : h[s] = IF s = {} THEN 0 ELSE f[Chosen(s)] + h[s \ {Chosen(s)}]
      /\ \A s \in SUBSET S : k[s] = IF s = {} THEN 0 ELSE g[Chosen(s)] + k[s \ {Chosen(s)}]
  BY DEF SumOf
<1>2. ASSUME T # {} PROVE FALSE
  <2>1. PICK n \in T : \A m \in T : n <= m
    BY <1>2, SmallestNat
  <2>2. PICK s \in SUBSET S : Cardinality(s) = n /\ ~Good(s)
    BY <2>1
  <2>3. n \in Nat
    BY <2>1
  <2>4. CASE s = {}
    <3>1. h[s] = 0 /\ k[s] = 0
      BY <1>1, <2>4
    <3>2. Good(s)
      BY <2>4, <3>1
    <3> QED
      BY <2>2, <3>2
  <2>5. CASE s # {}
    <3>1. PICK c : c = Chosen(s)
      OBVIOUS
    <3>2. PICK r : r = s \ {c}
      OBVIOUS
    <3>3. c \in s /\ r \in SUBSET S /\ Cardinality(r) = Cardinality(s) - 1 /\ Cardinality(r) \in Nat
      BY <2>5, <3>1, <3>2, Shrinks
    <3>4. Good(r)
      <4>1. Cardinality(r) \notin T
        <5> HIDE DEF T
        <5> QED
          BY <2>1, <2>2, <2>3, <3>3
      <4> QED
        BY <3>3, <4>1
    <3>5. h[s] = f[c] + h[r] /\ k[s] = g[c] + k[r]
      BY <1>1, <2>5, <3>1, <3>2
    <3>6. f[c] \in Int /\ g[c] \in Int /\ f[c] <= g[c] /\ c \in S
      BY <3>3
    <3>7. h[r] \in Int /\ k[r] \in Int /\ h[r] <= k[r]
      BY <3>4
    <3>8. /\ h[s] \in Int /\ k[s] \in Int /\ h[s] <= k[s]
          /\ h[s] = k[s] => f[c] = g[c] /\ h[r] = k[r]
      BY <3>5, <3>6, <3>7
    <3>9. h[s] = k[s] => \A x \in s : f[x] = g[x]
      <4> SUFFICES ASSUME h[s] = k[s], NEW x \in s PROVE f[x] = g[x]
        OBVIOUS
      <4>1. f[c] = g[c] /\ \A y \in r : f[y] = g[y]
        BY <3>4, <3>8
      <4>2. x = c \/ x \in r
        BY <3>2
      <4> QED
        BY <4>1, <4>2
    <3>10. Good(s)
      BY <3>8, <3>9
    <3> QED
      BY <2>2, <3>10
  <2> QED
    BY <2>4, <2>5
<1>3. Cardinality(S) \in Nat /\ Cardinality(S) \notin T
  BY <1>2, FS_CardinalityType
<1> QED
  BY <1>3

(* Two sums of the same terms are the same.                                *)
LEMMA SumUnique ==
  ASSUME NEW S, IsFiniteSet(S), NEW f \in [S -> Int],
         NEW h, SumOf(h, f, S), NEW k, SumOf(k, f, S)
  PROVE  h[S] = k[S]
<1>1. \A x \in S : f[x] <= f[x]
  OBVIOUS
<1>2. h[S] \in Int /\ k[S] \in Int /\ h[S] <= k[S]
  BY <1>1, SumsCompare
<1>3. k[S] <= h[S]
  BY <1>1, SumsCompare
<1> QED
  BY <1>2, <1>3

(* The sum of a constant.                                                  *)
LEMMA ConstantSum ==
  ASSUME NEW S, IsFiniteSet(S), NEW c \in Int
  PROVE  SumOf([s \in SUBSET S |-> c * Cardinality(s)], [x \in S |-> c], S)
<1> DEFINE h == [s \in SUBSET S |-> c * Cardinality(s)]
           f == [x \in S |-> c]
<1>1. ASSUME NEW s \in SUBSET S
      PROVE  h[s] = IF s = {} THEN 0 ELSE f[Chosen(s)] + h[s \ {Chosen(s)}]
  <2>1. CASE s = {}
    <3>1. Cardinality(s) = 0
      BY <2>1, FS_EmptySet
    <3> QED
      BY <2>1, <3>1
  <2>2. CASE s # {}
    <3>1. PICK n \in Nat, m \in Int : /\ n = Cardinality(s) /\ m = Cardinality(s \ {Chosen(s)}) /\ m = n - 1
      BY <2>2, Shrinks
    <3>2. Chosen(s) \in S /\ s \ {Chosen(s)} \in SUBSET S
      BY <2>2, Shrinks
    <3>3. h[s] = c * n /\ h[s \ {Chosen(s)}] = c * m /\ f[Chosen(s)] = c
      BY <3>1, <3>2
    <3>4. c * n = c + c * m
      <4>1. c * (m + 1) = c * m + c /\ m + 1 = n
        BY <3>1
      <4> QED
        BY <4>1
    <3> HIDE DEF h, f
    <3> QED
      BY <2>2, <3>3, <3>4, Zenon
  <2> QED
    BY <2>1, <2>2
<1> QED
  BY <1>1 DEF SumOf

FibreSizes(D, k, V) == [v \in V |-> Cardinality({i \in D : k[i] = v})]

FibreTotals(D, k, V) == [t \in SUBSET V |-> Cardinality({i \in D : k[i] \in t})]

(* The cardinalities of the fibres of k add up to that of its domain.      *)
LEMMA FibresSum ==
  ASSUME NEW D, IsFiniteSet(D), NEW k, NEW V, V = {k[i] : i \in D}
  PROVE  /\ IsFiniteSet(V) /\ FibreSizes(D, k, V) \in [V -> Int]
         /\ SumOf(FibreTotals(D, k, V), FibreSizes(D, k, V), V)
<1> DEFINE Over(t) == {i \in D : k[i] \in t}
           At(v) == {i \in D : k[i] = v}
           f == [v \in V |-> Cardinality(At(v))]
           h == [t \in SUBSET V |-> Cardinality(Over(t))]
<1>1. IsFiniteSet(V)
  <2>1. PICK g : g = [i \in D |-> k[i]]
    OBVIOUS
  <2>2. g \in Surjection(D, V)
    BY <2>1 DEF Surjection
  <2> QED
    BY <2>2, FS_Surjection
<1>2. \A v : IsFiniteSet(At(v)) /\ Cardinality(At(v)) \in Nat
  <2> SUFFICES ASSUME NEW v PROVE IsFiniteSet(At(v)) /\ Cardinality(At(v)) \in Nat
    OBVIOUS
  <2>1. At(v) \subseteq D
    OBVIOUS
  <2> HIDE DEF At
  <2> QED
    BY <2>1, FS_Subset, FS_CardinalityType
<1>3. f \in [V -> Int]
  <2> HIDE DEF At
  <2> QED
    BY <1>2
<1>4. ASSUME NEW t \in SUBSET V
      PROVE  h[t] = IF t = {} THEN 0 ELSE f[Chosen(t)] + h[t \ {Chosen(t)}]
  <2>1. CASE t = {}
    <3>1. Over(t) = {}
      BY <2>1
    <3> HIDE DEF Over
    <3> QED
      BY <2>1, <3>1, FS_EmptySet
  <2>2. CASE t # {}
    <3>1. PICK c : c = Chosen(t) /\ c \in t
      BY <2>2 DEF Chosen
    <3>2. PICK r : r = t \ {c}
      OBVIOUS
    <3>3. Over(t) = At(c) \cup Over(r) /\ At(c) \cap Over(r) = {}
      BY <3>1, <3>2
    <3>4. Over(r) \subseteq D
      OBVIOUS
    <3>5. r \in SUBSET V /\ c \in V
      BY <3>1, <3>2
    <3>6. h[t] = Cardinality(Over(t)) /\ h[r] = Cardinality(Over(r)) /\ f[c] = Cardinality(At(c))
      BY <3>5
    <3> HIDE DEF Over, At, f, h
    <3>7. IsFiniteSet(Over(r)) /\ IsFiniteSet(At(c))
      BY <1>2, <3>4, FS_Subset
    <3>8. Cardinality(At(c) \cap Over(r)) = 0
      BY <3>3, FS_EmptySet
    <3>9. Cardinality(Over(t)) = Cardinality(At(c)) + Cardinality(Over(r))
                                   - Cardinality(At(c) \cap Over(r))
      BY <3>3, <3>7, FS_Union
    <3>10. Cardinality(At(c)) \in Nat /\ Cardinality(Over(r)) \in Nat
      BY <3>7, FS_CardinalityType
    <3>11. Cardinality(Over(t)) = Cardinality(At(c)) + Cardinality(Over(r))
      BY <3>8, <3>9, <3>10
    <3> QED
      BY <2>2, <3>1, <3>2, <3>6, <3>11, Zenon
  <2> QED
    BY <2>1, <2>2
<1>5. SumOf(h, f, V)
  <2> HIDE DEF f, Over
  <2> QED
    BY <1>4 DEF SumOf
<1> QED
  BY <1>1, <1>3, <1>5, Zenon DEF FibreSizes, FibreTotals

-----------------------------------------------------------------------------
(* The endpoints' sums.                                                    *)
LEMMA BlockedSums ==
  ASSUME NEW attempts, IsFiniteSet(DOMAIN attempts.blocked_attempts),
         attempts.blocked_attempts \in [DOMAIN attempts.blocked_attempts -> Int],
         NEW k, SumOf(k, attempts.blocked_attempts, DOMAIN attempts.blocked_attempts)
  PROVE  Raw!MapThenSumSet(LAMBDA s : attempts.blocked_attempts[s], DOMAIN attempts.blocked_attempts)
           = k[DOMAIN attempts.blocked_attempts]
<1> DEFINE f == attempts.blocked_attempts
           S == DOMAIN attempts.blocked_attempts
           h == CHOOSE g : SumOf(g, f, S)
<1>1. SumOf(h, f, S)
  BY Zenon
<1>2. Raw!MapThenSumSet(LAMBDA s : f[s], S) = h[S]
  BY Zenon DEF Raw!MapThenSumSet, Raw!MapThenFoldSet, Chosen, SumOf
<1>3. h[S] = k[S]
  <2> HIDE DEF h, f, S
  <2>1. IsFiniteSet(S) /\ f \in [S -> Int] /\ SumOf(k, f, S)
    BY Zenon DEF f, S
  <2> QED
    BY <1>1, <2>1, SumUnique
<1> QED
  BY <1>2, <1>3, Zenon

LEMMA RawColumnSums ==
  ASSUME NEW rows, NEW I, IsFiniteSet(I), NEW column, \A i \in I : rows[i][column] \in Int
  PROVE  \E h : SumOf(h, [i \in I |-> rows[i][column]], I) /\ Raw!Sum(rows, I, column) = h[I]
<1> DEFINE f == [i \in I |-> rows[i][column]]
           Sums(g) == g = [s \in SUBSET I |-> IF s = {} THEN 0
                                              ELSE rows[Chosen(s)][column] + g[s \ {Chosen(s)}]]
           h == CHOOSE g : Sums(g)
<1>1. ASSUME NEW s \in SUBSET I, s # {} PROVE f[Chosen(s)] = rows[Chosen(s)][column]
  <2>1. Chosen(s) \in I
    BY <1>1 DEF Chosen
  <2> QED
    BY <2>1
<1>2. ASSUME NEW g PROVE Sums(g) <=> SumOf(g, f, I)
  <2> HIDE DEF f
  <2> QED
    BY <1>1 DEF SumOf
<1>3. f \in [I -> Int]
  OBVIOUS
<1>4. \E g : SumOf(g, f, I)
  <2> HIDE DEF f
  <2> QED
    BY <1>3, SumExists
<1>5. Sums(h)
  <2> HIDE DEF f, Sums
  <2> QED
    BY <1>2, <1>4
<1>6. SumOf(h, f, I)
  BY <1>2, <1>5
<1>7. Raw!Sum(rows, I, column) = h[I]
  BY Zenon DEF Raw!Sum, Raw!MapThenSumSet, Raw!MapThenFoldSet, Chosen
<1> QED
  BY <1>6, <1>7

LEMMA TableIs ==
  ASSUME NEW t, Table(t), t # Nil
  PROVE  /\ Len(t) \in Nat /\ DOMAIN t = 1 .. Len(t) /\ IsFiniteSet(DOMAIN t)
         /\ Cardinality(DOMAIN t) = Len(t)
<1>1. PICK S : t \in Seq(S)
  BY Zenon DEF Table
<1>2. Len(t) \in Nat /\ DOMAIN t = 1 .. Len(t)
  BY <1>1, LenProperties
<1>3. PICK n \in Nat : n = Len(t)
  BY <1>2
<1>4. IsFiniteSet(1 .. n) /\ Cardinality(1 .. n) = n
  BY FS_Interval
<1> QED
  BY <1>2, <1>3, <1>4, Zenon

LEMMA Statuses ==
  /\ Raw!NotFound.status = 404 /\ Raw!Error.status = 500
  /\ \A body : Raw!Ok(body).status = 200 /\ Raw!Ok(body).body = body
  /\ 200 # 404 /\ 200 # 500 /\ 404 # 500
BY SMT DEF Raw!NotFound, Raw!Error, Raw!Ok

(* The statuses by name.                                                   *)
Served == 200
Missing == 404
Failed == 500

LEMMA Named ==
  /\ Raw!NotFound.status = Missing /\ Raw!Error.status = Failed
  /\ \A body : Raw!Ok(body).status = Served
  /\ Served # Missing /\ Failed # Missing /\ Served # Failed
BY Statuses DEF Served, Missing, Failed

(* An endpoint over rows refuses exactly if its file does not exist, and   *)
(* fails if a cell it needs cannot be read.                                *)
LEMMA RowsAnswer ==
  ASSUME NEW t, NEW required, NEW optional
  PROVE  LET answer == Raw!raw_rows(t, required, optional)
         IN  /\ answer.status = Missing <=> t = Nil
             /\ \A c \in required : t # Nil /\ Raw!Fails(t, DOMAIN t, c) => answer.status = Failed
             /\ \A c \in optional : t # Nil /\ (\E i \in DOMAIN t : t[i][c] = Bad) => answer.status = Failed
<1>2. PICK rows : Raw!raw_rows(t, required, optional)
        = IF t = Nil THEN Raw!NotFound
          ELSE IF \/ \E c \in required : Raw!Fails(t, DOMAIN t, c)
                  \/ \E c \in optional : \E i \in DOMAIN t : t[i][c] = Bad
               THEN Raw!Error
          ELSE Raw!Ok(rows)
  BY Zenon DEF Raw!raw_rows
<1> QED
  BY <1>2, Named, Zenon

(* An endpoint refuses exactly if its file does not exist.                 *)
LEMMA Refusals ==
  /\ \A t : /\ Raw!raw_throughput(t).status = Missing <=> t = Nil
            /\ Raw!raw_latency(t).status = Missing <=> t = Nil
            /\ Raw!raw_energy(t).status = Missing <=> t = Nil
  /\ \A t : Raw!raw_security(t).status = Missing <=> t = Nil
  /\ \A t : Raw!raw_sensor_transactions(t, Nil).status = Missing <=> t = Nil
  /\ \A files : Raw!raw_summary(files).status = Missing <=> \E f \in Raw!Needed : files[f] = Nil
  /\ \A files : Raw!raw_summary(files).status = Served =>
       (\A f \in Raw!Needed : files[f] # Nil) /\ ~Raw!Unreadable(files)
  /\ \A files : Raw!raw_summary(files).status = Failed =>
       (\A f \in Raw!Needed : files[f] # Nil) /\ Raw!Unreadable(files)
<1>2. \A t : /\ Raw!raw_throughput(t).status = Missing <=> t = Nil
             /\ Raw!raw_latency(t).status = Missing <=> t = Nil
             /\ Raw!raw_energy(t).status = Missing <=> t = Nil
  BY RowsAnswer, Zenon DEF Raw!raw_throughput, Raw!raw_latency, Raw!raw_energy
<1>3. ASSUME NEW t PROVE Raw!raw_security(t).status = Missing <=> t = Nil
  <2>1. PICK counts : Raw!raw_security(t) = IF t = Nil THEN Raw!NotFound ELSE Raw!Ok(counts)
    BY Zenon DEF Raw!raw_security
  <2> QED
    BY Named, <2>1, Zenon
<1>4. ASSUME NEW t PROVE Raw!raw_sensor_transactions(t, Nil).status = Missing <=> t = Nil
  <2>1. PICK bad, page : Raw!raw_sensor_transactions(t, Nil)
          = IF t = Nil THEN Raw!NotFound ELSE IF bad THEN Raw!Error ELSE Raw!Ok(page)
    BY Zenon DEF Raw!raw_sensor_transactions
  <2> QED
    BY Named, <2>1, Zenon
<1>5. ASSUME NEW files
      PROVE  /\ Raw!raw_summary(files).status = Missing <=> \E f \in Raw!Needed : files[f] = Nil
             /\ Raw!raw_summary(files).status = Served =>
                  (\A f \in Raw!Needed : files[f] # Nil) /\ ~Raw!Unreadable(files)
             /\ Raw!raw_summary(files).status = Failed =>
                  (\A f \in Raw!Needed : files[f] # Nil) /\ Raw!Unreadable(files)
  <2>1. PICK body : Raw!raw_summary(files)
          = IF \E f \in Raw!Needed : files[f] = Nil THEN Raw!NotFound
            ELSE IF Raw!Unreadable(files) THEN Raw!Error ELSE Raw!Ok(body)
    BY Zenon DEF Raw!raw_summary
  <2> QED
    BY Named, <2>1, Zenon
<1> QED
  BY <1>2, <1>3, <1>4, <1>5, Zenon

(* What the summary cannot read fails where its rows are listed, but for   *)
(* the durations, which no endpoint lists.                                 *)
LEMMA FailuresShow ==
  ASSUME NEW files, \A f \in Raw!Needed : files[f] # Nil, Raw!Unreadable(files)
  PROVE  \/ Raw!raw_throughput(files.throughput).status = Failed
         \/ Raw!raw_latency(files.latency).status = Failed
         \/ Raw!raw_energy(files.energy).status = Failed
         \/ /\ files.uptime # Nil
            /\ \E i \in DOMAIN files.uptime : files.uptime[i].duration_hours \in {Nil, Bad}
<1> DEFINE throughput == files.throughput
           latency == files.latency
           energy == files.energy
           uptime == files.uptime
<1>1. throughput # Nil /\ latency # Nil /\ energy # Nil
  BY DEF Raw!Needed
<1>2. /\ \A c \in {"concurrent_clients", "tps"} :
           Raw!Fails(throughput, DOMAIN throughput, c) => Raw!raw_throughput(throughput).status = Failed
      /\ Raw!Fails(latency, DOMAIN latency, "latency_ms") => Raw!raw_latency(latency).status = Failed
      /\ (\E i \in DOMAIN latency : latency[i]["rbac_overhead_ms"] = Bad)
           => Raw!raw_latency(latency).status = Failed
      /\ Raw!Fails(energy, DOMAIN energy, "energy_mj") => Raw!raw_energy(energy).status = Failed
  BY <1>1, RowsAnswer, ZenonT(60) DEF Raw!raw_throughput, Raw!raw_latency, Raw!raw_energy
<1>3. /\ \A b : Raw!At50(throughput, b) \subseteq DOMAIN throughput
      /\ Raw!SensorWrites(latency) \subseteq DOMAIN latency
      /\ \A m : Raw!InMode(energy, m) \subseteq DOMAIN energy
      /\ \A e : Raw!Timed(uptime, e) \subseteq DOMAIN uptime
  BY Zenon DEF Raw!At50, Raw!SensorWrites, Raw!InMode, Raw!Timed
<1>4. \/ \E b \in {"HRBAC", "Baseline"} : Raw!Fails(throughput, Raw!At50(throughput, b), "tps")
      \/ Raw!Fails(latency, Raw!SensorWrites(latency), "latency_ms")
      \/ \E i \in Raw!SensorWrites(latency) : latency[i].rbac_overhead_ms = Bad
      \/ \E m \in {"SingleChannel", "CRT"} : Raw!Fails(energy, Raw!InMode(energy, m), "energy_mj")
      \/ /\ uptime # Nil
         /\ \E e \in {"DEPLOYMENT", "OUTAGE"} :
              Raw!Fails(uptime, Raw!Timed(uptime, e), "duration_hours")
  BY Zenon DEF Raw!Unreadable
<1> HIDE DEF throughput, latency, energy, uptime
<1>5. \/ Raw!raw_throughput(throughput).status = Failed
      \/ Raw!raw_latency(latency).status = Failed
      \/ Raw!raw_energy(energy).status = Failed
      \/ uptime # Nil /\ \E i \in DOMAIN uptime : uptime[i].duration_hours \in {Nil, Bad}
  <2>1. CASE \E b \in {"HRBAC", "Baseline"} : Raw!Fails(throughput, Raw!At50(throughput, b), "tps")
    <3>1. Raw!Fails(throughput, DOMAIN throughput, "tps")
      BY <1>3, <2>1, Zenon DEF Raw!Fails
    <3> QED
      BY <1>2, <3>1, Zenon
  <2>2. CASE Raw!Fails(latency, Raw!SensorWrites(latency), "latency_ms")
    BY <1>2, <1>3, <2>2, Zenon DEF Raw!Fails
  <2>3. CASE \E i \in Raw!SensorWrites(latency) : latency[i].rbac_overhead_ms = Bad
    BY <1>2, <1>3, <2>3, Zenon
  <2>4. CASE \E m \in {"SingleChannel", "CRT"} : Raw!Fails(energy, Raw!InMode(energy, m), "energy_mj")
    <3>1. Raw!Fails(energy, DOMAIN energy, "energy_mj")
      BY <1>3, <2>4, Zenon DEF Raw!Fails
    <3> QED
      BY <1>2, <3>1, Zenon
  <2>5. CASE uptime # Nil /\ \E e \in {"DEPLOYMENT", "OUTAGE"} :
               Raw!Fails(uptime, Raw!Timed(uptime, e), "duration_hours")
    BY <1>3, <2>5, Zenon DEF Raw!Fails
  <2> QED
    BY <1>4, <2>1, <2>2, <2>3, <2>4, <2>5, Zenon
<1> QED
  BY <1>5, Zenon DEF throughput, latency, energy, uptime

(* A page is a prefix of the file.                                         *)
LEMMA PageIs ==
  ASSUME NEW txns, Table(txns), txns # Nil, NEW most \in Int
  PROVE  LET page == Raw!Page(txns, most)
         IN  /\ Len(page) = Cardinality({i \in 1 .. Len(txns) : i <= most})
             /\ Len(page) \in Nat /\ Len(page) <= Len(txns)
             /\ \A i \in 1 .. Len(page) : page[i] = txns[i]
<1>1. PICK S : txns \in Seq(S)
  BY Zenon DEF Table
<1>2. PICK n \in Nat : n = Len(txns) /\ \A i \in 1 .. n : txns[i] \in S
  BY <1>1, LenProperties, ElementOfSeq
<1>3. PICK m \in Int : m = Raw!Min({most, n}) /\ m = IF most <= n THEN most ELSE n
  <2>1. PICK k \in {most, n} : \A y \in {most, n} : k <= y
    BY Zenon, <1>2, SMT
  <2>2. /\ Raw!Min({most, n}) \in {most, n}
        /\ \A y \in {most, n} : Raw!Min({most, n}) <= y
    BY <2>1, Zenon DEF Raw!Min
  <2> QED
    BY <2>2
<1> DEFINE page == SubSeq(txns, 1, m)
<1>4. page = Raw!Page(txns, most)
  BY <1>2, <1>3, Zenon DEF Raw!Page
<1>5. \A i \in 1 .. m : txns[i] \in S
  BY <1>2, <1>3
<1>6. /\ Len(page) = IF 1 <= m THEN m - 1 + 1 ELSE 0
      /\ \A i \in 1 .. m - 1 + 1 : page[i] = txns[1 + i - 1]
  BY <1>5, SubSeqProperties
<1> HIDE DEF page
<1>7. \A i \in 1 .. Len(page) : page[i] = txns[i]
  <2> SUFFICES ASSUME NEW i \in 1 .. Len(page) PROVE page[i] = txns[i]
    OBVIOUS
  <2>1. i \in 1 .. m - 1 + 1 /\ 1 + i - 1 = i
    BY <1>6
  <2> QED
    BY <1>6, <2>1, Zenon
<1>8. PICK l \in Nat : l = Len(page) /\ l <= n /\ l = IF 1 <= m THEN m ELSE 0
  BY <1>3, <1>6
<1>9. {i \in 1 .. n : i <= most} = 1 .. l
  BY <1>3, <1>8
<1>10. Cardinality(1 .. l) = l
  BY FS_Interval
<1> QED
  BY <1>2, <1>4, <1>7, <1>8, <1>9, <1>10, Zenon

LEMMA HoursNotNegative ==
  ASSUME NEW events, Table(events), events # Nil, NEW type,
         \A i \in DOMAIN events : events[i].duration_hours \in Nat \cup {Nil, Bad},
         ~Raw!Fails(events, Raw!Timed(events, type), "duration_hours")
  PROVE  Raw!Hours(events, type) \in Nat
<1> DEFINE I == Raw!Timed(events, type)
           f == [i \in I |-> events[i].duration_hours]
           zero == [i \in I |-> 0]
<1>1. IsFiniteSet(I)
  <2>1. I \subseteq DOMAIN events /\ IsFiniteSet(DOMAIN events)
    BY TableIs, Zenon DEF Raw!Timed
  <2> HIDE DEF I
  <2> QED
    BY <2>1, FS_Subset
<1>2. \A i \in I : events[i].duration_hours \in Nat
  BY Zenon DEF Raw!Timed, Raw!Fails
<1> HIDE DEF I
<1>3. PICK h : SumOf(h, f, I) /\ Raw!Sum(events, I, "duration_hours") = h[I]
  <2>1. \A i \in I : events[i]["duration_hours"] \in Int
    BY <1>2
  <2>2. \E h : /\ SumOf(h, [i \in I |-> events[i]["duration_hours"]], I)
               /\ Raw!Sum(events, I, "duration_hours") = h[I]
    BY <1>1, <2>1, RawColumnSums, Zenon
  <2> QED
    BY <2>2, Zenon
<1>4. PICK k : SumOf(k, zero, I) /\ k[I] = 0 * Cardinality(I)
  <2> DEFINE none == [s \in SUBSET I |-> 0 * Cardinality(s)]
  <2>1. SumOf(none, zero, I)
    <3>1. 0 \in Int
      OBVIOUS
    <3> QED
      BY <1>1, <3>1, ConstantSum, Zenon
  <2>2. none[I] = 0 * Cardinality(I)
    OBVIOUS
  <2> HIDE DEF none, zero
  <2> QED
    BY <2>1, <2>2, Zenon
<1>5. f \in [I -> Int] /\ zero \in [I -> Int] /\ \A i \in I : zero[i] <= f[i]
  BY <1>2
<1> HIDE DEF f, zero
<1>6. k[I] \in Int /\ h[I] \in Int /\ k[I] <= h[I]
  BY <1>1, <1>3, <1>4, <1>5, SumsCompare
<1>7. k[I] = 0
  BY <1>1, <1>4, FS_CardinalityType
<1>8. h[I] \in Nat
  BY <1>6, <1>7
<1> QED
  BY <1>3, <1>8, Zenon DEF Raw!Hours, I

LEMMA BodyIs == \A body : Raw!Ok(body).body = body
BY Statuses, SMT

LEMMA SummaryServed ==
  ASSUME NEW files, Raw!raw_summary(files).status = 200
  PROVE  (\A f \in Raw!Needed : files[f] # Nil) /\ ~Raw!Unreadable(files)
BY Refusals, SMT DEF Served

LEMMA SummaryIs ==
  ASSUME NEW files, \A f \in Raw!Needed : files[f] # Nil, ~Raw!Unreadable(files)
  PROVE  LET body == Raw!raw_summary(files).body
         IN  /\ body.sensor_transaction_count = Len(files.txns)
             /\ body.security_attempt_count = Len(files.security)
             /\ body.uptime = IF files.uptime = Nil THEN Nil ELSE Raw!Uptime(files.uptime)
<1>1. PICK txns, security, uptime :
        /\ txns = Len(files.txns) /\ security = Len(files.security)
        /\ uptime = IF files.uptime = Nil THEN Nil ELSE Raw!Uptime(files.uptime)
  BY Zenon
<1>2. ~\E f \in Raw!Needed : files[f] = Nil
  OBVIOUS
<1>3. PICK a, b, c, d, e : Raw!raw_summary(files)
        = Raw!Ok([sensor_transaction_count |-> txns, security_attempt_count |-> security,
                  mean_hrbac_tps_50_clients |-> a, mean_baseline_tps_50_clients |-> b,
                  mean_sensor_write_latency_ms |-> c, mean_rbac_overhead_ms |-> d,
                  energy_reduction |-> e, uptime |-> uptime])
  <2>1. Raw!raw_summary(files)
          = Raw!Ok([sensor_transaction_count |-> Len(files.txns),
                    security_attempt_count |-> Len(files.security),
                    mean_hrbac_tps_50_clients |-> Raw!MeanTps(files.throughput, "HRBAC"),
                    mean_baseline_tps_50_clients |-> Raw!MeanTps(files.throughput, "Baseline"),
                    mean_sensor_write_latency_ms |->
                      Raw!_mean(files.latency, Raw!SensorWrites(files.latency), "latency_ms"),
                    mean_rbac_overhead_ms |->
                      Raw!_mean(files.latency, {i \in Raw!SensorWrites(files.latency) :
                                                  files.latency[i].rbac_overhead_ms # Nil}, "rbac_overhead_ms"),
                    energy_reduction |-> Raw!EnergyReduction(files.energy),
                    uptime |-> IF files.uptime = Nil THEN Nil ELSE Raw!Uptime(files.uptime)])
    BY <1>2, Zenon DEF Raw!raw_summary
  <2> QED
    BY <1>1, <2>1, Zenon
<1>4. Raw!raw_summary(files).body
        = [sensor_transaction_count |-> txns, security_attempt_count |-> security,
           mean_hrbac_tps_50_clients |-> a, mean_baseline_tps_50_clients |-> b,
           mean_sensor_write_latency_ms |-> c, mean_rbac_overhead_ms |-> d,
           energy_reduction |-> e, uptime |-> uptime]
  BY <1>3, BodyIs, Zenon
<1>5. /\ Raw!raw_summary(files).body.sensor_transaction_count = txns
      /\ Raw!raw_summary(files).body.security_attempt_count = security
      /\ Raw!raw_summary(files).body.uptime = uptime
  BY <1>4
<1> QED
  BY <1>1, <1>5, Zenon

(* The scenarios' counts add up to the number of attempts.                 *)
LEMMA SameRawCardinality == \A S : Raw!Cardinality(S) = Cardinality(S)
BY Zenon DEF Raw!Cardinality, Cardinality

LEMMA ScenariosSum ==
  ASSUME NEW security, Table(security), security # Nil
  PROVE  LET attempts == Raw!raw_security(security).body
         IN  /\ attempts.total_attempts = Len(security)
             /\ attempts.total_attempts
                  = Raw!MapThenSumSet(LAMBDA s : attempts.blocked_attempts[s],
                                      DOMAIN attempts.blocked_attempts)
<1> DEFINE attempts == Raw!raw_security(security).body
           D == DOMAIN security
           V == {security[i].scenario : i \in D}
           f == [v \in V |-> Cardinality({i \in D : security[i].scenario = v})]
<1>1. attempts.total_attempts = Len(security) /\ attempts.blocked_attempts = f
  <2> DEFINE At(v) == {i \in D : security[i].scenario = v}
             raw == [v \in V |-> Raw!Cardinality(At(v))]
  <2>1. PICK n : n = Len(security)
    OBVIOUS
  <2>2. Raw!raw_security(security) = Raw!Ok([blocked_attempts |-> raw, total_attempts |-> n])
    BY <2>1, Zenon DEF Raw!raw_security
  <2>4. raw = f
    <3> HIDE DEF V, D
    <3> QED
      BY SameRawCardinality
  <2> HIDE DEF f, raw
  <2>3. attempts = [blocked_attempts |-> f, total_attempts |-> n]
    BY <2>2, <2>4, BodyIs, Zenon
  <2> HIDE DEF attempts
  <2> QED
    BY <2>1, <2>3
<1>2. IsFiniteSet(D) /\ Cardinality(D) = Len(security)
  BY TableIs
<1>3. PICK k : k = [i \in D |-> security[i].scenario]
  OBVIOUS
<1>4. V = {k[i] : i \in D}
  BY <1>3
<1>5. f = FibreSizes(D, k, V)
  <2>1. \A v : {i \in D : security[i].scenario = v} = {i \in D : k[i] = v}
    BY <1>3
  <2> HIDE DEF D, V
  <2> QED
    BY <2>1 DEF FibreSizes
<1> DEFINE h == FibreTotals(D, k, V)
<1>6. IsFiniteSet(V) /\ f \in [V -> Int] /\ SumOf(h, f, V)
  <2> HIDE DEF f, D, V
  <2>1. /\ IsFiniteSet(V) /\ FibreSizes(D, k, V) \in [V -> Int]
        /\ SumOf(h, FibreSizes(D, k, V), V)
    <3>1. IsFiniteSet(D) /\ V = {k[i] : i \in D}
      BY <1>2, <1>4, Zenon
    <3> HIDE DEF h
    <3>2. /\ IsFiniteSet(V) /\ FibreSizes(D, k, V) \in [V -> Int]
          /\ SumOf(FibreTotals(D, k, V), FibreSizes(D, k, V), V)
      BY <3>1, FibresSum
    <3> QED
      BY <3>2, Zenon DEF h
  <2> QED
    BY <1>5, <2>1, Zenon
<1>7. h[V] = Len(security)
  <2>1. {i \in D : k[i] \in V} = D
    BY <1>4
  <2> HIDE DEF V, D
  <2>2. h[V] = Cardinality({i \in D : k[i] \in V})
    BY DEF FibreTotals
  <2> QED
    BY <1>2, <2>1, <2>2, Zenon
<1> HIDE DEF attempts, f, h, V
<1>8. DOMAIN attempts.blocked_attempts = V
  BY <1>1, <1>6
<1>9. Raw!MapThenSumSet(LAMBDA s : attempts.blocked_attempts[s], DOMAIN attempts.blocked_attempts)
        = h[DOMAIN attempts.blocked_attempts]
  <2>1. /\ IsFiniteSet(DOMAIN attempts.blocked_attempts)
        /\ attempts.blocked_attempts \in [DOMAIN attempts.blocked_attempts -> Int]
        /\ SumOf(h, attempts.blocked_attempts, DOMAIN attempts.blocked_attempts)
    BY <1>1, <1>6, <1>8, Zenon
  <2> QED
    BY <2>1, BlockedSums, Zenon
<1>10. /\ attempts.total_attempts = Len(security)
       /\ attempts.total_attempts
            = Raw!MapThenSumSet(LAMBDA s : attempts.blocked_attempts[s],
                                DOMAIN attempts.blocked_attempts)
  BY <1>1, <1>7, <1>8, <1>9, Zenon
<1> QED
  BY <1>10, Zenon DEF attempts

(* The share of the time up is at most the whole.                          *)
LEMMA UptimeAtMostWhole ==
  ASSUME NEW events, Table(events), events # Nil,
         \A i \in DOMAIN events : events[i].duration_hours \in Nat \cup {Nil, Bad},
         \A e \in {"DEPLOYMENT", "OUTAGE"} : ~Raw!Fails(events, Raw!Timed(events, e), "duration_hours"),
         Raw!Uptime(events) # Nil
  PROVE  Raw!Uptime(events)[1] <= Raw!Uptime(events)[2]
<1>1. PICK d \in Nat, o \in Nat : d = Raw!Hours(events, "DEPLOYMENT") /\ o = Raw!Hours(events, "OUTAGE")
  BY HoursNotNegative
<1>2. Raw!Uptime(events) = <<d - o, d>>
  BY <1>1, Zenon DEF Raw!Uptime
<1> QED
  BY <1>1, <1>2

(* A page is a prefix of the file.                                         *)
Prefix(page, txns, asked) ==
  /\ page.count = Len(page.rows)
  /\ page.count = Cardinality({i \in 1 .. Len(txns) : i <= asked /\ i <= PageMost})
  /\ \A i \in 1 .. page.count : page.rows[i] = txns[i]

Asked(limit) == IF limit = Nil THEN PageDefault ELSE limit.value

(* What raw_sensor_transactions serves, asked for a number of rows or none. *)
LEMMA PageServed ==
  ASSUME NEW txns, Table(txns), NEW limit,
         limit = Nil \/ limit.type = "word" \/ limit.value \in Int,
         Raw!raw_sensor_transactions(txns, limit).status = 200
  PROVE  LET page == Raw!raw_sensor_transactions(txns, limit).body
         IN  Prefix(page, txns, Asked(limit)) /\ page.count \in Nat /\ page.count <= Len(txns)
<1> DEFINE page == Raw!raw_sensor_transactions(txns, limit).body
<1>1. PICK asked : /\ asked = IF limit = Nil THEN PageDefault ELSE limit.value
                   /\ asked = Asked(limit)
  BY DEF Asked
<1>2. PICK most : most = Raw!Min({asked, PageMost})
  OBVIOUS
<1>3. PICK rows : rows = Raw!Page(txns, most)
  OBVIOUS
<1>0. PICK bad : bad = \E c \in {"latency_ms", "energy_mj"} : Raw!Fails(rows, DOMAIN rows, c)
  OBVIOUS
<1>1a. Raw!raw_sensor_transactions(txns, limit)
         = IF txns = Nil THEN Raw!NotFound
           ELSE IF limit # Nil /\ limit.type = "word" THEN Raw!Error
           ELSE IF bad THEN Raw!Error
           ELSE Raw!Ok([rows |-> rows, count |-> Len(rows), limit |-> most])
  BY <1>0, <1>1, <1>2, <1>3, ZenonT(60) DEF Raw!raw_sensor_transactions
<1>1b. /\ Raw!raw_sensor_transactions(txns, limit) # Raw!NotFound
       /\ Raw!raw_sensor_transactions(txns, limit) # Raw!Error
  BY Statuses, SMT
<1>4. txns # Nil /\ ~(limit # Nil /\ limit.type = "word")
  BY <1>1a, <1>1b, Zenon
<1>5. Raw!raw_sensor_transactions(txns, limit)
        = Raw!Ok([rows |-> rows, count |-> Len(rows), limit |-> most])
  BY <1>1a, <1>1b, Zenon
<1>6. page = [rows |-> rows, count |-> Len(rows), limit |-> most]
  BY <1>5, BodyIs
<1>7. PICK n : n = Len(rows)
  OBVIOUS
<1>8. page.rows = rows /\ page.count = n
  <2> HIDE DEF page
  <2> QED
    BY <1>6, <1>7
<1>9. asked \in Int /\ PageMost \in Nat
  BY <1>1, <1>4, InputAssumption
<1>10. most \in Int /\ \A i \in Int : i <= most <=> i <= asked /\ i <= PageMost
  <2>1. \E k \in {asked, PageMost} : \A y \in {asked, PageMost} : k <= y
    BY <1>9
  <2>2. /\ most \in {asked, PageMost}
        /\ \A y \in {asked, PageMost} : most <= y
    BY <1>2, <2>1, Zenon DEF Raw!Min
  <2> QED
    BY <1>9, <2>2
<1>11. /\ n = Cardinality({i \in 1 .. Len(txns) : i <= most})
       /\ n \in Nat /\ n <= Len(txns)
       /\ \A i \in 1 .. n : rows[i] = txns[i]
  <2>1. most \in Int
    BY <1>10
  <2>2. LET p == Raw!Page(txns, most)
        IN  /\ Len(p) = Cardinality({i \in 1 .. Len(txns) : i <= most})
            /\ Len(p) \in Nat /\ Len(p) <= Len(txns)
            /\ \A i \in 1 .. Len(p) : p[i] = txns[i]
    BY <1>4, <2>1, PageIs
  <2> QED
    BY <1>3, <1>7, <2>2
<1>12. {i \in 1 .. Len(txns) : i <= most} = {i \in 1 .. Len(txns) : i <= asked /\ i <= PageMost}
  <2>1. \A i \in 1 .. Len(txns) : i \in Int
    OBVIOUS
  <2> QED
    BY <1>10, <2>1
<1> HIDE DEF page
<1>13. /\ page.count = Len(page.rows)
       /\ page.count = Cardinality({i \in 1 .. Len(txns) : i <= asked /\ i <= PageMost})
       /\ \A i \in 1 .. page.count : page.rows[i] = txns[i]
       /\ page.count \in Nat /\ page.count <= Len(txns)
  BY <1>7, <1>8, <1>11, <1>12
<1> QED
  BY <1>1, <1>13 DEF page, Prefix

(* The measurements' endpoints agree (raw_data_api.py:41-198): the summary *)
(* is refused exactly if one of those it summarises is, it counts what     *)
(* they list, and a page is as long a prefix of the file as limit, cap and *)
(* file allow, for files of any length.                                    *)
THEOREM EndpointsAlwaysAgree == Spec => []EndpointsAgree
<1>1. ASSUME Answered, tool = "summarise"
      PROVE  LET page == Raw!raw_sensor_transactions(input.txns, Nil)
                 endpoints == {Raw!raw_throughput(input.throughput), Raw!raw_latency(input.latency),
                               Raw!raw_energy(input.energy), Raw!raw_security(input.security), page}
             IN  /\ result.status = 404 <=> \E e \in endpoints : e.status = 404
                 /\ result.status = 500 =>
                      \/ \E e \in endpoints : e.status = 500
                      \/ /\ input.uptime # Nil
                         /\ \E i \in DOMAIN input.uptime :
                              input.uptime[i].duration_hours \in {Nil, Bad}
  <2>1. result = Raw!raw_summary(input)
    BY <1>1 DEF Answered
  <2>2. /\ Raw!raw_throughput(input.throughput).status = Missing <=> input.throughput = Nil
        /\ Raw!raw_latency(input.latency).status = Missing <=> input.latency = Nil
        /\ Raw!raw_energy(input.energy).status = Missing <=> input.energy = Nil
        /\ Raw!raw_security(input.security).status = Missing <=> input.security = Nil
        /\ Raw!raw_sensor_transactions(input.txns, Nil).status = Missing <=> input.txns = Nil
        /\ Raw!raw_summary(input).status = Missing <=> \E f \in Raw!Needed : input[f] = Nil
    BY Refusals, Zenon
  <2>2a. result.status = Failed =>
           \/ Raw!raw_throughput(input.throughput).status = Failed
           \/ Raw!raw_latency(input.latency).status = Failed
           \/ Raw!raw_energy(input.energy).status = Failed
           \/ /\ input.uptime # Nil
              /\ \E i \in DOMAIN input.uptime : input.uptime[i].duration_hours \in {Nil, Bad}
    BY <2>1, Refusals, FailuresShow, Zenon
  <2>3. (\E f \in Raw!Needed : input[f] = Nil)
          <=> \/ input.txns = Nil \/ input.security = Nil \/ input.throughput = Nil
              \/ input.latency = Nil \/ input.energy = Nil
    BY DEF Raw!Needed
  <2>4. result.status = Missing
          <=> \E e \in {Raw!raw_throughput(input.throughput), Raw!raw_latency(input.latency),
                        Raw!raw_energy(input.energy), Raw!raw_security(input.security),
                        Raw!raw_sensor_transactions(input.txns, Nil)} : e.status = Missing
    BY <2>1, <2>2, <2>3, Zenon
  <2>5. result.status = Failed =>
          \/ \E e \in {Raw!raw_throughput(input.throughput), Raw!raw_latency(input.latency),
                        Raw!raw_energy(input.energy), Raw!raw_security(input.security),
                        Raw!raw_sensor_transactions(input.txns, Nil)} : e.status = Failed
          \/ /\ input.uptime # Nil
             /\ \E i \in DOMAIN input.uptime : input.uptime[i].duration_hours \in {Nil, Bad}
    BY <2>2a, Zenon
  <2> QED
    BY <2>4, <2>5 DEF Missing, Failed
<1>2. ASSUME Answered, tool = "summarise", result.status = 200
      PROVE  LET attempts == Raw!raw_security(input.security).body
             IN  /\ result.body.security_attempt_count = attempts.total_attempts
                 /\ attempts.total_attempts
                      = Raw!MapThenSumSet(LAMBDA s : attempts.blocked_attempts[s],
                                          DOMAIN attempts.blocked_attempts)
                 /\ Raw!raw_sensor_transactions(input.txns, Nil).status = 200 =>
                      result.body.sensor_transaction_count
                        >= Raw!raw_sensor_transactions(input.txns, Nil).body.count
                 /\ result.body.uptime # Nil => result.body.uptime[1] <= result.body.uptime[2]
  <2>1. result = Raw!raw_summary(input) /\ MeasuredFiles(input)
    BY <1>2, InputAssumption DEF Answered
  <2>2. (\A f \in Raw!Needed : input[f] # Nil) /\ ~Raw!Unreadable(input)
    BY <1>2, <2>1, SummaryServed
  <2>3. input.security # Nil /\ input.txns # Nil /\ Table(input.security) /\ Table(input.txns)
        /\ Table(input.uptime)
    BY <2>1, <2>2 DEF Raw!Needed, MeasuredFiles
  <2>4. PICK body : body = result.body
    OBVIOUS
  <2>5. /\ body.sensor_transaction_count = Len(input.txns)
        /\ body.security_attempt_count = Len(input.security)
        /\ body.uptime = IF input.uptime = Nil THEN Nil ELSE Raw!Uptime(input.uptime)
    BY <2>1, <2>2, <2>4, SummaryIs, Zenon
  <2>6. LET attempts == Raw!raw_security(input.security).body
        IN  /\ attempts.total_attempts = Len(input.security)
            /\ attempts.total_attempts
                 = Raw!MapThenSumSet(LAMBDA s : attempts.blocked_attempts[s],
                                     DOMAIN attempts.blocked_attempts)
    BY <2>3, ScenariosSum, Zenon
  <2>7. ASSUME Raw!raw_sensor_transactions(input.txns, Nil).status = 200
        PROVE  body.sensor_transaction_count >= Raw!raw_sensor_transactions(input.txns, Nil).body.count
    <3>1. Raw!raw_sensor_transactions(input.txns, Nil).status = 200
      BY <2>7
    <3>2. PICK c : c = Raw!raw_sensor_transactions(input.txns, Nil).body.count
      OBVIOUS
    <3>3. c \in Nat /\ c <= Len(input.txns)
      BY <2>3, <3>1, <3>2, PageServed
    <3>4. Len(input.txns) \in Nat
      BY <2>3, TableIs
    <3> QED
      BY <2>5, <3>2, <3>3, <3>4
  <2>8. body.uptime # Nil => body.uptime[1] <= body.uptime[2]
    <3>1. input.uptime # Nil =>
            /\ \A i \in DOMAIN input.uptime : input.uptime[i].duration_hours \in Nat \cup {Nil, Bad}
            /\ \A e \in {"DEPLOYMENT", "OUTAGE"} :
                 ~Raw!Fails(input.uptime, Raw!Timed(input.uptime, e), "duration_hours")
      BY <2>1, <2>2, Zenon DEF MeasuredFiles, Raw!Unreadable
    <3> QED
      BY <2>3, <2>5, <3>1, UptimeAtMostWhole
  <2> QED
    BY <2>4, <2>5, <2>6, <2>7, <2>8, Zenon
<1>3. ASSUME Answered, tool = "page", result.status = 200
      PROVE  LET asked == IF input.limit = Nil THEN PageDefault ELSE input.limit.value
                 page == result.body
             IN  /\ page.count = Len(page.rows)
                 /\ page.count = Cardinality({i \in 1..Len(input.txns) : i <= asked /\ i <= PageMost})
                 /\ \A i \in 1..page.count : page.rows[i] = input.txns[i]
  <2>1. PICK txns, limit : txns = input.txns /\ limit = input.limit
    OBVIOUS
  <2>2. /\ result = Raw!raw_sensor_transactions(txns, limit)
        /\ Table(txns) /\ (limit = Nil \/ limit.type = "word" \/ limit.value \in Int)
    BY <1>3, <2>1, InputAssumption DEF Answered
  <2>3. LET asked == IF limit = Nil THEN PageDefault ELSE limit.value
            page == result.body
        IN  /\ page.count = Len(page.rows)
            /\ page.count = Cardinality({i \in 1 .. Len(txns) : i <= asked /\ i <= PageMost})
            /\ \A i \in 1 .. page.count : page.rows[i] = txns[i]
    <3>1. Raw!raw_sensor_transactions(txns, limit).status = 200
      BY <1>3, <2>2
    <3>2. Prefix(Raw!raw_sensor_transactions(txns, limit).body, txns, Asked(limit))
      BY <2>2, <3>1, PageServed
    <3> QED
      BY <2>2, <3>2 DEF Prefix, Asked
  <2> QED
    BY <2>1, <2>3
<1>4. Answered => EndpointsAgree
  BY <1>1, <1>2, <1>3, Zenon DEF EndpointsAgree
<1> QED
  BY <1>4, ToolsInvariance, PTL

-----------------------------------------------------------------------------
(* The comparison's metrics.                                               *)
LEMMA LargestInt ==
  ASSUME NEW T, IsFiniteSet(T), T # {}, T \subseteq Int
  PROVE  \E m \in T : \A y \in T : m >= y
<1> DEFINE Has(s) == \E m \in s : \A y \in s : m >= y
           N == {n \in Nat : \E s \in SUBSET T : s # {} /\ Cardinality(s) = n /\ ~Has(s)}
<1>1. ASSUME N # {} PROVE FALSE
  <2>1. PICK n \in N : \A k \in N : n <= k
    BY <1>1, SmallestNat
  <2>2. PICK s \in SUBSET T : s # {} /\ Cardinality(s) = n /\ ~Has(s)
    BY <2>1
  <2>3. PICK c : c = Chosen(s)
    OBVIOUS
  <2>4. PICK r : r = s \ {c}
    OBVIOUS
  <2>5. c \in s /\ r \in SUBSET T /\ Cardinality(r) = Cardinality(s) - 1 /\ Cardinality(r) \in Nat
        /\ n \in Nat
    <3>1. /\ Chosen(s) \in s /\ s \ {Chosen(s)} \in SUBSET T
          /\ Cardinality(s \ {Chosen(s)}) = Cardinality(s) - 1
      BY <2>2, Shrinks
    <3>2. Cardinality(r) \in Nat
      BY <2>3, <2>4, <3>1, Shrinks
    <3> QED
      BY <2>1, <2>3, <2>4, <3>1, <3>2
  <2>6. r # {} => Has(r)
    <3>1. Cardinality(r) \notin N
      <4> HIDE DEF N
      <4> QED
        BY <2>1, <2>2, <2>5
    <3> QED
      BY <2>5, <3>1
  <2>7. CASE r = {}
    <3>1. \A y \in s : y = c
      BY <2>4, <2>7
    <3>2. c >= c
      BY <2>5
    <3> QED
      BY <2>2, <2>5, <3>1, <3>2
  <2>8. CASE r # {}
    <3>1. PICK m \in r : \A y \in r : m >= y
      BY <2>6, <2>8
    <3>2. m \in Int /\ c \in Int /\ m \in s /\ \A y \in r : y \in Int
      BY <2>4, <2>5
    <3>3. \A y \in s : y = c \/ y \in r
      BY <2>4
    <3>4. CASE m >= c
      <4>1. \A y \in s : m >= y
        BY <3>1, <3>3, <3>4
      <4> QED
        BY <2>2, <3>2, <4>1
    <3>5. CASE ~(m >= c)
      <4>1. \A y \in s : c >= y
        <5> SUFFICES ASSUME NEW y \in s PROVE c >= y
          OBVIOUS
        <5>1. CASE y = c
          BY <3>2, <5>1
        <5>2. CASE y \in r
          <6>1. m >= y /\ y \in Int
            BY <3>1, <3>2, <5>2
          <6> QED
            BY <3>2, <3>5, <6>1
        <5> QED
          BY <3>3, <5>1, <5>2
      <4> QED
        BY <2>2, <2>5, <4>1
    <3> QED
      BY <3>4, <3>5
  <2> QED
    BY <2>7, <2>8
<1>2. Cardinality(T) \in Nat /\ Cardinality(T) \notin N
  BY <1>1, FS_CardinalityType
<1> QED
  BY <1>2

LEMMA MaxIs ==
  ASSUME NEW T, IsFiniteSet(T), T # {}, T \subseteq Int
  PROVE  Comp!Max(T) \in T /\ \A y \in T : Comp!Max(T) >= y
BY LargestInt, Zenon DEF Comp!Max

LEMMA SameCompCardinality == \A S : Comp!Cardinality(S) = Cardinality(S)
BY Zenon DEF Comp!Cardinality, Cardinality

LEMMA Cells ==
  /\ \A cell : Comp!Readable(cell) => Comp!parse_float(cell) = cell.value
  /\ \A cell : Comp!Readable(cell) /\ IsCell(cell) => Comp!parse_float(cell) \in Int
BY Zenon DEF Comp!Readable, Comp!parse_float, IsCell

LEMMA CompColumnSums ==
  ASSUME NEW rows, NEW I, IsFiniteSet(I), NEW column,
         \A i \in I : Comp!parse_float(rows[i][column]) \in Int
  PROVE  \E h : /\ SumOf(h, [i \in I |-> Comp!parse_float(rows[i][column])], I)
                /\ Comp!Total(rows, I, column) = h[I]
<1> DEFINE f == [i \in I |-> Comp!parse_float(rows[i][column])]
           Sums(g) == g = [s \in SUBSET I |->
                             IF s = {} THEN 0
                             ELSE Comp!parse_float(rows[Chosen(s)][column]) + g[s \ {Chosen(s)}]]
           h == CHOOSE g : Sums(g)
<1>1. ASSUME NEW s \in SUBSET I, s # {} PROVE f[Chosen(s)] = Comp!parse_float(rows[Chosen(s)][column])
  <2>1. Chosen(s) \in I
    BY <1>1 DEF Chosen
  <2> QED
    BY <2>1
<1>2. ASSUME NEW g PROVE Sums(g) <=> SumOf(g, f, I)
  <2> HIDE DEF f
  <2> QED
    BY <1>1 DEF SumOf
<1>3. f \in [I -> Int]
  OBVIOUS
<1>4. \E g : SumOf(g, f, I)
  <2> HIDE DEF f
  <2> QED
    BY <1>3, SumExists
<1>5. Sums(h)
  <2> HIDE DEF f, Sums
  <2> QED
    BY <1>2, <1>4
<1>6. SumOf(h, f, I)
  BY <1>2, <1>5
<1>7. Comp!Total(rows, I, column) = h[I]
  BY Zenon DEF Comp!Total, Comp!MapThenSumSet, Comp!MapThenFoldSet, Chosen
<1> QED
  BY <1>6, <1>7

(* Some figure is at least the mean.                                       *)
LEMMA SomeAtLeastMean ==
  ASSUME NEW rows, NEW I, IsFiniteSet(I), I # {}, NEW column, NEW least \in Int,
         \A i \in I : Comp!parse_float(rows[i][column]) \in Int,
         least * Cardinality(I) <= Comp!Total(rows, I, column)
  PROVE  \E i \in I : Comp!parse_float(rows[i][column]) >= least
<1> DEFINE f == [i \in I |-> Comp!parse_float(rows[i][column])]
           g == [i \in I |-> least]
           k == [s \in SUBSET I |-> least * Cardinality(s)]
<1>1. SUFFICES ASSUME \A i \in I : ~(Comp!parse_float(rows[i][column]) >= least) PROVE FALSE
  OBVIOUS
<1>2. PICK h : SumOf(h, f, I) /\ Comp!Total(rows, I, column) = h[I]
  <2>1. \E h : /\ SumOf(h, [i \in I |-> Comp!parse_float(rows[i][column])], I)
               /\ Comp!Total(rows, I, column) = h[I]
    BY CompColumnSums, Zenon
  <2> QED
    BY <2>1, Zenon
<1>3. SumOf(k, g, I) /\ k[I] = least * Cardinality(I)
  <2>1. SumOf(k, g, I)
    BY ConstantSum, Zenon
  <2> QED
    BY <2>1
<1>4. /\ f \in [I -> Int] /\ g \in [I -> Int]
      /\ \A i \in I : f[i] <= g[i] /\ f[i] # g[i]
  BY <1>1
<1>5. k[I] <= h[I]
  BY <1>2, <1>3, Zenon
<1> HIDE DEF f, g, k
<1>6. /\ h[I] \in Int /\ k[I] \in Int /\ h[I] <= k[I]
      /\ h[I] = k[I] => \A i \in I : f[i] = g[i]
  <2>1. \A i \in I : f[i] <= g[i]
    BY <1>4
  <2> QED
    BY <1>2, <1>3, <1>4, <2>1, SumsCompare
<1>7. h[I] = k[I]
  BY <1>5, <1>6
<1> QED
  BY <1>4, <1>6, <1>7

(* Sums of blocked and made attempts that agree do so row by row.          *)
LEMMA AllBlocked ==
  ASSUME NEW rows, NEW I, IsFiniteSet(I),
         \A i \in I : /\ Comp!parse_float(rows[i]["blocked"]) \in Int
                      /\ Comp!parse_float(rows[i]["attempts"]) \in Int
                      /\ Comp!parse_float(rows[i]["blocked"]) <= Comp!parse_float(rows[i]["attempts"])
  PROVE  /\ Comp!Total(rows, I, "blocked") \in Int /\ Comp!Total(rows, I, "attempts") \in Int
         /\ Comp!Total(rows, I, "blocked") = Comp!Total(rows, I, "attempts") =>
              \A i \in I : Comp!parse_float(rows[i]["blocked"]) = Comp!parse_float(rows[i]["attempts"])
<1> DEFINE f == [i \in I |-> Comp!parse_float(rows[i]["blocked"])]
           g == [i \in I |-> Comp!parse_float(rows[i]["attempts"])]
<1>1. PICK h : SumOf(h, f, I) /\ Comp!Total(rows, I, "blocked") = h[I]
  <2>1. \E h : SumOf(h, f, I) /\ Comp!Total(rows, I, "blocked") = h[I]
    <3>1. \A i \in I : Comp!parse_float(rows[i]["blocked"]) \in Int
      OBVIOUS
    <3> QED
      BY <3>1, CompColumnSums, Zenon
  <2> QED
    BY <2>1, Zenon
<1>2. PICK k : SumOf(k, g, I) /\ Comp!Total(rows, I, "attempts") = k[I]
  <2>1. \E k : SumOf(k, g, I) /\ Comp!Total(rows, I, "attempts") = k[I]
    <3>1. \A i \in I : Comp!parse_float(rows[i]["attempts"]) \in Int
      OBVIOUS
    <3> QED
      BY <3>1, CompColumnSums, Zenon
  <2> QED
    BY <2>1, Zenon
<1>3. f \in [I -> Int] /\ g \in [I -> Int] /\ \A i \in I : f[i] <= g[i]
  OBVIOUS
<1>4. \A i \in I : /\ f[i] = Comp!parse_float(rows[i]["blocked"])
                   /\ g[i] = Comp!parse_float(rows[i]["attempts"])
  OBVIOUS
<1> HIDE DEF f, g
<1>5. /\ h[I] \in Int /\ k[I] \in Int
      /\ h[I] = k[I] => \A i \in I : f[i] = g[i]
  BY <1>1, <1>2, <1>3, SumsCompare
<1> QED
  BY <1>1, <1>2, <1>4, <1>5, Zenon

(* What a strict comparison that exits with 0 has checked.                 *)
LEMMA StrictPass ==
  ASSUME NEW paper, NEW live, NEW strict, strict, Comp!build_report(paper, live, strict) = 0
  PROVE  /\ \A f \in DOMAIN live : live[f] # Nil
         /\ Comp!Subscripted(paper)
         /\ \A c \in DOMAIN Comp!checks(paper, live) : Comp!checks(paper, live)[c] = "PASS"
<1>1. 0 # 1 /\ 0 # 2
  OBVIOUS
<1> QED
  BY <1>1, Zenon DEF Comp!build_report

LEMMA ChecksPass ==
  ASSUME NEW paper, NEW live,
         \A c \in DOMAIN Comp!checks(paper, live) : Comp!checks(paper, live)[c] = "PASS"
  PROVE  LET least == 100 * Comp!Get(paper["throughput"], "expected_hrbac_tps_min", 55)
             limit == 100 * Comp!Get(paper["latency"], "expected_sensor_write_p95_max_ms", 2000)
             tps == Comp!throughput_at_50_clients(Comp!Rows(live.throughput))
             p95 == Comp!sensor_write_p95_latency(Comp!Rows(live.latency))
             rate == Comp!security_block_rate(Comp!Rows(live.security))
         IN  /\ tps # Nil /\ least * tps[2] <= tps[1]
             /\ p95 # Nil /\ p95[1] < limit * p95[2]
             /\ rate # Nil /\ rate[1] = 10000 * rate[2]
<1> DEFINE least == 100 * Comp!Get(paper["throughput"], "expected_hrbac_tps_min", 55)
           most == 100 * Comp!Get(paper["throughput"], "expected_hrbac_tps_max", 70)
           limit == 100 * Comp!Get(paper["latency"], "expected_sensor_write_p95_max_ms", 2000)
           tps == Comp!throughput_at_50_clients(Comp!Rows(live.throughput))
           p95 == Comp!sensor_write_p95_latency(Comp!Rows(live.latency))
           rate == Comp!security_block_rate(Comp!Rows(live.security))
           one == Comp!check_metric(tps, least * tps[2] <= tps[1] /\ tps[1] <= most * tps[2])
           two == Comp!check_metric(p95, p95[1] < limit * p95[2])
           three == Comp!check_metric(rate, rate[1] = 10000 * rate[2])
<1>1. Comp!checks(paper, live) = [throughput |-> one, latency |-> two, security |-> three]
  BY SMT DEF Comp!checks
<1>2. one = "PASS" /\ two = "PASS" /\ three = "PASS"
  <2> HIDE DEF one, two, three
  <2> QED
    BY <1>1
<1> HIDE DEF least, most, limit, tps, p95, rate
<1>3. tps # Nil /\ least * tps[2] <= tps[1]
  BY <1>2 DEF Comp!check_metric
<1>4. p95 # Nil /\ p95[1] < limit * p95[2]
  BY <1>2 DEF Comp!check_metric
<1>5. rate # Nil /\ rate[1] = 10000 * rate[2]
  BY <1>2 DEF Comp!check_metric
<1> QED
  BY <1>3, <1>4, <1>5 DEF least, limit, tps, p95, rate

LEMMA RowsOf ==
  ASSUME NEW rows, Table(rows), rows # Nil
  PROVE  IsFiniteSet(DOMAIN rows) /\ Comp!Rows(rows) = rows
<1>1. PICK S : rows \in Seq(S)
  BY DEF Table
<1>2. DOMAIN rows = 1 .. Len(rows) /\ Len(rows) \in Nat
  BY <1>1, LenProperties
<1>3. IsFiniteSet(1 .. Len(rows))
  BY <1>2, FS_Interval
<1> QED
  BY <1>2, <1>3, Zenon DEF Comp!Rows

(* A latency metric below the limit bounds every sensor write.             *)
LEMMA WritesBounded ==
  ASSUME NEW rows, Table(rows), rows # Nil, \A i \in DOMAIN rows : IsCell(rows[i].p95_ms),
         NEW limit \in Int, NEW p95, p95 = Comp!sensor_write_p95_latency(rows),
         p95 # Nil, p95[1] < limit * p95[2]
  PROVE  \A i \in DOMAIN rows :
           rows[i].operation = "sensor_write" /\ Comp!Readable(rows[i].p95_ms)
             => rows[i].p95_ms.value < limit
<1> DEFINE W == Comp!Writes(rows)
           T == {Comp!parse_float(rows[i].p95_ms) : i \in W}
<1>1. W \subseteq DOMAIN rows /\ \A i \in W : Comp!Readable(rows[i].p95_ms)
  BY Zenon DEF Comp!Writes
<1>2. W # {} /\ p95 = <<Comp!Max(T), 1>>
  BY Zenon DEF Comp!sensor_write_p95_latency
<1>3. T \subseteq Int /\ T # {}
  BY <1>1, <1>2, Cells, Zenon
<1>4. IsFiniteSet(T)
  <2>1. IsFiniteSet(W)
    BY <1>1, RowsOf, FS_Subset, Zenon
  <2>2. PICK f : f = [i \in W |-> Comp!parse_float(rows[i].p95_ms)]
    OBVIOUS
  <2> HIDE DEF W
  <2>3. f \in Surjection(W, T)
    BY <2>2 DEF Surjection
  <2> HIDE DEF T
  <2> QED
    BY <2>1, <2>3, FS_Surjection
<1>5. Comp!Max(T) \in T /\ \A y \in T : Comp!Max(T) >= y
  <2> HIDE DEF T
  <2> QED
    BY <1>3, <1>4, MaxIs, Zenon
<1>6. PICK m : m = Comp!Max(T)
  OBVIOUS
<1> SUFFICES ASSUME NEW i \in DOMAIN rows,
                    rows[i].operation = "sensor_write", Comp!Readable(rows[i].p95_ms)
             PROVE  rows[i].p95_ms.value < limit
  OBVIOUS
<1>7. i \in W
  BY Zenon DEF Comp!Writes
<1>8. PICK v : v = rows[i].p95_ms.value
  OBVIOUS
<1>9. v \in T
  BY <1>7, <1>8, Cells, Zenon
<1> HIDE DEF W, T
<1>10. m >= v /\ m \in Int /\ v \in Int
  BY <1>3, <1>5, <1>6, <1>9, Zenon
<1>11. p95[1] = m /\ p95[2] = 1
  BY <1>2, <1>6
<1>12. m < limit
  BY <1>10, <1>11
<1> QED
  BY <1>8, <1>10, <1>12

(* A throughput metric in the range has a figure in it or above.           *)
LEMMA FiguresReach ==
  ASSUME NEW rows, Table(rows), rows # Nil,
         \A i \in DOMAIN rows : IsCell(rows[i].mean_tps) /\ IsCell(rows[i].tps),
         NEW least \in Int, NEW tps, tps = Comp!throughput_at_50_clients(rows),
         tps # Nil, least * tps[2] <= tps[1]
  PROVE  \E i \in Comp!At50(rows) :
           \E cell \in {rows[i].tps, rows[i].mean_tps} :
             Comp!Readable(cell) /\ cell.value >= least
<1> DEFINE summaries == {i \in Comp!At50(rows) : rows[i].repeat = "summary"}
           samples == {i \in Comp!At50(rows) : Comp!Readable(rows[i].tps)}
           last == Comp!Max(summaries)
<1>1. Comp!At50(rows) \subseteq DOMAIN rows /\ IsFiniteSet(DOMAIN rows) /\ DOMAIN rows \subseteq Int
  <2>1. PICK S : rows \in Seq(S)
    BY DEF Table
  <2>2. DOMAIN rows = 1 .. Len(rows)
    BY <2>1, LenProperties
  <2>3. DOMAIN rows \subseteq Int
    BY <2>2
  <2> QED
    BY <2>3, RowsOf, Zenon DEF Comp!At50
<1>2. IsFiniteSet(summaries) /\ IsFiniteSet(samples) /\ summaries \subseteq Int
  <2>1. summaries \subseteq DOMAIN rows /\ samples \subseteq DOMAIN rows
    BY <1>1, Zenon
  <2> HIDE DEF summaries, samples
  <2> QED
    BY <1>1, <2>1, FS_Subset, Zenon
<1>3. CASE summaries # {} /\ Comp!Readable(rows[last].mean_tps)
  <2>1. tps = <<Comp!parse_float(rows[last].mean_tps), 1>>
    BY <1>3, Zenon DEF Comp!throughput_at_50_clients
  <2>2. last \in summaries
    <3> HIDE DEF summaries
    <3> QED
      BY <1>2, <1>3, MaxIs, Zenon
  <2>3. last \in Comp!At50(rows) /\ last \in DOMAIN rows
    BY <1>1, <2>2, Zenon
  <2>4. PICK v : v = rows[last].mean_tps.value
    OBVIOUS
  <2> HIDE DEF summaries, samples, last
  <2>5. v \in Int /\ tps = <<v, 1>>
    BY <1>3, <2>1, <2>3, <2>4, Cells, Zenon
  <2>6. v >= least
    BY <2>5
  <2> QED
    BY <1>3, <2>3, <2>4, <2>6, Zenon
<1>4. CASE ~(summaries # {} /\ Comp!Readable(rows[last].mean_tps))
  <2>1. samples # {} /\ tps = <<Comp!Total(rows, samples, "tps"), Comp!Cardinality(samples)>>
    BY <1>4, Zenon DEF Comp!throughput_at_50_clients
  <2>2. \A i \in samples : Comp!Readable(rows[i]["tps"]) /\ IsCell(rows[i]["tps"]) /\ i \in Comp!At50(rows)
    BY <1>1, Zenon
  <2> HIDE DEF summaries, samples, last
  <2>3. \A i \in samples : Comp!parse_float(rows[i]["tps"]) \in Int
    BY <2>2, Cells, Zenon
  <2>4. least * Cardinality(samples) <= Comp!Total(rows, samples, "tps")
    BY <2>1, SameCompCardinality
  <2>5. \E i \in samples : Comp!parse_float(rows[i]["tps"]) >= least
    BY <1>2, <2>1, <2>3, <2>4, SomeAtLeastMean
  <2>6. PICK i \in samples : Comp!parse_float(rows[i]["tps"]) >= least
    BY <2>5
  <2>7. Comp!parse_float(rows[i]["tps"]) = rows[i]["tps"].value
    BY <2>2, Cells, Zenon
  <2> QED
    BY <2>2, <2>6, <2>7, Zenon
<1> QED
  BY <1>3, <1>4

(* Where as many attempts are blocked as are made, every row says so.      *)
LEMMA CountsAgree ==
  ASSUME NEW rows, IsFiniteSet(DOMAIN rows), \A i \in DOMAIN rows : SecurityCounts(rows[i])
  PROVE  LET B == Comp!Total(rows, Comp!Counted(rows), "blocked")
             A == Comp!Total(rows, Comp!Counted(rows), "attempts")
         IN  /\ B \in Int /\ A \in Int
             /\ B = A => \A i \in Comp!Counted(rows) :
                           rows[i].blocked.value = rows[i].attempts.value
<1> DEFINE I == Comp!Counted(rows)
           B == Comp!Total(rows, I, "blocked")
           A == Comp!Total(rows, I, "attempts")
<1>1. I \subseteq DOMAIN rows /\ \A i \in I : /\ Comp!Readable(rows[i]["blocked"])
                                              /\ Comp!Readable(rows[i]["attempts"])
                                              /\ SecurityCounts(rows[i])
  BY Zenon DEF Comp!Counted
<1>2. IsFiniteSet(I)
  BY <1>1, FS_Subset, Zenon
<1>3. \A i \in I : /\ Comp!parse_float(rows[i]["blocked"]) = rows[i].blocked.value
                   /\ Comp!parse_float(rows[i]["attempts"]) = rows[i].attempts.value
                   /\ Comp!parse_float(rows[i]["blocked"]) \in Int
                   /\ Comp!parse_float(rows[i]["attempts"]) \in Int
                   /\ rows[i].blocked.value <= rows[i].attempts.value
  BY <1>1, Cells, Zenon DEF SecurityCounts
<1> HIDE DEF I
<1>4. \A i \in I : /\ Comp!parse_float(rows[i]["blocked"]) \in Int
                   /\ Comp!parse_float(rows[i]["attempts"]) \in Int
                   /\ Comp!parse_float(rows[i]["blocked"]) <= Comp!parse_float(rows[i]["attempts"])
  BY <1>3, Zenon
<1>5. /\ B \in Int /\ A \in Int
      /\ B = A => \A i \in I : Comp!parse_float(rows[i]["blocked"]) = Comp!parse_float(rows[i]["attempts"])
  BY <1>2, <1>4, AllBlocked, Zenon
<1>6. B = A => \A i \in I : rows[i].blocked.value = rows[i].attempts.value
  BY <1>3, <1>5, Zenon
<1> QED
  BY <1>5, <1>6, Zenon DEF I

LEMMA CountsDomain == \A rows : DOMAIN Comp!Counts(rows) = DOMAIN rows
BY Zenon DEF Comp!Counts

(* A rate of 100 percent computed from counts leaves no attempt unblocked. *)
LEMMA NoneThrough ==
  ASSUME NEW rows, Table(rows), rows # Nil,
         NEW counts, counts = Comp!Counts(rows), \A i \in DOMAIN counts : SecurityCounts(counts[i]),
         NEW rate, rate = Comp!security_block_rate(rows), rate # Nil,
         rate[1] = 10000 * rate[2], Comp!Stated(rows) = {}
  PROVE  \A i \in Comp!Counted(counts) : counts[i].blocked.value = counts[i].attempts.value
<1>1. PICK B, A : /\ B = Comp!Total(counts, Comp!Counted(counts), "blocked")
                  /\ A = Comp!Total(counts, Comp!Counted(counts), "attempts")
  OBVIOUS
<1>2. rate = <<10000 * B, A>>
  BY <1>1 DEF Comp!security_block_rate
<1>3. IsFiniteSet(DOMAIN counts)
  <2>1. DOMAIN counts = DOMAIN rows
    BY CountsDomain
  <2> QED
    BY <2>1, RowsOf
<1>4. /\ B \in Int /\ A \in Int
      /\ B = A => \A i \in Comp!Counted(counts) : counts[i].blocked.value = counts[i].attempts.value
  BY <1>1, <1>3, CountsAgree
<1>5. 10000 * B = 10000 * A
  BY <1>2
<1> QED
  BY <1>4, <1>5

(* What the result files show under a limit of the latency and a least     *)
(* throughput.                                                             *)
Shows(live, limit, least) ==
  /\ \A f \in DOMAIN live : live[f] # Nil
  /\ \A i \in DOMAIN live.latency :
       live.latency[i].operation = "sensor_write" /\ Comp!Readable(live.latency[i].p95_ms)
         => live.latency[i].p95_ms.value < limit
  /\ \E i \in Comp!At50(live.throughput) :
       \E cell \in {live.throughput[i].tps, live.throughput[i].mean_tps} :
         Comp!Readable(cell) /\ cell.value >= least
  /\ Comp!Stated(live.security) = {} =>
       \A i \in Comp!Counted(Comp!Counts(live.security)) :
         Comp!Counts(live.security)[i].blocked.value = Comp!Counts(live.security)[i].attempts.value

Limit(paper) == 100 * Comp!Get(paper["latency"], "expected_sensor_write_p95_max_ms", 2000)
Least(paper) == 100 * Comp!Get(paper["throughput"], "expected_hrbac_tps_min", 55)

(* A strict comparison that exits with 0 shows what it should.             *)
LEMMA StrictShows ==
  ASSUME NEW x \in Comparisons, x.strict, Comp!build_report(x.paper, x.live, x.strict) = 0
  PROVE  Shows(x.live, Limit(x.paper), Least(x.paper))
<1> DEFINE limit == Limit(x.paper)
           least == Least(x.paper)
<1>1. PICK paper, live : paper = x.paper /\ live = x.live
  OBVIOUS
<1>2. PaperValues(paper) /\ LiveResults(live)
  BY <1>1, InputAssumption, Zenon
<1>3. /\ \A f \in DOMAIN live : live[f] # Nil
      /\ Comp!Subscripted(paper)
      /\ \A c \in DOMAIN Comp!checks(paper, live) : Comp!checks(paper, live)[c] = "PASS"
  <2>1. Comp!build_report(paper, live, x.strict) = 0
    BY <1>1
  <2> QED
    BY <2>1, StrictPass
<1>4. limit \in Int /\ least \in Int
  <2>1. "latency" \in DOMAIN paper /\ "throughput" \in DOMAIN paper
    BY <1>3 DEF Comp!Subscripted
  <2>2. /\ Comp!Get(paper["latency"], "expected_sensor_write_p95_max_ms", 2000) \in Int
        /\ Comp!Get(paper["throughput"], "expected_hrbac_tps_min", 55) \in Int
    BY <1>2, <2>1 DEF PaperValues, Comp!Get
  <2> QED
    BY <1>1, <2>2 DEF Limit, Least
<1>5. PICK T, L, C : T = live.throughput /\ L = live.latency /\ C = live.security
  OBVIOUS
<1>6. T # Nil /\ L # Nil /\ C # Nil /\ Table(T) /\ Table(L) /\ Table(C)
  BY <1>2, <1>3, <1>5 DEF LiveResults
<1>7. Comp!Rows(T) = T /\ Comp!Rows(L) = L /\ Comp!Rows(C) = C
  BY <1>6, RowsOf
<1>8. /\ \A i \in DOMAIN T : IsCell(T[i].mean_tps) /\ IsCell(T[i].tps)
      /\ \A i \in DOMAIN L : IsCell(L[i].p95_ms)
      /\ \A i \in DOMAIN Comp!Counts(C) : SecurityCounts(Comp!Counts(C)[i])
  BY <1>2, <1>5, <1>7, Zenon DEF LiveResults
<1>9. PICK tps, p95, rate : /\ tps = Comp!throughput_at_50_clients(T)
                            /\ p95 = Comp!sensor_write_p95_latency(L)
                            /\ rate = Comp!security_block_rate(C)
  OBVIOUS
<1>10. /\ tps # Nil /\ least * tps[2] <= tps[1]
       /\ p95 # Nil /\ p95[1] < limit * p95[2]
       /\ rate # Nil /\ rate[1] = 10000 * rate[2]
  BY <1>1, <1>3, <1>5, <1>7, <1>9, ChecksPass DEF Limit, Least
<1> HIDE DEF limit, least
<1>11. \A i \in DOMAIN L : L[i].operation = "sensor_write" /\ Comp!Readable(L[i].p95_ms)
         => L[i].p95_ms.value < limit
  BY <1>4, <1>6, <1>8, <1>9, <1>10, WritesBounded
<1>12. \E i \in Comp!At50(T) :
         \E cell \in {T[i].tps, T[i].mean_tps} : Comp!Readable(cell) /\ cell.value >= least
  BY <1>4, <1>6, <1>8, <1>9, <1>10, FiguresReach
<1>13. Comp!Stated(C) = {} =>
         \A i \in Comp!Counted(Comp!Counts(C)) :
           Comp!Counts(C)[i].blocked.value = Comp!Counts(C)[i].attempts.value
  <2>1. PICK counts : counts = Comp!Counts(C)
    OBVIOUS
  <2> QED
    BY <1>6, <1>8, <1>9, <1>10, <2>1, NoneThrough
<1> QED
  BY <1>1, <1>3, <1>5, <1>11, <1>12, <1>13, Zenon DEF limit, least, Shows

-----------------------------------------------------------------------------
(* The comparison of the paper's own figures.                              *)
LEMMA OneRow == \A r : DOMAIN <<r>> = {1} /\ <<r>>[1] = r
OBVIOUS

LEMMA OneOf ==
  ASSUME NEW n \in Int
  PROVE  Comp!Max({n}) = n /\ Comp!Min({n}) = n
<1>1. n >= n /\ n <= n
  OBVIOUS
<1> QED
  BY <1>1, Zenon DEF Comp!Max, Comp!Min

LEMMA OwnCell ==
  /\ \A n \in Int : Comp!parse_float(Cell(n)) = 100 * n /\ Comp!Readable(Cell(n))
  /\ ~Comp!Readable(Blank)
BY InputAssumption DEF Comp!parse_float, Comp!Readable, Cell, Blank

LEMMA OwnThroughput ==
  ASSUME NEW n \in Int
  PROVE  Comp!throughput_at_50_clients(
           <<[concurrency |-> 50, repeat |-> "summary", mean_tps |-> Cell(n), tps |-> Blank]>>)
             = <<100 * n, 1>>
<1> DEFINE row == [concurrency |-> 50, repeat |-> "summary", mean_tps |-> Cell(n), tps |-> Blank]
<1>1. row.concurrency = 50 /\ row.repeat = "summary" /\ row.mean_tps = Cell(n)
  OBVIOUS
<1> HIDE DEF row
<1>2. DOMAIN <<row>> = {1} /\ <<row>>[1] = row
  BY OneRow
<1>3. PICK rows : rows = <<row>>
  OBVIOUS
<1>4. {i \in Comp!At50(rows) : rows[i].repeat = "summary"} = {1}
  BY <1>1, <1>2, <1>3 DEF Comp!At50
<1>5. Comp!Max({1}) = 1
  BY OneOf
<1>6. Comp!throughput_at_50_clients(rows) = <<Comp!parse_float(rows[1].mean_tps), 1>>
  <2>1. Comp!Readable(rows[1].mean_tps) /\ {1} # {}
    BY <1>1, <1>2, <1>3, OwnCell
  <2> QED
    BY <1>4, <1>5, <2>1, Zenon DEF Comp!throughput_at_50_clients
<1> QED
  BY <1>1, <1>2, <1>3, <1>6, OwnCell DEF row

LEMMA OwnLatency ==
  ASSUME NEW n \in Int
  PROVE  Comp!sensor_write_p95_latency(<<[operation |-> "sensor_write", p95_ms |-> Cell(n)]>>)
           = <<100 * n, 1>>
<1> DEFINE row == [operation |-> "sensor_write", p95_ms |-> Cell(n)]
<1>1. row.operation = "sensor_write" /\ row.p95_ms = Cell(n)
  OBVIOUS
<1> HIDE DEF row
<1>2. DOMAIN <<row>> = {1} /\ <<row>>[1] = row
  BY OneRow
<1>3. PICK rows : rows = <<row>>
  OBVIOUS
<1>4. Comp!Writes(rows) = {1}
  BY <1>1, <1>2, <1>3, OwnCell DEF Comp!Writes
<1>5. {Comp!parse_float(rows[i].p95_ms) : i \in Comp!Writes(rows)} = {100 * n}
  BY <1>1, <1>2, <1>3, <1>4, OwnCell
<1>6. Comp!Max({100 * n}) = 100 * n
  <2>1. PICK m \in Int : m = 100 * n
    OBVIOUS
  <2> QED
    BY <2>1, OneOf
<1>7. Comp!sensor_write_p95_latency(rows) = <<100 * n, 1>>
  BY <1>4, <1>5, <1>6 DEF Comp!sensor_write_p95_latency
<1> QED
  BY <1>3, <1>7 DEF row

LEMMA OwnSecurity ==
  Comp!security_block_rate(
    <<[rate |-> <<Cell(100), Blank, Blank, Blank>>, blocked |-> Blank, blocked_attempts |-> Blank,
       attempts |-> Blank, total_attempts |-> Blank]>>)
      = <<10000, 1>>
<1> DEFINE cells == <<Cell(100), Blank, Blank, Blank>>
           row == [rate |-> cells, blocked |-> Blank, blocked_attempts |-> Blank,
                   attempts |-> Blank, total_attempts |-> Blank]
<1>1. row.rate = cells
  OBVIOUS
<1> HIDE DEF row
<1>2. DOMAIN <<row>> = {1} /\ <<row>>[1] = row
  BY OneRow
<1>3. PICK rows : rows = <<row>>
  OBVIOUS
<1>4. /\ cells[1] = Cell(100) /\ cells[2] = Blank /\ cells[3] = Blank /\ cells[4] = Blank
      /\ DOMAIN Comp!field_candidates = 1 .. 4
      /\ Comp!field_candidates[1] = "block_rate_percent"
  BY DEF Comp!field_candidates
<1> HIDE DEF cells
<1>5. Comp!Stated(rows) = {<<1, 1>>}
  <2>1. \A p \in {1} \X (1 .. 4) : Comp!Readable(rows[p[1]].rate[p[2]]) <=> p = <<1, 1>>
    BY <1>1, <1>2, <1>3, <1>4, OwnCell
  <2> QED
    BY <1>2, <1>3, <1>4, <2>1 DEF Comp!Stated
<1>6. /\ {p[1] : p \in Comp!Stated(rows)} = {1}
      /\ {p[2] : p \in {q \in Comp!Stated(rows) : q[1] = 1}} = {1}
  BY <1>5
<1>7. Comp!Min({1}) = 1
  BY OneOf
<1>8. Comp!FirstStated(rows) = Comp!parse_float(rows[1].rate[1])
  BY <1>4, <1>6, <1>7, ZenonT(60) DEF Comp!FirstStated
<1>9. Comp!FirstStated(rows) = 10000
  BY <1>1, <1>2, <1>3, <1>4, <1>8, OwnCell
<1>10. Comp!security_block_rate(rows) = <<10000, 1>>
  BY <1>5, <1>9 DEF Comp!security_block_rate
<1> QED
  BY <1>3, <1>10 DEF row, cells

(* A dataset that validates has the metrics the comparison reads.          *)
LEMMA Validated ==
  ASSUME NEW paper, PaperValues(paper), Comp!validate_paper_benchmarks(paper)
  PROVE  LET throughput == paper["throughput"]
             latency == paper["latency"]
         IN  /\ Comp!Subscripted(paper)
             /\ paper["security"].block_rate_percent = 100
             /\ throughput.hrbac_tps \in Int /\ latency.sensor_write_total_latency_ms \in Int
             /\ \E a, c, l \in Int :
                  /\ Comp!Get(throughput, "expected_hrbac_tps_min", 55) = a
                  /\ Comp!Get(throughput, "expected_hrbac_tps_max", 70) = c
                  /\ Comp!Get(latency, "expected_sensor_write_p95_max_ms", 2000) = l
                  /\ a <= throughput.hrbac_tps /\ throughput.hrbac_tps <= c
                  /\ latency.sensor_write_total_latency_ms < l
<1> DEFINE throughput == paper["throughput"]
           latency == paper["latency"]
<1>1. /\ "throughput" \in DOMAIN Comp!Required /\ "latency" \in DOMAIN Comp!Required
      /\ "security" \in DOMAIN Comp!Required
      /\ Comp!Required["throughput"]
           = {"expected_hrbac_tps_min", "hrbac_tps", "expected_hrbac_tps_max"}
      /\ Comp!Required["latency"]
           = {"sensor_write_total_latency_ms", "expected_sensor_write_p95_max_ms"}
  BY SMT DEF Comp!Required
<1>2. /\ {"throughput", "latency", "security"} \subseteq DOMAIN paper
      /\ {"expected_hrbac_tps_min", "hrbac_tps", "expected_hrbac_tps_max"} \subseteq DOMAIN throughput
      /\ {"sensor_write_total_latency_ms", "expected_sensor_write_p95_max_ms"} \subseteq DOMAIN latency
  <2>1. Comp!Complete(paper)
    BY DEF Comp!validate_paper_benchmarks
  <2> QED
    BY <1>1, <2>1 DEF Comp!Complete
<1>3. /\ throughput.expected_hrbac_tps_min <= throughput.hrbac_tps
      /\ throughput.hrbac_tps <= throughput.expected_hrbac_tps_max
      /\ latency.sensor_write_total_latency_ms < latency.expected_sensor_write_p95_max_ms
      /\ paper["security"].block_rate_percent = 100
  BY DEF Comp!validate_paper_benchmarks, Comp!LatencyBelow
<1>4. /\ \A m \in DOMAIN throughput : throughput[m] \in Int
      /\ \A m \in DOMAIN latency : latency[m] \in Int
  BY <1>2 DEF PaperValues
<1>5. Comp!Subscripted(paper)
  BY <1>2 DEF Comp!Subscripted
<1> HIDE DEF throughput, latency
<1>6. /\ Comp!Get(throughput, "expected_hrbac_tps_min", 55) = throughput.expected_hrbac_tps_min
      /\ Comp!Get(throughput, "expected_hrbac_tps_max", 70) = throughput.expected_hrbac_tps_max
      /\ Comp!Get(latency, "expected_sensor_write_p95_max_ms", 2000)
           = latency.expected_sensor_write_p95_max_ms
  BY <1>2 DEF Comp!Get
<1>7. /\ throughput.expected_hrbac_tps_min \in Int /\ throughput.hrbac_tps \in Int
      /\ throughput.expected_hrbac_tps_max \in Int
      /\ latency.sensor_write_total_latency_ms \in Int
      /\ latency.expected_sensor_write_p95_max_ms \in Int
  BY <1>2, <1>4
<1> QED
  BY <1>3, <1>5, <1>6, <1>7 DEF throughput, latency

(* Measured again exactly, a valid dataset passes every check.             *)
LEMMA OwnPass ==
  ASSUME NEW x \in Comparisons, Comp!validate_paper_benchmarks(x.paper),
         x.live = OwnFigures(x.paper)
  PROVE  Comp!build_report(x.paper, x.live, x.strict) = 0
<1>1. PICK paper, live : paper = x.paper /\ live = x.live
  OBVIOUS
<1>2. PaperValues(paper) /\ \A f \in DOMAIN OwnFigures(paper) : OwnFigures(paper)[f] # Nil
  BY <1>1, InputAssumption, Zenon
<1>3. PICK n, m : n = paper["throughput"].hrbac_tps /\ m = paper["latency"].sensor_write_total_latency_ms
  OBVIOUS
<1>4. /\ Comp!Subscripted(paper) /\ paper["security"].block_rate_percent = 100
      /\ n \in Int /\ m \in Int
      /\ \E a, c, l \in Int :
           /\ Comp!Get(paper["throughput"], "expected_hrbac_tps_min", 55) = a
           /\ Comp!Get(paper["throughput"], "expected_hrbac_tps_max", 70) = c
           /\ Comp!Get(paper["latency"], "expected_sensor_write_p95_max_ms", 2000) = l
           /\ a <= n /\ n <= c /\ m < l
  BY <1>1, <1>2, <1>3, Validated
<1>5. PICK a \in Int, c \in Int, l \in Int :
        /\ Comp!Get(paper["throughput"], "expected_hrbac_tps_min", 55) = a
        /\ Comp!Get(paper["throughput"], "expected_hrbac_tps_max", 70) = c
        /\ Comp!Get(paper["latency"], "expected_sensor_write_p95_max_ms", 2000) = l
        /\ a <= n /\ n <= c /\ m < l
  BY <1>4
<1> DEFINE T == <<[concurrency |-> 50, repeat |-> "summary", mean_tps |-> Cell(n), tps |-> Blank]>>
           L == <<[operation |-> "sensor_write", p95_ms |-> Cell(m)]>>
           C == <<[rate |-> <<Cell(100), Blank, Blank, Blank>>,
                   blocked |-> Blank, blocked_attempts |-> Blank,
                   attempts |-> Blank, total_attempts |-> Blank]>>
<1>6. live = [throughput |-> T, latency |-> L, security |-> C]
  BY <1>1, <1>3, <1>4, SMT DEF OwnFigures
<1>7. /\ Comp!throughput_at_50_clients(T) = <<100 * n, 1>>
      /\ Comp!sensor_write_p95_latency(L) = <<100 * m, 1>>
      /\ Comp!security_block_rate(C) = <<10000, 1>>
  <2>1. Comp!throughput_at_50_clients(T) = <<100 * n, 1>>
    BY <1>4, OwnThroughput
  <2>2. Comp!sensor_write_p95_latency(L) = <<100 * m, 1>>
    BY <1>4, OwnLatency
  <2> QED
    BY <2>1, <2>2, OwnSecurity
<1> HIDE DEF T, L, C
<1>8. /\ DOMAIN live = {"throughput", "latency", "security"}
      /\ live.throughput = T /\ live.latency = L /\ live.security = C
      /\ T # Nil /\ L # Nil /\ C # Nil
  <2>1. /\ DOMAIN live = {"throughput", "latency", "security"}
        /\ live.throughput = T /\ live.latency = L /\ live.security = C
    BY <1>6
  <2>2. \A f \in DOMAIN live : live[f] # Nil
    BY <1>1, <1>2, Zenon
  <2> QED
    BY <2>1, <2>2
<1>9. Comp!Rows(T) = T /\ Comp!Rows(L) = L /\ Comp!Rows(C) = C
  BY <1>8, Zenon DEF Comp!Rows
<1>10. \A u, v \in Int : <<u, v>> # Nil
  <2>1. \A u, v \in Int : <<u, v>> \in Seq(Int)
    OBVIOUS
  <2> QED
    BY <2>1, PackageAssumption, Zenon
<1>11. PICK p \in Int, q \in Int, r \in Int, s \in Int, t \in Int, w \in Int :
         /\ p = 100 * n /\ q = 100 * m /\ r = 10000 /\ s = 100 * a /\ t = 100 * c /\ w = 100 * l
  BY <1>4
<1>12. /\ s * 1 <= p /\ p <= t * 1 /\ q < w * 1 /\ r = 10000 * 1
  BY <1>4, <1>5, <1>11
<1>13. /\ Comp!check_metric(<<p, 1>>, s * 1 <= p /\ p <= t * 1) = "PASS"
       /\ Comp!check_metric(<<q, 1>>, q < w * 1) = "PASS"
       /\ Comp!check_metric(<<r, 1>>, r = 10000 * 1) = "PASS"
  BY <1>10, <1>12 DEF Comp!check_metric
<1>14. Comp!checks(paper, live) = [throughput |-> "PASS", latency |-> "PASS", security |-> "PASS"]
  BY <1>5, <1>7, <1>8, <1>9, <1>11, <1>13 DEF Comp!checks
<1>15. ~\E k \in DOMAIN Comp!checks(paper, live) : Comp!checks(paper, live)[k] # "PASS"
  BY <1>14
<1>16. {f \in DOMAIN live : live[f] = Nil} = {} /\ DOMAIN live # {}
  BY <1>8
<1>17. Comp!build_report(paper, live, x.strict) = 0
  <2> DEFINE missing == {f \in DOMAIN live : live[f] = Nil}
             failed == \E k \in DOMAIN Comp!checks(paper, live) : Comp!checks(paper, live)[k] # "PASS"
  <2>1. Comp!build_report(paper, live, x.strict)
          = IF missing = DOMAIN live THEN IF x.strict THEN 1 ELSE 0
            ELSE IF ~Comp!Subscripted(paper) THEN 2
            ELSE IF x.strict /\ (missing # {} \/ failed) THEN 1 ELSE 0
    BY Zenon DEF Comp!build_report
  <2>2. missing = {} /\ missing # DOMAIN live /\ ~failed
    BY <1>15, <1>16
  <2>3. Comp!Subscripted(paper)
    BY <1>4
  <2> HIDE DEF missing, failed
  <2> QED
    BY <2>1, <2>2, <2>3, Zenon
<1> QED
  BY <1>1, <1>17

(* The comparison's verdict is sound, and it can be met (data/comp.py:80-  *)
(* 226, paper_benchmarks.py:40-66): what a strict comparison that exits    *)
(* with 0 shows of files of any length and of any figures, and the figures *)
(* of any dataset that validates, measured again exactly, pass.            *)
THEOREM VerdictsAlwaysSound == Spec => []VerdictSound
<1>1. ASSUME Answered, tool = "compare" PROVE VerdictSound
  <2>1. input \in Comparisons /\ result = Comp!build_report(input.paper, input.live, input.strict)
    BY <1>1, Zenon DEF Answered
  <2>2. ASSUME input.strict, result = 0 PROVE Shows(input.live, LatencyLimit, LeastTps)
    <3>1. Shows(input.live, Limit(input.paper), Least(input.paper))
      BY <2>1, <2>2, StrictShows, Zenon
    <3>2. LatencyLimit = Limit(input.paper) /\ LeastTps = Least(input.paper)
      BY DEF Limit, Least, LatencyLimit, LeastTps
    <3> QED
      BY <3>1, <3>2, Zenon
  <2>3. Comp!validate_paper_benchmarks(input.paper) /\ input.live = OwnFigures(input.paper)
          => result = 0
    BY <2>1, OwnPass, Zenon
  <2> QED
    BY <2>2, <2>3, Zenon DEF VerdictSound, Shows
<1>2. Answered => VerdictSound
  BY <1>1, Zenon DEF VerdictSound
<1> QED
  BY <1>2, ToolsInvariance, PTL
==============================================================================
