------------------------ MODULE SensorScriptsProofs ------------------------
(* Type correctness of the scripts' world and the order of certificate and *)
(* role, for any number of sensors, runs, interrupts and overlaps.         *)
EXTENDS SensorScriptsProperties, TLAPS

Places == {"new", "done", "stopped", "lookup", "register", "files", "key", "csr", "cert",
           "package", "assign", "revoke", "role", "open", "gencrl", "write", "update"}
RunType == [script : {"none", "enroll", "revoke", "crl"}, id : Sensors \union {"none"},
            pc : Places, crl : SUBSET Sensors, prior : SUBSET Runs]
TxType == [op : {"AssignRole", "RevokeRole"}, id : Sensors, run : Runs, height : Nat]
Keys == Runs \union {NoKey}

CaOK == /\ ca \in [registered : SUBSET Sensors, issued : SUBSET Sensors,
                   revoked : SUBSET Sensors]
        /\ ca.issued \union ca.revoked \subseteq ca.registered
FilesOK == files \in [Sensors -> [key : Keys, csr : Keys, cert : BOOLEAN, package : Keys]]
CrlOK == /\ crl \in [content : {"empty", "list", "mixed"}, ids : SUBSET Sensors]
         /\ crl.ids \subseteq ca.revoked
LedgerOK == /\ ledger \in [height : Nat, roles : SUBSET Sensors]
            /\ orderer \in Seq(TxType)
            /\ lost \subseteq Runs /\ logged \subseteq Runs

\* A run that has started has a sensor, and the list it got from the CA is
\* one of revoked certificates.
RunsOK == /\ run \in [Runs -> RunType]
          /\ \A r \in Runs : ~At(r, "new") => Id(r) \in Sensors
          /\ \A r \in Runs : run[r].crl \subseteq ca.revoked

\* Wherever a role is on its way to the ledger, the certificate is there:
\* in a run past the enroll command, at the orderer and on the ledger.
Certified == /\ \A i \in Sensors : files[i].cert => i \in ca.issued
             /\ \A r \in Runs : At(r, "package") \/ At(r, "assign") => Id(r) \in ca.issued
             /\ \A k \in 1..Len(orderer) :
                   orderer[k].op = "AssignRole" => orderer[k].id \in ca.issued
             /\ ledger.roles \subseteq ca.issued

Types == CaOK /\ FilesOK /\ CrlOK /\ LedgerOK /\ RunsOK
ScriptsInv == Types /\ Certified

\* Before the first run.
LEMMA InitScripts == Init => ScriptsInv
  BY DEF Init, ScriptsInv, Types, Certified, CaOK, FilesOK, CrlOK, LedgerOK, RunsOK, RunType,
     TxType, Places, Keys, NoFiles, EmptyCrl, At, Id

\* A run that goes on keeps what is known of the runs and, when what it did
\* on the way keeps the certificates in front, their order.
LEMMA GoingOn ==
  ASSUME RunsOK, Certified, NEW r \in Runs, NEW pc \in Places, GoTo(r, pc), ~At(r, "new"),
         ca.issued \subseteq ca'.issued, ca.revoked \subseteq ca'.revoked,
         pc \in {"package", "assign"} => Id(r) \in ca'.issued,
         \A i \in Sensors : files'[i].cert => files[i].cert \/ i \in ca'.issued,
         \A k \in 1..Len(orderer') :
            orderer'[k].op = "AssignRole" => orderer'[k].id \in ca'.issued,
         UNCHANGED ledger
  PROVE  RunsOK' /\ Certified'
<1>1. \A q \in Runs : /\ Id(q)' = Id(q) /\ run'[q].crl = run[q].crl
                      /\ run'[q].pc = IF q = r THEN pc ELSE run[q].pc
  BY DEF GoTo, RunsOK, RunType, Id
<1>2. RunsOK'
  <2>1. run' \in [Runs -> RunType]
    BY DEF GoTo, RunsOK, RunType
  <2> QED
    BY <1>1, <2>1 DEF RunsOK, At
<1>3. \A q \in Runs : (At(q, "package") \/ At(q, "assign"))' => Id(q)' \in ca'.issued
  BY <1>1 DEF Certified, At
<1> QED
  BY <1>2, <1>3 DEF Certified

\* The same for a run that touches neither certificates nor transactions.
LEMMA GoingOnQuietly ==
  ASSUME RunsOK, Certified, NEW r \in Runs, NEW pc \in Places \ {"package", "assign"},
         GoTo(r, pc), ~At(r, "new"),
         ca'.issued = ca.issued, ca.revoked \subseteq ca'.revoked,
         \A i \in Sensors : files'[i].cert = files[i].cert,
         UNCHANGED <<orderer, ledger>>
  PROVE  RunsOK' /\ Certified'
  BY GoingOn DEF Certified

\* A transaction handed to the orderer.
LEMMA Invoking ==
  ASSUME LedgerOK, RunsOK, Certified, NEW r \in Runs, ~At(r, "new"),
         NEW op \in {"AssignRole", "RevokeRole"}, Invoke(r, op),
         op = "AssignRole" => Id(r) \in ca.issued
  PROVE  /\ orderer' \in Seq(TxType)
         /\ \A k \in 1..Len(orderer') :
               orderer'[k].op = "AssignRole" => orderer'[k].id \in ca.issued
<1> DEFINE tx == [op |-> op, id |-> Id(r), run |-> r, height |-> ledger.height]
<1>1. tx \in TxType
  BY DEF TxType, RunsOK, LedgerOK
<1>2. orderer' = Append(orderer, tx)
  BY DEF Invoke
<1>3. tx.op = op /\ tx.id = Id(r)
  OBVIOUS
<1> HIDE DEF tx
<1>4. /\ Len(orderer') = Len(orderer) + 1
      /\ \A k \in 1..Len(orderer') : orderer'[k] = IF k = Len(orderer) + 1 THEN tx ELSE orderer[k]
  BY <1>1, <1>2 DEF LedgerOK
<1>5. \A k \in 1..Len(orderer') : k = Len(orderer) + 1 \/ k \in 1..Len(orderer)
  BY <1>4 DEF LedgerOK
<1>6. orderer' \in Seq(TxType)
  BY <1>1, <1>2 DEF LedgerOK
<1> QED
  BY <1>3, <1>4, <1>5, <1>6 DEF Certified

\* Every step of a run keeps the types and the order.
LEMMA RunSteps ==
  ASSUME ScriptsInv, NEW r \in Runs,
         Start(r) \/ Stop(r) \/ EnrollStep(r) \/ RevokeStep(r) \/ CrlStep(r)
  PROVE  ScriptsInv'
<1> RunsOK /\ Certified /\ CaOK /\ FilesOK /\ CrlOK /\ LedgerOK
  BY DEF ScriptsInv, Types
<1> SUFFICES RunsOK' /\ Certified' /\ CaOK' /\ FilesOK' /\ CrlOK' /\ LedgerOK'
  BY DEF ScriptsInv, Types
<1>1. CASE Start(r)
  <2>1. RunsOK'
    BY <1>1 DEF Start, RunsOK, RunType, Places, At, Id
  <2>2. \A q \in Runs : At(q, "package")' \/ At(q, "assign")' => run'[q] = run[q]
    BY <1>1 DEF Start, RunsOK, At
  <2>3. Certified'
    BY <1>1, <2>2 DEF Start, Certified, At, Id
  <2> QED
    BY <1>1, <2>1, <2>3 DEF Start, CaOK, FilesOK, CrlOK, LedgerOK
<1>2. CASE Stop(r)
  <2>1. RunsOK' /\ Certified'
    BY <1>2, GoingOnQuietly DEF Stop, At, Places, Active, Ended
  <2> QED
    BY <1>2, <2>1 DEF Stop, CaOK, FilesOK, CrlOK, LedgerOK
<1>3. CASE Lookup(r)
  <2>1. RunsOK' /\ Certified'
    BY <1>3, GoingOnQuietly DEF Lookup, At, Places
  <2> QED
    BY <1>3, <2>1 DEF Lookup, CaOK, FilesOK, CrlOK, LedgerOK
<1>4. CASE Register(r)
  <2>1. RunsOK' /\ Certified'
    <3>1. ca'.issued = ca.issued /\ ca'.revoked = ca.revoked
      BY <1>4 DEF Register, CaOK
    <3> QED
      BY <1>4, <3>1, GoingOnQuietly DEF Register, At, Places
  <2>2. Id(r) \in Sensors
    BY <1>4 DEF Register, RunsOK, At
  <2>3. CaOK'
    BY <1>4, <2>2 DEF Register, CaOK
  <2>4. CrlOK'
    BY <1>4 DEF Register, CrlOK, CaOK
  <2> QED
    BY <1>4, <2>1, <2>3, <2>4 DEF Register, FilesOK, LedgerOK
<1>5. CASE CheckFiles(r)
  <2>1. RunsOK' /\ Certified'
    BY <1>5, GoingOnQuietly DEF CheckFiles, At, Places
  <2> QED
    BY <1>5, <2>1 DEF CheckFiles, CaOK, FilesOK, CrlOK, LedgerOK
<1>6. CASE GenerateKey(r)
  <2>1. FilesOK' /\ \A i \in Sensors : files'[i].cert = files[i].cert
    BY <1>6 DEF GenerateKey, FilesOK, Keys, RunsOK, At
  <2>2. RunsOK' /\ Certified'
    BY <1>6, <2>1, GoingOnQuietly DEF GenerateKey, At, Places
  <2> QED
    BY <1>6, <2>1, <2>2 DEF GenerateKey, CaOK, CrlOK, LedgerOK
<1>7. CASE GenerateCsr(r)
  <2>1. FilesOK' /\ \A i \in Sensors : files'[i].cert = files[i].cert
    BY <1>7 DEF GenerateCsr, FilesOK, Keys, RunsOK, At
  <2>2. RunsOK' /\ Certified'
    BY <1>7, <2>1, GoingOnQuietly DEF GenerateCsr, At, Places
  <2> QED
    BY <1>7, <2>1, <2>2 DEF GenerateCsr, CaOK, CrlOK, LedgerOK
<1>8. CASE Enroll(r)
  <2>1. Id(r) \in Sensors
    BY <1>8 DEF Enroll, RunsOK, At
  <2>2. CaOK' /\ ca.issued \subseteq ca'.issued /\ ca'.revoked = ca.revoked
    BY <1>8, <2>1 DEF Enroll, CaOK
  <2>3. Id(r) \in ca'.issued
    BY <1>8, <2>1 DEF Enroll, Certified, CaOK
  <2>4. FilesOK' /\ \A i \in Sensors : files'[i].cert => files[i].cert \/ i = Id(r)
    BY <1>8, <2>1 DEF Enroll, FilesOK
  <2>5. RunsOK' /\ Certified'
    <3>1. \A k \in 1..Len(orderer') :
             orderer'[k].op = "AssignRole" => orderer'[k].id \in ca'.issued
      BY <1>8, <2>2 DEF Enroll, Certified
    <3> QED
      BY <1>8, <2>2, <2>3, <2>4, <3>1, GoingOn DEF Enroll, At, Places
  <2> QED
    BY <1>8, <2>2, <2>4, <2>5 DEF Enroll, CrlOK, LedgerOK
<1>9. CASE MakePackage(r)
  <2>1. FilesOK' /\ \A i \in Sensors : files'[i].cert = files[i].cert
    BY <1>9 DEF MakePackage, FilesOK, Keys, RunsOK, At
  <2>2. RunsOK' /\ Certified'
    <3>1. Id(r) \in ca'.issued
      BY <1>9 DEF MakePackage, Certified
    <3>2. \A k \in 1..Len(orderer') :
             orderer'[k].op = "AssignRole" => orderer'[k].id \in ca'.issued
      BY <1>9 DEF MakePackage, Certified
    <3> QED
      BY <1>9, <2>1, <3>1, <3>2, GoingOn DEF MakePackage, At, Places
  <2> QED
    BY <1>9, <2>1, <2>2 DEF MakePackage, CaOK, CrlOK, LedgerOK
<1>10. CASE AssignRole(r)
  <2>1. Id(r) \in ca.issued /\ ~At(r, "new") /\ Invoke(r, "AssignRole")
    BY <1>10 DEF AssignRole, Certified, At
  <2>2. /\ orderer' \in Seq(TxType)
        /\ \A k \in 1..Len(orderer') :
              orderer'[k].op = "AssignRole" => orderer'[k].id \in ca.issued
    BY <2>1, Invoking
  <2>3. RunsOK' /\ Certified'
    BY <1>10, <2>2, GoingOn DEF AssignRole, At, Places
  <2> QED
    BY <1>10, <2>2, <2>3 DEF AssignRole, CaOK, FilesOK, CrlOK, LedgerOK
<1>11. CASE RevokeAtCa(r)
  <2>1. Id(r) \in Sensors
    BY <1>11 DEF RevokeAtCa, RunsOK, At
  <2>2. CaOK' /\ ca'.issued = ca.issued /\ ca.revoked \subseteq ca'.revoked
    BY <1>11, <2>1 DEF RevokeAtCa, CaOK
  <2>3. RunsOK' /\ Certified'
    BY <1>11, <2>2, GoingOnQuietly DEF RevokeAtCa, At, Places
  <2> QED
    BY <1>11, <2>2, <2>3 DEF RevokeAtCa, FilesOK, CrlOK, LedgerOK
<1>12. CASE RevokeRole(r)
  <2>1. /\ orderer' \in Seq(TxType)
        /\ \A k \in 1..Len(orderer') :
              orderer'[k].op = "AssignRole" => orderer'[k].id \in ca.issued
    <3>1. CASE Invoke(r, "RevokeRole")
      BY <1>12, <3>1, Invoking DEF RevokeRole, At
    <3>2. CASE UNCHANGED orderer
      BY <3>2 DEF LedgerOK, Certified
    <3> QED
      BY <1>12, <3>1, <3>2 DEF RevokeRole
  <2>2. RunsOK' /\ Certified'
    BY <1>12, <2>1, GoingOn DEF RevokeRole, At, Places
  <2>3. LedgerOK'
    BY <1>12, <2>1 DEF RevokeRole, LedgerOK
  <2> QED
    BY <1>12, <2>2, <2>3 DEF RevokeRole, CaOK, FilesOK, CrlOK
<1>13. CASE OpenCrl(r)
  <2>1. RunsOK' /\ Certified'
    BY <1>13, GoingOnQuietly DEF OpenCrl, At, Places
  <2>2. CrlOK'
    BY <1>13 DEF OpenCrl, EmptyCrl, CrlOK
  <2> QED
    BY <1>13, <2>1, <2>2 DEF OpenCrl, CaOK, FilesOK, LedgerOK
<1>14. CASE GenCrl(r)
  <2>1. RunsOK'
    <3>1. ca.revoked \in SUBSET Sensors
      BY DEF CaOK
    <3>2. run' = [run EXCEPT ![r] = [@ EXCEPT !.pc = "write", !.crl = ca.revoked]]
      BY <1>14 DEF GenCrl
    <3> DEFINE moved == [run[r] EXCEPT !.pc = "write", !.crl = ca.revoked]
    <3>a. run[r] \in RunType
      BY DEF RunsOK
    <3>b. moved \in RunType
      BY <3>1, <3>a DEF RunType, Places
    <3>3. run' \in [Runs -> RunType]
      BY <3>2, <3>b DEF RunsOK
    <3>4. \A q \in Runs : /\ Id(q)' = Id(q)
                          /\ q # r => run'[q] = run[q]
                          /\ q = r => run'[q].pc = "write" /\ run'[q].crl = ca.revoked
      BY <3>2 DEF RunsOK, RunType, Id
    <3> QED
      BY <1>14, <3>3, <3>4 DEF GenCrl, RunsOK, At
  <2>2. \A q \in Runs : At(q, "package")' \/ At(q, "assign")' => run'[q] = run[q]
    BY <1>14 DEF GenCrl, RunsOK, At
  <2>3. Certified'
    BY <1>14, <2>2 DEF GenCrl, Certified, At, Id
  <2> QED
    BY <1>14, <2>1, <2>3 DEF GenCrl, CaOK, FilesOK, CrlOK, LedgerOK
<1>15. CASE WriteCrl(r)
  <2>1. RunsOK' /\ Certified'
    BY <1>15, GoingOnQuietly DEF WriteCrl, At, Places
  <2>2. run[r].crl \subseteq ca.revoked /\ run[r].crl \subseteq Sensors
    BY DEF RunsOK, RunType
  <2>3. CrlOK'
    BY <1>15, <2>2 DEF WriteCrl, CrlOf, MixedCrl, CrlOK
  <2> QED
    BY <1>15, <2>1, <2>3 DEF WriteCrl, CaOK, FilesOK, LedgerOK
<1>16. CASE UpdateCrl(r)
  <2>1. RunsOK' /\ Certified'
    BY <1>16, GoingOnQuietly DEF UpdateCrl, At, Places
  <2> QED
    BY <1>16, <2>1 DEF UpdateCrl, CaOK, FilesOK, CrlOK, LedgerOK
<1> QED
  BY <1>1, <1>2, <1>3, <1>4, <1>5, <1>6, <1>7, <1>8, <1>9, <1>10, <1>11, <1>12, <1>13, <1>14,
     <1>15, <1>16 DEF EnrollStep, RevokeStep, CrlStep

\* So does every transaction the channel delivers.
LEMMA ChannelSteps ==
  ASSUME ScriptsInv, Commit \/ OtherCommit
  PROVE  ScriptsInv'
<1> USE DEF ScriptsInv, Types, CaOK, FilesOK, CrlOK, LedgerOK
<1>1. CASE Commit
  <2> DEFINE tx == Head(orderer)
  <2>1. tx \in TxType /\ orderer' \in Seq(TxType) /\ tx = orderer[1] /\ 1 \in 1..Len(orderer)
    BY <1>1 DEF Commit
  <2>2. Len(orderer') = Len(orderer) - 1
        /\ \A k \in 1..Len(orderer') : orderer'[k] = orderer[k + 1] /\ k + 1 \in 1..Len(orderer)
    BY <1>1 DEF Commit
  <2>3. tx.op = "AssignRole" => tx.id \in ca.issued
    BY <2>1 DEF Certified
  <2>4. \A k \in 1..Len(orderer') : orderer'[k].op = "AssignRole" => orderer'[k].id \in ca.issued
    BY <2>2 DEF Certified
  <2>5. ledger' \in [height : Nat, roles : SUBSET Sensors] /\ ledger'.roles \subseteq ca.issued
    BY <1>1, <2>1, <2>3 DEF Commit, Applied, Certified, TxType
  <2>6. lost' \subseteq Runs
    BY <1>1, <2>1 DEF Commit, TxType
  <2> QED
    BY <1>1, <2>1, <2>4, <2>5, <2>6 DEF Commit, Certified, RunsOK, At, Id
<1>2. CASE OtherCommit
  BY <1>2 DEF OtherCommit, Certified, RunsOK, At, Id
<1> QED
  BY <1>1, <1>2

\* The invariant is inductive.
LEMMA ScriptsInductive == Spec => []ScriptsInv
<1>1. ScriptsInv /\ [Next]_vars => ScriptsInv'
  <2>1. ScriptsInv /\ UNCHANGED vars => ScriptsInv'
    BY DEF vars, ScriptsInv, Types, CaOK, FilesOK, CrlOK, LedgerOK, RunsOK, Certified, At, Id
  <2> QED
    BY <2>1, RunSteps, ChannelSteps DEF Next
<1> QED
  BY <1>1, InitScripts, PTL DEF Spec

\* The CA, the files, the ledger and the runs keep their types; the CRL file
\* never names a certificate that is not revoked.
THEOREM ScriptsTypes == Spec => []ScriptsTypeOK
<1>1. ScriptsInv => ScriptsTypeOK
  <2> SUFFICES ASSUME CaOK, FilesOK, CrlOK, LedgerOK PROVE ScriptsTypeOK
    BY DEF ScriptsInv, Types
  <2>1. \A k \in 1..Len(orderer) : orderer[k].run \in Runs
    <3> SUFFICES ASSUME NEW k \in 1..Len(orderer) PROVE orderer[k].run \in Runs
      OBVIOUS
    <3>1. orderer[k] \in TxType
      BY DEF LedgerOK
    <3> QED
      BY <3>1 DEF TxType
  <2>2. crl.content \in {"empty", "list", "mixed"}
    BY DEF CrlOK
  <2>3. ledger.roles \subseteq Sensors /\ ledger.height \in Nat
    BY DEF LedgerOK
  <2> QED
    BY <2>1, <2>2, <2>3 DEF CaOK, FilesOK, CrlOK, LedgerOK, ScriptsTypeOK, Keys
<1> QED
  BY <1>1, ScriptsInductive, PTL

\* Wherever runs of enroll-sensor.sh are interrupted or overlap, a role on
\* the ledger belongs to a sensor with a certificate (lines 77-82).
THEOREM CertificateBeforeRole == Spec => []RolesHaveCertificates
<1>1. ScriptsInv => RolesHaveCertificates
  BY DEF ScriptsInv, Certified, RolesHaveCertificates
<1> QED
  BY <1>1, ScriptsInductive, PTL

-----------------------------------------------------------------------------
(* What is known of runs that did not overlap. *)

EnrollPlaces == {"lookup", "register", "files", "key", "csr", "cert", "package", "assign"}
CrlPlaces == {"open", "gencrl", "write", "update"}

\* Each place belongs to a script, and the runs a run counts as prior ended.
OrderOK == /\ \A r \in Runs : /\ run[r].pc \in EnrollPlaces => run[r].script = "enroll"
                              /\ run[r].pc \in {"revoke", "role"} => run[r].script = "revoke"
                              /\ run[r].pc \in CrlPlaces => run[r].script \in {"revoke", "crl"}
                              /\ run[r].script = "none" <=> At(r, "new")
           /\ \A r \in Runs : \A q \in run[r].prior : q \in Runs /\ run[q].pc \in {"done", "stopped"}

RunStep(r) == Start(r) \/ Stop(r) \/ EnrollStep(r) \/ RevokeStep(r) \/ CrlStep(r)

\* A step of a run leaves the others where they are; only a start gives it
\* its script, its sensor and the runs before it.
Moves(r) == /\ \A q \in Runs \ {r} : run'[q] = run[q]
            /\ \/ At(r, "new") /\ Start(r)
               \/ /\ Active(r) /\ run'[r].script = run[r].script
                  /\ run'[r].id = run[r].id /\ run'[r].prior = run[r].prior

\* Every step of a run is such a step.
LEMMA Moving ==
  ASSUME RunsOK, NEW r \in Runs, RunStep(r)
  PROVE  Moves(r)
<1>1. CASE Start(r)
  BY <1>1 DEF Start, Moves, RunsOK
<1>2. ASSUME NEW pc, GoTo(r, pc), Active(r) PROVE Moves(r)
  BY <1>2 DEF GoTo, Moves, RunsOK, RunType
<1>3. CASE GenCrl(r)
  <2>1. run[r] \in RunType /\ run' = [run EXCEPT ![r] = [run[r] EXCEPT !.pc = "write", !.crl = ca.revoked]]
    BY <1>3 DEF GenCrl, RunsOK
  <2>2. run'[r] = [run[r] EXCEPT !.pc = "write", !.crl = ca.revoked]
        /\ \A q \in Runs \ {r} : run'[q] = run[q]
    BY <2>1 DEF RunsOK
  <2>3. run'[r].script = run[r].script /\ run'[r].id = run[r].id /\ run'[r].prior = run[r].prior
    BY <2>1, <2>2 DEF RunType
  <2>4. Active(r)
    BY <1>3 DEF GenCrl, Active, At, Ended
  <2> QED
    BY <2>2, <2>3, <2>4 DEF Moves
<1>4. CASE Stop(r)
  BY <1>2, <1>4 DEF Stop
<1>5. CASE EnrollStep(r)
  BY <1>2, <1>5 DEF EnrollStep, Lookup, Register, CheckFiles, GenerateKey, GenerateCsr, Enroll,
     MakePackage, AssignRole, Active, At, Ended
<1>6. CASE RevokeStep(r)
  BY <1>2, <1>6 DEF RevokeStep, RevokeAtCa, RevokeRole, Active, At, Ended
<1>7. CASE CrlStep(r) /\ ~GenCrl(r)
  BY <1>2, <1>7 DEF CrlStep, OpenCrl, WriteCrl, UpdateCrl, Active, At, Ended
<1> QED
  BY <1>1, <1>3, <1>4, <1>5, <1>6, <1>7 DEF RunStep, CrlStep

\* Runs keep to their scripts, and a run that ended stays so.
LEMMA OrderKept ==
  ASSUME ScriptsInv, OrderOK, NEW r \in Runs, RunStep(r)
  PROVE  OrderOK'
<1> RunsOK
  BY DEF ScriptsInv, Types
<1>1. Moves(r)
  BY Moving
<1>2. CASE Start(r)
  <2>1. PICK i \in Sensors, s \in {"enroll", "revoke", "crl"} :
          run' = [run EXCEPT ![r] = [script |-> s, id |-> i, crl |-> {},
                     prior |-> {q \in Runs : run[q].pc \in {"done", "stopped"}},
                     pc |-> CASE s = "enroll" -> "lookup"
                              [] s = "revoke" -> "revoke"
                              [] s = "crl" -> "open"]]
    BY <1>2 DEF Start
  <2>2. /\ run'[r].script = s /\ run'[r].prior = {q \in Runs : run[q].pc \in {"done", "stopped"}}
        /\ run'[r].pc = CASE s = "enroll" -> "lookup" [] s = "revoke" -> "revoke" [] s = "crl" -> "open"
    BY <2>1 DEF RunsOK
  <2>3. At(r, "new") /\ \A q \in Runs : run[q].pc \in {"done", "stopped"} => q # r /\ run'[q] = run[q]
    BY <1>1, <1>2 DEF Start, At, Moves
  <2>4. /\ run'[r].pc \in EnrollPlaces => run'[r].script = "enroll"
        /\ run'[r].pc \in {"revoke", "role"} => run'[r].script = "revoke"
        /\ run'[r].pc \in CrlPlaces => run'[r].script \in {"revoke", "crl"}
        /\ run'[r].script # "none" /\ run'[r].pc # "new"
    BY <2>2 DEF EnrollPlaces, CrlPlaces
  <2>5. \A q \in Runs : \A t \in run'[q].prior : t \in Runs /\ run[t].pc \in {"done", "stopped"}
    BY <1>1, <2>2 DEF Moves, OrderOK
  <2>6. \A q \in Runs : \A t \in run'[q].prior : t \in Runs /\ run'[t].pc \in {"done", "stopped"}
    BY <2>3, <2>5
  <2> QED
    BY <1>1, <2>4, <2>6 DEF Moves, OrderOK, At
<1>3. CASE ~Start(r)
  <2>1. /\ Active(r) /\ run'[r].script = run[r].script /\ run'[r].prior = run[r].prior
        /\ \A q \in Runs \ {r} : run'[q] = run[q]
    BY <1>1, <1>3 DEF Moves
  <2>2. \A q \in Runs : run[q].pc \in {"done", "stopped"} => q # r
    BY <2>1 DEF Active, Ended
  <2>3. \A q \in Runs : \A t \in run'[q].prior : t \in Runs /\ run'[t].pc \in {"done", "stopped"}
    BY <2>1, <2>2 DEF OrderOK
  <2>4. /\ run'[r].pc \in EnrollPlaces => run'[r].script = "enroll"
        /\ run'[r].pc \in {"revoke", "role"} => run'[r].script = "revoke"
        /\ run'[r].pc \in CrlPlaces => run'[r].script \in {"revoke", "crl"}
        /\ run'[r].script # "none" /\ run'[r].pc # "new"
    <3>1. run[r].script # "none"
      BY <2>1 DEF OrderOK, Active, Ended, At
    <3>2. ASSUME NEW pc, GoTo(r, pc) PROVE run'[r].pc = pc
      BY <3>2 DEF GoTo, RunsOK, RunType
    <3>3. CASE Stop(r)
      <4>1. run'[r].pc = "stopped"
        BY <3>2, <3>3 DEF Stop
      <4> QED
        BY <2>1, <3>1, <4>1 DEF EnrollPlaces, CrlPlaces
    <3>4. CASE EnrollStep(r)
      <4>1. /\ run'[r].pc \in {"files", "register", "cert", "key", "csr", "package", "assign", "done"}
            /\ run[r].pc \in EnrollPlaces
        BY <3>2, <3>4 DEF EnrollStep, Lookup, Register, CheckFiles, GenerateKey, GenerateCsr, Enroll,
           MakePackage, AssignRole, At, EnrollPlaces
      <4> QED
        BY <2>1, <3>1, <4>1 DEF EnrollPlaces, CrlPlaces, OrderOK
    <3>5. CASE RevokeStep(r)
      <4>1. run'[r].pc \in {"role", "open"} /\ run[r].pc \in {"revoke", "role"}
        BY <3>2, <3>5 DEF RevokeStep, RevokeAtCa, RevokeRole, At
      <4> QED
        BY <2>1, <3>1, <4>1 DEF EnrollPlaces, CrlPlaces, OrderOK
    <3>6. CASE CrlStep(r)
      <4>1. run'[r].pc \in {"gencrl", "write", "update", "done"} /\ run[r].pc \in CrlPlaces
        <5>1. CASE GenCrl(r)
          <6>1. run[r] \in RunType /\ run[r].pc = "gencrl"
            BY <5>1 DEF GenCrl, RunsOK, At
          <6>2. run'[r] = [run[r] EXCEPT !.pc = "write", !.crl = ca.revoked]
            BY <5>1 DEF GenCrl, RunsOK
          <6> QED
            BY <6>1, <6>2 DEF RunType, CrlPlaces
        <5>2. CASE ~GenCrl(r)
          BY <3>2, <3>6, <5>2 DEF CrlStep, OpenCrl, WriteCrl, UpdateCrl, At, CrlPlaces
        <5> QED
          BY <5>1, <5>2
      <4> QED
        BY <2>1, <3>1, <4>1 DEF EnrollPlaces, CrlPlaces, OrderOK
    <3> QED
      BY <1>3, <3>3, <3>4, <3>5, <3>6 DEF RunStep
  <2> QED
    BY <2>1, <2>3, <2>4 DEF OrderOK, At
<1> QED
  BY <1>2, <1>3

\* The enroll runs of a sensor are never fewer.
LEMMA EnrollsStay ==
  ASSUME OrderOK, NEW q \in Runs, Moves(q), NEW i
  PROVE  EnrollsOf(i) \subseteq EnrollsOf(i)'
<1> SUFFICES ASSUME NEW r \in EnrollsOf(i) PROVE r \in EnrollsOf(i)'
  OBVIOUS
<1>1. r \in Runs /\ run[r].script = "enroll" /\ run[r].id = i /\ ~At(r, "new")
  BY DEF EnrollsOf, OrderOK, Id
<1>2. run'[r].script = run[r].script /\ run'[r].id = run[r].id
  BY <1>1 DEF Moves
<1> QED
  BY <1>1, <1>2 DEF EnrollsOf, Id

-----------------------------------------------------------------------------
(* revoke-cert.sh and the role. *)

\* A run past the role revocation that logged no failure, of a sensor that
\* nobody enrolled since it started.
Revoking(r) == /\ run[r].script = "revoke" /\ run[r].pc \in CrlPlaces \union {"done"}
               /\ peer /\ r \notin logged
               /\ EnrollsOf(Id(r)) \subseteq run[r].prior

\* No role of the sensor is assigned by what the orderer has after place n.
NoneAfter(i, n) ==
    \A k \in 1..Len(orderer) : k > n /\ orderer[k].id = i => orderer[k].op # "AssignRole"

\* Its transaction was lost, did its work or still has it ahead.
Handled(r) == \/ r \in lost
              \/ Id(r) \notin ledger.roles /\ NoneAfter(Id(r), 0)
              \/ \E n \in 1..Len(orderer) :
                    /\ orderer[n].run = r /\ orderer[n].op = "RevokeRole"
                    /\ orderer[n].id = Id(r) /\ NoneAfter(Id(r), n)

RoleInv == \A r \in Runs : Revoking(r) => Handled(r)

\* A transaction of another sensor, or a further revocation, is ordered.
LEMMA AppendHandled ==
  ASSUME LedgerOK, NEW r \in Runs, Handled(r), Id(r)' = Id(r), UNCHANGED <<ledger, lost>>,
         NEW tx \in TxType, orderer' = Append(orderer, tx),
         tx.id = Id(r) => tx.op # "AssignRole"
  PROVE  Handled(r)'
<1>1. orderer \in Seq(TxType)
  BY DEF LedgerOK
<1>2. /\ Len(orderer) \in Nat /\ Len(orderer') = Len(orderer) + 1
      /\ \A k \in 1..Len(orderer) : k \in 1..Len(orderer') /\ orderer'[k] = orderer[k]
      /\ \A k \in 1..Len(orderer') : k \in 1..Len(orderer) \/ orderer'[k] = tx
  BY <1>1
<1>3. \A n \in Nat : NoneAfter(Id(r), n) => NoneAfter(Id(r), n)'
  BY <1>2 DEF NoneAfter
<1>4. CASE r \in lost
  BY <1>4 DEF Handled
<1>5. CASE Id(r) \notin ledger.roles /\ NoneAfter(Id(r), 0)
  BY <1>3, <1>5 DEF Handled
<1>6. CASE \E n \in 1..Len(orderer) :
              /\ orderer[n].run = r /\ orderer[n].op = "RevokeRole"
              /\ orderer[n].id = Id(r) /\ NoneAfter(Id(r), n)
  <2>1. PICK n \in 1..Len(orderer) :
          /\ orderer[n].run = r /\ orderer[n].op = "RevokeRole"
          /\ orderer[n].id = Id(r) /\ NoneAfter(Id(r), n)
    BY <1>6
  <2>2. n \in Nat /\ n \in 1..Len(orderer') /\ orderer'[n] = orderer[n]
    BY <1>2
  <2> QED
    BY <1>3, <2>1, <2>2 DEF Handled
<1> QED
  BY <1>4, <1>5, <1>6 DEF Handled

\* The transactions run orders: none, or its own.
LEMMA Ordered ==
  ASSUME LedgerOK, RunsOK, OrderOK, NEW q \in Runs, RunStep(q)
  PROVE  /\ UNCHANGED <<ledger, lost, peer>> /\ logged \subseteq logged'
         /\ \/ UNCHANGED orderer
            \/ \E tx \in TxType : /\ orderer' = Append(orderer, tx) /\ tx.id = Id(q) /\ tx.run = q
                                  /\ \/ tx.op = "AssignRole" /\ AssignRole(q)
                                     \/ tx.op = "RevokeRole" /\ RevokeRole(q)
<1>1. ASSUME NEW op \in {"AssignRole", "RevokeRole"}, Invoke(q, op), ~At(q, "new")
      PROVE  \E tx \in TxType : /\ orderer' = Append(orderer, tx) /\ tx.id = Id(q) /\ tx.run = q
                                /\ tx.op = op
  <2>1. [op |-> op, id |-> Id(q), run |-> q, height |-> ledger.height] \in TxType
    BY <1>1 DEF TxType, RunsOK, LedgerOK
  <2> QED
    BY <1>1, <2>1 DEF Invoke
<1>2. CASE AssignRole(q)
  <2>1. Invoke(q, "AssignRole") /\ ~At(q, "new") /\ UNCHANGED <<ledger, lost, peer, logged>>
    BY <1>2 DEF AssignRole, At
  <2>2. PICK tx \in TxType : /\ orderer' = Append(orderer, tx) /\ tx.id = Id(q) /\ tx.run = q
                             /\ tx.op = "AssignRole"
    BY <1>1, <2>1
  <2> QED
    BY <1>2, <2>1, <2>2
<1>3. CASE RevokeRole(q)
  <2>1. /\ Invoke(q, "RevokeRole") \/ UNCHANGED orderer
        /\ ~At(q, "new") /\ UNCHANGED <<ledger, lost, peer>> /\ logged \subseteq logged'
    BY <1>3 DEF RevokeRole, At
  <2>2. CASE Invoke(q, "RevokeRole")
    <3>1. PICK tx \in TxType : /\ orderer' = Append(orderer, tx) /\ tx.id = Id(q) /\ tx.run = q
                               /\ tx.op = "RevokeRole"
      BY <1>1, <2>1, <2>2
    <3> QED
      BY <1>3, <2>1, <3>1
  <2> QED
    BY <2>1, <2>2
<1>4. CASE ~AssignRole(q) /\ ~RevokeRole(q)
  BY <1>4 DEF RunStep, Start, Stop, EnrollStep, Lookup, Register, CheckFiles, GenerateKey,
     GenerateCsr, Enroll, MakePackage, RevokeStep, RevokeAtCa, CrlStep, OpenCrl, GenCrl, WriteCrl,
     UpdateCrl
<1> QED
  BY <1>2, <1>3, <1>4

\* Steps of the runs.
LEMMA RunsKeepRole ==
  ASSUME ScriptsInv, OrderOK, RoleInv, NEW q \in Runs, RunStep(q)
  PROVE  RoleInv'
<1> LedgerOK /\ RunsOK
  BY DEF ScriptsInv, Types
<1> SUFFICES ASSUME NEW r \in Runs, Revoking(r)' PROVE Handled(r)'
  BY DEF RoleInv
<1>1. Moves(q)
  BY Moving
<1>2. /\ UNCHANGED <<ledger, lost, peer>> /\ logged \subseteq logged'
      /\ \/ UNCHANGED orderer
         \/ \E tx \in TxType : /\ orderer' = Append(orderer, tx) /\ tx.id = Id(q) /\ tx.run = q
                               /\ \/ tx.op = "AssignRole" /\ AssignRole(q)
                                  \/ tx.op = "RevokeRole" /\ RevokeRole(q)
  BY Ordered
<1>3. ASSUME Revoking(r), Id(r)' = Id(r), run'[r].prior = run[r].prior PROVE Handled(r)'
  <2>1. Handled(r)
    BY <1>3 DEF RoleInv
  <2>2. CASE UNCHANGED orderer
    BY <1>2, <1>3, <2>1, <2>2 DEF Handled, NoneAfter
  <2>3. ASSUME NEW tx \in TxType, orderer' = Append(orderer, tx), tx.id = Id(q),
               \/ tx.op = "AssignRole" /\ AssignRole(q)
               \/ tx.op = "RevokeRole"
        PROVE  Handled(r)'
    <3>1. ASSUME AssignRole(q), Id(q) = Id(r) PROVE FALSE
      <4>1. run[q].pc = "assign" /\ run[q].script = "enroll"
        BY <3>1 DEF AssignRole, At, OrderOK, EnrollPlaces
      <4>2. q \in run[r].prior
        BY <1>3, <3>1, <4>1 DEF Revoking, EnrollsOf
      <4> QED
        BY <4>1, <4>2 DEF OrderOK
    <3> QED
      BY <1>2, <1>3, <2>1, <2>3, <3>1, AppendHandled
  <2> QED
    BY <1>2, <2>2, <2>3
<1>4. CASE r # q
  <2>1. run'[r] = run[r] /\ Id(r)' = Id(r)
    BY <1>1, <1>4 DEF Moves, Id
  <2>2. EnrollsOf(Id(r)) \subseteq run[r].prior
    <3>1. PICK i : i = Id(r)
      OBVIOUS
    <3>2. EnrollsOf(i) \subseteq EnrollsOf(i)'
      BY <1>1, EnrollsStay
    <3> QED
      BY <2>1, <3>1, <3>2 DEF Revoking
  <2>3. Revoking(r)
    BY <1>2, <2>1, <2>2 DEF Revoking
  <2> QED
    BY <1>3, <2>1, <2>3
<1>5. CASE r = q /\ RevokeRole(q)
  <2>1. Id(r)' = Id(r)
    BY <1>1, <1>5 DEF Moves, Id, RevokeRole, At, Start
  <2>2. peer /\ r \notin logged'
    BY <1>2 DEF Revoking
  <2>3. Invoke(r, "RevokeRole")
    BY <1>5, <2>2 DEF RevokeRole
  <2> DEFINE tx == [op |-> "RevokeRole", id |-> Id(r), run |-> r, height |-> ledger.height]
             n == Len(orderer) + 1
  <2>4. tx \in TxType
    BY <1>5 DEF TxType, RunsOK, LedgerOK, RevokeRole, At
  <2>5. orderer' = Append(orderer, tx) /\ orderer \in Seq(TxType)
    BY <2>3 DEF Invoke, LedgerOK
  <2>6. tx.op = "RevokeRole" /\ tx.id = Id(r) /\ tx.run = r
    OBVIOUS
  <2> HIDE DEF tx
  <2>7. Len(orderer') = n /\ n \in 1..Len(orderer') /\ orderer'[n] = tx
    BY <2>4, <2>5
  <2>8. \A k \in 1..Len(orderer') : ~(k > n)
    BY <2>5, <2>7
  <2> HIDE DEF n
  <2> QED
    BY <2>1, <2>6, <2>7, <2>8 DEF Handled, NoneAfter
<1>6. CASE r = q /\ CrlStep(q)
  <2>1. run[r].pc \in CrlPlaces /\ ~At(r, "new")
    BY <1>6 DEF CrlStep, OpenCrl, GenCrl, WriteCrl, UpdateCrl, At, CrlPlaces
  <2>2. run'[r].script = run[r].script /\ Id(r)' = Id(r) /\ run'[r].prior = run[r].prior
    BY <1>1, <1>6, <2>1 DEF Moves, Id
  <2>3. EnrollsOf(Id(r)) \subseteq run[r].prior
    <3>1. PICK i : i = Id(r)
      OBVIOUS
    <3>2. EnrollsOf(i) \subseteq EnrollsOf(i)'
      BY <1>1, EnrollsStay
    <3> QED
      BY <2>2, <3>1, <3>2 DEF Revoking
  <2>4. Revoking(r)
    BY <1>2, <2>1, <2>2, <2>3 DEF Revoking
  <2> QED
    BY <1>3, <2>2, <2>4
<1>7. CASE r = q /\ (Start(q) \/ Stop(q) \/ EnrollStep(q) \/ RevokeAtCa(q))
  <2>1. run'[r].script = "revoke" /\ run'[r].pc \in CrlPlaces \union {"done"}
    BY DEF Revoking
  <2>2. ASSUME NEW pc, GoTo(q, pc) PROVE run'[r].pc = pc
    BY <1>7, <2>2 DEF GoTo, RunsOK, RunType
  <2>3. ~Stop(q) /\ ~RevokeAtCa(q)
    BY <2>1, <2>2 DEF Stop, RevokeAtCa, CrlPlaces
  <2>4. ~EnrollStep(q)
    <3> SUFFICES ASSUME EnrollStep(q) PROVE FALSE
      OBVIOUS
    <3>1. run[q].pc \in EnrollPlaces
      BY DEF EnrollStep, Lookup, Register, CheckFiles, GenerateKey, GenerateCsr, Enroll,
         MakePackage, AssignRole, At, EnrollPlaces
    <3>2. run[q].script = "enroll" /\ ~At(q, "new")
      BY <3>1 DEF OrderOK, At, EnrollPlaces
    <3> QED
      BY <1>1, <1>7, <2>1, <3>2 DEF Moves
  <2>5. ~Start(q)
    BY <1>7, <2>1 DEF Start, RunsOK, CrlPlaces
  <2> QED
    BY <1>7, <2>3, <2>4, <2>5
<1> QED
  BY <1>4, <1>5, <1>6, <1>7 DEF RunStep, RevokeStep

\* Transactions delivered.
LEMMA ChannelKeepsRole ==
  ASSUME ScriptsInv, RoleInv, Commit \/ OtherCommit
  PROVE  RoleInv'
<1> LedgerOK
  BY DEF ScriptsInv, Types
<1> SUFFICES ASSUME NEW r \in Runs, Revoking(r)' PROVE Handled(r)'
  BY DEF RoleInv
<1>1. UNCHANGED <<run, peer, logged>>
  BY DEF Commit, OtherCommit
<1>2. Id(r)' = Id(r) /\ Handled(r)
  <2>1. Revoking(r)
    BY <1>1 DEF Revoking, EnrollsOf, Id
  <2> QED
    BY <1>1, <2>1 DEF Id, RoleInv
<1> DEFINE i == Id(r)
<1>3. CASE OtherCommit
  <2>1. ledger'.roles = ledger.roles /\ orderer' = orderer /\ lost' = lost
    BY <1>3 DEF OtherCommit, LedgerOK
  <2> QED
    BY <1>2, <2>1 DEF Handled, NoneAfter
<1>4. CASE Commit
  <2>1. orderer \in Seq(TxType) /\ orderer # <<>> /\ orderer' = Tail(orderer)
    BY <1>4 DEF Commit, LedgerOK
  <2>2. PICK tx : tx = Head(orderer)
    OBVIOUS
  <2>3. /\ tx = orderer[1] /\ 1 \in 1..Len(orderer) /\ Len(orderer) \in Nat
        /\ Len(orderer') = Len(orderer) - 1
        /\ \A k \in 1..Len(orderer') : k + 1 \in 1..Len(orderer) /\ orderer'[k] = orderer[k + 1]
        /\ \A k \in 1..Len(orderer) : k = 1 \/ k - 1 \in 1..Len(orderer')
    BY <2>1, <2>2
  <2>4. \/ /\ lost' = lost
           /\ ledger'.roles = IF tx.op = "AssignRole" THEN ledger.roles \union {tx.id}
                                                      ELSE ledger.roles \ {tx.id}
        \/ lost' = lost \union {tx.run} /\ ledger' = ledger
    <3>1. \/ ledger' = [height |-> ledger.height + 1, roles |-> Applied(tx)] /\ lost' = lost
          \/ lost' = lost \union {tx.run} /\ ledger' = ledger
      BY <1>4, <2>2 DEF Commit
    <3> QED
      BY <3>1 DEF Applied
  <2>5. \A n \in Nat : NoneAfter(Id(r), n + 1) => NoneAfter(Id(r), n)'
    BY <1>2, <2>3 DEF NoneAfter
  <2>6. NoneAfter(Id(r), 0) => NoneAfter(Id(r), 0)'
    BY <1>2, <2>3 DEF NoneAfter
  <2>7. CASE r \in lost
    BY <2>4, <2>7 DEF Handled
  <2>8. CASE Id(r) \notin ledger.roles /\ NoneAfter(Id(r), 0)
    <3>1. tx.id = Id(r) => tx.op # "AssignRole"
      BY <2>3, <2>8 DEF NoneAfter
    <3>2. Id(r) \notin ledger'.roles
      BY <2>4, <2>8, <3>1
    <3> QED
      BY <1>2, <2>6, <2>8, <3>2 DEF Handled
  <2>9. CASE \E n \in 1..Len(orderer) :
               /\ orderer[n].run = r /\ orderer[n].op = "RevokeRole"
               /\ orderer[n].id = Id(r) /\ NoneAfter(Id(r), n)
    <3>1. PICK n \in 1..Len(orderer) :
            /\ orderer[n].run = r /\ orderer[n].op = "RevokeRole"
            /\ orderer[n].id = Id(r) /\ NoneAfter(Id(r), n)
      BY <2>9
    <3>2. CASE n = 1
      <4>1. tx.run = r /\ tx.op = "RevokeRole" /\ tx.id = Id(r)
        BY <2>3, <3>1, <3>2
      <4>2. r \in lost' \/ Id(r) \notin ledger'.roles
        BY <2>4, <4>1
      <4>3. NoneAfter(Id(r), 0)'
        BY <2>5, <3>1, <3>2
      <4> QED
        BY <1>2, <4>2, <4>3 DEF Handled
    <3>3. CASE n # 1
      <4>1. PICK m : m = n - 1
        OBVIOUS
      <4>2. m \in Nat /\ n = m + 1 /\ m \in 1..Len(orderer')
        BY <2>3, <3>1, <3>3, <4>1
      <4>3. orderer'[m] = orderer[n] /\ NoneAfter(Id(r), m)'
        BY <2>3, <2>5, <3>1, <4>2
      <4> QED
        BY <1>2, <3>1, <4>2, <4>3 DEF Handled
    <3> QED
      BY <3>2, <3>3
  <2> QED
    BY <1>2, <2>7, <2>8, <2>9 DEF Handled
<1> QED
  BY <1>3, <1>4

-----------------------------------------------------------------------------
(* enroll-sensor.sh and the key. *)

AllApart(i) == \A q, r \in EnrollsOf(i) : Apart(q, r)

\* A request is signed with the key in the directory and the package holds
\* that key; new key files are made only where there was no request.
KeyChain(i) ==
    /\ files[i].csr # NoKey => files[i].key = files[i].csr
    /\ files[i].package # NoKey => files[i].package = files[i].csr
    /\ \A r \in EnrollsOf(i) :
          /\ At(r, "key") \/ At(r, "csr") => files[i].csr = NoKey
          /\ At(r, "csr") => files[i].key # NoKey
          /\ At(r, "cert") \/ At(r, "package") => files[i].csr # NoKey

KeyInv == \A i \in Sensors : AllApart(i) => KeyChain(i)

\* Runs that were apart stay so only if they already were.
LEMMA ApartBefore ==
  ASSUME OrderOK, OrderOK', NEW q \in Runs, Moves(q), NEW i, AllApart(i)'
  PROVE  AllApart(i)
<1> SUFFICES ASSUME NEW r \in EnrollsOf(i), NEW t \in EnrollsOf(i) PROVE Apart(r, t)
  BY DEF AllApart
<1>1. r \in EnrollsOf(i)' /\ t \in EnrollsOf(i)'
  BY EnrollsStay
<1>2. Apart(r, t)'
  BY <1>1 DEF AllApart
<1>3. /\ r \in Runs /\ run[r].script = "enroll" /\ ~At(r, "new")
      /\ t \in Runs /\ run[t].script = "enroll" /\ ~At(t, "new")
  BY DEF EnrollsOf, OrderOK
<1>4. /\ run'[r].prior = run[r].prior /\ run'[t].prior = run[t].prior
      /\ ~At(r, "new")' /\ ~At(t, "new")'
  BY <1>1, <1>3 DEF Moves, OrderOK, EnrollsOf
<1> QED
  BY <1>2, <1>3, <1>4 DEF Apart

\* Two runs of a sensor that are apart are not both under way.
LEMMA OneAtATime ==
  ASSUME OrderOK, NEW i, AllApart(i), NEW q \in EnrollsOf(i), NEW r \in EnrollsOf(i),
         Active(q), Active(r)
  PROVE  q = r
BY DEF AllApart, Apart, OrderOK, Active, Ended, At, EnrollsOf

\* The key files a step of another run, or of another sensor's, leaves alone.
LEMMA OthersFiles ==
  ASSUME FilesOK, RunsOK, OrderOK, NEW q \in Runs, RunStep(q), NEW i \in Sensors, q \notin EnrollsOf(i)'
  PROVE  /\ files'[i].key = files[i].key /\ files'[i].csr = files[i].csr
         /\ files'[i].package = files[i].package
<1>1. CASE UNCHANGED files
  BY <1>1
<1>2. CASE GenerateKey(q) \/ GenerateCsr(q) \/ Enroll(q) \/ MakePackage(q)
  <2>1. run[q].pc \in EnrollPlaces /\ ~At(q, "new")
    BY <1>2 DEF GenerateKey, GenerateCsr, Enroll, MakePackage, At, EnrollPlaces
  <2>2. Moves(q)
    BY Moving
  <2>3. Id(q) # i
    BY <2>1, <2>2 DEF OrderOK, Moves, EnrollsOf, Id
  <2> QED
    BY <1>2, <2>3 DEF GenerateKey, GenerateCsr, Enroll, MakePackage, FilesOK
<1> QED
  BY <1>1, <1>2 DEF RunStep, Start, Stop, EnrollStep, Lookup, Register, CheckFiles, AssignRole,
     RevokeStep, RevokeAtCa, RevokeRole, CrlStep, OpenCrl, GenCrl, WriteCrl, UpdateCrl

\* What a step of an enroll run under way does to its sensor's files.
LEMMA OwnFiles ==
  ASSUME FilesOK, RunsOK, OrderOK, NEW q \in Runs, EnrollStep(q) \/ Stop(q), NEW i \in Sensors,
         Id(q) = i, run[q].script = "enroll", KeyChain(i)
  PROVE  /\ files'[i].csr # NoKey => files'[i].key = files'[i].csr
         /\ files'[i].package # NoKey => files'[i].package = files'[i].csr
         /\ run'[q].pc \in {"key", "csr"} => files'[i].csr = NoKey
         /\ run'[q].pc = "csr" => files'[i].key # NoKey
         /\ run'[q].pc \in {"cert", "package"} => files'[i].csr # NoKey
<1>1. ASSUME NEW pc, GoTo(q, pc) PROVE run'[q].pc = pc
  BY <1>1 DEF GoTo, RunsOK, RunType
<1>2. q \in EnrollsOf(i)
  BY DEF EnrollsOf
<1>3. files[i] \in [key : Keys, csr : Keys, cert : BOOLEAN, package : Keys]
  BY DEF FilesOK
<1>4. /\ files[i].csr # NoKey => files[i].key = files[i].csr
      /\ files[i].package # NoKey => files[i].package = files[i].csr
      /\ run[q].pc \in {"key", "csr"} => files[i].csr = NoKey
      /\ run[q].pc = "csr" => files[i].key # NoKey
      /\ run[q].pc \in {"cert", "package"} => files[i].csr # NoKey
  BY <1>2 DEF KeyChain, At
<1>5. CASE Stop(q)
  <2>1. run'[q].pc = "stopped" /\ files' = files
    BY <1>1, <1>5 DEF Stop
  <2> QED
    BY <1>4, <2>1
<1>6. CASE Lookup(q) \/ Register(q) \/ AssignRole(q)
  <2>1. run'[q].pc \in {"files", "register", "done"} /\ files' = files
    BY <1>1, <1>6 DEF Lookup, Register, AssignRole
  <2> QED
    BY <1>4, <2>1
<1>7. CASE CheckFiles(q)
  <2>1. run'[q].pc = (IF HasKeyFiles(i) THEN "cert" ELSE "key") /\ files' = files
    BY <1>1, <1>7 DEF CheckFiles
  <2> QED
    BY <1>4, <2>1 DEF HasKeyFiles
<1>8. CASE GenerateKey(q)
  <2>1. run'[q].pc = "csr" /\ run[q].pc = "key"
    BY <1>1, <1>8 DEF GenerateKey, At
  <2>2. files'[i] = [files[i] EXCEPT !.key = q]
    BY <1>8 DEF GenerateKey, FilesOK
  <2>3. /\ files'[i].key = q /\ files'[i].csr = files[i].csr /\ files'[i].package = files[i].package
    BY <1>3, <2>2
  <2>4. q # NoKey
    BY RunsAreNoKey
  <2> QED
    BY <1>4, <2>1, <2>3, <2>4
<1>9. CASE GenerateCsr(q)
  <2>1. run'[q].pc = "cert" /\ run[q].pc = "csr"
    BY <1>1, <1>9 DEF GenerateCsr, At
  <2>2. files'[i] = [files[i] EXCEPT !.csr = files[i].key]
    BY <1>9 DEF GenerateCsr, FilesOK
  <2>3. /\ files'[i].csr = files[i].key /\ files'[i].key = files[i].key
        /\ files'[i].package = files[i].package
    BY <1>3, <2>2
  <2> QED
    BY <1>4, <2>1, <2>3
<1>10. CASE Enroll(q)
  <2>1. run'[q].pc = "package" /\ run[q].pc = "cert"
    BY <1>1, <1>10 DEF Enroll, At
  <2>2. files'[i] = files[i] \/ files'[i] = [files[i] EXCEPT !.cert = TRUE]
    BY <1>10 DEF Enroll, FilesOK
  <2>3. /\ files'[i].csr = files[i].csr /\ files'[i].key = files[i].key
        /\ files'[i].package = files[i].package
    BY <1>3, <2>2
  <2> QED
    BY <1>4, <2>1, <2>3
<1>11. CASE MakePackage(q)
  <2>1. run'[q].pc = "assign" /\ run[q].pc = "package"
    BY <1>1, <1>11 DEF MakePackage, At
  <2>2. files'[i] = [files[i] EXCEPT !.package = files[i].key]
    BY <1>11 DEF MakePackage, FilesOK
  <2>3. /\ files'[i].csr = files[i].csr /\ files'[i].key = files[i].key
        /\ files'[i].package = files[i].key
    BY <1>3, <2>2
  <2> QED
    BY <1>4, <2>1, <2>3
<1> QED
  BY <1>5, <1>6, <1>7, <1>8, <1>9, <1>10, <1>11 DEF EnrollStep

\* Steps of the runs.
LEMMA RunsKeepKey ==
  ASSUME ScriptsInv, OrderOK, KeyInv, NEW q \in Runs, RunStep(q)
  PROVE  KeyInv'
<1> RunsOK /\ FilesOK
  BY DEF ScriptsInv, Types
<1> SUFFICES ASSUME NEW i \in Sensors, AllApart(i)' PROVE KeyChain(i)'
  BY DEF KeyInv
<1>1. Moves(q) /\ OrderOK'
  BY Moving, OrderKept
<1>2. AllApart(i) /\ KeyChain(i)
  BY <1>1, ApartBefore DEF KeyInv
<1>3. ASSUME NEW r \in EnrollsOf(i)', r # q
      PROVE  r \in EnrollsOf(i) /\ run'[r] = run[r]
  BY <1>1, <1>3 DEF Moves, EnrollsOf, Id
<1>4. CASE q \notin EnrollsOf(i)' \/ Start(q)
  <2>1. /\ files'[i].key = files[i].key /\ files'[i].csr = files[i].csr
        /\ files'[i].package = files[i].package
    BY <1>4, OthersFiles DEF Start
  <2>2. Start(q) => run'[q].pc \in {"lookup", "revoke", "open"}
    BY DEF Start, RunsOK
  <2>3. ASSUME NEW r \in EnrollsOf(i)'
        PROVE  /\ At(r, "key")' \/ At(r, "csr")' => files'[i].csr = NoKey
               /\ At(r, "csr")' => files'[i].key # NoKey
               /\ At(r, "cert")' \/ At(r, "package")' => files'[i].csr # NoKey
    <3>1. CASE r = q
      BY <1>4, <2>2, <2>3, <3>1 DEF At
    <3>2. CASE r # q
      BY <1>2, <1>3, <2>1, <2>3, <3>2 DEF KeyChain, At
    <3> QED
      BY <3>1, <3>2
  <2> QED
    BY <1>2, <2>1, <2>3 DEF KeyChain
<1>5. CASE q \in EnrollsOf(i)' /\ ~Start(q)
  <2>1. Active(q) /\ run[q].script = "enroll" /\ Id(q) = i /\ q \in EnrollsOf(i)
    BY <1>1, <1>5 DEF Moves, EnrollsOf, Id
  <2>2. EnrollStep(q) \/ Stop(q)
    <3>1. ~RevokeStep(q)
      BY <2>1 DEF RevokeStep, RevokeAtCa, RevokeRole, At, OrderOK
    <3>2. CrlStep(q) => run[q].pc \in CrlPlaces
      BY DEF CrlStep, OpenCrl, GenCrl, WriteCrl, UpdateCrl, At, CrlPlaces
    <3>3. ~CrlStep(q)
      BY <2>1, <3>2 DEF OrderOK
    <3> QED
      BY <1>5, <3>1, <3>3 DEF RunStep
  <2>3. /\ files'[i].csr # NoKey => files'[i].key = files'[i].csr
        /\ files'[i].package # NoKey => files'[i].package = files'[i].csr
        /\ run'[q].pc \in {"key", "csr"} => files'[i].csr = NoKey
        /\ run'[q].pc = "csr" => files'[i].key # NoKey
        /\ run'[q].pc \in {"cert", "package"} => files'[i].csr # NoKey
    BY <1>2, <2>1, <2>2, OwnFiles
  <2>4. ASSUME NEW r \in EnrollsOf(i)', r # q PROVE run'[r].pc \in Ended
    <3>1. ~Active(r)
      BY <1>2, <1>3, <2>1, <2>4, OneAtATime
    <3> QED
      BY <1>3, <2>4, <3>1 DEF Active
  <2> QED
    BY <2>3, <2>4 DEF KeyChain, At, Ended
<1> QED
  BY <1>4, <1>5

-----------------------------------------------------------------------------
(* generate-crl.sh and the file. *)

CrlApart(r) == \A q \in CrlWriters : Apart(q, r)

\* From the file emptied to the CA's list written, nothing is revoked and
\* nobody else writes.
CrlChain(r) == /\ At(r, "gencrl") => crl = EmptyCrl
               /\ At(r, "write") => crl = EmptyCrl /\ run[r].crl = ca.revoked
               /\ At(r, "update") => crl = CrlOf(ca.revoked)

CrlInv == \A r \in CrlWriters : CrlApart(r) => CrlChain(r)

\* Writers are never fewer, and apart now means apart before.
LEMMA WritersBefore ==
  ASSUME OrderOK, OrderOK', NEW q \in Runs, Moves(q), NEW r \in CrlWriters
  PROVE  r \in CrlWriters' /\ (CrlApart(r)' => CrlApart(r))
<1>1. ASSUME NEW t \in CrlWriters
      PROVE  /\ t \in Runs /\ ~At(t, "new") /\ ~At(t, "new")' /\ t \in CrlWriters'
             /\ run'[t].prior = run[t].prior
  <2>1. t \in Runs /\ run[t].script \in {"revoke", "crl"} /\ ~At(t, "new")
    BY DEF CrlWriters, OrderOK
  <2>2. run'[t].script = run[t].script /\ run'[t].prior = run[t].prior
    BY <2>1 DEF Moves
  <2> QED
    BY <2>1, <2>2 DEF CrlWriters, OrderOK
<1>2. ASSUME NEW t \in CrlWriters, Apart(t, r)' PROVE Apart(t, r)
  BY <1>1, <1>2 DEF Apart
<1> QED
  BY <1>1, <1>2 DEF CrlApart

\* While a run writes alone, no other touches the file or revokes.
LEMMA AloneAtTheCrl ==
  ASSUME OrderOK, CaOK, NEW r \in CrlWriters, CrlApart(r), Active(r), NEW q \in Runs, q # r, RunStep(q)
  PROVE  crl' = crl /\ ca'.revoked = ca.revoked
<1>1. ASSUME run[q].pc \in CrlPlaces \union {"revoke"} PROVE FALSE
  <2>1. q \in CrlWriters /\ Active(q)
    BY <1>1 DEF OrderOK, CrlWriters, CrlPlaces, Active, Ended
  <2>2. Apart(q, r) /\ r \in Runs
    BY <2>1 DEF CrlApart, CrlWriters
  <2> QED
    BY <2>1, <2>2 DEF Apart, OrderOK, Active, Ended, At
<1>2. ~CrlStep(q) /\ ~RevokeAtCa(q)
  BY <1>1 DEF CrlStep, OpenCrl, GenCrl, WriteCrl, UpdateCrl, RevokeAtCa, At, CrlPlaces
<1> QED
  BY <1>2 DEF RunStep, Start, Stop, EnrollStep, Lookup, Register, CheckFiles, GenerateKey,
     GenerateCsr, Enroll, MakePackage, AssignRole, RevokeStep, RevokeRole, CaOK

\* Steps of the runs.
LEMMA RunsKeepCrl ==
  ASSUME ScriptsInv, OrderOK, CrlInv, NEW q \in Runs, RunStep(q)
  PROVE  CrlInv'
<1> RunsOK /\ CaOK
  BY DEF ScriptsInv, Types
<1> SUFFICES ASSUME NEW r \in CrlWriters', CrlApart(r)' PROVE CrlChain(r)'
  BY DEF CrlInv
<1>1. Moves(q) /\ OrderOK'
  BY Moving, OrderKept
<1>2. ASSUME NEW pc, GoTo(q, pc) PROVE run'[q].pc = pc
  BY <1>2 DEF GoTo, RunsOK, RunType
<1>3. r \in Runs
  BY DEF CrlWriters
<1>4. ASSUME r # q \/ ~Start(q) PROVE r \in CrlWriters /\ CrlChain(r)
  <2>1. r \in CrlWriters
    BY <1>1, <1>3, <1>4 DEF Moves, CrlWriters
  <2>2. CrlApart(r)
    BY <1>1, <2>1, WritersBefore
  <2> QED
    BY <2>1, <2>2 DEF CrlInv
<1>5. CASE r # q
  <2>1. run'[r] = run[r]
    BY <1>1, <1>3, <1>5 DEF Moves
  <2>2. CASE run[r].pc \notin {"gencrl", "write", "update"}
    BY <2>1, <2>2 DEF CrlChain, At
  <2>3. CASE run[r].pc \in {"gencrl", "write", "update"}
    <3>1. Active(r)
      BY <2>3 DEF Active, Ended
    <3>2. CrlApart(r)
      BY <1>1, <1>4, <1>5, WritersBefore
    <3>3. crl' = crl /\ ca'.revoked = ca.revoked
      BY <1>4, <1>5, <3>1, <3>2, AloneAtTheCrl
    <3> QED
      BY <1>4, <1>5, <2>1, <3>3 DEF CrlChain, At, CrlOf
  <2> QED
    BY <2>2, <2>3
<1>6. CASE r = q /\ OpenCrl(q)
  <2>1. run'[r].pc = "gencrl" /\ crl' = EmptyCrl
    BY <1>2, <1>6 DEF OpenCrl
  <2> QED
    BY <2>1 DEF CrlChain, At, EmptyCrl
<1>7. CASE r = q /\ GenCrl(q)
  <2>1. ~Start(q)
    BY <1>7 DEF GenCrl, Start, At
  <2>2. crl = EmptyCrl /\ ca' = ca /\ crl' = crl
    BY <1>4, <1>7, <2>1 DEF GenCrl, CrlChain
  <2>3. run[r] \in RunType /\ run'[r] = [run[r] EXCEPT !.pc = "write", !.crl = ca.revoked]
    BY <1>3, <1>7 DEF GenCrl, RunsOK
  <2>4. run'[r].pc = "write" /\ run'[r].crl = ca.revoked
    BY <2>3 DEF RunType
  <2> QED
    BY <2>2, <2>4 DEF CrlChain, At, EmptyCrl
<1>8. CASE r = q /\ WriteCrl(q)
  <2>1. ~Start(q)
    BY <1>8 DEF WriteCrl, Start, At
  <2>2. crl = EmptyCrl /\ run[r].crl = ca.revoked
    BY <1>4, <1>8, <2>1 DEF WriteCrl, CrlChain
  <2>3. run'[r].pc = "update" /\ crl' = CrlOf(ca.revoked) /\ ca' = ca
    BY <1>2, <1>8, <2>2 DEF WriteCrl
  <2> QED
    BY <2>3 DEF CrlChain, At, CrlOf
<1>9. CASE r = q /\ ~OpenCrl(q) /\ ~GenCrl(q) /\ ~WriteCrl(q)
  <2>1. CASE Start(q)
    <3>1. run'[r].pc \in {"lookup", "revoke", "open"}
      BY <1>9, <2>1 DEF Start, RunsOK
    <3> QED
      BY <3>1 DEF CrlChain, At
  <2>2. CASE ~Start(q)
    <3>1. run'[r].pc \in {"stopped", "files", "register", "cert", "key", "csr", "package", "assign",
                          "done", "role", "open"}
      BY <1>2, <1>9, <2>2 DEF RunStep, Stop, EnrollStep, Lookup, Register, CheckFiles, GenerateKey,
         GenerateCsr, Enroll, MakePackage, AssignRole, RevokeStep, RevokeAtCa, RevokeRole, CrlStep,
         UpdateCrl
    <3> QED
      BY <3>1 DEF CrlChain, At
  <2> QED
    BY <2>1, <2>2
<1> QED
  BY <1>5, <1>6, <1>7, <1>8, <1>9

\* A run that ends with the list has written all of it.
LEMMA DoneIsComplete ==
  ASSUME ScriptsInv, OrderOK, CrlInv, [Next]_vars, NEW r \in CrlWriters,
         ~At(r, "done"), At(r, "done")', CrlApart(r)
  PROVE  crl' = CrlOf(ca'.revoked)
<1> RunsOK
  BY DEF ScriptsInv, Types
<1>1. r \in Runs /\ run[r].script \in {"revoke", "crl"} /\ run'[r] # run[r]
  BY DEF CrlWriters, At
<1>2. run' # run
  BY <1>1
<1>3. PICK q \in Runs : RunStep(q)
  BY <1>2 DEF Next, RunStep, Commit, OtherCommit, vars
<1>4. q = r
  BY <1>1, <1>3, Moving DEF Moves
<1>5. ~At(r, "new")
  BY <1>1 DEF OrderOK
<1>6. ASSUME NEW pc, GoTo(r, pc) PROVE run'[r].pc = pc
  BY <1>1, <1>6 DEF GoTo, RunsOK, RunType
<1>7. ~Start(r) /\ ~GenCrl(r)
  <2>1. ~Start(r)
    BY <1>5 DEF Start
  <2>2. ASSUME GenCrl(r) PROVE FALSE
    <3>1. run[r] \in RunType /\ run'[r] = [run[r] EXCEPT !.pc = "write", !.crl = ca.revoked]
      BY <1>1, <2>2 DEF GenCrl, RunsOK
    <3>2. run'[r].pc = "write"
      BY <3>1 DEF RunType
    <3> QED
      BY <3>2 DEF At
  <2> QED
    BY <2>1, <2>2
<1>8. ~AssignRole(r)
  BY <1>1 DEF AssignRole, At, OrderOK, EnrollPlaces
<1>9. UpdateCrl(r)
  BY <1>3, <1>4, <1>6, <1>7, <1>8 DEF RunStep, Stop, EnrollStep, Lookup, Register, CheckFiles,
     GenerateKey, GenerateCsr, Enroll, MakePackage, RevokeStep, RevokeAtCa, RevokeRole, CrlStep,
     OpenCrl, WriteCrl, At
<1>10. crl = CrlOf(ca.revoked) /\ UNCHANGED <<crl, ca>>
  BY <1>9 DEF UpdateCrl, CrlInv, CrlChain
<1> QED
  BY <1>10 DEF CrlOf

-----------------------------------------------------------------------------
HistoryInv == ScriptsInv /\ OrderOK /\ RoleInv /\ KeyInv /\ CrlInv

\* Before the first run.
LEMMA InitHistory == Init => HistoryInv
<1> SUFFICES ASSUME Init PROVE HistoryInv
  OBVIOUS
<1>1. \A r \in Runs : run[r].script = "none" /\ run[r].pc = "new" /\ run[r].prior = {}
  BY DEF Init
<1>2. OrderOK
  BY <1>1 DEF OrderOK, EnrollPlaces, CrlPlaces, At
<1>3. RoleInv
  BY <1>1 DEF RoleInv, Revoking
<1>4. KeyInv
  <2>1. \A i : EnrollsOf(i) = {}
    BY <1>1 DEF EnrollsOf
  <2> QED
    BY <2>1 DEF Init, KeyInv, KeyChain, NoFiles
<1>5. CrlInv
  BY <1>1 DEF CrlInv, CrlWriters
<1> QED
  BY <1>2, <1>3, <1>4, <1>5, InitScripts DEF HistoryInv

\* Every step.
LEMMA NextHistory == HistoryInv /\ [Next]_vars => HistoryInv'
<1> SUFFICES ASSUME ScriptsInv, OrderOK, RoleInv, KeyInv, CrlInv, [Next]_vars PROVE HistoryInv'
  BY DEF HistoryInv
<1>1. ASSUME NEW r \in Runs, RunStep(r) PROVE HistoryInv'
  <2>1. ScriptsInv'
    BY <1>1, RunSteps DEF RunStep
  <2> QED
    BY <1>1, <2>1, OrderKept, RunsKeepRole, RunsKeepKey, RunsKeepCrl DEF HistoryInv
<1>2. CASE Commit \/ OtherCommit
  <2>1. UNCHANGED <<run, files, crl, ca>>
    BY <1>2 DEF Commit, OtherCommit
  <2>2. OrderOK' /\ KeyInv' /\ CrlInv'
    BY <2>1 DEF OrderOK, At, KeyInv, AllApart, KeyChain, EnrollsOf, Apart, Id, CrlInv, CrlWriters,
       CrlApart, CrlChain
  <2> QED
    BY <1>2, <2>2, ChannelSteps, ChannelKeepsRole DEF HistoryInv
<1>3. CASE UNCHANGED vars
  <2>1. ScriptsInv'
    BY <1>3 DEF vars, ScriptsInv, Types, CaOK, FilesOK, CrlOK, LedgerOK, RunsOK, Certified, At, Id
  <2>2. OrderOK' /\ KeyInv' /\ CrlInv'
    BY <1>3 DEF vars, OrderOK, At, KeyInv, AllApart, KeyChain, EnrollsOf, Apart, Id, CrlInv,
       CrlWriters, CrlApart, CrlChain
  <2>3. RoleInv'
    BY <1>3 DEF vars, RoleInv, Revoking, Handled, NoneAfter, EnrollsOf, Id
  <2> QED
    BY <2>1, <2>2, <2>3 DEF HistoryInv
<1> QED
  BY <1>1, <1>2, <1>3 DEF Next, RunStep

\* What is known of the runs' order, their keys, roles and lists, always.
LEMMA HistoryInvariance == Spec => []HistoryInv
BY InitHistory, NextHistory, PTL DEF Spec

\* A repeated run of enroll-sensor.sh keeps the first run's key (line 76):
\* unless two runs for the sensor overlapped, its flash package holds the key
\* in its directory, wherever runs were interrupted.
THEOREM PackagedKeys == Spec => []PackagedKeyIsCurrent
<1>1. HistoryInv => PackagedKeyIsCurrent
  BY DEF HistoryInv, KeyInv, AllApart, KeyChain, PackagedKeyIsCurrent
<1> QED
  BY <1>1, HistoryInvariance, PTL

\* Once revoke-cert.sh completed without logging a failure (lines 34-36) and
\* the orderer is empty, the role of a sensor nobody enrolled since is gone,
\* or the transaction was overtaken.
THEOREM RolesRevoked == Spec => []RoleGoneOrOvertaken
<1>1. HistoryInv => RoleGoneOrOvertaken
  <2> SUFFICES ASSUME HistoryInv, NEW r \in Runs, Completed(r, "revoke"), peer, r \notin logged,
                      orderer = <<>>, EnrollsOf(Id(r)) \subseteq run[r].prior
               PROVE  Id(r) \notin ledger.roles \/ r \in lost
    BY DEF RoleGoneOrOvertaken
  <2>1. Handled(r)
    BY DEF HistoryInv, RoleInv, Revoking, Completed, At
  <2>2. 1..Len(orderer) = {}
    OBVIOUS
  <2> QED
    BY <2>1, <2>2 DEF Handled
<1> QED
  BY <1>1, HistoryInvariance, PTL

\* When revoke-cert.sh or generate-crl.sh completes and no other run of them
\* overlapped it, the CRL file is one whole list of everything revoked.
THEOREM CrlComplete == Spec => CrlCompleteWhenDone
<1>1. HistoryInv /\ [Next]_vars =>
        [\A r \in CrlWriters :
            /\ ~At(r, "done") /\ At(r, "done")'
            /\ \A q \in CrlWriters : Apart(q, r)
            => crl' = CrlOf(ca'.revoked)]_vars
  BY DoneIsComplete DEF HistoryInv, CrlApart
<1> QED
  BY <1>1, HistoryInvariance, PTL DEF Spec, CrlCompleteWhenDone
=============================================================================
