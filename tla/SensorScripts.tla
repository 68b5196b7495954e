--------------------------- MODULE SensorScripts ---------------------------
(***************************************************************************)
(* The operator's shell scripts: enroll-sensor.sh, revoke-cert.sh and      *)
(* generate-crl.sh.  Every run is a process of its own; all of them share  *)
(* the Fabric CA, the identity files, the CRL file and the ledger.         *)
(*                                                                         *)
(* All three scripts start with "set -e": a command that fails ends the    *)
(* run where it stands, and so does an interrupt.  Both are the action     *)
(* Stop.  "peer chaincode invoke" is called without --waitForEvent, so it  *)
(* answers when the transaction is endorsed and handed to the orderer; the *)
(* transaction is validated later, and one whose reads were overtaken is   *)
(* discarded.  AssignRole and RevokeRole both read and write the audit     *)
(* index (writeAuditEntry), so any two of them endorsed at the same height *)
(* conflict.                                                               *)
(***************************************************************************)
EXTENDS Naturals, Sequences, FiniteSets

CONSTANTS Sensors,       \* enrollment ids given to the scripts
          Runs,          \* runs of the scripts
          MaxOther       \* transactions of other clients

VARIABLES ca,            \* what the CA has registered, issued and revoked
          files,         \* identity files of each sensor
          crl,           \* network/crl/farm-ca-crl.pem
          orderer,       \* transactions handed to the orderer, in order
          ledger,        \* height and role assignments of the channel
          lost,          \* runs whose transaction was discarded
          logged,        \* runs that logged a failed role revocation
          peer,          \* is the peer command installed
          run,           \* where each run is, and (history) which runs
                         \* had ended when it started
          others         \* transactions of other clients so far

vars == <<ca, files, crl, orderer, ledger, lost, logged, peer, run, others>>

\* Keys are told apart by the run that generated them.
NoKey == "no key"

ASSUME RunsAreNoKey == NoKey \notin Runs

NoFiles == [key |-> NoKey, csr |-> NoKey, cert |-> FALSE, package |-> NoKey]

\* The CRL file is empty, one list, or one list written over another.
EmptyCrl == [content |-> "empty", ids |-> {}]
MixedCrl == [content |-> "mixed", ids |-> {}]
CrlOf(ids) == [content |-> "list", ids |-> ids]

Init == /\ ca = [registered |-> {}, issued |-> {}, revoked |-> {}]
        /\ files = [i \in Sensors |-> NoFiles]
        /\ crl = EmptyCrl
        /\ orderer = <<>>
        /\ ledger = [height |-> 0, roles |-> {}]
        /\ lost = {} /\ logged = {}
        /\ peer \in BOOLEAN
        /\ run = [r \in Runs |-> [script |-> "none", id |-> "none", pc |-> "new",
                                  crl |-> {}, prior |-> {}]]
        /\ others = 0

Ended == {"new", "done", "stopped"}
Active(r) == run[r].pc \notin Ended
At(r, pc) == run[r].pc = pc
Id(r) == run[r].id
GoTo(r, pc) == run' = [run EXCEPT ![r].pc = pc]

Start(r) ==
    /\ At(r, "new")
    /\ \E i \in Sensors, s \in {"enroll", "revoke", "crl"} :
          run' = [run EXCEPT ![r] = [script |-> s, id |-> i, crl |-> {},
                     prior |-> {q \in Runs : run[q].pc \in {"done", "stopped"}},
                     pc |-> CASE s = "enroll" -> "lookup"
                              [] s = "revoke" -> "revoke"
                              [] s = "crl" -> "open"]]
    /\ UNCHANGED <<ca, files, crl, orderer, ledger, lost, logged, peer, others>>

\* A command fails, or the operator interrupts the run.
Stop(r) == /\ Active(r)
           /\ GoTo(r, "stopped")
           /\ UNCHANGED <<ca, files, crl, orderer, ledger, lost, logged, peer,
                          others>>
-----------------------------------------------------------------------------
(* enroll-sensor.sh *)

\* In the condition of an if, a CA that does not answer reads as "not found".
Lookup(r) ==
    /\ At(r, "lookup")
    /\ \/ Id(r) \in ca.registered /\ GoTo(r, "files")
       \/ GoTo(r, "register")
    /\ UNCHANGED <<ca, files, crl, orderer, ledger, lost, logged, peer, others>>

Register(r) ==
    /\ At(r, "register")
    /\ Id(r) \notin ca.registered
    /\ ca' = [ca EXCEPT !.registered = @ \union {Id(r)}]
    /\ GoTo(r, "files")
    /\ UNCHANGED <<files, crl, orderer, ledger, lost, logged, peer, others>>

\* Slip: new key files on every run.
HasKeyFilesNever(i) == FALSE

HasKeyFiles(i) == files[i].csr # NoKey /\ files[i].key # NoKey

CheckFiles(r) ==
    /\ At(r, "files")
    /\ GoTo(r, IF HasKeyFiles(Id(r)) THEN "cert" ELSE "key")
    /\ UNCHANGED <<ca, files, crl, orderer, ledger, lost, logged, peer, others>>

\* generate_csr: the key file first, then the request signed with the key
\* that is in the file by then.
GenerateKey(r) ==
    /\ At(r, "key")
    /\ files' = [files EXCEPT ![Id(r)].key = r]
    /\ GoTo(r, "csr")
    /\ UNCHANGED <<ca, crl, orderer, ledger, lost, logged, peer, others>>

GenerateCsr(r) ==
    /\ At(r, "csr")
    /\ files' = [files EXCEPT ![Id(r)].csr = files[Id(r)].key]
    /\ GoTo(r, "cert")
    /\ UNCHANGED <<ca, crl, orderer, ledger, lost, logged, peer, others>>

\* Slip: a failed enroll command is ignored.
EnrollOrNot(r) ==
    /\ At(r, "cert")
    /\ GoTo(r, "package")
    /\ UNCHANGED <<ca, files, crl, orderer, ledger, lost, logged, peer, others>>

\* The CA refuses to enroll an identity it has revoked: the run then stops.
Enroll(r) ==
    /\ At(r, "cert")
    /\ \/ /\ files[Id(r)].cert
          /\ UNCHANGED <<ca, files>>
       \/ /\ ~files[Id(r)].cert
          /\ Id(r) \in ca.registered \ ca.revoked
          /\ ca' = [ca EXCEPT !.issued = @ \union {Id(r)}]
          /\ files' = [files EXCEPT ![Id(r)].cert = TRUE]
    /\ GoTo(r, "package")
    /\ UNCHANGED <<crl, orderer, ledger, lost, logged, peer, others>>

MakePackage(r) ==
    /\ At(r, "package")
    /\ files' = [files EXCEPT ![Id(r)].package = files[Id(r)].key]
    /\ GoTo(r, "assign")
    /\ UNCHANGED <<ca, crl, orderer, ledger, lost, logged, peer, others>>

\* peer chaincode invoke: endorsed at the present height, then ordered.
Invoke(r, op) == orderer' = Append(orderer,
                    [op |-> op, id |-> Id(r), run |-> r, height |-> ledger.height])

AssignRole(r) ==
    /\ At(r, "assign")
    /\ peer
    /\ Invoke(r, "AssignRole")
    /\ GoTo(r, "done")
    /\ UNCHANGED <<ca, files, crl, ledger, lost, logged, peer, others>>
-----------------------------------------------------------------------------
(* revoke-cert.sh *)

\* Slip: an id the CA does not know is revoked too.
RevokeAnyone(r) ==
    /\ At(r, "revoke")
    /\ ca' = [ca EXCEPT !.revoked = @ \union {Id(r)}]
    /\ GoTo(r, "role")
    /\ UNCHANGED <<files, crl, orderer, ledger, lost, logged, peer, others>>

\* The CA knows the identity, or the command fails.
RevokeAtCa(r) ==
    /\ At(r, "revoke")
    /\ Id(r) \in ca.registered
    /\ ca' = [ca EXCEPT !.revoked = @ \union {Id(r)}]
    /\ GoTo(r, "role")
    /\ UNCHANGED <<files, crl, orderer, ledger, lost, logged, peer, others>>

\* Slip: "|| true" in place of "|| log".
RevokeRoleSilently(r) ==
    /\ At(r, "role")
    /\ (peer /\ Invoke(r, "RevokeRole")) \/ UNCHANGED orderer
    /\ GoTo(r, "open")
    /\ UNCHANGED <<ca, files, crl, ledger, lost, logged, peer, others>>

\* Without the peer command the role is left; a failed invoke is logged.
RevokeRole(r) ==
    /\ At(r, "role")
    /\ \/ peer /\ Invoke(r, "RevokeRole") /\ UNCHANGED logged
       \/ peer /\ logged' = logged \union {r} /\ UNCHANGED orderer
       \/ ~peer /\ UNCHANGED <<orderer, logged>>
    /\ GoTo(r, "open")
    /\ UNCHANGED <<ca, files, crl, ledger, lost, peer, others>>
-----------------------------------------------------------------------------
(* generate-crl.sh, on its own or at the end of revoke-cert.sh *)

\* Slip: the file is opened without emptying it.
OpenCrlKeeping(r) ==
    /\ At(r, "open")
    /\ GoTo(r, "gencrl")
    /\ UNCHANGED <<ca, files, crl, orderer, ledger, lost, logged, peer, others>>

\* "> CRL_PEM": the shell empties the file before the command runs.
OpenCrl(r) ==
    /\ At(r, "open")
    /\ crl' = EmptyCrl
    /\ GoTo(r, "gencrl")
    /\ UNCHANGED <<ca, files, orderer, ledger, lost, logged, peer, others>>

\* The CA answers with what it has revoked.
GenCrl(r) ==
    /\ At(r, "gencrl")
    /\ run' = [run EXCEPT ![r] = [@ EXCEPT !.pc = "write", !.crl = ca.revoked]]
    /\ UNCHANGED <<ca, files, crl, orderer, ledger, lost, logged, peer, others>>

\* Written from the start of the file: over a list another run wrote since,
\* the longer of the two may stick out.
WriteCrl(r) ==
    /\ At(r, "write")
    /\ \/ crl' = CrlOf(run[r].crl)
       \/ crl # EmptyCrl /\ crl' = MixedCrl
    /\ GoTo(r, "update")
    /\ UNCHANGED <<ca, files, orderer, ledger, lost, logged, peer, others>>

\* UpdateCRL is no function of the contract: where the peer command is
\* installed, the invoke fails, which is logged and ends the run all the same.
UpdateCrl(r) ==
    /\ At(r, "update")
    /\ GoTo(r, "done")
    /\ UNCHANGED <<ca, files, crl, orderer, ledger, lost, logged, peer, others>>
-----------------------------------------------------------------------------
(* The channel *)

Applied(tx) == IF tx.op = "AssignRole" THEN ledger.roles \union {tx.id}
                                       ELSE ledger.roles \ {tx.id}
Overtaken(tx) == tx.height # ledger.height

Commit ==
    /\ orderer # <<>>
    /\ LET tx == Head(orderer) IN
         \/ /\ ~Overtaken(tx)
            /\ ledger' = [height |-> ledger.height + 1, roles |-> Applied(tx)]
            /\ UNCHANGED lost
         \/ /\ Overtaken(tx)
            /\ lost' = lost \union {tx.run}
            /\ UNCHANGED ledger
    /\ orderer' = Tail(orderer)
    /\ UNCHANGED <<ca, files, crl, logged, peer, run, others>>

\* A transaction of a gateway or an auditor is committed.
OtherCommit ==
    /\ others < MaxOther
    /\ others' = others + 1
    /\ ledger' = [ledger EXCEPT !.height = @ + 1]
    /\ UNCHANGED <<ca, files, crl, orderer, lost, logged, peer, run>>

EnrollStep(r) == \/ Lookup(r) \/ Register(r) \/ CheckFiles(r) \/ GenerateKey(r)
                 \/ GenerateCsr(r) \/ Enroll(r) \/ MakePackage(r) \/ AssignRole(r)
RevokeStep(r) == RevokeAtCa(r) \/ RevokeRole(r)
CrlStep(r) == OpenCrl(r) \/ GenCrl(r) \/ WriteCrl(r) \/ UpdateCrl(r)

Next == \/ \E r \in Runs : \/ Start(r) \/ Stop(r) \/ EnrollStep(r)
                           \/ RevokeStep(r) \/ CrlStep(r)
        \/ Commit
        \/ OtherCommit

Spec == Init /\ [][Next]_vars
=============================================================================
