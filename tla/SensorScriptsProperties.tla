---------------------- MODULE SensorScriptsProperties ----------------------
(* What the operator's scripts guarantee, run alone or side by side. *)
EXTENDS SensorScripts

Completed(r, script) == At(r, "done") /\ run[r].script = script

\* One of the two runs had ended when the other started.
Apart(q, r) == \/ q = r \/ At(q, "new") \/ At(r, "new")
               \/ q \in run[r].prior \/ r \in run[q].prior

EnrollsOf(i) == {r \in Runs : run[r].script = "enroll" /\ Id(r) = i}
CrlWriters == {r \in Runs : run[r].script \in {"revoke", "crl"}}

\* Type invariant of the CA, the files, the ledger and the runs.
ScriptsTypeOK ==
    /\ ca \in [registered : SUBSET Sensors, issued : SUBSET Sensors,
               revoked : SUBSET Sensors]
    /\ ca.issued \union ca.revoked \subseteq ca.registered
    /\ files \in [Sensors -> [key : Runs \union {NoKey}, csr : Runs \union {NoKey},
                              cert : BOOLEAN, package : Runs \union {NoKey}]]
    /\ crl.content \in {"empty", "list", "mixed"} /\ crl.ids \subseteq ca.revoked
    /\ ledger.roles \subseteq Sensors /\ ledger.height \in Nat
    /\ lost \subseteq Runs /\ logged \subseteq Runs
    /\ \A k \in 1..Len(orderer) : orderer[k].run \in Runs

\* No role is ever committed for a sensor the CA has issued no certificate
\* to, whatever run of enroll-sensor.sh was interrupted where and however
\* runs overlap: the role comes last (lines 77-82).
RolesHaveCertificates == ledger.roles \subseteq ca.issued

\* A repeated run of enroll-sensor.sh keeps the key of the first (line 76):
\* unless two runs for the sensor overlapped, its flash package holds the key
\* that is in its directory, wherever earlier runs were interrupted.
PackagedKeyIsCurrent ==
    \A i \in Sensors :
       /\ \A q, r \in EnrollsOf(i) : Apart(q, r)
       /\ files[i].package # NoKey
       => files[i].package = files[i].key

\* revoke-cert.sh does not wait for its transaction (lines 34-36).  Once it
\* has completed without logging a failure and the orderer is empty, the role
\* of a sensor that nobody enrolled since the run started is gone, or the
\* transaction was overtaken by another one and nothing says so.
RoleGoneOrOvertaken ==
    \A r \in Runs :
       /\ Completed(r, "revoke") /\ peer /\ r \notin logged
       /\ orderer = <<>>
       /\ EnrollsOf(Id(r)) \subseteq run[r].prior
       => Id(r) \notin ledger.roles \/ r \in lost

\* When revoke-cert.sh or generate-crl.sh completes and no other run of them
\* overlapped it, the CRL file is one whole list and names every certificate
\* revoked so far, those of runs that stopped half-way included.
CrlCompleteWhenDone ==
    [][\A r \in CrlWriters :
          /\ ~At(r, "done") /\ At(r, "done")'
          /\ \A q \in CrlWriters : Apart(q, r)
          => crl' = CrlOf(ca'.revoked)]_vars
=============================================================================
