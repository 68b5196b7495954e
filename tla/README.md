# A formal model of the farm's HRBAC system

The repository implements hierarchical role-based access control for a farm
whose sensors report over LoRa and whose readings and permissions live on a
Hyperledger Fabric channel. This directory holds TLA+ modules of that code, the
TLC configurations that check them, and theorems about them proved with TLAPS.

Run a model with `tlc -config <X>.cfg <module>` and check the proofs of a module
with `tlapm <module>.tla`; the theorems are in `HrbacLedgerProofs`,
`GatewayProofs`, `CrtCodeProofs`, `CrtProofs`, `LoRaProofs`, `WebServerProofs`,
`SensorScriptsProofs` and `ToolsProofs`.
`PROJECT.json` lists the runs, maps every
definition to the lines it stands for, and lists the hazards the properties aim at.

## The system

| component | state | operations | talks to |
|---|---|---|---|
| **HRBAC chaincode** (`chaincode/hrbac`) | world state: `role:`, `czt:`, `nonce:`, `audit:`, `sensor:`, `crl:` keys and the lists `nonce:index`, `audit:index` | AssignRole, RevokeRole, RenewRole, CheckAccess, IssueCrossZoneToken, RevokeCrossZoneToken, WriteSensorData, PruneNonces; query GetAuditLog | run by Fabric peers on clients' proposals |
| **Fabric channel** (external) | versions of keys, the chain, transactions in flight | endorse, order, validate, commit | clients, chaincode |
| **Gateway: LoRa reception** (`gateway/lora_rx.py`) | partial assemblies, readings already assembled, queue, one thread per channel | process_packet, expiry, next_reading | sensors; pipeline by callback and queue |
| **Gateway: pipeline and policy cache** (`gateway.py`, `policy_cache.py`) | cached decisions with expiry | handle_reading; get, set, invalidate | receiver, Fabric client, web server |
| **Gateway: Fabric client** (`fabric_client.py`) | nonce and attempt count of a call | retry with back-off under one nonce | peers |
| **CRT code** (`crt_decode.py`, `esp32/main/crt_encode.c`) | none | encode, decode from two or three residues | firmware, receiver |
| **Gateway: web server** (`enrollment_server.py`) | attempts per address, roles, audit list, live readings | enroll, post_role, delete_role, reads | dashboard, sensors; many threads |
| **Firmware** (`esp32/main`) | RTC certificate, eFuse key | wake, sync, check expiry, read, sign, encode, send, sleep | gateway over LoRa |
| **Revocation and enrollment scripts** (`scripts/enroll-sensor.sh`, `revoke-cert.sh`, `generate-crl.sh`) | CA records, identity files, CRL file, ledger | enroll, revoke, generate CRL | CA, orderer, each other through files |
| **Flash package** (`make_flash_package.py`) | none | key extraction, layout | enroll-sensor.sh |
| **Benchmark endpoints** (`paper_benchmarks.py`, `raw_data_api.py`) | CSV and JSON files, read only | validate, summarise, page | dashboard |
| **Comparison with the paper** (`data/comp.py`) and **paper analysis** (`paper_iot/V10/analysis`) | files, read only | verdict, security oracle, claim map, quantisation | each other, the chaincode's tables |

**Not modelled.**

* The RTC certificate store (`esp32/main/cert_store.c`): nothing in the repository
  calls `cert_store_write`, so in every state the program can reach the store is
  empty and a synchronised wake enters enrollment mode.
* The Flask stand-in (`gateway/flask.py`): a test double without `Blueprint`, with
  which the server cannot be imported.
* `register-gateway.sh`, `bootstrap.sh`, `deploy-chaincode.sh` and the network files:
  straight-line provisioning whose state is Fabric's own.
* The dashboard: read-only views of the server's answers.
* The remaining analysis scripts: means, quantiles, tests and effect sizes in
  floating point over data frames, and the text made from them.
* SPI, ADC and one-wire access of the firmware: pure I/O.
* The empty `backend`, `contracts` and `frontend` trees; `src/tla/AccessControl.tla`,
  which is a model and is read as a document the code is compared with.

### What is hard

* **Optimistic concurrency.** A contract function runs on the state at its
  endorsement and its writes are applied later. Every function reads and
  rewrites `audit:index`, so every two calls conflict.
* **Retries and replay.** A nonce makes a call at-most-once only while its record
  stands, and PruneNonces removes records.
* **Deletion inside a check.** CheckAccess deletes an expired assignment, which
  may race with a renewal.
* **Errors discard writes.** Fabric drops all writes of a call that returns an
  error, including audit entries already put.
* **Time.** Timestamps are the clients', not monotone in commit order, and
  truncated to seconds when stored and compared.
* **Threads in the gateway.** Three receiving threads, the drain loop and Flask
  threads share caches, sets and lists; the Flask threads without a lock.
* **Scripts that stop half-way.** Under `set -e` any command may end a run, runs
  are repeated over the files the last one left, and an invoke that reports success
  may be discarded by validation later.

## Modules

| module | models | extends |
|---|---|---|
| `HrbacRoles` | role, permission and zone tables | |
| `HrbacChaincode` | each contract function as `fAccepts(w, tx)` and `fEffect(w, tx)` | `HrbacRoles` |
| `HrbacSerial` | abstract: calls take effect one at a time | |
| `HrbacLedger` | the contract on a Fabric channel | `HrbacChaincode`; refines `HrbacSerial` |
| `HrbacProperties` | the properties of `HrbacLedger` | `HrbacLedger` |
| `HrbacLedgerProofs` | theorems: serial equivalence and the audit trail; nonces, roles, tokens and grants against the history of calls | `HrbacProperties` |
| `AtMostOnceCalls` | abstract: what a caller of a retrying client may rely on | |
| `FabricClient` | the gateway's retry loop, its nonce, and the network behind it | refines `AtMostOnceCalls` |
| `FabricClientProperties` | its properties | `FabricClient` |
| `GatewayReadings` | `handle_reading` in all threads, the policy cache, stop and restart | `FabricClient` |
| `GatewayProperties` | its properties | `GatewayReadings`, `FabricClientProperties` |
| `GatewayProofs` | theorems: the client, then the pipeline | `GatewayProperties` |
| `CrtCode` | the residue code: encoder, both decoders, packing | |
| `CrtCodeProofs` | theorem: the decoders invert the encoder, for any coprime moduli | `CrtCode` |
| `CrtCheck` | the code applied to readings | `CrtCode`, `CrtAnalysis` |
| `CrtProofs` | theorems about the deployed moduli and the corrected ones | `CrtCheck`, `CrtCodeProofs`, which it also instantiates with the corrected moduli |
| `LoRaReceiver` | sensor, lossy channels, receiving threads | `CrtCode` |
| `LoRaProperties`, `LoRaProofs` | its properties; theorems | `LoRaReceiver` |
| `CrtAnalysis` | the analysis' bounds, quantisers and corrected moduli | |
| `WebServer` | the enrollment and dashboard server, thread by thread | |
| `WebServerProperties`, `WebServerProofs` | its properties; theorems, also about subjects whose requests do not overlap | `WebServer` |
| `SensorScripts` | the three scripts, the CA, the files and the channel | |
| `SensorScriptsProperties`, `SensorScriptsProofs` | their properties; theorems | `SensorScripts` |
| `PaperBenchmarks`, `LiveVsPaper` | the dataset's validation; the comparison with it | the latter extends the former |
| `RawDataApi` | the endpoints over the CSV files | |
| `SecurityOracle` | the analysis' role tables and its scoring of denials | `HrbacRoles` |
| `ClaimMap` | the status and action of each claim of the paper | |
| `FlashPackage` | the package of a sensor | |
| `ToolsCheck` | one run of one of these tools, and what its answer must say | instantiates them |
| `ToolsProofs` | theorems: what the answers say of inputs of any length | `ToolsCheck` |
| `MCLedgerRoles`, `MCLedgerAccess`, `MCFabricClient`, `MCGateway`, `MCCrt`, `MCLoRa`, `MCWebServer`, `MCSensorScripts`, `MCTools` | instances for TLC | the properties module of their component |

Operators whose comment begins with "Slip" are wrong versions of the operator
that follows; `PROJECT.json` pairs each property with a slip that violates it.

### The ledger

**State.** `world` is Fabric's world state, `version` the height at which each
key was last put, `log` the committed transactions and `answers` what each of
them answered, `txs` the transactions by identifier, `clock` the clients' clock in
ticks. A key is a tuple whose first component is its prefix.

**Actions.** `Propose` is a client stamping a call with its clock. One action
per contract function (`AssignRole`, `RevokeRole`, ...) is the peer running it:
the guard is the code's early returns, the result a read set with versions, the
puts, the deletes and the answer. `Reject` is a function returning an error.
`Commit` and `Invalidate` are MVCC validation and its outcome, `Abandon` a client
that stops before submitting, `Tick` the clock. Between any two, any other
transaction's step may come.

**Abstractions.** Zones are sets (their stored order is not modelled), the token
identifier is the tuple that is hashed, identity is what the certificate yields,
readings are their nonce and are valid JSON, and one peer endorses. Identities
carry one certificate, so a revoked serial number and a revoked identity are
one. GetAuditLog writes nothing and is an operator of the world and the caller: the
newest entries, or an error for a caller who may not read the log.

### The gateway

**Fabric client.** `call` is the invocation each thread is in, with its attempt;
`net` the requests not carried out yet and the replies under way; `ledger` the
submissions committed. `Invoke`, `Receive`, `Fail`, `Retry` and `Collect` are the
steps of `_invoke`; `Execute` is the network and the contract, which refuses a
nonce it has seen (`validateNonce`). A request that its caller gave up may still be
carried out. `calls` keeps the history the properties speak about. Records of
nonces are not pruned here: what pruning does to them is `HrbacLedger`'s subject.
The client calls `SubmitSensorReading`, which the chaincode has not; what the
deployed invoker makes of it is outside the repository, and the model assumes a
contract call that commits a reading and checks the nonce.

**Pipeline.** `work` is where each thread stands in `handle_reading`; `Publish` is a
receiving thread that queues a reading and calls back, `Drain` the main thread
taking it from the queue to handle it again. Both loops look at the stop event at
their top only (`LoopOn`), so a thread that waits for a reading when the event is set
still handles the next one. `LookupHit`, `LookupMiss`, `Remember`,
`Submit`, `Discard`, `Show`, `Reject` and `Raise` are the steps of `handle_reading`
between which other threads run. An exception ends a receiving thread, and in
the main thread the process; `Restart` starts it afresh with an empty cache,
as DECISIONS.md:24 has it. `policy` is the decision the ledger would give, and since
when; a submission is judged by the gateway's own permission, which is left open.

**Time.** A tick passes only when no thread is computing, and an answer reaches
its caller, or is given up, within `MaxLatency`. Both are assumptions: the code
sets no time limit of its own on the invoker.

### The residue transport

**Code.** `decode` is the gateway's formula, `crt_decode` the firmware's search.
Residues are functions on the indices that arrived.

**Receiver.** `sensor` is the residue the device sends next, `wakes` its history,
`channel` the packets each thread has still to receive. `TransmitResidue` lets a
residue arrive as it is or altered (the radio sends without CRC: to zero, which
is a residue, or to a byte that is none), `LoseResidue` loses it. `Sleep` is the end
of `app_main`; after it the device wakes when `SleepCycle` is over (30 minutes in
main.c:24, at least the timeout). `Reboot` is a failed `ESP_ERROR_CHECK` or a power
cut, at any moment: it skips what is left of the cycle, its sleep included, and the
next `Wake` comes at once. The id is drawn at random in every cycle, so any key may
come up again, after a sleep or after a reboot. `Receive` is `process_packet` up to
the release of the lock, `Deliver` what follows, `Expired` the 60 seconds.

### The web server

`pending` is the queue of the socket, `thread` where each thread stands, `attempts`,
`roles` and `audit` the data `create_app` makes and all threads share; `answers`,
`decided` and `met` are history. `rate_limited` is cut at every operation on the
deque (`ReadClock`, `Check`, `Peek`, `Pop`, `Count`, `Record`), `post_role` and
`delete_role` at every operation on the dictionary and the list; one such operation
is atomic under the interpreter's lock, and nothing more is. An exception is an
answer of 500. Requests are told apart by what the handlers do with them (`Bodies`):
no object, wrong zone, incomplete, a `user_id` that cannot be a key, valid; a user may
be a string or a number (`Numbers`). The routes that only read are one action: what
they answer is there, is not, holds a malformed number (a `limit`, a cell of a file),
or is ROLES, which jsonify cannot sort once its users are strings and numbers both
(`Unsortable`).

### The scripts

Every run is a process with a place (`run`), and all share the CA, each sensor's
files, the CRL file, the orderer and the ledger. `Stop` is a command that fails under
`set -e`, or an interrupt, anywhere. A failed lookup reads as "not registered".
`peer chaincode invoke` is called without `--waitForEvent`: it answers when the
transaction is handed to the orderer, and `Commit` validates it later, discarding
one that any other commit overtook (`lost`). The shell empties the CRL file when it
opens it, two runs may write into each other's list (`mixed`), and UpdateCRL, which
the contract does not have, fails and is only logged. `prior` remembers which runs
had ended when a run started, so that properties can speak of runs that overlapped.

### The tools

A tool is a function of its input, so `ToolsCheck` runs one of them on one input and
the properties relate its answer to the input, to another tool or to the
chaincode. Tables are sequences of records, numbers count hundredths, quotients
stay pairs, a missing file or blank cell is `Nil` and a cell that is no number `Bad`,
on which the raw data endpoints answer 500. The counts of the security file are
looked for in two pairs of columns, as the code does, and the counts `main` of the claim
map expects are inputs of their own beside the values of the paper. TLC runs
`FlashPackage` on byte sequences shorter than the real ones and `ClaimMap` on four
claims that stand for the kinds of output; the theorems hold for any lengths and for all 50 claims.

## Runs

| run | asks | bounds |
|---|---|---|
| `ledger_roles` | types; `audit:index` decides validation; the trail is exact; the log window and who may read it; grants are justified; no role is lost; serial equivalence; conflicts mean progress | 4 transactions, 2 in flight, 4 times |
| `ledger_access` | grants by token are justified; a nonce is used once between prunes; the index is exact | 4 transactions, 2 in flight, 4 times, two ticks to the second |
| `fabric_client` | calls take effect at most once, what the caller is told is true, and every invocation ends | 2 threads, 2 invocations, 3 attempts |
| `gateway_cache` | types, the client's included; how stale a decision may be | 2 threads, 2 readings of one key, 3 invocations, times 0 to 4, TTL 2, latency 1 |
| `gateway_handling` | live readings are committed; at most two commits each; the queue drains | 2 readings, one with a malformed signature, 2 attempts, all 4 invocations the other's two handlings make |
| `crt` | both decoders, the packing, and the correction the analysis proposes | the moduli 97, 101, 103; boundary measurements and readings, 26 spread over the range |
| `lora` | delivered once, as measured; when residues of two cycles can meet; how many residues in time are enough; loss stops no thread | 2 wake cycles, 2 keys, reboots anywhere, 1 altered packet, times 0 to 3, timeout and sleep cycle 2 |
| `web_server` | types; the deque's bound; the limit without overlap; what causes an internal error; the audit list, without overlap and with it; every request is answered | 2 threads, limit 2, window 2, times 0 to 3, batches of enrollments of one caller, of changes to one user, and of roles for a string and a number |
| `sensor_scripts` | types; no role without certificate; the package's key; the role after a revocation; the CRL file | 2 sensors, 3 runs, 1 transaction of others |
| `tools` | the verdict of the comparison; the endpoints agree; the oracle is the chaincode; every claim has an action; the package is exact | boundary values of every limit, missing files, columns and rows, unreadable cells, seeds of 3 bytes |

Two runs end in a violation; each shows a statement of the repository the code
does not keep:

| run | statement | what happens |
|---|---|---|
| `unaudited_denial` | every access attempt is audited (implementation.tex:8) | a denied `WriteSensorData` returns an error and Fabric drops its entry |
| `crt_limit` | accepted values are unambiguous (DECISIONS.md:16) | `CRT_MAX_VALUE` is 1009591, the product is 1009091; the static assertion crt_encode.c:8 fails |

Lesser differences between documents and code, and peculiarities of the code,
have no run of their own; the passing properties state what the code does:

* a nonce is accepted again after `PruneNonces` (`NonceUsedOnce`), while
  DECISIONS.md:34 says that reusing one is rejected;
* a token is refused in the second of its expiry, in which a role is still good
  (`GrantsJustified`), while tla/AccessControl.tla:73 counts it active;
* the start of an assignment is never compared, so a call stamped before it and
  ordered after it is granted, while design.tex:88 has a role active from its start;
* exposure to a revocation is bounded by the TTL and the latency of the answer
  (`StaleDecisionBounded`), while policy_cache.py:20 names the TTL alone, and the
  expiry counts from when the answer arrived;
* two residues give a reading back only below the product of their moduli
  (`DecodeIsReading`), while test_crt.c:38 and DECISIONS.md:17 say any two do; a
  reading whose 16-bit id was used before is dropped (`LossIsTolerated`);
* a reboot skips the deep sleep: when the id it draws was drawn within the timeout
  before, residues of two measurements can be decoded together
  (`DeliveredIsMeasured`), and two timely residues can fall on either side of the end
  of the old assembly and give nothing (`LossIsTolerated`), while DECISIONS.md:17 has
  any two received residues recover the reading;
* a POST that gives a role to a number, next to one to a string, makes every later
  GET /api/roles fail, and no DELETE removes the number (`ErrorsHaveCause`);
  overlapping changes of one user are audited in another order than they took effect
  (`AuditReplays`);
* the block rate compared with the paper is the first stated one, whatever later
  rows say (comp.py:116), and `blocked_attempts` counts every attempt, blocked or not;
* a PKCS#8 key whose seed holds the bytes 04 20 is refused (`PackageExact`);
* the request `generate_csr` makes is passed to no command; a repeated
  enroll-sensor.sh gives a revoked sensor its role back; a RevokeRole overtaken by
  another transaction is lost and nothing says so (`RoleGoneOrOvertaken`).

**Bounds and why they are enough.** The hazards of the ledger are races of two
transactions, and two in flight with two more before or after them give every
order of read, commit and conflict. A role's or
token's life needs a time before, at and after its expiry, and two ticks to
the second where truncation matters. The retry loop's hazard is a first attempt
that is carried out late and a second one; the third shows a replay answered
twice. The cache needs one thread's answer to travel while another asks, one
expiry and a use at the boundary, for which times 0 to 4 suffice with TTL 2. Two
wake cycles under one key are what meets in one assembly: after a sleep the second
starts exactly when the first assembly expires, the worst case `SleepCycle >= Timeout`
allows, and after a reboot at any time before. With timeout 2, times 0 to 3 let a
residue of the first cycle come at 0 and two of the second on either side of the expiry
at 2; `lora` uses symmetry of the keys, of which its properties treat all alike. A race on the deque needs
two threads, a full deque and an attempt that leaves the window, which limit 2,
window 2 and times 0 to 3 give. Three runs of the scripts let one run be
interrupted, one repeat it and one overlap both. Except for liveness, the theorems
below cover every value of these bounds. The bounds on
transactions, calls, wake cycles and the clock make every model stop, which is
why the configurations turn the deadlock check off (`CrtCheck` never stops and
keeps it). Runs use symmetry of transaction names only where no temporal
property with fairness is checked.

**Fairness.** `ClientFairSpec` lets each attempt end, by a reply or an exception,
and each sleep end (fabric_client.py:70-80: there is no other wait in the loop).
`FairSpec` of the pipeline lets each thread run; a main thread that has raised
ends the process, and that it comes up again is the supervisor's part.
Nothing is assumed of peers: an answer may never come. `FairSpec` of the web server
lets the scheduler run each thread that can take a step (`run(threaded=True)`); no
step of a handler waits. The scripts have no liveness property: a run may stop anywhere.

## What is proved

The theorems hold for every value of the constants: any subjects, calls, threads,
readings, runs, files, limits, timeouts and clock bounds. Each theorem is about the
same specification and the same property the runs check, and every invariant that a
passing run checks is the property of a theorem.

**The ledger** (`HrbacLedgerProofs`)

| theorem | establishes |
|---|---|
| `Invariance`, `HistoryInvariance`, `IndexInvariance` | the inductive invariants `IInv`, `HistoryInv`, `IndexInv` |
| `AuditIndexDecides` | an endorsed transaction is valid exactly while the version of `audit:index` it read is current |
| `ConflictsAreOvertaken` | a transaction is invalidated only when another committed after its endorsement |
| `LedgerIsSerial` | `HrbacLedger` implements `HrbacSerial`: the contract one call at a time |
| `AuditTrail` | `audit:index` names exactly the committed transactions, in commit order, and each entry is right |
| `WindowIsNewest` | `GetAuditLog` shows exactly the newest entries, up to the window, to those who may read them and to nobody else |
| `NoncesUsedOnce` | between two calls with one nonce, PruneNonces removed its record |
| `NonceIndexed` | `nonce:index` lists recorded nonces, each once, and leaves out only those of PruneNonces itself |
| `GrantsAreJustified` | every grant rests on an assignment, a permission and an open zone or token in force |
| `RolesKept` | an assignment stands until it is revoked or an access check finds it expired |
| `LedgerTypes` | `TypeOK`: every key holds a value of its kind |

**The gateway** (`GatewayProofs`)

| theorem | establishes |
|---|---|
| `SubmitterInvariance`, `ClientTypes`, `GatewayInvariance` | the inductive invariants and the client's types |
| `InvokeAtMostOnce` | `FabricClient` implements `AtMostOnceCalls`: a submission commits at most once and the caller is told the truth |
| `GatewayTypes` | `GatewayTypeOK`: pipeline, client and cache fit together |
| `DecisionsAreRecent` | a decision acted on was the ledger's less than TTL plus latency ago |
| `LiveReadingsCommitted` | each reading shown was committed for it, and a reading commits at most twice |

**The residue code** (`CrtCodeProofs`, `CrtProofs`) **and the receiver** (`LoRaProofs`)

| theorem | establishes |
|---|---|
| `DecodeInverts` | for any pairwise coprime moduli the gateway's formula gives a reading back modulo the product of the moduli that arrived |
| `DecodeIsReadingAlways` | `DecodeIsReading`: so it does with the deployed moduli, and the firmware's search finds the same on every two residues |
| `SensorValuesAlwaysSurvive` | `SensorValuesSurvive`: any soil count and any temperature is packed within the encoder's limit, read back within its range, and packed alike by the analysis |
| `CorrectedAlwaysRecovers` | `CorrectedRecovers`: the correction recovers every reading of its domain from any two residues, within the stated errors |
| `LoRaInvariance` | the inductive invariant `LoRaInv` |
| `ReceiverTypes` | `ReceiverTypeOK` |
| `KeysDeliveredOnce` | no key is delivered twice |
| `ReadingsAreMeasured` | a reading from unaltered packets is what one wake cycle measured, modulo the product of the moduli that arrived; cycles mix only when one id is drawn again within the timeout and each cycle in between ended in a reboot |
| `LossTolerated` | unaltered packets stop no thread, and two residues of a cycle in time give its key a reading; three are needed where a reboot drew the id again within the timeout |

**The web server** (`WebServerProofs`) **and the scripts** (`SensorScriptsProofs`)

| theorem | establishes |
|---|---|
| `WebTypes` | `WebTypeOK`: the shared data keep their types |
| `DequeBounded` | a caller's deque exceeds the limit by less than the number of threads |
| `AloneInvariance` | the inductive invariant `AloneInv` |
| `ErrorsExplained` | an internal error lies in the request's own body, user or number, in ROLES given to a number and a string, or in an overlap about one subject |
| `LimitExact` | without overlap the rate limit is exact |
| `AuditReplayed` | without overlap the audit list replays to the role held; with it, the role held is that of an entry which fewer others follow than there are threads |
| `ScriptsTypes` | `ScriptsTypeOK`: the CRL file, for one, never names a certificate that is not revoked |
| `CertificateBeforeRole` | a role on the ledger belongs to a sensor the CA issued a certificate to |
| `PackagedKeys` | without overlap the package holds the key in the sensor's directory |
| `RolesRevoked` | after a clean revocation the role is gone, or the transaction was overtaken |
| `CrlComplete` | without overlap a completed run leaves one whole list in the CRL file |

**The tools** (`ToolsProofs`)

| theorem | establishes |
|---|---|
| `VerdictsAlwaysSound` | `VerdictSound`: what a strict comparison that exits with 0 shows, for files of any length; a dataset that validates passes when measured again exactly |
| `EndpointsAlwaysAgree` | `EndpointsAgree`: counts, sums, refusals and failures of the endpoints agree, and a page is a prefix of its file |
| `OracleAlwaysChaincode` | `OracleIsChaincode`: any sequence of attempts is scored against what the chaincode's tables grant |
| `ClaimsAlwaysAct` | `EveryClaimActs`, for all 50 claims and any values of their type; that a match is no difference, while the count `main` expects is the paper's |
| `PackagesAlwaysExact` | `PackageExact`, for certificates, keys and zones of any length |

**Assumptions.** All are named, and TLC evaluates them on the runs of their models.

* `ConstantsAssumption` (HrbacChaincode) and `LedgerAssumption` (HrbacLedger): a
  second has ticks, calls name contract functions, an expiry that is given is a
  time, and clocks start after the first second of the epoch, so that no
  committed time is the zero that stands for "no expiry".
* `ClientAssumption` (FabricClient): at least one attempt. `GatewayAssumption`
  (GatewayReadings): the main thread is a thread, readings have keys, the time to
  live is positive.
* `CrtAssumption` (CrtCode): moduli above one, pairwise coprime. `ReceiverAssumption`
  (LoRaReceiver): a positive timeout, a deep sleep no shorter (nothing is assumed of a
  reboot), measured values are naturals, an altered byte may exceed the moduli.
* `ServerAssumption` and `RequestAssumption` (WebServer): finitely many threads, a
  positive limit and window, requests of the kinds the routes serve, a
  delete naming its user by a string.
* `RunsAreNoKey` (SensorScripts): the value for "no key" is not a run.
* `CheckAssumption` (CrtCheck): the moduli are the deployed ones, readings are
  naturals, soil counts naturals and temperatures integers, and the encoder's limit
  is at least the number of packed values. `DecodeInverts` does without it.
* `PackageAssumption` (FlashPackage) and `InputAssumption` (ToolsCheck): what a file is.
  A table that is there is a sequence; a cell that can be read as a number holds an
  integer (hundredths, as the paper's values are whole); no more attempts are blocked
  than made; durations are not negative; a claim is one of the 50 and its getter
  yields what its row says; a seed has the length of an Ed25519 key, and the name of a
  zone no zero byte. `Nil`, the mark of what is absent, is none of the values.

### The arguments

**Serial equivalence.** Validation compares versions of all keys read, and serial
equivalence is about values. The bridge is that every contract function puts
`audit:index`, so that key's version is the height of the chain: if it is the one a
transaction read, nothing at all was committed since its endorsement.
`IInv` says so in three parts: the chain's height and the index's version agree
(`Chain`), each transaction in flight has the reads and writes of a contract call
(`Shape`), and one whose index version is current holds exactly what the contract
would do now (`Faithful`). `Serializable` alone is not inductive, because it says
nothing of transactions not yet committed. `AuditTrail` needs in addition that
a transaction identifier commits once (`AuditInv`).

**The history.** By `Faithful`, a commit does to the world what the contract would do
to it now, so the properties of the history reduce to one call on one world
(`RoleAfter`, `TokenAfter`, `IndexAfter` say what it makes of a role, a token, the
index). `GrantsJustified` and `RolesKeptUntilRevoked` speak of the calls in the chain
and are not inductive: a later check reads the world. `RoleInv` and `TokenInv` tie the
two together: a recorded role is the latest assignment with the latest expiry set
for it, one no longer recorded was revoked or lapsed, and a recorded token was issued
so and not revoked since. `NonceInv` does the same for nonces: one used and not pruned
is recorded with the second of its use. `KindInv` gives each prefix its kind of value.

**The loops of the chaincode.** PruneNonces and GetAuditLog filter a list in a loop
(`Sifted`, a recursive function). What the loop computes is proved without an induction
rule: the positions at which it could go wrong have a smallest member
(`SmallestMember`), and one step of the loop contradicts it.

**The client.** Uniqueness of entries is not enough: a request given up may still be
carried out, and a reply may come from an earlier attempt. `ClientInv` therefore says
that a request carries its invocation's own nonce, that no two threads are in one
invocation, that an answer reporting a commit or a replay belongs to an invocation
with an entry, and that what was told is so. The refinement maps an invocation's
effects to its number of entries, which is zero or one.

**The pipeline.** A decision is followed from the ledger through the reply
(`Travelling`: it was the ledger's when it was made), the thread that got it
(`Answered`: a latency ago at most), the cache (`Stored`: an entry that is no longer the
ledger's expires within TTL plus latency of the change) to the thread that acts
(`Current`). For the readings shown a function names a distinct returned submission
for each (`Shown`), and another the way, callback or queue, by which each submission
came (`Ways`), each of which brings a reading once.

**The receiver.** The danger is a key that comes up again. `Cycles` says that two cycles
lie a sleep cycle apart, or that the earlier and all between them ended in a reboot;
`Ordered` that a channel and the assembly keep the order of the cycles; `Fed` that every
cycle in an assembly woke within the timeout of the first residue, so that cycles which
a sleep parts cannot meet in it. `Readings` gives each assembled key one reading, under
way or delivered. For losses, `NothingLost` follows every cycle: its key has a reading,
or it was promised none, or it is young and `Traced`: of its residues at most one went
into an assembly begun before it woke, which may expire with it, and none did if no
earlier cycle of the key was near. So of two residues then, and of three always, two are
on the air or in an assembly that outlives the cycle.

**The residue code.** The decoder multiplies by an inverse that `mod_inverse` searches
for, so its existence comes first: of the positive combinations of two moduli there
is a smallest (`SmallestMember`), it divides both, so for coprime moduli it is 1.
Then the decoder's sum and the reading leave the same remainder for each modulus,
their difference is a multiple of each and, the moduli being coprime, of the product
(`Multiple`). The firmware's search stops at the one number below the product of two
moduli that has both residues. `CrtProofs` uses the same lemmas for the corrected
moduli, of which each two are coprime and multiply to more than the legal domain.

**The server.** That the deque is bounded is not inductive: a thread that has passed the
check appends later. `Room` therefore counts the attempts together with the threads
already let through (`Passed`): the sum exceeds the limit by at most the threads less
one, because a thread passes only while the deque is below the limit and is then one
of those counted. `AloneInv` is about subjects whose requests never met: what a thread
found before each step still holds (`Undisturbed`, `Sifted`), the audit list replays
but for a thread that owes its entry (`Audits`), and the deque, with the attempt let
through and not appended yet, is ordered, names its decisions one to one and lacks
only those out of the window for good (`Deques`). For subjects whose requests did meet,
`Accounted` says of the role held that a thread still owes its entry, or that its entry
is there and those after it, with the entries still owed, are fewer than the threads;
`Known` ties a role held to the entry or the thread that set it, which is what an error
of GET /api/roles is explained by.

**The scripts.** `Certified` follows a role on its way: a run past the enroll command,
a transaction at the orderer and a role on the ledger all belong to a sensor with a
certificate, and the CA never forgets one it issued. The other three need what each
place of a run has already done and that runs which do not overlap have ended
before (`KeyInv`, `RoleInv`, `CrlInv`).

**The tools.** `ToolsInvariance` reduces each property to a lemma about one input.
Sums and counts over a table are folds over sets, about which no induction rule can be
used: `SumOf` says of a function on the subsets that it follows the fold, and that two
such functions agree, or one bounds the other, is shown on a smallest subset where
they would not (`SumsCompare`, `SumUnique`, `FibresSum`). So a mean in the range has a
figure at or above its lower end (`SomeAtLeastMean`), and as many attempts blocked as
made are so row by row (`AllBlocked`). A package is a concatenation whose parts are
read back by their offsets (`Layout`, `PackageReads`); the marker of the key file has a
last occurrence, which is the header unless the seed holds one (`KeyExtracted`). The
oracle's copied tables are compared with the chaincode's role by role (`SameTables`).

### Model-checked only

* Liveness under fairness: `EveryInvocationEnds`, `QueueDrains`, `EveryRequestAnswered`. The
  prover does not reason about fairness and `ENABLED`.
* The two runs that end in a violation, which refute a statement and prove none.

## Plan

1. The receiver's `Deliver` composed with `GatewayReadings`, and the client's `Execute`
   with `HrbacLedger`, so that pruning and retries meet.
2. Two endorsing peers, so that the order in which `normalizeZones` stores the zones
   (contract.go:540) can differ between them.
