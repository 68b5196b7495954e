----------------------------- MODULE ToolsCheck -----------------------------
(* The repository's tools that compute an answer from their input: one     *)
(* action runs one of them on one input, and the properties relate the     *)
(* answer to the input, to another tool, or to the chaincode.              *)
EXTENDS FlashPackage, FiniteSets

CONSTANTS PageDefault, PageMost, Bad,
          Comparisons, FilesTried, PagesTried, AttemptsTried, ClaimsTried,
          PackagesTried   \* the inputs tried

Bytes == 0..255

Comp   == INSTANCE LiveVsPaper
Raw    == INSTANCE RawDataApi
Oracle == INSTANCE SecurityOracle
Claims == INSTANCE ClaimMap

-----------------------------------------------------------------------------
(* A file that is read is absent or a sequence of rows.                     *)
Table(t) == t = Nil \/ t \in Seq({t[i] : i \in DOMAIN t})

IsCell(cell) == Comp!Readable(cell) => cell.value \in Int

(* No more attempts are blocked than are made.                              *)
SecurityCounts(count) ==
  /\ IsCell(count.blocked) /\ IsCell(count.attempts)
  /\ Comp!Readable(count.blocked) /\ Comp!Readable(count.attempts)
       => count.blocked.value <= count.attempts.value

LiveResults(live) ==
  LET throughput == Comp!Rows(live.throughput)
      latency == Comp!Rows(live.latency)
      counts == Comp!Counts(Comp!Rows(live.security))
  IN  /\ DOMAIN live = {"throughput", "latency", "security"}
      /\ \A f \in DOMAIN live : Table(live[f])
      /\ \A i \in DOMAIN throughput : IsCell(throughput[i].mean_tps) /\ IsCell(throughput[i].tps)
      /\ \A i \in DOMAIN latency : IsCell(latency[i].p95_ms)
      /\ \A i \in DOMAIN counts : SecurityCounts(counts[i])

PaperValues(paper) ==
  \A category \in DOMAIN paper : \A metric \in DOMAIN paper[category] : paper[category][metric] \in Int

(* A duration that can be read is not negative.                             *)
MeasuredFiles(files) ==
  /\ \A f \in {"txns", "security", "throughput", "latency", "energy", "uptime"} : Table(files[f])
  /\ files.uptime # Nil => \A i \in DOMAIN files.uptime : files.uptime[i].duration_hours \in Nat \cup {Nil, Bad}

Cell(n) == [kind |-> "number", value |-> 100 * n]
Blank == [kind |-> "blank"]

(* Result files that hold the paper's own figures.                          *)
OwnFigures(paper) ==
  [throughput |-> <<[concurrency |-> 50, repeat |-> "summary",
                     mean_tps |-> Cell(paper["throughput"].hrbac_tps), tps |-> Blank]>>,
   latency |-> <<[operation |-> "sensor_write",
                  p95_ms |-> Cell(paper["latency"].sensor_write_total_latency_ms)]>>,
   security |-> <<[rate |-> <<Cell(paper["security"].block_rate_percent), Blank, Blank, Blank>>,
                   blocked |-> Blank, blocked_attempts |-> Blank,
                   attempts |-> Blank, total_attempts |-> Blank]>>]

(* A file that is there is not Nil.  Attempts are a sequence; a claim's     *)
(* getter yields what its row says, or nothing; a key holds a seed of the   *)
(* length the sensors use, and the name of a zone has no zero byte.         *)
ASSUME InputAssumption ==
  /\ Nil \notin Int /\ PageDefault \in Nat /\ PageMost \in Nat
  /\ \A x \in Comparisons : PaperValues(x.paper) /\ LiveResults(x.live)
  /\ \A x \in Comparisons : Comp!validate_paper_benchmarks(x.paper) =>
       \A f \in DOMAIN OwnFigures(x.paper) : OwnFigures(x.paper)[f] # Nil
  /\ \A files \in FilesTried : MeasuredFiles(files)
  /\ \A x \in PagesTried :
       /\ Table(x.txns)
       /\ x.limit = Nil \/ x.limit.type = "word" \/ x.limit.value \in Int
  /\ \A attempts \in AttemptsTried :
       attempts \in Seq([role : STRING, operation : STRING, deny_reason : STRING])
  /\ \A x \in ClaimsTried :
       /\ x.claim \in 1..50
       /\ x.v10 = Nil \/ x.v10.type = Claims!ROWS[x.claim].yields
       /\ \A v \in {x.v10, x.v92} : Claims!IsNumber(v) => v.value \in Int
  /\ PackagesTried \subseteq [cert : Seq(Bytes), seed : Seq(Bytes), form : {"raw", "pkcs8"},
                              zone : Seq(Bytes \ {0})]
  /\ \A x \in PackagesTried : Len(x.seed) = RAW_ED25519_KEY_BYTES

VARIABLES tool, input, result

vars == <<tool, input, result>>

Init == tool = "none" /\ input = Nil /\ result = Nil

Run(name, x, answer) == tool = "none" /\ tool' = name /\ input' = x /\ result' = answer

Compare ==
  \E x \in Comparisons : Run("compare", x, Comp!build_report(x.paper, x.live, x.strict))

Summarise == \E files \in FilesTried : Run("summarise", files, Raw!raw_summary(files))

PageThrough ==
  \E x \in PagesTried : Run("page", x, Raw!raw_sensor_transactions(x.txns, x.limit))

Score ==
  \E attempts \in AttemptsTried :
    Run("score", attempts, [deployed |-> Oracle!Scored(attempts, Oracle!ROLE_PERMISSIONS_DEPLOYED),
                            intended |-> Oracle!Scored(attempts, Oracle!ROLE_PERMISSIONS_INTENDED)])

MapClaim ==
  \E x \in ClaimsTried :
    Run("claim", x, [row |-> Claims!Row(x.claim, x.v10, x.v92),
                     validation |-> Claims!Validation(x.expected, x.v10)])

(* An Ed25519 key in PKCS#8 begins with its headers, the last 04 22 04 20.  *)
KeyFile(form, seed) == IF form = "raw" THEN seed ELSE <<4, 34, 4, 32>> \o seed

Pack ==
  \E x \in PackagesTried :
    Run("pack", x, Package(x.cert, KeyFile(x.form, x.seed), KeyFile(x.form, x.seed), x.zone))

Next == Compare \/ Summarise \/ PageThrough \/ Score \/ MapClaim \/ Pack

Spec == Init /\ [][Next]_vars

-----------------------------------------------------------------------------
LatencyLimit == 100 * Comp!Get(input.paper["latency"], "expected_sensor_write_p95_max_ms", 2000)
LeastTps == 100 * Comp!Get(input.paper["throughput"], "expected_hrbac_tps_min", 55)

(* The comparison's verdict (comp.py:80-226) is sound: a strict one exits   *)
(* with 0 only if every file is there, no sensor write took too long, not   *)
(* all the 50-client figures are below the range, and where only counts are *)
(* given no attempt got through.  And it can be met: a dataset that the     *)
(* gateway's validation accepts (paper_benchmarks.py:40-66) passes when it  *)
(* is measured again exactly.                                               *)
VerdictSound ==
  tool = "compare" =>
    /\ input.strict /\ result = 0 =>
       LET live == input.live
           counts == Comp!Counts(live.security)
       IN  /\ \A f \in DOMAIN live : live[f] # Nil
           /\ \A i \in DOMAIN live.latency :
                live.latency[i].operation = "sensor_write" /\ Comp!Readable(live.latency[i].p95_ms)
                  => live.latency[i].p95_ms.value < LatencyLimit
           /\ \E i \in Comp!At50(live.throughput) :
                \E cell \in {live.throughput[i].tps, live.throughput[i].mean_tps} :
                  Comp!Readable(cell) /\ cell.value >= LeastTps
           /\ Comp!Stated(live.security) = {} =>
                \A i \in Comp!Counted(counts) :
                  counts[i].blocked.value = counts[i].attempts.value
    /\ Comp!validate_paper_benchmarks(input.paper) /\ input.live = OwnFigures(input.paper)
         => result = 0

(* The endpoints agree with each other and with the files                   *)
(* (raw_data_api.py:41-198): the summary is refused if and only if one of   *)
(* those it summarises is, fails only if one of them fails or a duration    *)
(* cannot be read, and reports as many transactions as the longest page and *)
(* as many attempts as all scenarios together; a page is a prefix of the    *)
(* file, as long as the limit asked for, the cap and the file allow.        *)
EndpointsAgree ==
  /\ tool = "summarise" =>
       LET page == Raw!raw_sensor_transactions(input.txns, Nil)
           endpoints == {Raw!raw_throughput(input.throughput), Raw!raw_latency(input.latency),
                         Raw!raw_energy(input.energy), Raw!raw_security(input.security), page}
       IN  /\ result.status = 404 <=> \E e \in endpoints : e.status = 404
           /\ result.status = 500 =>
                \/ \E e \in endpoints : e.status = 500
                \/ /\ input.uptime # Nil
                   /\ \E i \in DOMAIN input.uptime : input.uptime[i].duration_hours \in {Nil, Bad}
           /\ result.status = 200 =>
                LET attempts == Raw!raw_security(input.security).body
                IN  /\ result.body.security_attempt_count = attempts.total_attempts
                    /\ attempts.total_attempts
                         = Raw!MapThenSumSet(LAMBDA s : attempts.blocked_attempts[s],
                                             DOMAIN attempts.blocked_attempts)
                    /\ page.status = 200 => result.body.sensor_transaction_count >= page.body.count
                    /\ result.body.uptime # Nil => result.body.uptime[1] <= result.body.uptime[2]
  /\ tool = "page" /\ result.status = 200 =>
       LET asked == IF input.limit = Nil THEN PageDefault ELSE input.limit.value
           page == result.body
       IN  /\ page.count = Len(page.rows)
           /\ page.count = Cardinality({i \in 1..Len(input.txns) : i <= asked /\ i <= PageMost})
           /\ \A i \in 1..page.count : page.rows[i] = input.txns[i]

Scoped(attempts) ==
  {i \in DOMAIN attempts : attempts[i].deny_reason \in Oracle!ROLE_OP_DENY_REASONS}

(* The oracle is the chaincode (06_security_oracle.py:26-143, roles.go,     *)
(* contract.go:608-618): a denial is called discrepant exactly if the       *)
(* chaincode's own tables grant the operation, every denial in scope is     *)
(* confirmed, discrepant or unmapped, the corrected tables grant nothing    *)
(* the deployed ones do not, and the supplement's matrix is the chaincode's.*)
OracleIsChaincode ==
  tool = "score" =>
    LET granted(i) == Oracle!Mapped(input[i]) /\
          Oracle!hasPermission(input[i].role, Oracle!OPERATION_PERMISSION[input[i].operation])
        deployed == result.deployed
    IN  /\ deployed.pairs = {<<input[i].role, input[i].operation>> : i \in {j \in Scoped(input) : granted(j)}}
        /\ deployed.scoped = deployed.confirmed + deployed.discrepant
                             + Cardinality({i \in Scoped(input) : ~Oracle!Mapped(input[i])})
        /\ result.intended.pairs \subseteq deployed.pairs
        /\ \A i \in DOMAIN input :
             Oracle!s2_permission_matrix(input[i].role)
               = {p \in Oracle!Permissions : Oracle!hasPermission(input[i].role, p)}

(* Every claim gets an action whatever the pipeline produced for it         *)
(* (10_build_claim_map.py:189-205), though the table of actions lacks a     *)
(* status that classify can return; and while a count main expects is the   *)
(* value the paper reported, one that validation calls a match is never     *)
(* reported as a difference (:224-246).                                     *)
EveryClaimActs ==
  tool = "claim" =>
    /\ ~result.row.raises
    /\ result.validation.match /\ input.v10 # Nil /\ input.expected = input.v92
         => result.row.status \in {"reproduced_exact", "no_v92_comparator", "not_comparable"}

HasMarker(bytes) == Starts(bytes) # {}

(* A zone ends at its first zero byte, as the firmware's strlcpy ends it.   *)
Unpadded(zone) ==
  SubSeq(zone, 1, Cardinality({i \in DOMAIN zone : \A j \in 1..i : zone[j] # 0}))

Unpacked(package) ==
  LET n == package[2]
  IN  [cert |-> SubSeq(package, 3, n + 2),
       seed |-> SubSeq(package, n + 3, n + 2 + RAW_ED25519_KEY_BYTES),
       zone |-> Unpadded(SubSeq(package, n + 3 + RAW_ED25519_KEY_BYTES, Len(package) - 1))]

(* What the script refuses.                                                 *)
Refused(x) ==
  \/ Len(x.cert) > MaxCert \/ x.zone = <<>> \/ Len(x.zone) > ZONE_BYTES
  \/ x.form = "pkcs8" /\ HasMarker(x.seed)

(* A package holds the certificate, the zone and the very seed of the key   *)
(* file, at the offsets a reader takes them from, or none is written        *)
(* (make_flash_package.py:27-82): a seed in which the marker occurs again   *)
(* is refused and never cut out at the wrong place.                         *)
PackageExact ==
  tool = "pack" =>
    IF Refused(input)
    THEN result = Nil
    ELSE /\ Unpacked(result) = [cert |-> input.cert, seed |-> input.seed, zone |-> input.zone]
         /\ Len(result) = 3 + Len(input.cert) + RAW_ED25519_KEY_BYTES + ZONE_BYTES
=============================================================================
