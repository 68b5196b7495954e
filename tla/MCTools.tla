------------------------------ MODULE MCTools ------------------------------
(* Small files, tables and keys for every tool.                            *)
EXTENDS ToolsCheck, TLC

MCCrc(body) == Len(body)

Dataset(total, peers, rate, tps, latency) ==
  [deployment |-> [fabric_total_nodes |-> total, fabric_peers |-> peers, raft_orderers |-> 3,
                   fabric_ca_count |-> 1],
   security |-> [security_vectors |-> 8, attempts_per_vector |-> 10, security_test_attempts |-> 80,
                 block_rate_percent |-> rate],
   crt |-> [crt_max_value |-> 1009091],
   throughput |-> [expected_hrbac_tps_min |-> 55, hrbac_tps |-> tps, expected_hrbac_tps_max |-> 70],
   latency |-> [sensor_write_total_latency_ms |-> latency, expected_sensor_write_p95_max_ms |-> 2000]]

Papers ==
  {Dataset(total, 4, rate, tps, latency) :
     total \in {8, 9}, rate \in {99, 100}, tps \in {54, 55, 70, 71}, latency \in {1999, 2000}}

(* Without the limits, which then have their defaults.                     *)
Bare ==
  [throughput |-> [hrbac_tps |-> 63], latency |-> [p95 |-> 1], security |-> [block_rate_percent |-> 100]]

Percent(n) == [kind |-> "percent", value |-> 100 * n]
Hundredths(n) == [kind |-> "number", value |-> n]

Sample(repeat, mean, tps) == [concurrency |-> 50, repeat |-> repeat, mean_tps |-> mean, tps |-> tps]
Other == [concurrency |-> 10, repeat |-> "1", mean_tps |-> Blank, tps |-> Cell(60)]

ThroughputFiles ==
  {Nil, <<>>, <<Other>>, <<Sample("1", Blank, Cell(60)), Other, Sample("2", Blank, Cell(81))>>,
   <<Sample("1", Blank, Cell(54)), Sample("2", Blank, Cell(56)), Sample("summary", Cell(54), Blank)>>,
   <<Sample("1", Blank, Cell(56)), Sample("summary", Blank, Blank)>>}

Write(p95) == [operation |-> "sensor_write", p95_ms |-> p95]
Check == [operation |-> "check_access", p95_ms |-> Cell(5000)]

LatencyFiles ==
  {Nil, <<Check>>, <<Write(Cell(1999)), Check>>, <<Write(Cell(1500)), Write(Cell(2000))>>,
   <<Write(Blank), Write(Cell(10))>>}

Rates(percent, rate) ==
  [rate |-> <<percent, rate, Blank, Blank>>, blocked |-> Blank, blocked_attempts |-> Blank,
   attempts |-> Blank, total_attempts |-> Blank]
Counts(blocked, attempts) ==
  [rate |-> <<Blank, Blank, Blank, Blank>>, blocked |-> Cell(blocked), blocked_attempts |-> Cell(0),
   attempts |-> Cell(attempts), total_attempts |-> Blank]

(* The counts in the second columns; what is in the first hides them.       *)
OtherCounts(first, blocked, attempts) ==
  [rate |-> <<Blank, Blank, Blank, Blank>>, blocked |-> first, blocked_attempts |-> Cell(blocked),
   attempts |-> Blank, total_attempts |-> Cell(attempts)]
Text == [kind |-> "text"]

SecurityFiles ==
  {Nil, <<>>, <<Rates(Percent(100), Blank)>>, <<Rates(Blank, Hundredths(100))>>,
   <<Rates(Blank, Hundredths(99)), Rates(Percent(100), Blank)>>,
   <<Counts(5, 5), Counts(4, 5)>>, <<Counts(5, 5), Counts(0, 0)>>, <<Counts(0, 0)>>,
   <<Counts(5, 5), OtherCounts(Blank, 5, 5)>>, <<OtherCounts(Blank, 4, 5)>>,
   <<OtherCounts(Text, 5, 5)>>}

MCComparisons ==
  [paper : {Bare}, strict : BOOLEAN,
   live : [throughput : ThroughputFiles, latency : LatencyFiles, security : SecurityFiles]]
  \cup {[paper |-> p, strict |-> TRUE, live |-> OwnFigures(p)] : p \in Papers}
  \cup {[paper |-> [latency |-> [p95 |-> 1]], strict |-> FALSE, live |-> OwnFigures(p)] : p \in Papers}

-----------------------------------------------------------------------------
Transaction(i) == [tx_id |-> i, latency_ms |-> i, energy_mj |-> i]
Garbled == [tx_id |-> 3, latency_ms |-> 3, energy_mj |-> Bad]
Throughput(type, clients, tps) ==
  [benchmark_type |-> type, concurrent_clients |-> clients, tps |-> tps]
Latency(operation, ms, overhead) ==
  [operation |-> operation, latency_ms |-> ms, rbac_overhead_ms |-> overhead]
Energy(mode, mj) == [mode |-> mode, energy_mj |-> mj]
Event(type, hours) == [event_type |-> type, duration_hours |-> hours]

MCFilesTried ==
  [txns : {Nil, <<>>, [i \in 1..3 |-> Transaction(i)], <<Garbled>>},
   security : {Nil, <<>>, <<[scenario |-> "a"], [scenario |-> "b"], [scenario |-> "a"]>>},
   throughput : {Nil, <<Throughput("HRBAC", 50, 6), Throughput("Baseline", 10, 7)>>,
                 <<Throughput("HRBAC", 50, Nil)>>, <<Throughput("Baseline", Bad, Bad)>>},
   latency : {Nil, <<Latency("WriteSensor", 9, Nil)>>, <<Latency("WriteSensor", 9, Bad)>>,
              <<Latency("WriteSensor", Nil, 1)>>, <<Latency("ReadZone", Bad, Nil)>>},
   energy : {Nil, <<>>, <<Energy("SingleChannel", 0), Energy("SingleChannel", 0)>>,
             <<Energy("SingleChannel", 4), Energy("CRT", 2)>>, <<Energy("CRT", Bad)>>},
   uptime : {Nil, <<>>, <<Event("DEPLOYMENT", 9), Event("OUTAGE", 2)>>,
             <<Event("DEPLOYMENT", 9), Event("MAINTENANCE", Bad)>>, <<Event("OUTAGE", Nil)>>}]

Number(n) == [type |-> "number", value |-> n]

MCPagesTried ==
  [txns : {Nil, <<Transaction(1), Transaction(2), Garbled>>}
            \cup {[i \in 1..n |-> Transaction(i)] : n \in 0..5},
   limit : {Nil, [type |-> "word"]} \cup {Number(n) : n \in -1..5}]

Attempt(role, operation, reason) == [role |-> role, operation |-> operation, deny_reason |-> reason]

AllAttempts ==
  {Attempt(role, operation, reason) :
     role \in Oracle!Roles \cup {"Visitor"},
     operation \in DOMAIN Oracle!OPERATION_PERMISSION \cup {"Reboot"},
     reason \in {"ROLE_INSUFFICIENT", "ZONE_MISMATCH"}}

MCAttemptsTried ==
  {<<a>> : a \in AllAttempts}
  \cup {<<a, b, a>> : a, b \in {c \in AllAttempts : c.role \in {"Certifier", "Farmer"}}}

MCClaimsTried ==
  UNION {{[claim |-> c, v10 |-> v10, v92 |-> v92, expected |-> expected] :
            v10 \in {Nil} \cup (IF Claims!ROWS[c].yields = "bool"
                                THEN {[type |-> "bool", holds |-> b] : b \in BOOLEAN}
                                ELSE {Number(n) : n \in {-1000, 0, 950, 951, 995, 996, 1000, 1004}}),
            v92 \in {Nil, Number(0), Number(1000), Number(-1000)},
            expected \in {Number(950), Number(1000)}} : c \in {1, 17, 27, 50}}

MCPackagesTried ==
  [cert : {[i \in 1..n |-> 7] : n \in 0..3}, seed : [1..3 -> {4, 32, 7}], form : {"raw", "pkcs8"},
   zone : {<<>>, <<9>>, <<9, 9>>, <<9, 9, 9>>}]
=============================================================================
