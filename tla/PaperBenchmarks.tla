-------------------------- MODULE PaperBenchmarks --------------------------
(* The benchmark values the paper reports (gateway/paper_benchmarks.py): a  *)
(* dataset is a function from categories to functions from metrics to       *)
(* numbers; a metric that the file lacks is not in the domain.              *)
EXTENDS Integers

CONSTANTS Nil

CrtMaxValue == 97 * 101 * 103

(* What validate_paper_benchmarks looks up; a missing entry raises.         *)
Required ==
  [deployment |-> {"fabric_total_nodes", "fabric_peers", "raft_orderers", "fabric_ca_count"},
   security   |-> {"security_vectors", "attempts_per_vector", "security_test_attempts",
                   "block_rate_percent"},
   crt        |-> {"crt_max_value"},
   throughput |-> {"expected_hrbac_tps_min", "hrbac_tps", "expected_hrbac_tps_max"},
   latency    |-> {"sensor_write_total_latency_ms", "expected_sensor_write_p95_max_ms"}]

get_benchmark_category(dataset, category) ==
  IF category \in DOMAIN dataset THEN dataset[category] ELSE Nil

Complete(dataset) ==
  \A c \in DOMAIN Required : c \in DOMAIN dataset /\ Required[c] \subseteq DOMAIN dataset[c]

LatencyBelow(latency) ==
  latency.sensor_write_total_latency_ms < latency.expected_sensor_write_p95_max_ms

(* TRUE, or it raises.                                                      *)
validate_paper_benchmarks(dataset) ==
  /\ Complete(dataset)
  /\ LET deployment == dataset["deployment"]
         security   == dataset["security"]
         throughput == dataset["throughput"]
     IN  /\ deployment.fabric_total_nodes
              = deployment.fabric_peers + deployment.raft_orderers + deployment.fabric_ca_count
         /\ security.security_vectors * security.attempts_per_vector
              = security.security_test_attempts
         /\ dataset["crt"].crt_max_value = CrtMaxValue
         /\ throughput.expected_hrbac_tps_min <= throughput.hrbac_tps
         /\ throughput.hrbac_tps <= throughput.expected_hrbac_tps_max
         /\ LatencyBelow(dataset["latency"])
         /\ security.block_rate_percent = 100
=============================================================================
