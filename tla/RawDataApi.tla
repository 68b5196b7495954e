----------------------------- MODULE RawDataApi -----------------------------
(* The endpoints over the measured CSV files (gateway/raw_data_api.py).     *)
(* The files are a record of tables, each a sequence of rows or Nil when    *)
(* the file does not exist; a cell is Nil when blank and Bad when it is no  *)
(* number.  A mean is kept as the pair of its sum and its count.            *)
EXTENDS Integers, Sequences, FiniteSetsExt

CONSTANTS Nil, Bad,
          PageDefault,    \* 100
          PageMost        \* 1000

NotFound == [status |-> 404]
Error == [status |-> 500]
Ok(body) == [status |-> 200, body |-> body]

Sum(rows, I, column) == MapThenSumSet(LAMBDA i : rows[i][column], I)

_mean(rows, I, column) == IF I = {} THEN Nil ELSE <<Sum(rows, I, column), Cardinality(I)>>

(* Converting a cell of the column fails in one of the rows.                *)
Fails(rows, I, column) == \E i \in I : rows[i][column] \in {Nil, Bad}

(* Slip: the uptime file must exist too.                                    *)
MeasuredAndUptime == {"txns", "security", "throughput", "latency", "energy", "uptime"}

(* The tables raw_summary cannot do without; uptime is not one of them.     *)
Needed == {"txns", "security", "throughput", "latency", "energy"}

At50(throughput, benchmark_type) ==
  {i \in DOMAIN throughput : /\ throughput[i].benchmark_type = benchmark_type
                             /\ throughput[i].concurrent_clients = 50}

MeanTps(throughput, benchmark_type) ==
  _mean(throughput, At50(throughput, benchmark_type), "tps")

SensorWrites(latency) == {i \in DOMAIN latency : latency[i].operation = "WriteSensor"}

InMode(energy, mode) == {i \in DOMAIN energy : energy[i].mode = mode}

MeanEnergy(energy, mode) == _mean(energy, InMode(energy, mode), "energy_mj")

(* As a quotient of the whole; nothing is saved where nothing was measured. *)
EnergyReduction(energy) ==
  LET sc == MeanEnergy(energy, "SingleChannel")
      crt == IF MeanEnergy(energy, "CRT") = Nil THEN <<0, 1>> ELSE MeanEnergy(energy, "CRT")
  IN  IF sc = Nil \/ sc[1] = 0 THEN <<0, 1>>
      ELSE <<sc[1] * crt[2] - crt[1] * sc[2], sc[1] * crt[2]>>

(* OUTAGE stands for every type of event whose name contains it.            *)
Timed(events, event_type) == {i \in DOMAIN events : events[i].event_type = event_type}

Hours(events, event_type) == Sum(events, Timed(events, event_type), "duration_hours")

Uptime(events) ==
  LET deployed == Hours(events, "DEPLOYMENT")
  IN  IF deployed = 0 THEN Nil ELSE <<deployed - Hours(events, "OUTAGE"), deployed>>

(* A figure the summary converts is no number; a blank overhead is skipped. *)
Unreadable(files) ==
  \/ \E b \in {"HRBAC", "Baseline"} : Fails(files.throughput, At50(files.throughput, b), "tps")
  \/ Fails(files.latency, SensorWrites(files.latency), "latency_ms")
  \/ \E i \in SensorWrites(files.latency) : files.latency[i].rbac_overhead_ms = Bad
  \/ \E m \in {"SingleChannel", "CRT"} : Fails(files.energy, InMode(files.energy, m), "energy_mj")
  \/ /\ files.uptime # Nil
     /\ \E e \in {"DEPLOYMENT", "OUTAGE"} : Fails(files.uptime, Timed(files.uptime, e), "duration_hours")

raw_summary(files) ==
  IF \E f \in Needed : files[f] = Nil THEN NotFound
  ELSE IF Unreadable(files) THEN Error
  ELSE Ok([sensor_transaction_count |-> Len(files.txns),
           security_attempt_count |-> Len(files.security),
           mean_hrbac_tps_50_clients |-> MeanTps(files.throughput, "HRBAC"),
           mean_baseline_tps_50_clients |-> MeanTps(files.throughput, "Baseline"),
           mean_sensor_write_latency_ms |->
             _mean(files.latency, SensorWrites(files.latency), "latency_ms"),
           mean_rbac_overhead_ms |->
             _mean(files.latency, {i \in SensorWrites(files.latency) :
                                     files.latency[i].rbac_overhead_ms # Nil}, "rbac_overhead_ms"),
           energy_reduction |-> EnergyReduction(files.energy),
           uptime |-> IF files.uptime = Nil THEN Nil ELSE Uptime(files.uptime)])

(* The rows and their number; cells of the optional columns may be blank.   *)
raw_rows(table, required, optional) ==
  IF table = Nil THEN NotFound
  ELSE IF \/ \E c \in required : Fails(table, DOMAIN table, c)
          \/ \E c \in optional : \E i \in DOMAIN table : table[i][c] = Bad
       THEN Error
  ELSE Ok([rows |-> table, count |-> Len(table)])

(* The optional columns peer_count, concurrent_clients, payload_bytes and   *)
(* airtime_ms are like rbac_overhead_ms.                                    *)
raw_throughput(table) == raw_rows(table, {"concurrent_clients", "tps"}, {})
raw_latency(table) == raw_rows(table, {"latency_ms"}, {"rbac_overhead_ms"})
raw_energy(table) == raw_rows(table, {"energy_mj"}, {})

(* Every row is counted, blocked or not.                                    *)
raw_security(security) ==
  IF security = Nil THEN NotFound
  ELSE Ok([blocked_attempts |->
             [s \in {security[i].scenario : i \in DOMAIN security} |->
                Cardinality({i \in DOMAIN security : security[i].scenario = s})],
           total_attempts |-> Len(security)])

(* The rows enumerated before the index reaches the limit.                  *)
Page(rows, limit) == SubSeq(rows, 1, Min({limit, Len(rows)}))

(* limit is absent (Nil), no number, or a number.                           *)
raw_sensor_transactions(txns, limit) ==
  IF txns = Nil THEN NotFound
  ELSE IF limit # Nil /\ limit.type = "word" THEN Error
  ELSE LET most == Min({IF limit = Nil THEN PageDefault ELSE limit.value, PageMost})
           page == Page(txns, most)
       IN  IF \E c \in {"latency_ms", "energy_mj"} : Fails(page, DOMAIN page, c) THEN Error
           ELSE Ok([rows |-> page, count |-> Len(page), limit |-> most])
=============================================================================
