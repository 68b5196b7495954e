---------------------------- MODULE LiveVsPaper ----------------------------
(* The comparison of live benchmark results with the paper's               *)
(* (data/comp.py).  A result file is absent (Nil) or a sequence of rows;   *)
(* the cell of a row is blank (or of a column the file lacks), a text that *)
(* is no number, or a number, written with or without a percent sign.      *)
(* Numbers count hundredths, and a live metric is a quotient <<n, d>> of   *)
(* them, or Nil.                                                           *)
EXTENDS PaperBenchmarks, Sequences, FiniteSetsExt

parse_float(cell) == IF cell.kind \in {"number", "percent"} THEN cell.value ELSE Nil

Readable(cell) == parse_float(cell) # Nil

Total(rows, I, column) == MapThenSumSet(LAMBDA i : parse_float(rows[i][column]), I)

-----------------------------------------------------------------------------
At50(rows) == {i \in DOMAIN rows : rows[i].concurrency = 50}

(* The last summary of the 50-client runs, or else the mean of the samples. *)
throughput_at_50_clients(rows) ==
  LET summaries == {i \in At50(rows) : rows[i].repeat = "summary"}
      samples == {i \in At50(rows) : Readable(rows[i].tps)}
  IN  IF summaries # {} /\ Readable(rows[Max(summaries)].mean_tps)
      THEN <<parse_float(rows[Max(summaries)].mean_tps), 1>>
      ELSE IF samples = {} THEN Nil
      ELSE <<Total(rows, samples, "tps"), Cardinality(samples)>>

Writes(rows) == {i \in DOMAIN rows : rows[i].operation = "sensor_write" /\ Readable(rows[i].p95_ms)}

(* Slip: the latency of the first row counts.                               *)
sensor_write_first_p95(rows) ==
  IF Writes(rows) = {} THEN Nil ELSE <<parse_float(rows[Min(Writes(rows))].p95_ms), 1>>

sensor_write_p95_latency(rows) ==
  IF Writes(rows) = {} THEN Nil
  ELSE <<Max({parse_float(rows[i].p95_ms) : i \in Writes(rows)}), 1>>

-----------------------------------------------------------------------------
field_candidates ==
  <<"block_rate_percent", "block_rate", "blocked_percent", "blocked_rate_percent">>

Stated(rows) ==
  {p \in (DOMAIN rows) \X (DOMAIN field_candidates) : Readable(rows[p[1]].rate[p[2]])}

(* The first stated rate, row by row; a block_rate of at most 1 is taken    *)
(* for a fraction.                                                          *)
FirstStated(rows) ==
  LET row == Min({p[1] : p \in Stated(rows)})
      field == Min({p[2] : p \in {q \in Stated(rows) : q[1] = row}})
      value == parse_float(rows[row].rate[field])
  IN  IF field_candidates[field] = "block_rate" /\ value <= 100 THEN 100 * value ELSE value

(* The second column is looked at where the first is blank.                 *)
FirstFilled(cell, other) == IF cell.kind = "blank" THEN other ELSE cell

Counts(rows) ==
  [i \in DOMAIN rows |-> [blocked  |-> FirstFilled(rows[i].blocked, rows[i].blocked_attempts),
                          attempts |-> FirstFilled(rows[i].attempts, rows[i].total_attempts)]]

Counted(counts) ==
  {i \in DOMAIN counts : Readable(counts[i].blocked) /\ Readable(counts[i].attempts)}

security_block_rate(rows) ==
  LET counts == Counts(rows)
      blocked == Total(counts, Counted(counts), "blocked")
      attempts == Total(counts, Counted(counts), "attempts")
  IN  IF Stated(rows) # {} THEN <<FirstStated(rows), 1>>
      ELSE IF Counted(counts) # {} /\ attempts > 0 THEN <<10000 * blocked, attempts>>
      ELSE Nil

-----------------------------------------------------------------------------
(* Nothing to compare is no pass.                                           *)
check_metric(metric, acceptable) ==
  IF metric = Nil THEN "MISSING" ELSE IF acceptable THEN "PASS" ELSE "FAIL"

(* A file that does not exist yields no metric, as one without rows does.   *)
Rows(file) == IF file = Nil THEN <<>> ELSE file

(* dict.get with a default.                                                 *)
Get(metrics, name, default) == IF name \in DOMAIN metrics THEN metrics[name] ELSE default

checks(paper, live) ==
  LET least == 100 * Get(paper["throughput"], "expected_hrbac_tps_min", 55)
      most  == 100 * Get(paper["throughput"], "expected_hrbac_tps_max", 70)
      limit == 100 * Get(paper["latency"], "expected_sensor_write_p95_max_ms", 2000)
      tps == throughput_at_50_clients(Rows(live.throughput))
      p95 == sensor_write_p95_latency(Rows(live.latency))
      rate == security_block_rate(Rows(live.security))
  IN  [throughput |-> check_metric(tps, least * tps[2] <= tps[1] /\ tps[1] <= most * tps[2]),
       latency    |-> check_metric(p95, p95[1] < limit * p95[2]),
       security   |-> check_metric(rate, rate[1] = 10000 * rate[2])]

(* The categories and the one metric build_report subscripts.               *)
Subscripted(paper) ==
  /\ {"throughput", "latency", "security"} \subseteq DOMAIN paper
  /\ "hrbac_tps" \in DOMAIN paper["throughput"]

(* build_report under main: the exit status, 2 for an exception.            *)
build_report(paper, live, strict) ==
  LET missing == {f \in DOMAIN live : live[f] = Nil}
      failed == \E c \in DOMAIN checks(paper, live) : checks(paper, live)[c] # "PASS"
  IN  IF missing = DOMAIN live THEN IF strict THEN 1 ELSE 0
      ELSE IF ~Subscripted(paper) THEN 2
      ELSE IF strict /\ (missing # {} \/ failed) THEN 1
      ELSE 0
=============================================================================
