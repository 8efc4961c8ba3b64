---------------------------- MODULE RuntimeMetrics ----------------------------
(***************************************************************************)
(* The latency histograms of src/crates/core/src/traits/runtime.rs and the *)
(* table of them that src/crates/model-runtime/src/metrics.rs keeps per    *)
(* runtime, by kind of inference and by model.                             *)
(***************************************************************************)
EXTENDS Options, FiniteSetsExt, Functions

CONSTANTS Bounds,     \* LATENCY_BUCKETS_MS
          Overflow    \* u64::MAX

ASSUME MetricsAssumption ==
    /\ Bounds \in Seq(Nat) /\ Overflow \in Nat
    /\ \A i, j \in DOMAIN Bounds : i <= j => Bounds[i] <= Bounds[j] /\ Bounds[j] <= Overflow

(* bucket_index: the first bound that is not exceeded, or the one past     *)
(* them all.                                                               *)
BucketIndex(ms) == Min({i \in DOMAIN Bounds : ms <= Bounds[i]} \cup {Len(Bounds) + 1})

Total(buckets) == SumFunction(buckets)
UpTo(buckets, i) == SumFunctionOnSet(buckets, 1..i)

CeilPercent(total, percent) == (total * percent + 99) \div 100

(* percentile_from_buckets: the bound of the first bucket that, with those *)
(* before it, holds the given share of the samples.                        *)
Percentile(buckets, percent) ==
    IF Total(buckets) = 0 THEN 0
    ELSE LET reached == {i \in DOMAIN buckets :
                            UpTo(buckets, i) >= CeilPercent(Total(buckets), percent)}
         IN  IF Min(reached) \in DOMAIN Bounds THEN Bounds[Min(reached)] ELSE Overflow

(* LatencyHistogram: the buckets are there from the first sample on.       *)
EmptyHistogram ==
    [count |-> 0, sum |-> 0, min |-> 0, max |-> 0, p50 |-> 0, p95 |-> 0, p99 |-> 0,
     timeouts |-> 0, errors |-> 0, buckets |-> <<>>]

EnsureBuckets(h) ==
    [i \in 1..(Len(Bounds) + 1) |-> IF i \in DOMAIN h.buckets THEN h.buckets[i] ELSE 0]

Observe(h, ms) ==
    LET filled == [EnsureBuckets(h) EXCEPT ![BucketIndex(ms)] = @ + 1]
    IN  [h EXCEPT !.count = @ + 1, !.sum = @ + ms,
                  !.min = IF h.count = 0 \/ ms < @ THEN ms ELSE @,
                  !.max = IF ms > @ THEN ms ELSE @,
                  !.buckets = filled,
                  !.p50 = Percentile(filled, 50), !.p95 = Percentile(filled, 95),
                  !.p99 = Percentile(filled, 99)]

ObserveTimeout(h) == [h EXCEPT !.timeouts = @ + 1]
ObserveError(h) == [h EXCEPT !.errors = @ + 1]

(* RuntimeMetrics: a kind or a model has a row from its first call on.     *)
EmptyMetrics == [calls |-> 0, timeouts |-> 0, errors |-> 0, fallbacks |-> 0,
                 kinds |-> <<>>, models |-> <<>>]

Row(rows, key) == IF key \in DOMAIN rows THEN rows[key] ELSE EmptyHistogram

After(h, ms, outcome) ==
    CASE outcome = "ok" -> Observe(h, ms)
      [] outcome = "timeout" -> ObserveTimeout(h)
      [] outcome = "error" -> ObserveError(h)

(* record_call.                                                            *)
RecordCall(m, kind, model, ms, outcome) ==
    [m EXCEPT !.calls = @ + 1,
              !.timeouts = IF outcome = "timeout" THEN @ + 1 ELSE @,
              !.errors = IF outcome = "error" THEN @ + 1 ELSE @,
              !.kinds = Put(@, kind, After(Row(@, kind), ms, outcome)),
              !.models = Put(@, model, After(Row(@, model), ms, outcome))]

-----------------------------------------------------------------------------
RowsSum(rows, f(_)) == MapThenSumSet(LAMBDA k : f(rows[k]), DOMAIN rows)

(* A table adds up: the rows of the kinds, and those of the models, make   *)
(* the totals, however the calls ended (metrics.rs record_call), and a     *)
(* row's samples are in its buckets, its percentiles in order.             *)
AddsUp(m) ==
    \A rows \in {m.kinds, m.models} :
        /\ \A h \in Range(rows) :
              h.count = Total(h.buckets) /\ h.p50 <= h.p95 /\ h.p95 <= h.p99
        /\ RowsSum(rows, LAMBDA h : h.count + h.timeouts + h.errors) = m.calls
        /\ RowsSum(rows, LAMBDA h : h.timeouts) = m.timeouts
        /\ RowsSum(rows, LAMBDA h : h.errors) = m.errors
===============================================================================
