------------------------------ MODULE Monitoring ------------------------------
(***************************************************************************)
(* MonitoringService of src/crates/store/src/monitoring.rs: the pipeline's *)
(* counters behind a lock, a copy of them in a file.  What the recovery    *)
(* service reads of them is kept: the number of errors, which nothing ever *)
(* lowers, and the age of the last activity.  Ages stop at Horizon, past   *)
(* every threshold they are compared with.                                 *)
(***************************************************************************)
EXTENDS Naturals

CONSTANTS Horizon,     \* ages are exact below it
          ErrorCap,    \* errors are exact below it
          NoMetrics    \* a file that is absent or does not parse

VARIABLES metrics, metricsFile

Ages == 0..Horizon
PipelineMetrics == [errors : 0..ErrorCap, idle : Ages]
DefaultMetrics == [errors |-> 0, idle |-> 0]

MonitoringTypeOK ==
    /\ metrics \in PipelineMetrics
    /\ metricsFile \in PipelineMetrics \cup {NoMetrics}

LoadMetrics(f) == IF f = NoMetrics THEN DefaultMetrics ELSE f

MonitoringInit == metrics = DefaultMetrics /\ metricsFile = NoMetrics

Older(age) == IF age < Horizon THEN age + 1 ELSE age
MetricsAge == /\ metrics' = [metrics EXCEPT !.idle = Older(@)]
              /\ metricsFile' = IF metricsFile = NoMetrics THEN NoMetrics
                                ELSE [metricsFile EXCEPT !.idle = Older(@)]

(* record_document_ingested, record_extraction_completed,                  *)
(* record_event_created, record_event_merged, record_pipeline_cycle and    *)
(* record_snapshot: the pipeline is active.                                *)
RecordActivity == /\ metrics' = [metrics EXCEPT !.idle = 0]
                  /\ UNCHANGED metricsFile

(* record_error.  Neither it nor record_retry, record_dead_letter and      *)
(* record_event_dropped, which change nothing kept here, is an activity.   *)
RecordError == /\ metrics.errors < ErrorCap
               /\ metrics' = [metrics EXCEPT !.errors = @ + 1]
               /\ UNCHANGED metricsFile

(* persist, which only GET /monitoring calls: its failures are ignored.    *)
PersistAndGet == /\ metricsFile' = metrics
                 /\ UNCHANGED metrics

MonitoringRestart(torn) ==
    /\ metricsFile' = IF torn THEN NoMetrics ELSE metricsFile
    /\ metrics' = LoadMetrics(metricsFile')
===============================================================================
