------------------------------- MODULE RestSink -------------------------------
(***************************************************************************)
(* The REST API sink (src/common/src/http/mod.rs, and its loop in          *)
(* src/runtime/src/dag/mod.rs): one request per row, or one per batch. The *)
(* first request that fails ends the step; nothing is sent again, and what *)
(* the endpoint has taken stays there.                                     *)
(***************************************************************************)
EXTENDS Naturals, FiniteSets, FiniteSetsExt

CONSTANTS Batch, MaxBatches   \* rows of a batch, batches of the run

ASSUME RestSinkAssumption == Batch \in Nat \ {0} /\ MaxBatches \in Nat

\* "json_column": the body comes from a column that may be NULL.
SinkOptions == [mode : {"per_row", "batch"}, json_column : BOOLEAN, allow_non_2xx : BOOLEAN]

VARIABLES
  sink,          \* the options
  arrived,       \* batches received so far
  nulls,         \* rows of the current batch whose json_column is NULL
  unsent_rows,   \* rows of the current batch that are still to send
  pending,       \* the current batch has a request to come
  taken,         \* at the endpoint: how often it has taken each row
  refused,       \* rows the endpoint refused
  total_sent,
  sink_result    \* "sending", "done" or "error"

sinkVars == <<sink, arrived, nulls, unsent_rows, pending, taken, refused, total_sent,
              sink_result>>

AllRows == 1..(Batch * MaxBatches)
RowsOf(n) == ((n - 1) * Batch + 1)..(n * Batch)

RestSinkInit ==
  /\ sink \in SinkOptions
  /\ arrived = 0
  /\ nulls = {} /\ unsent_rows = {} /\ refused = {}
  /\ pending = FALSE
  /\ taken = [r \in AllRows |-> 0]
  /\ total_sent = 0
  /\ sink_result = "sending"

\* send_to_rest_api is called with one batch. Rows whose json_column is NULL are
\* left out; a batch request goes out even without rows, and counts them all.
Receive ==
  /\ sink_result = "sending" /\ ~pending
  /\ arrived < MaxBatches
  /\ arrived' = arrived + 1
  /\ \E missing \in SUBSET RowsOf(arrived') :
       /\ missing # {} => sink.json_column
       /\ nulls' = nulls \cup missing
       /\ unsent_rows' = RowsOf(arrived') \ missing
  /\ pending' = (sink.mode = "batch" \/ unsent_rows' # {})
  /\ UNCHANGED <<sink, taken, refused, total_sent, sink_result>>

\* The rows of the next request
Request == IF sink.mode = "batch" THEN unsent_rows ELSE {Min(unsent_rows)}

Take(rows) == taken' = [r \in AllRows |-> IF r \in rows THEN taken[r] + 1 ELSE taken[r]]

CountSent ==
  /\ unsent_rows' = unsent_rows \ Request
  /\ pending' = (unsent_rows' # {})
  /\ total_sent' = total_sent + IF sink.mode = "batch" THEN Batch ELSE 1

Send ==
  /\ sink_result = "sending" /\ pending
  /\ Take(Request)
  /\ CountSent
  /\ UNCHANGED <<sink, arrived, nulls, refused, sink_result>>

\* A status outside 2xx
SendRefused ==
  /\ sink_result = "sending" /\ pending
  /\ refused' = refused \cup Request
  /\ IF sink.allow_non_2xx
     THEN CountSent /\ UNCHANGED sink_result
     ELSE /\ sink_result' = "error"
          /\ UNCHANGED <<unsent_rows, pending, total_sent>>
  /\ UNCHANGED <<sink, arrived, nulls, taken>>

\* Mutant: the request is sent again.
SendBreaksRetries ==
  /\ sink_result = "sending" /\ pending
  /\ Take(Request)
  /\ UNCHANGED <<sink, arrived, nulls, unsent_rows, pending, refused, total_sent, sink_result>>

\* No answer: the endpoint may have taken the rows.
SendBreaks ==
  /\ sink_result = "sending" /\ pending
  /\ sink_result' = "error"
  /\ \/ Take(Request)
     \/ UNCHANGED taken
  /\ UNCHANGED <<sink, arrived, nulls, unsent_rows, pending, refused, total_sent>>

Finish ==
  /\ sink_result = "sending" /\ ~pending
  /\ sink_result' = "done"
  /\ UNCHANGED <<sink, arrived, nulls, unsent_rows, pending, taken, refused, total_sent>>

RestSinkNext == Receive \/ Send \/ SendRefused \/ SendBreaks \/ Finish

RestSinkSpec == RestSinkInit /\ [][RestSinkNext]_sinkVars /\ WF_sinkVars(RestSinkNext)

(***************************************************************************)
(* Properties                                                              *)
(***************************************************************************)
\* The endpoint takes no row twice, and a sink that ends without an error has handed
\* over every row that has a body and was not refused.
EachRowOnce ==
  /\ \A r \in AllRows : taken[r] <= 1
  /\ sink_result = "done" =>
       \A r \in 1..(arrived * Batch) : taken[r] = 1 \/ r \in nulls \/ r \in refused
=============================================================================
