------------------------------ MODULE Connectors ------------------------------
(***************************************************************************)
(* The parts of a pipeline that talk to the outside other than by          *)
(* write_db: the resolution of its secrets, the steps that read a table, a *)
(* REST API or a Databricks result, and those that write to a REST API or  *)
(* a file. A behaviour is one of them.                                     *)
(***************************************************************************)
EXTENDS RestSource, RestSink, FileSink, ThriftSession, SecretFetch, DbSource

Connected == {"rest_source", "rest_sink", "file_sink", "thrift", "secrets", "db_source"}

VARIABLE kind

connectorVars == <<kind, restVars, sinkVars, fileVars, thriftVars, secretVars, dbVars>>

\* Of the connectors that are not used, one state is enough.
Init ==
  /\ kind \in Connected
  /\ RestSourceInit
  /\ kind # "rest_source" =>
       opts = [strategy |-> "none", dedup |-> FALSE, total |-> FALSE, has_more |-> FALSE,
               allow_non_2xx |-> FALSE, text_cursor |-> TRUE, cap |-> PageSize]
  /\ RestSinkInit
  /\ kind # "rest_sink" =>
       sink = [mode |-> "batch", json_column |-> FALSE, allow_non_2xx |-> FALSE]
  /\ FileSinkInit
  /\ kind # "file_sink" => <<format, target, dest>> = <<"csv", "local", "none">>
  /\ ThriftInit
  /\ kind # "thrift" => <<role, pages, calls>> = <<"dml", 0, 1>>
  /\ SecretFetchInit
  /\ kind # "secrets" => <<chain, zone>> = <<<<"token">>, 0>>
  /\ DbSourceInit
  /\ kind # "db_source" =>
       /\ reader = [driver |-> "mysql", mode |-> "scan", readable |-> TRUE, unreadable_row |-> 0]

ReadRest    == kind = "rest_source" /\ RestSourceNext /\ UNCHANGED <<kind, sinkVars, fileVars, thriftVars, secretVars, dbVars>>
WriteRest   == kind = "rest_sink" /\ RestSinkNext /\ UNCHANGED <<kind, restVars, fileVars, thriftVars, secretVars, dbVars>>
WriteFile   == kind = "file_sink" /\ FileSinkNext /\ UNCHANGED <<kind, restVars, sinkVars, thriftVars, secretVars, dbVars>>
TalkThrift  == kind = "thrift" /\ ThriftNext /\ UNCHANGED <<kind, restVars, sinkVars, fileVars, secretVars, dbVars>>
GetSecrets  == kind = "secrets" /\ SecretFetchNext /\ UNCHANGED <<kind, restVars, sinkVars, fileVars, thriftVars, dbVars>>
ReadTable   == kind = "db_source" /\ DbSourceNext /\ UNCHANGED <<kind, restVars, sinkVars, fileVars, thriftVars, secretVars>>

Next == ReadRest \/ WriteRest \/ WriteFile \/ TalkThrift \/ GetSecrets \/ ReadTable

\* The server answers the requests of the REST source; the tasks of the Thrift
\* session run, its server works and sends answers; requests for secrets are answered
\* or given up; a table is read on, and the pipeline takes what was read. Nothing else
\* has to happen.
Fairness ==
  /\ WF_connectorVars(ReadRest /\ Answer)
  /\ WF_connectorVars(TalkThrift /\ Step)
  /\ WF_connectorVars(TalkThrift /\ Work)
  /\ WF_connectorVars(TalkThrift /\ PostCloses)
  /\ WF_connectorVars(GetSecrets /\ Fetching)
  /\ WF_connectorVars(ReadTable /\ ReadSide)
  /\ WF_connectorVars(ReadTable /\ PipelineSide)

Spec == Init /\ [][Next]_connectorVars /\ Fairness

\* The pages of a REST source come to an end once the rows stop changing.
RestSourceEnds == kind = "rest_source" => <>(result # "fetching")

\* A Thrift source, query or list of statements comes to an end, unless the server
\* loses the statement: its answer has no state then, and the client asks on.
ThriftEnds == kind = "thrift" => <>(pc \in Over \/ op = "forgotten")

\* Every way to log in is tried a bounded number of times: secrets are resolved or the
\* pipeline fails, as long as what is asked is answered in the end. (Requests to servers
\* have no timeout; those to the metadata endpoint and the CLI have.)
SecretsEnd == kind = "secrets" => <>(fetch_pc \in {"resolved", "failed", "denied"})

\* Reading a table comes to an end: without a cursor always, with one from the first
\* value of it that is seen.
ReadingEnds == (kind = "db_source" /\ (reader.mode = "scan" \/ last # NoKey)) ~> src_pc = "ended"

\* Whatever the outside does, short of not answering, each connector comes to its end.
EveryConnectorEnds == RestSourceEnds /\ ThriftEnds /\ SecretsEnd /\ ReadingEnds
=============================================================================
