----------------------------- MODULE DagExecutor -----------------------------
(***************************************************************************)
(* The pipeline executor of runtime/src/dag/mod.rs.                        *)
(*                                                                         *)
(* Every step of a pipeline runs as a tokio task (run_component); one      *)
(* bounded mpsc channel joins a step to each of its consumers.  A task     *)
(* loops over its input, hands batches on with send_to_all, and when it    *)
(* fails forwards its error to every consumer before it drops its senders, *)
(* because a consumer takes a closed channel for the regular end of the    *)
(* data and commits.  The model keeps that protocol: what a step awaits,   *)
(* what closes a channel, who sees an error and who sees an end of data.   *)
(* A batch has no contents here; how many a step has produced and how many *)
(* its consumers have taken is counted.                                    *)
(***************************************************************************)
EXTENDS Naturals, Sequences, FiniteSets

CONSTANTS
  Nodes,       \* the step ids of the pipeline
  Order,       \* Dag::order, the steps in the order they were declared
  Kind,        \* the ComponentSpec variant of each step, see Kinds
  Ins,         \* ComponentSpec::inputs: for a join <<left, right>>
  Outs,        \* the consumers of each step, in pipeline order
  Cap,         \* ETLConfig::channel_capacity, at least 1
  MaxBatches,  \* how many batches each source holds at most
  DryRun,      \* TRUE for run_dry, FALSE for run
  Limit,       \* run_dry's batch_limit
  Fallible,    \* the steps whose own work may return an error
  Panicky      \* the steps whose own code may panic

\* A Scd2Sink behaves here as a dbSink; json, csv, parquet and REST sources as
\* fileSource; Unnest as filter, Rename and Flatten as map.
SourceKinds == {"dbSource", "fileSource"}
SinkKinds   == {"dbSink", "fileSink", "restSink"}
JoinKinds   == {"innerJoin", "leftJoin", "fullJoin"}
Kinds       == SourceKinds \cup SinkKinds \cup JoinKinds
                 \cup {"filter", "map", "aggregate"}

Edges == {e \in Nodes \X Nodes : \E i \in DOMAIN Ins[e[2]] : Ins[e[2]][i] = e[1]}

Before(m, n) == \E i, j \in DOMAIN Order : i < j /\ Order[i] = m /\ Order[j] = n

\* What Dag::validate accepts, less a join of a step with itself (see DagWiring).
ASSUME PipelineAssumption ==
  /\ IsFiniteSet(Nodes)
  /\ Order \in Seq(Nodes) /\ \A n \in Nodes : \E i \in DOMAIN Order : Order[i] = n
  /\ \A i, j \in DOMAIN Order : Order[i] = Order[j] => i = j
  /\ Kind \in [Nodes -> Kinds]
  /\ Ins \in [Nodes -> Seq(Nodes)]
  /\ \A n \in Nodes :
       /\ Len(Ins[n]) = IF Kind[n] \in SourceKinds THEN 0
                        ELSE IF Kind[n] \in JoinKinds THEN 2 ELSE 1
       /\ \A i, j \in DOMAIN Ins[n] : Ins[n][i] = Ins[n][j] => i = j
       /\ \A i \in DOMAIN Ins[n] : Before(Ins[n][i], n)

\* The wiring loop makes one channel per edge, a step's senders in the order in
\* which the pipeline declares its consumers.
ASSUME WiringAssumption ==
  /\ Outs \in [Nodes -> Seq(Nodes)]
  /\ \A p, c \in Nodes : <<p, c>> \in Edges <=> \E i \in DOMAIN Outs[p] : Outs[p][i] = c
  /\ \A p \in Nodes : \A i, j \in DOMAIN Outs[p] : i < j => Before(Outs[p][i], Outs[p][j])

ASSUME ConfigAssumption ==
  /\ Cap \in Nat \ {0}
  /\ MaxBatches \in [Nodes -> Nat]
  /\ DryRun \in BOOLEAN
  /\ Limit \in Nat
  /\ Fallible \subseteq Nodes
  /\ Panicky \subseteq Nodes

\* run_dry replaces every sink by an identity Transform.
EffKind(n) == IF DryRun /\ Kind[n] \in SinkKinds THEN "filter" ELSE Kind[n]

Committers == {n \in Nodes : EffKind(n) \in {"dbSink", "fileSink"}}

-----------------------------------------------------------------------------
VARIABLES
  pc,        \* where each task is
  next,      \* the consumer the task sends to next, an index into Outs
  chan,      \* the contents of each channel
  got,       \* how many batches have been taken from each channel
  made,      \* ComponentStats::batches
  err,       \* the error run_component_inner returned
  landed,    \* the sinks that flushed or published
  reported,  \* the steps whose statistics are in the stats channel
  verdict    \* the outcome of run_inner

vars == <<pc, next, chan, got, made, err, landed, reported, verdict>>

\* "closed" is an error whose text holds "downstream channel closed", "fault" any
\* other one.  Forwarding an error keeps its text.
ErrKinds == {"fault", "closed"}
Msgs     == {"batch"} \cup ErrKinds

\* Inside run_component_inner, which owns the receivers.
Inner    == {"init", "read", "build", "hash", "drain", "recv", "work", "send",
             "tail", "sendTail"}
Terminal == {"done", "failed", "panicked"}
PCs      == Inner \cup {"forward", "report"} \cup Terminal

\* The receivers are dropped when run_component_inner returns or unwinds, the
\* senders only when run_component has reported (or unwinds).
RxOpen(c) == pc[c] \in Inner
TxOpen(p) == pc[p] \notin Terminal

Left(n)  == <<Ins[n][1], n>>
Right(n) == <<Ins[n][2], n>>
Sending(n) == pc[n] \in {"send", "sendTail"}

\* The batch of a source that makes it stop, in a dry run.
AtLimit(n) == DryRun /\ made[n] >= Limit

\* Where a task goes on after send_to_all has returned.
Resume(n) ==
  IF pc[n] = "sendTail" THEN "report"
  ELSE IF EffKind(n) \notin SourceKinds THEN "recv"
  ELSE IF AtLimit(n) THEN "report" ELSE "read"

\* After the end of the input a sink commits, an aggregate that received anything
\* has its groups to emit and a full join that has emitted something (and so knows
\* its output schema) its unmatched right rows; the others return Ok.
AfterEof(n) ==
  IF \/ n \in Committers
     \/ EffKind(n) = "aggregate" /\ got[Left(n)] > 0
     \/ EffKind(n) = "fullJoin" /\ made[n] > 0
  THEN "tail" ELSE "report"

Goto(n, where) == pc' = [pc EXCEPT ![n] = where]

\* record_batch, then the start of send_to_all.
Emit(n, sending) ==
  /\ Goto(n, sending)
  /\ next' = [next EXCEPT ![n] = 1]
  /\ made' = [made EXCEPT ![n] = @ + 1]
  /\ UNCHANGED <<chan, got, err, landed, reported, verdict>>

\* run_component_inner returns an error of kind k.
Abort(n, k) ==
  /\ Goto(n, "forward")
  /\ next' = [next EXCEPT ![n] = 1]
  /\ err' = [err EXCEPT ![n] = k]
  /\ UNCHANGED <<made, landed, reported, verdict>>

Take(e) == chan' = [chan EXCEPT ![e] = Tail(@)]

TakeBatch(e, where) ==
  /\ Head(chan[e]) = "batch"
  /\ Take(e)
  /\ got' = [got EXCEPT ![e] = @ + 1]
  /\ Goto(e[2], where)
  /\ UNCHANGED <<next, made, err, landed, reported, verdict>>

TakeError(e) ==
  /\ Head(chan[e]) \in ErrKinds
  /\ Take(e)
  /\ Abort(e[2], Head(chan[e]))
  /\ UNCHANGED got

\* recv() answers None: nothing is queued and every sender is gone.
AtEof(e) == chan[e] = <<>> /\ ~TxOpen(e[1])

Move(n, where) ==
  /\ Goto(n, where)
  /\ UNCHANGED <<next, chan, got, made, err, landed, reported, verdict>>

-----------------------------------------------------------------------------
(* Faults: what plausible mistakes in the code would make of some definitions of   *)
(* this module.  Nothing in the specification uses them; each shows that a         *)
(* property would catch the mistake.                                               *)

\* An unbounded channel.
SendUnbounded(n) ==
  /\ Sending(n)
  /\ next[n] <= Len(Outs[n])
  /\ LET e == <<n, Outs[n][next[n]]>> IN
       /\ RxOpen(e[2])
       /\ chan' = [chan EXCEPT ![e] = Append(@, "batch")]
       /\ next' = [next EXCEPT ![n] = @ + 1]
  /\ UNCHANGED <<pc, got, made, err, landed, reported, verdict>>

\* try_send whose error is ignored.
TrySend(n) ==
  /\ Sending(n)
  /\ next[n] <= Len(Outs[n])
  /\ LET e == <<n, Outs[n][next[n]]>> IN
       /\ RxOpen(e[2])
       /\ chan' = [chan EXCEPT ![e] = IF Len(@) < Cap THEN Append(@, "batch") ELSE @]
       /\ next' = [next EXCEPT ![n] = @ + 1]
  /\ UNCHANGED <<pc, got, made, err, landed, reported, verdict>>

\* A sender does not notice that its receiver is gone.
SendHangs(n) == FALSE

\* An inner join without right rows returns at once and drops its left input.
BuildWithoutDrain(n) ==
  /\ pc[n] = "build"
  /\ LET e == Right(n) IN
       \/ chan[e] # <<>> /\ (TakeBatch(e, "build") \/ TakeError(e))
       \/ AtEof(e) /\ Move(n, IF EffKind(n) = "innerJoin" /\ got[e] = 0
                              THEN "report" ELSE "hash")

\* A panic is caught and the step returns Ok.
PanicReturnsOk(n) ==
  /\ n \in Panicky
  /\ EffKind(n) = Kind[n]
  /\ EffKind(n) \notin JoinKinds \cup {"aggregate"}
  /\ pc[n] \in {"init", "read", "work", "tail"}
  /\ Move(n, "report")

\* No error is forwarded: the senders are just dropped.
ForwardNothing(n) ==
  /\ pc[n] = "forward"
  /\ next[n] <= Len(Outs[n])
  /\ next' = [next EXCEPT ![n] = @ + 1]
  /\ UNCHANGED <<pc, chan, got, made, err, landed, reported, verdict>>

\* Only the first consumer learns of an error.
ForwardToFirst(n) ==
  /\ pc[n] = "forward"
  /\ next[n] <= Len(Outs[n])
  /\ LET e == <<n, Outs[n][next[n]]>> IN
       IF next[n] = 1 /\ RxOpen(e[2])
       THEN Len(chan[e]) < Cap /\ chan' = [chan EXCEPT ![e] = Append(@, err[n])]
       ELSE UNCHANGED chan
  /\ next' = [next EXCEPT ![n] = @ + 1]
  /\ UNCHANGED <<pc, got, made, err, landed, reported, verdict>>

\* The stats channel is one entry short.
StatsCapShort == Len(Order) - 1

-----------------------------------------------------------------------------
\* What a task does first: open the source, the sink or the build side.
Start(n) ==
  /\ pc[n] = "init"
  /\ Move(n, IF EffKind(n) \in SourceKinds THEN "read"
             ELSE IF EffKind(n) \in JoinKinds THEN "build" ELSE "recv")

\* A source has the next batch.  At the dry-run limit a database source sends
\* it and stops, the others stop without sending it.
SourceRead(n) ==
  /\ pc[n] = "read"
  /\ made[n] < MaxBatches[n]
  /\ IF EffKind(n) = "fileSource" /\ DryRun /\ made[n] + 1 >= Limit
     THEN /\ Goto(n, "report")
          /\ made' = [made EXCEPT ![n] = @ + 1]
          /\ UNCHANGED <<next, chan, got, err, landed, reported, verdict>>
     ELSE Emit(n, "send")

\* The data may end anywhere up to the bound.
SourceEnd(n) == pc[n] = "read" /\ Move(n, "report")

\* One tx.send(Ok(batch)).await of send_to_all: waits for room while the receiver
\* lives, fails when it is gone.
SendBatch(n) ==
  /\ Sending(n)
  /\ next[n] <= Len(Outs[n])
  /\ LET e == <<n, Outs[n][next[n]]>> IN
       /\ RxOpen(e[2])
       /\ Len(chan[e]) < Cap
       /\ chan' = [chan EXCEPT ![e] = Append(@, "batch")]
       /\ next' = [next EXCEPT ![n] = @ + 1]
  /\ UNCHANGED <<pc, got, made, err, landed, reported, verdict>>

SendClosed(n) ==
  /\ Sending(n)
  /\ next[n] <= Len(Outs[n])
  /\ ~RxOpen(Outs[n][next[n]])
  /\ Abort(n, "closed")
  /\ UNCHANGED <<chan, got>>

SentToAll(n) == Sending(n) /\ next[n] > Len(Outs[n]) /\ Move(n, Resume(n))

\* The receive loop every step but a source has on its (left) input.
Recv(n) ==
  /\ pc[n] = "recv"
  /\ LET e == Left(n) IN
       \/ chan[e] # <<>> /\ (TakeBatch(e, "work") \/ TakeError(e))
       \/ AtEof(e) /\ Move(n, AfterEof(n))

\* A join first collects its right side.  With nothing on it an inner join only
\* drains the left side.
Build(n) ==
  /\ pc[n] = "build"
  /\ LET e == Right(n) IN
       \/ chan[e] # <<>> /\ (TakeBatch(e, "build") \/ TakeError(e))
       \/ AtEof(e) /\ Move(n, IF EffKind(n) = "innerJoin" /\ got[e] = 0
                              THEN "drain" ELSE "hash")

Hash(n) == pc[n] = "hash" /\ Move(n, "recv")

\* while left_rx.recv().await.is_some() {}
Drain(n) ==
  /\ pc[n] = "drain"
  /\ LET e == Left(n) IN
       \/ /\ chan[e] # <<>>
          /\ Take(e)
          /\ got' = [got EXCEPT ![e] = IF Head(chan[e]) = "batch" THEN @ + 1 ELSE @]
          /\ UNCHANGED <<pc, next, made, err, landed, reported, verdict>>
       \/ AtEof(e) /\ Move(n, "report")

\* One batch is processed: a step may emit a batch for it, a filter or a join may
\* have no rows to emit, an aggregate or a file sink keeps it, and a database or
\* REST sink has written it.
Work(n) ==
  /\ pc[n] = "work"
  /\ \/ EffKind(n) \in JoinKinds \cup {"filter", "map"} /\ Emit(n, "send")
     \/ EffKind(n) \in JoinKinds \cup {"filter", "aggregate", "fileSink"} /\ Move(n, "recv")
     \/ /\ EffKind(n) \in {"dbSink", "restSink"}
        /\ Goto(n, "recv")
        /\ made' = [made EXCEPT ![n] = @ + 1]
        /\ UNCHANGED <<next, chan, got, err, landed, reported, verdict>>

\* The groups of an aggregate; the unmatched right rows of a full join, if any.
EmitLast(n) ==
  /\ pc[n] = "tail"
  /\ \/ EffKind(n) \in {"aggregate", "fullJoin"} /\ Emit(n, "sendTail")
     \/ EffKind(n) = "fullJoin" /\ Move(n, "report")

\* A database sink flushes, a file sink publishes its file.
Land(n) ==
  /\ pc[n] = "tail"
  /\ n \in Committers
  /\ landed' = landed \cup {n}
  /\ made' = IF EffKind(n) = "fileSink" THEN [made EXCEPT ![n] = @ + 1] ELSE made
  /\ Goto(n, "report")
  /\ UNCHANGED <<next, chan, got, err, reported, verdict>>

\* Where the work of a step of kind k itself may end in an error.
FallibleAt(k) ==
  CASE k \in SourceKinds            -> {"init", "read"}
    [] k = "filter"                 -> {"init", "work"}
    [] k \in {"map", "restSink"}    -> {"work"}
    [] k \in {"innerJoin", "leftJoin"} -> {"hash", "work"}
    [] k = "fullJoin"               -> {"hash", "work", "tail"}
    [] k = "aggregate"              -> {"tail"}
    [] k \in {"dbSink", "fileSink"} -> {"init", "work", "tail"}

Fail(n) ==
  /\ n \in Fallible
  /\ pc[n] \in FallibleAt(EffKind(n))
  /\ EffKind(n) = Kind[n]                    \* the identity does not fail
  /\ Abort(n, "fault")
  /\ UNCHANGED <<chan, got>>

\* A panic in code the task runs itself.  What runs under spawn_blocking, all of
\* a join's and an aggregate's work, ends as an error instead.
Panic(n) ==
  /\ n \in Panicky
  /\ EffKind(n) = Kind[n]
  /\ EffKind(n) \notin JoinKinds \cup {"aggregate"}
  /\ pc[n] \in {"init", "read", "work", "tail"}
  /\ Move(n, "panicked")

\* run_component forwards an error to its consumers, one after the other.
Forward(n) ==
  /\ pc[n] = "forward"
  /\ next[n] <= Len(Outs[n])
  /\ LET e == <<n, Outs[n][next[n]]>> IN
       IF RxOpen(e[2])
       THEN Len(chan[e]) < Cap /\ chan' = [chan EXCEPT ![e] = Append(@, err[n])]
       ELSE UNCHANGED chan
  /\ next' = [next EXCEPT ![n] = @ + 1]
  /\ UNCHANGED <<pc, got, made, err, landed, reported, verdict>>

\* The stats channel, which nobody reads before every task has ended, has room for
\* one entry per step.
StatsCap == Len(Order)

Report(n) ==
  /\ \/ pc[n] = "report" /\ Goto(n, "done")
     \/ pc[n] = "forward" /\ next[n] > Len(Outs[n]) /\ Goto(n, "failed")
  /\ Cardinality(reported) < StatsCap
  /\ reported' = reported \cup {n}
  /\ UNCHANGED <<next, chan, got, made, err, landed, verdict>>

\* join_all, then the root cause if there is one, else an error about a channel.
Finish ==
  /\ verdict = "running"
  /\ \A n \in Nodes : pc[n] \in Terminal
  /\ verdict' = IF \E n \in Nodes : pc[n] = "panicked" \/ err[n] = "fault" THEN "rootCause"
                ELSE IF \E n \in Nodes : err[n] = "closed" THEN "symptom" ELSE "ok"
  /\ UNCHANGED <<pc, next, chan, got, made, err, landed, reported>>

Finished == verdict # "running" /\ UNCHANGED vars

Init ==
  /\ pc = [n \in Nodes |-> "init"]
  /\ next = [n \in Nodes |-> 1]
  /\ chan = [e \in Edges |-> <<>>]
  /\ got = [e \in Edges |-> 0]
  /\ made = [n \in Nodes |-> 0]
  /\ err = [n \in Nodes |-> "none"]
  /\ landed = {}
  /\ reported = {}
  /\ verdict = "running"

\* What a task does when it is polled.  Failing is no obligation.
Progress(n) ==
  \/ Start(n) \/ SourceRead(n) \/ SourceEnd(n)
  \/ SendBatch(n) \/ SendClosed(n) \/ SentToAll(n)
  \/ Recv(n) \/ Build(n) \/ Hash(n) \/ Drain(n)
  \/ Work(n) \/ EmitLast(n) \/ Land(n)
  \/ Forward(n) \/ Report(n)

Next ==
  \/ \E n \in Nodes : Progress(n) \/ Fail(n) \/ Panic(n)
  \/ Finish
  \/ Finished

Spec == Init /\ [][Next]_vars

Fairness == (\A n \in Nodes : WF_vars(Progress(n))) /\ WF_vars(Finish)

FairSpec == Spec /\ Fairness
-----------------------------------------------------------------------------
\* Only a source reads, only a join builds and drains, a source receives nothing and a
\* sink sends nothing.
PcFits(n) ==
  /\ pc[n] = "read" => EffKind(n) \in SourceKinds
  /\ pc[n] \in {"send", "sendTail"} => EffKind(n) \notin SinkKinds
  /\ pc[n] \in {"build", "hash", "drain"} => EffKind(n) \in JoinKinds
  /\ pc[n] \in {"recv", "work", "tail", "sendTail"} => EffKind(n) \notin SourceKinds

TypeOK ==
  /\ pc \in [Nodes -> PCs] /\ \A n \in Nodes : PcFits(n)
  /\ next \in [Nodes -> Nat \ {0}]
  /\ chan \in [Edges -> Seq(Msgs)]
  /\ got \in [Edges -> Nat]
  /\ made \in [Nodes -> Nat]
  /\ err \in [Nodes -> ErrKinds \cup {"none"}]
  /\ landed \subseteq Committers
  /\ reported \subseteq Nodes
  /\ verdict \in {"running", "ok", "rootCause", "symptom"}

\* An inner join that found nothing on its right side does not look at its left.
Drained(n) == EffKind(n) = "innerJoin" /\ got[Right(n)] = 0

Binding(e) == ~(Drained(e[2]) /\ e = Left(e[2]))

\* The edges along which an error reaches a consumer.  A step that panicked has no
\* use for what its inputs tell it.
LiveEdges == {e \in Edges : Binding(e) /\ pc[e[2]] # "panicked"}

\* The steps that n depends on through the edges E, n itself included: the least set
\* that holds n and the origin of every edge of E into it.
UpstreamVia(n, E) ==
  {m \in Nodes : \A S \in SUBSET Nodes :
     (n \in S /\ \A e \in E : e[2] \in S => e[1] \in S) => m \in S}

\* No sink commits behind a failure: once a database sink has flushed or a file
\* sink has published, every step its data came through, however far upstream, has
\* returned Ok (or has panicked, which nothing forwards and nothing gets past).  This is what the error
\* forwarding of run_component is for.
CommitNeedsCleanUpstream ==
  \A n \in landed : \A m \in UpstreamVia(n, LiveEdges) \ {n} : pc[m] \in {"done", "panicked"}

\* run_inner never has to fall back on an error about a closed channel: whenever one
\* task failed on a closed channel, another one failed by itself.
ReportsRootCause == verdict # "symptom"

\* A run that reports success has lost nothing: every batch a step handed to
\* send_to_all was taken by every consumer, every sink has committed, and every
\* step's statistics are in the report.
SuccessDelivers ==
  verdict = "ok" =>
    /\ \A e \in Edges : chan[e] = <<>> /\ (EffKind(e[1]) \notin SinkKinds => got[e] = made[e[1]])
    /\ landed = Committers
    /\ reported = Nodes

\* Back-pressure: at most Cap batches are queued and one is waiting to be sent, so
\* no step is ever more than Cap + 1 batches ahead of a consumer that still listens.
BoundedBuffering ==
  \A e \in Edges : RxOpen(e[2]) /\ EffKind(e[1]) \notin SinkKinds => made[e[1]] <= got[e] + Cap + 1

\* In a dry run that succeeds, whatever step a source feeds has seen the batch the
\* source counted, so that its output schema is in the report.
SampleReachesConsumers ==
  verdict = "ok" /\ DryRun =>
    \A e \in Edges : Kind[e[1]] \in SourceKinds /\ made[e[1]] > 0 => got[e] > 0

\* Every run comes to an end.
Termination == <>(verdict # "running")
-----------------------------------------------------------------------------
(* The inductive invariant behind CommitNeedsCleanUpstream and ReportsRootCause. *)

\* The consumer of e has been told that no more comes, and has not failed since.
SawEnd(e) ==
  \/ pc[e[2]] \in {"tail", "sendTail", "report", "done"}
  \/ /\ EffKind(e[2]) \in JoinKinds /\ e = Right(e[2])
     /\ pc[e[2]] \in {"hash", "drain", "recv", "work", "send"}

\* The consumer of e will still act on an error in e.
Listening(e) == RxOpen(e[2]) /\ ~SawEnd(e) /\ pc[e[2]] # "drain"

HasError(q) == \E i \in DOMAIN q : q[i] \in ErrKinds

\* A task has an error exactly while it forwards it and after it has failed.
ErrorsMatch == \A n \in Nodes : err[n] \in ErrKinds <=> pc[n] \in {"forward", "failed"}

\* Only an inner join without right rows drains its left input.
DrainMatches == \A n \in Nodes : pc[n] = "drain" => Drained(n)

\* A consumer that saw the end has outlived the producer.
EndMeansGone == \A e \in Edges : SawEnd(e) => ~TxOpen(e[1])

\* An error that was forwarded is still queued while its receiver listens.
ErrorQueued ==
  \A p \in Nodes : \A i \in DOMAIN Outs[p] :
    (pc[p] = "failed" \/ (pc[p] = "forward" /\ i < next[p])) /\ Listening(<<p, Outs[p][i]>>)
      => HasError(chan[<<p, Outs[p][i]>>])

\* The end of an input that binds is a good end.
EndMeansClean ==
  \A e \in Edges : SawEnd(e) /\ Binding(e) => pc[e[1]] \in {"done", "panicked"}

\* Behind every error about a closed channel there is a task that failed by itself.
SymptomHasCause ==
  (\/ \E n \in Nodes : err[n] = "closed"
   \/ \E e \in Edges : \E i \in DOMAIN chan[e] : chan[e][i] = "closed")
    => \E n \in Nodes : err[n] = "fault" \/ pc[n] = "panicked"

\* A sink has committed exactly when it goes on to return Ok.
LandedMatches ==
  \A n \in Nodes : n \in landed <=> n \in Committers /\ pc[n] \in {"report", "done"}

IInv ==
  /\ TypeOK
  /\ ErrorsMatch
  /\ DrainMatches
  /\ EndMeansGone
  /\ ErrorQueued
  /\ EndMeansClean
  /\ SymptomHasCause
  /\ LandedMatches
  /\ ReportsRootCause

-----------------------------------------------------------------------------
(* The inductive invariant behind SuccessDelivers, BoundedBuffering and           *)
(* SampleReachesConsumers: where the batches of a step are.                       *)

\* A receiver is done with a channel only when it is empty.
EndMeansEmpty == \A e \in Edges : SawEnd(e) => chan[e] = <<>>

\* A channel holds at most Cap messages, of which only the last is an error, which the
\* producer has forwarded when it came to this consumer, its i-th.
QueueFits(p, i) ==
  LET q == chan[<<p, Outs[p][i]>>] IN
  /\ Len(q) <= Cap
  /\ \A j \in DOMAIN q : q[j] \in ErrKinds =>
       j = Len(q) /\ (pc[p] = "failed" \/ (pc[p] = "forward" /\ i < next[p]))

\* A batch a step has made was taken, is queued, or is about to be sent; a file source at
\* its dry-run limit has counted one more.
Accounted(p, i) ==
  LET e       == <<p, Outs[p][i]>>
      sent    == got[e] + Len(chan[e])
      waiting == IF Sending(p) /\ next[p] <= i THEN 1 ELSE 0
  IN  /\ made[p] <= sent + (IF HasError(chan[e]) THEN 0 ELSE 1)
      /\ pc[p] \notin {"forward", "failed"} =>
           \/ made[p] = sent + waiting
           \/ /\ DryRun /\ Kind[p] = "fileSource" /\ pc[p] \in {"report", "done"}
              /\ made[p] = sent + 1 /\ made[p] >= Limit

QueuesFit       == \A p \in Nodes : \A i \in DOMAIN Outs[p] : QueueFits(p, i)
BatchesAccounted == \A p \in Nodes : EffKind(p) \notin SinkKinds => \A i \in DOMAIN Outs[p] : Accounted(p, i)

\* A step's statistics are in the report once it has ended without a panic.
ReportedMatches == \A n \in Nodes : n \in reported <=> pc[n] \in {"done", "failed"}

\* A success is one of every task.
SuccessOfAll == verdict = "ok" => \A n \in Nodes : pc[n] = "done"

DeliveryInv ==
  /\ IInv
  /\ EndMeansEmpty
  /\ QueuesFit
  /\ BatchesAccounted
  /\ ReportedMatches
  /\ SuccessOfAll

-----------------------------------------------------------------------------
\* A step is pending in the contract until its task has ended.
OutcomeOf(n) == CASE pc[n] = "done"     -> "ok"
                  [] pc[n] = "failed"   -> "error"
                  [] pc[n] = "panicked" -> "panic"
                  [] OTHER              -> "pending"

Contract ==
  INSTANCE DagContract WITH
    Sinks     <- Committers,
    Waivers   <- {n \in Nodes : EffKind(n) = "innerJoin"},
    outcome   <- [n \in Nodes |-> OutcomeOf(n)],
    committed <- landed,
    result    <- IF verdict \in {"rootCause", "symptom"} THEN "error" ELSE verdict

\* The executor implements DagContract: through every interleaving of sends,
\* receives, failures and closed channels, a step ends well and a sink commits only
\* when the contract lets it.
ContractSpec == Contract!Spec
=============================================================================
