------------------------------ MODULE DagWiring ------------------------------
(***************************************************************************)
(* How a pipeline is put together before it runs: the add_* methods of     *)
(* Dag, validate, the replacement of the sinks in run_dry and the wiring   *)
(* loop of run_inner (runtime/src/dag/mod.rs), which makes one channel per *)
(* edge and hands its two ends to the steps.                               *)
(*                                                                         *)
(* The steps are added in any order with any inputs.  What validate then   *)
(* lets through is what DagExecutor assumes of a pipeline.                 *)
(***************************************************************************)
EXTENDS Naturals, Sequences, FiniteSets, SequencesExt

CONSTANTS
  Ids,        \* the ids a step may have
  Selfish,    \* TRUE: a join may name the same step as its left and its right input
  MaxSteps    \* bound: the steps of a pipeline

ASSUME WiringBounds == Selfish \in BOOLEAN /\ MaxSteps \in Nat

\* ComponentSpec, as far as inputs() and the wiring look at it.
Specs ==
  [kind : {"source"}, ins : {<<>>}]
    \cup [kind : {"transform", "sink"}, ins : {<<i>> : i \in Ids}]
    \cup {s \in [kind : {"join"}, ins : Ids \X Ids] : Selfish \/ s.ins[1] # s.ins[2]}

VARIABLES
  order,    \* Dag::order
  specs,    \* Dag::specs
  stage,    \* how far the pipeline has come
  at,       \* the position of the wiring loop in order
  txs,      \* output_txs_map: the channels a step sends to
  primary,  \* primary_rx_map: the channel a step receives from
  right     \* right_rx_map: the channel of a join's build side

vars == <<order, specs, stage, at, txs, primary, right>>

\* A channel is named by its producer and its number among the producer's channels.
NoChan == <<>>
Chans  == Ids \X (1..(2 * MaxSteps))

Stages == {"adding", "refused", "accepted", "wired"}

-----------------------------------------------------------------------------
(* Faults: what plausible mistakes in the code would make of definitions below. *)

\* The inputs are looked up among all steps, not only among the earlier ones.
KnownAnywhere(i, input) == \E j \in DOMAIN order : order[j] = input

-----------------------------------------------------------------------------
\* add_source, add_filter, add_join, ...: a later step with the same id replaces the spec
\* of the earlier one and is listed twice.
Add(id, spec) ==
  /\ stage = "adding"
  /\ Len(order) < MaxSteps
  /\ order' = Append(order, id)
  /\ specs' = [i \in DOMAIN specs \cup {id} |-> IF i = id THEN spec ELSE specs[i]]
  /\ UNCHANGED <<stage, at, txs, primary, right>>

\* build_dag_from_doc refuses a document with an id it has seen.
RefuseDuplicate(id) ==
  /\ stage = "adding"
  /\ Contains(order, id)
  /\ stage' = "refused"
  /\ UNCHANGED <<order, specs, at, txs, primary, right>>

UniqueIds == \A i, j \in DOMAIN order : order[i] = order[j] => i = j

Known(i, input) == \E j \in DOMAIN order : j < i /\ order[j] = input

InputsKnown ==
  \A i \in DOMAIN order : \A k \in DOMAIN specs[order[i]].ins : Known(i, specs[order[i]].ins[k])

\* run_dry makes a transform of every sink before anything is validated.
DrySpecs ==
  [i \in DOMAIN specs |->
     IF specs[i].kind = "sink" THEN [specs[i] EXCEPT !.kind = "transform"] ELSE specs[i]]

Validate ==
  /\ stage = "adding"
  /\ \E dry \in BOOLEAN : specs' = IF dry THEN DrySpecs ELSE specs
  /\ stage' = IF UniqueIds /\ InputsKnown THEN "accepted" ELSE "refused"
  /\ UNCHANGED <<order, at, txs, primary, right>>

\* dependents: the consumers of a step in pipeline order, once per input.
Consumers(id) ==
  FlattenSeq([i \in DOMAIN order |->
    [k \in 1..Cardinality({j \in DOMAIN specs[order[i]].ins : specs[order[i]].ins[j] = id}) |->
       order[i]]])

IsRight(c, id) == specs[c].kind = "join" /\ specs[c].ins[2] = id

\* One turn of the wiring loop: the channels of one producer.  A consumer's receiver
\* is the last one inserted for it.
Wire ==
  /\ stage = "accepted"
  /\ at <= Len(order)
  /\ LET id == order[at]
         cs == Consumers(id)
         Mine(c) == {k \in DOMAIN cs : cs[k] = c}
         Latest(c) == CHOOSE k \in Mine(c) : \A m \in Mine(c) : m <= k
     IN  /\ txs' = [txs EXCEPT ![id] = [k \in DOMAIN cs |-> <<id, k>>]]
         /\ right' = [c \in Ids |-> IF Mine(c) # {} /\ IsRight(c, id)
                                    THEN <<id, Latest(c)>> ELSE right[c]]
         /\ primary' = [c \in Ids |-> IF Mine(c) # {} /\ ~IsRight(c, id)
                                      THEN <<id, Latest(c)>> ELSE primary[c]]
  /\ at' = at + 1
  /\ UNCHANGED <<order, specs, stage>>

WiringDone ==
  /\ stage = "accepted"
  /\ at > Len(order)
  /\ stage' = "wired"
  /\ UNCHANGED <<order, specs, at, txs, primary, right>>

Done == stage \in {"refused", "wired"} /\ UNCHANGED vars

Init ==
  /\ order = <<>>
  /\ specs = [i \in {} |-> [kind |-> "source", ins |-> <<>>]]
  /\ stage = "adding"
  /\ at = 1
  /\ txs = [i \in Ids |-> <<>>]
  /\ primary = [i \in Ids |-> NoChan]
  /\ right = [i \in Ids |-> NoChan]

Next ==
  \/ \E id \in Ids, spec \in Specs : Add(id, spec)
  \/ \E id \in Ids : RefuseDuplicate(id)
  \/ Validate \/ Wire \/ WiringDone \/ Done

Spec == Init /\ [][Next]_vars
-----------------------------------------------------------------------------
TypeOK ==
  /\ order \in Seq(Ids)
  /\ DOMAIN specs = {order[i] : i \in DOMAIN order}
  /\ \A i \in DOMAIN specs : specs[i] \in Specs
  /\ stage \in Stages
  /\ at \in 1..(MaxSteps + 1)
  /\ txs \in [Ids -> Seq(Chans)]
  /\ primary \in [Ids -> Chans \cup {NoChan}]
  /\ right \in [Ids -> Chans \cup {NoChan}]

\* Every step gets the receivers its run_component_inner asks for ("wiring bug" if it
\* has none), each from the step it names, and nobody else's receiver.
ReceiversFit ==
  stage = "wired" =>
    \A id \in DOMAIN specs :
      LET ins == specs[id].ins IN
        /\ IF ins = <<>> THEN primary[id] = NoChan
           ELSE primary[id] # NoChan /\ primary[id][1] = ins[1]
        /\ IF Len(ins) < 2 THEN right[id] = NoChan
           ELSE right[id] # NoChan /\ right[id][1] = ins[2]

\* Every sender has its receiver with a step, so that no send_to_all of a healthy
\* pipeline finds a closed channel.
NoSenderWithoutReceiver ==
  stage = "wired" =>
    \A id \in DOMAIN specs : \A k \in DOMAIN txs[id] :
      \E c \in DOMAIN specs : txs[id][k] \in {primary[c], right[c]}

-----------------------------------------------------------------------------
(* The inductive invariant.                                                  *)

\* What validate lets through keeps its order, and the loop goes through it once.
InOrder ==
  /\ Len(order) <= MaxSteps /\ at <= Len(order) + 1
  /\ stage = "adding" => at = 1
  /\ stage \in {"accepted", "wired"} => UniqueIds /\ InputsKnown
  /\ stage = "wired" => at = Len(order) + 1

\* The producers behind the loop have their channels, and their consumers the other ends.
HasChannels(p) == \E j \in DOMAIN order : j < at /\ order[j] = p
ChannelTo(c, p) == {<<p, k>> : k \in {j \in DOMAIN Consumers(p) : Consumers(p)[j] = c}}
From(c, k) ==
  IF c \in DOMAIN specs /\ k \in DOMAIN specs[c].ins /\ HasChannels(specs[c].ins[k])
  THEN ChannelTo(c, specs[c].ins[k]) ELSE {NoChan}

ChannelsMade ==
  stage \in {"accepted", "wired"} =>
    /\ \A p \in Ids : HasChannels(p) => txs[p] = [k \in DOMAIN Consumers(p) |-> <<p, k>>]
    /\ \A c \in Ids : primary[c] \in From(c, 1) /\ right[c] \in From(c, 2)

\* Nothing is wired before validate.
NothingMade ==
  stage = "adding" => \A c \in Ids : txs[c] = <<>> /\ primary[c] = NoChan /\ right[c] = NoChan

WiringInv == TypeOK /\ InOrder /\ ChannelsMade /\ NothingMade

\* The wired pipeline is one DagExecutor speaks of: every receiver and every sender has
\* its counterpart, the steps come after their inputs, there is one channel per edge, and
\* a step sends to its consumers in pipeline order.
FitsExecutor ==
  /\ WiringInv /\ ReceiversFit /\ NoSenderWithoutReceiver
  /\ stage = "wired" =>
      LET pos(id) == CHOOSE i \in DOMAIN order : order[i] = id
          Receiver(ch) == CHOOSE c \in DOMAIN specs : ch \in {primary[c], right[c]}
      IN  /\ \A id \in DOMAIN specs : \A k \in DOMAIN specs[id].ins :
               specs[id].ins[k] \in DOMAIN specs /\ pos(specs[id].ins[k]) < pos(id)
          /\ \A id \in DOMAIN specs :
               /\ {Receiver(txs[id][k]) : k \in DOMAIN txs[id]}
                    = {c \in DOMAIN specs : Contains(specs[c].ins, id)}
               /\ \A k, m \in DOMAIN txs[id] :
                    k < m => pos(Receiver(txs[id][k])) < pos(Receiver(txs[id][m]))
=============================================================================
