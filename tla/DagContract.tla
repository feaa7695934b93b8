----------------------------- MODULE DagContract -----------------------------
(***************************************************************************)
(* What Dag::run promises, without channels, batches or back-pressure:     *)
(* every step ends once, as a success, an error or a panic; a step         *)
(* succeeds and a sink commits only after the inputs it depends on have    *)
(* ended well; the run succeeds exactly when every step did.  A step that  *)
(* panics leaves nothing behind that would stop its consumers, and an      *)
(* inner join may do without its left input: the contract grants both,     *)
(* because the executor does.                                              *)
(***************************************************************************)
EXTENDS Sequences, Naturals

CONSTANTS Nodes,   \* the steps
          Ins,     \* their inputs
          Sinks,   \* the steps that commit something at the end
          Waivers  \* the steps that may end well whatever became of their first input

VARIABLES outcome,    \* of each step
          committed,  \* the sinks that have committed
          result      \* of the run

vars == <<outcome, committed, result>>

\* A step that depends on m goes on as if m had delivered everything.
Passed(m) == outcome[m] \in {"ok", "panic"}

InputsPassed(n) == \A i \in DOMAIN Ins[n] : Passed(Ins[n][i])

Init ==
  /\ outcome = [n \in Nodes |-> "pending"]
  /\ committed = {}
  /\ result = "running"

Commit(n) ==
  /\ n \in Sinks \ committed
  /\ outcome[n] = "pending"
  /\ InputsPassed(n)
  /\ committed' = committed \cup {n}
  /\ UNCHANGED <<outcome, result>>

Succeed(n) ==
  /\ outcome[n] = "pending"
  /\ n \in Sinks => n \in committed
  /\ \/ InputsPassed(n)
     \/ n \in Waivers /\ outcome[Ins[n][1]] # "pending" /\ Passed(Ins[n][2])
  /\ outcome' = [outcome EXCEPT ![n] = "ok"]
  /\ UNCHANGED <<committed, result>>

\* A sink that has committed does not fail any more.
GoWrong(n) ==
  /\ outcome[n] = "pending"
  /\ n \notin committed
  /\ \E o \in {"error", "panic"} : outcome' = [outcome EXCEPT ![n] = o]
  /\ UNCHANGED <<committed, result>>

Conclude ==
  /\ result = "running"
  /\ \A n \in Nodes : outcome[n] # "pending"
  /\ result' = IF \A n \in Nodes : outcome[n] = "ok" THEN "ok" ELSE "error"
  /\ UNCHANGED <<outcome, committed>>

Next == (\E n \in Nodes : Commit(n) \/ Succeed(n) \/ GoWrong(n)) \/ Conclude

Spec == Init /\ [][Next]_vars
=============================================================================
