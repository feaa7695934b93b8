----------------------------- MODULE ThriftSession -----------------------------
(***************************************************************************)
(* The Thrift connection to Databricks: the source, which prefetches the   *)
(* next page in a task of its own while a page is on its way downstream    *)
(* (drivers/databricks/src/thrift/source.rs), and the client of the sink,  *)
(* which runs statements and small queries one at a time (client.rs).      *)
(* Every request may fail: refused, or carried out with its answer lost.   *)
(***************************************************************************)
EXTENDS Naturals, Sequences

CONSTANTS
  MaxPages,     \* pages a result has at most
  MaxCalls,     \* statements the sink runs at most
  MaxFaults     \* requests that fail at most

ASSUME ThriftAssumption == MaxPages \in Nat /\ MaxCalls \in Nat \ {0} /\ MaxFaults \in Nat

Roles == {"source", "query", "dml"}
Over  == {"done", "failed", "dropped", "unopened"}
Pcs   == {"open", "use", "execute", "poll", "fetch", "yield", "await",
          "close_op", "flush"} \cup Over

VARIABLES
  role,
  pages,        \* the pages of the result are 1..pages ...
  empties,      \* ... of which these hold no row
  pc,
  held,         \* a handle of the session is where a drop finds it
  guard,        \* the source's guard of the operation exists
  calls,        \* statements the client still has to run
  acked,        \* statements it reported as done
  delivered,    \* pages yielded, or collected by the client
  prefetch,     \* the background task: "none", "flying", "ready" or "broken"
  fetched,      \* the page it has, once it is ready
  posts,        \* close requests that spawned tasks have still to send
  session,      \* at the server: "none", "open" or "closed"
  op,           \* at the server: the state of the statement
  next,         \* at the server: the page FETCH_NEXT gives
  applied,      \* at the server: statements carried out
  faults,
  unsent        \* a close request got lost

taskVars == <<prefetch, fetched>>
serverVars == <<session, op, next, applied>>
thriftVars == <<role, pages, empties, pc, held, guard, calls, acked, delivered, taskVars, posts,
          serverVars, faults, unsent>>

OpStates == {"none", "running", "finished", "error", "forgotten", "closed"}

ThriftTypeOK ==
  /\ role \in Roles
  /\ pages \in Nat /\ empties \subseteq 1..pages
  /\ pc \in Pcs
  /\ held \in BOOLEAN /\ guard \in BOOLEAN /\ unsent \in BOOLEAN
  /\ calls \in Nat /\ acked \in Nat /\ applied \in Nat /\ faults \in Nat
  /\ delivered \in Seq(Nat)
  /\ prefetch \in {"none", "flying", "ready", "broken"}
  /\ fetched \in Nat
  /\ posts \subseteq {"close_op", "close_session"}
  /\ session \in {"none", "open", "closed"}
  /\ op \in OpStates
  /\ next \in Nat

ThriftInit ==
  /\ role \in Roles
  /\ pages \in 0..MaxPages
  /\ empties \in SUBSET (1..pages)
  /\ calls \in (IF role = "dml" THEN 1..MaxCalls ELSE {1})
  /\ pc = "open"
  /\ held = FALSE /\ guard = FALSE /\ unsent = FALSE
  /\ acked = 0 /\ applied = 0 /\ faults = 0
  /\ delivered = <<>>
  /\ prefetch = "none" /\ fetched = 0
  /\ posts = {}
  /\ session = "none" /\ op = "none" /\ next = 1

Empty(p) == p > pages \/ p \in empties
More(p)  == p < pages

\* Mutant: only the operation is closed.
LeaveForgets(outcome) ==
  /\ pc' = outcome
  /\ posts' = IF guard THEN {"close_op"} ELSE {}
  /\ held' = FALSE
  /\ guard' = FALSE

\* Leaving drops the guards of the source, or the client: what they know of is
\* closed by spawned tasks, which arrive in any order.
Leave(outcome) ==
  /\ pc' = IF pc \in {"open", "use"} /\ ~held THEN "unopened" ELSE outcome
  /\ posts' = (IF guard THEN {"close_op"} ELSE {}) \cup (IF held THEN {"close_session"} ELSE {})
  /\ held' = FALSE
  /\ guard' = FALSE

Fault == faults < MaxFaults /\ faults' = faults + 1

(***************************************************************************)
(* Opening the session and the default catalog and schema                  *)
(***************************************************************************)
OpenSession ==
  /\ pc = "open"
  /\ session' = "open"
  /\ pc' = "use"
  /\ held' = (role = "source")
  /\ UNCHANGED <<role, pages, empties, guard, calls, acked, delivered, taskVars, posts,
                 op, next, applied, faults, unsent>>

OpenFails ==
  /\ pc = "open"
  /\ Fault
  /\ session' \in {"none", "open"}
  /\ Leave("failed")
  /\ UNCHANGED <<role, pages, empties, calls, acked, delivered, taskVars, op, next, applied, unsent>>

\* The client stores the session only when the USE statements have succeeded.
Use ==
  /\ pc = "use"
  /\ pc' = "execute"
  /\ held' = TRUE
  /\ UNCHANGED <<role, pages, empties, guard, calls, acked, delivered, taskVars, posts,
                 serverVars, faults, unsent>>

UseFails ==
  /\ pc = "use"
  /\ Fault
  /\ Leave("failed")
  /\ UNCHANGED <<role, pages, empties, calls, acked, delivered, taskVars, serverVars, unsent>>

(***************************************************************************)
(* One statement                                                           *)
(***************************************************************************)
Execute ==
  /\ pc = "execute"
  /\ op' = "running"
  /\ guard' = (role = "source")
  /\ pc' = "poll"
  /\ UNCHANGED <<role, pages, empties, held, calls, acked, delivered, taskVars, posts,
                 session, next, applied, faults, unsent>>

ExecuteFails ==
  /\ pc = "execute"
  /\ Fault
  /\ op' \in {op, "running"}
  /\ Leave("failed")
  /\ UNCHANGED <<role, pages, empties, calls, acked, delivered, taskVars, session, next, applied, unsent>>

\* Mutants: a running statement is taken for a finished one; a failed one is not noticed.
PollAtOnce ==
  /\ pc = "poll"
  /\ op \in {"running", "finished"}
  /\ pc' = IF role = "dml" THEN "close_op" ELSE "fetch"
  /\ UNCHANGED <<held, guard, posts>>
  /\ UNCHANGED <<role, pages, empties, calls, acked, delivered, taskVars, serverVars, faults, unsent>>

PollOnlyFinished ==
  /\ pc = "poll"
  /\ op = "finished"
  /\ pc' = IF role = "dml" THEN "close_op" ELSE "fetch"
  /\ UNCHANGED <<held, guard, posts>>
  /\ UNCHANGED <<role, pages, empties, calls, acked, delivered, taskVars, serverVars, faults, unsent>>

\* FINISHED ends the loop, and so do the other final states, with an error. An
\* answer without a state counts as still running.
Poll ==
  /\ pc = "poll"
  /\ \/ /\ op = "finished"
        /\ pc' = IF role = "dml" THEN "close_op" ELSE "fetch"
        /\ UNCHANGED <<held, guard, posts>>
     \/ /\ op \in {"error", "closed"}
        /\ Leave("failed")
  /\ UNCHANGED <<role, pages, empties, calls, acked, delivered, taskVars, serverVars, faults, unsent>>

PollFails ==
  /\ pc = "poll"
  /\ Fault
  /\ Leave("failed")
  /\ UNCHANGED <<role, pages, empties, calls, acked, delivered, taskVars, serverVars, unsent>>

\* The server works on the statement; it may also lose it, with the warehouse.
Work ==
  /\ op = "running"
  /\ \/ /\ op' = "finished"
        /\ applied' = applied + 1
     \/ /\ op' \in {"error", "forgotten"}
        /\ UNCHANGED applied
  /\ UNCHANGED <<role, pages, empties, pc, held, guard, calls, acked, delivered, taskVars, posts,
                 session, next, faults, unsent>>

(***************************************************************************)
(* The source: fetch the first page, then always one page ahead            *)
(***************************************************************************)
StartPrefetch(p) == prefetch' = IF More(p) THEN "flying" ELSE "none"

FirstPage ==
  /\ pc = "fetch" /\ role = "source"
  /\ next' = next + 1
  /\ IF Empty(next)
     THEN /\ Leave("done")
          /\ UNCHANGED <<delivered, prefetch>>
     ELSE /\ delivered' = Append(delivered, next)
          /\ StartPrefetch(next)
          /\ pc' = "yield"
          /\ UNCHANGED <<held, guard, posts>>
  /\ UNCHANGED <<role, pages, empties, calls, acked, fetched, session, op, applied, faults, unsent>>

\* The task runs on when the source is gone.
Prefetch ==
  /\ prefetch = "flying"
  /\ op = "finished"
  /\ prefetch' = "ready"
  /\ fetched' = next
  /\ next' = next + 1
  /\ UNCHANGED <<role, pages, empties, pc, held, guard, calls, acked, delivered, posts, session, op,
                 applied, faults, unsent>>

\* Mutant: the error counts as the end.
PrefetchFailsQuietly ==
  /\ prefetch = "flying"
  /\ Fault
  /\ prefetch' = "none"
  /\ UNCHANGED <<role, pages, empties, pc, held, guard, calls, acked, delivered, fetched, posts,
                 serverVars, unsent>>

PrefetchFails ==
  /\ prefetch = "flying"
  /\ \/ (op # "finished" /\ UNCHANGED <<next, faults>>)
     \/ (Fault /\ next' \in {next, next + 1})
  /\ prefetch' = "broken"
  /\ UNCHANGED <<role, pages, empties, pc, held, guard, calls, acked, delivered, fetched, posts,
                 session, op, applied, unsent>>

\* Downstream asks for the next batch.
Resume ==
  /\ pc = "yield"
  /\ pc' = "await"
  /\ UNCHANGED <<role, pages, empties, held, guard, calls, acked, delivered, taskVars, posts,
                 serverVars, faults, unsent>>

Await ==
  /\ pc = "await"
  /\ \/ /\ prefetch = "none" \/ (prefetch = "ready" /\ Empty(fetched))
        /\ Leave("done")
        /\ UNCHANGED <<delivered, prefetch>>
     \/ /\ prefetch = "broken"
        /\ Leave("failed")
        /\ UNCHANGED <<delivered, prefetch>>
     \/ /\ prefetch = "ready" /\ ~Empty(fetched)
        /\ delivered' = Append(delivered, fetched)
        /\ StartPrefetch(fetched)
        /\ pc' = "yield"
        /\ UNCHANGED <<held, guard, posts>>
  /\ UNCHANGED <<role, pages, empties, calls, acked, fetched, serverVars, faults, unsent>>

(***************************************************************************)
(* The client: collect all pages, close the statement, go on               *)
(***************************************************************************)
QueryPage ==
  /\ pc = "fetch" /\ role = "query"
  /\ next' = next + 1
  /\ delivered' = IF Empty(next) THEN delivered ELSE Append(delivered, next)
  /\ pc' = IF ~Empty(next) /\ More(next) THEN "fetch" ELSE "close_op"
  /\ UNCHANGED <<role, pages, empties, held, guard, calls, acked, taskVars, posts,
                 session, op, applied, faults, unsent>>

\* Either kind of reader.
FetchFails ==
  /\ pc = "fetch"
  /\ Fault
  /\ next' \in {next, next + 1}
  /\ Leave("failed")
  /\ UNCHANGED <<role, pages, empties, calls, acked, delivered, taskVars, session, op, applied, unsent>>

\* Best effort: the statement counts as done all the same.
CloseOperation ==
  /\ pc = "close_op"
  /\ \/ (op' = "closed" /\ UNCHANGED faults)
     \/ (Fault /\ UNCHANGED op)
  /\ acked' = acked + 1
  /\ calls' = calls - 1
  /\ pc' = IF calls > 1 THEN "execute" ELSE "flush"
  /\ UNCHANGED <<role, pages, empties, held, guard, delivered, taskVars, posts,
                 session, next, applied, unsent>>

\* flush_impl: the session is closed in line, and forgotten in any case.
Flush ==
  /\ pc = "flush"
  /\ \/ (session' = "closed" /\ UNCHANGED <<faults, unsent>>)
     \/ (Fault /\ unsent' = TRUE /\ UNCHANGED session)
  /\ held' = FALSE
  /\ pc' = "done"
  /\ UNCHANGED <<role, pages, empties, guard, calls, acked, delivered, taskVars, posts,
                 op, next, applied>>

(***************************************************************************)
(* The pipeline drops the source or the sink                               *)
(***************************************************************************)
Drop ==
  /\ pc \notin Over
  /\ Leave("dropped")
  /\ UNCHANGED <<role, pages, empties, calls, acked, delivered, taskVars, serverVars, faults, unsent>>

PostClose ==
  \/ /\ "close_op" \in posts
     /\ posts' = posts \ {"close_op"}
     /\ op' = "closed"
     /\ UNCHANGED session
  \/ /\ "close_session" \in posts
     /\ posts' = posts \ {"close_session"}
     /\ session' = "closed"
     /\ op' = IF op = "none" THEN op ELSE "closed"

PostCloses ==
  /\ PostClose
  /\ UNCHANGED <<role, pages, empties, pc, held, guard, calls, acked, delivered, taskVars,
                 next, applied, faults, unsent>>

\* The request fails, or the process ends before the task has run.
PostFails ==
  /\ \E p \in posts : posts' = posts \ {p}
  /\ Fault
  /\ unsent' = TRUE
  /\ UNCHANGED <<role, pages, empties, pc, held, guard, calls, acked, delivered, taskVars, serverVars>>

Step ==
  \/ OpenSession \/ Use \/ Execute \/ Poll \/ FirstPage \/ Prefetch \/ PrefetchFails \/ Resume
  \/ Await \/ QueryPage \/ CloseOperation \/ Flush

Failing ==
  \/ OpenFails \/ UseFails \/ ExecuteFails \/ PollFails \/ FetchFails \/ PostFails \/ Drop

ThriftNext == Step \/ Work \/ PostCloses \/ Failing

ThriftSpec == ThriftInit /\ [][ThriftNext]_thriftVars /\ WF_thriftVars(Step) /\ WF_thriftVars(Work) /\ WF_thriftVars(PostCloses)

(***************************************************************************)
(* Properties                                                              *)
(***************************************************************************)
\* What goes downstream are the pages from the first on, none left out and none
\* twice, although a page may have left the server with nobody to receive it.
InOrder == \A i \in 1..Len(delivered) : delivered[i] = i

\* A read that ends without an error has delivered every row, if the server gives
\* no page without rows before the last one.
Complete ==
  (pc \in {"close_op", "flush", "done"} /\ role # "dml" /\ empties \subseteq {pages}) =>
    \A p \in (1..pages) \ empties : p \in 1..Len(delivered)

\* The pages arrive in order and all of them, through a task that fetches ahead.
PagesArrive == ThriftTypeOK /\ InOrder /\ Complete

\* Every statement reported as done was carried out, and at most one was carried
\* out that was not reported.
OneInDoubt == acked <= applied /\ applied <= acked + 1

\* The session of a reader or writer that is gone gets closed, unless a close
\* request was lost or the session was never stored.
Released == (pc \in Over \ {"unopened"}) ~> (session # "open" \/ unsent)
=============================================================================
