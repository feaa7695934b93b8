----------------------------- MODULE SinkContract -----------------------------
(***************************************************************************)
(* What a sink of write_db promises for one run: the target ends up with   *)
(* the rows the table mode and the strategy ask for, and until then        *)
(*   "atomic"    nobody sees anything but the old rows,                    *)
(*   "eventual"  the rows may be anything on the way,                      *)
(*   "none"      the end is open, too.                                     *)
(* A run that fails may have delivered: the answer to the last statement   *)
(* can get lost.                                                           *)
(***************************************************************************)
CONSTANT Promises

VARIABLES promise, rows, wanted, phase

vars == <<promise, rows, wanted, phase>>

Init ==
  /\ promise \in Promises
  /\ wanted = rows
  /\ phase = "accepting"

\* A batch arrives, which changes what the rows should become.
Accept ==
  /\ phase = "accepting"
  /\ phase' = "accepting"
  /\ promise = "atomic" => rows' = rows
  /\ UNCHANGED promise

Deliver ==
  /\ phase = "accepting"
  /\ phase' = "delivered"
  /\ promise # "none" => rows' = wanted
  /\ UNCHANGED <<promise, wanted>>

Acknowledge ==
  /\ phase = "delivered"
  /\ phase' = "ok"
  /\ UNCHANGED <<promise, rows, wanted>>

Fail ==
  /\ phase \in {"accepting", "delivered"}
  /\ phase' = "failed"
  /\ promise = "atomic" => rows' \in {rows, wanted}
  /\ UNCHANGED <<promise, wanted>>

Next == Accept \/ Deliver \/ Acknowledge \/ Fail

Spec == Init /\ [][Next]_vars
=============================================================================
