-------------------------------- MODULE MCSink --------------------------------
(* Instances of DbSink: two keys with three values each, of which two differ in a LOB *)
(* only, and batches of one and two rows.                                            *)
EXTENDS DbSink

MCRow(k, v) == [key |-> k, val |-> v]

\* One key with two values that look the same to a comparison, then with a third one
MCBatches(k1, k2, v1, v2, v3) ==
  {<<MCRow(k1, v1)>>, <<MCRow(k1, v2)>>, <<MCRow(k2, v1), MCRow(k1, v3)>>}

MCBase(rows) == [exists |-> TRUE, rows |-> Appended(NoRows, rows)]

CONSTANTS k1, k2, v1, v2, v3

MCInput == MCBatches(k1, k2, v1, v2, v3)
MCCompared == [v \in {v1, v2, v3} |-> IF v = v2 THEN v1 ELSE v]
MCBases == {Missing, MCBase(<<>>), MCBase(<<MCRow(k1, v1)>>), MCBase(<<MCRow(k2, v2)>>)}

AllPlans  == {c \in Configs : ~SelfLocks(c)}
LockPlans == {c \in Configs : SelfLocks(c)}
MirrorPlans ==
  {c \in Configs : c.strategy = "merge_delete" /\ c.driver = "mysql" /\ c.mode = "use_existing"}
=============================================================================
