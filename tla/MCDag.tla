-------------------------------- MODULE MCDag --------------------------------
(***************************************************************************)
(* Small pipelines for model checking DagExecutor.  A configuration picks  *)
(* one by giving Nodes, Order, Kind, Ins and Outs its definitions.         *)
(***************************************************************************)
EXTENDS DagExecutor

\* The left source feeds a join and a second consumer of its own.
TapNodes == {"left", "right", "tap", "join", "sink"}
TapOrder == <<"left", "right", "tap", "join", "sink">>
TapIns   == [n \in TapNodes |-> CASE n = "join" -> <<"left", "right">> [] n = "sink" -> <<"join">>
                                  [] n = "tap" -> <<"left">> [] OTHER -> <<>>]
TapOuts  == [n \in TapNodes |-> CASE n = "left" -> <<"tap", "join">> [] n = "right" -> <<"join">>
                                  [] n = "join" -> <<"sink">> [] OTHER -> <<>>]
TapKind  == [left |-> "dbSource", right |-> "fileSource", tap |-> "restSink",
             join |-> "innerJoin", sink |-> "dbSink"]
TapBatches == [n \in TapNodes |-> CASE n = "left" -> 2 [] n = "right" -> 1 [] OTHER -> 0]

\* Groups joined to the rows of another source.
GroupNodes == {"right", "groups", "left", "join", "sink"}
GroupOrder == <<"right", "groups", "left", "join", "sink">>
GroupIns   == [n \in GroupNodes |-> CASE n = "groups" -> <<"right">> [] n = "sink" -> <<"join">>
                                      [] n = "join" -> <<"left", "groups">> [] OTHER -> <<>>]
GroupOuts  == [n \in GroupNodes |-> CASE n = "right" -> <<"groups">> [] n \in {"groups", "left"} -> <<"join">>
                                      [] n = "join" -> <<"sink">> [] OTHER -> <<>>]
GroupKind  == [right |-> "dbSource", groups |-> "aggregate", left |-> "fileSource",
               join |-> "fullJoin", sink |-> "fileSink"]
GroupBatches == [n \in GroupNodes |-> CASE n = "right" -> 3 [] n = "left" -> 1 [] OTHER -> 0]

\* One source feeds both sides of a join, one of them through a filter.
DiamondNodes == {"src", "slim", "join"}
DiamondOrder == <<"src", "slim", "join">>
DiamondKind  == [src |-> "dbSource", slim |-> "filter", join |-> "leftJoin"]
DiamondIns   == [n \in DiamondNodes |-> CASE n = "src" -> <<>> [] n = "slim" -> <<"src">>
                                          [] n = "join" -> <<"src", "slim">>]
DiamondOuts  == [n \in DiamondNodes |-> CASE n = "src" -> <<"slim", "join">>
                                          [] n = "slim" -> <<"join">> [] n = "join" -> <<>>]
DiamondBatches == [n \in DiamondNodes |-> IF n = "src" THEN 2 ELSE 0]
=============================================================================
