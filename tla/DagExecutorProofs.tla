-------------------------- MODULE DagExecutorProofs --------------------------
(***************************************************************************)
(* Proofs about DagExecutor for every pipeline and every capacity: how     *)
(* steps end, and that it loses no batch and queues no more than its       *)
(* channels hold.                                                          *)
(***************************************************************************)
EXTENDS DagExecutor, SequenceTheorems, TLAPS

\* The left and right channels of a step exist.
LEMMA InputEdges ==
  ASSUME NEW n \in Nodes
  PROVE  /\ EffKind(n) \notin SourceKinds => Left(n) \in Edges
         /\ EffKind(n) \in JoinKinds => Left(n) \in Edges /\ Right(n) \in Edges /\ Left(n) # Right(n)
         /\ \A e \in Edges : e[2] = n => EffKind(n) \notin SourceKinds
         /\ \A e \in Edges : e[2] = n =>
              e = Left(n) \/ (EffKind(n) \in JoinKinds /\ e = Right(n))
<1>1. /\ Ins[n] \in Seq(Nodes)
      /\ \A i, j \in DOMAIN Ins[n] : Ins[n][i] = Ins[n][j] => i = j
      /\ Len(Ins[n]) = IF Kind[n] \in SourceKinds THEN 0
                       ELSE IF Kind[n] \in JoinKinds THEN 2 ELSE 1
  BY PipelineAssumption
<1>2. /\ DOMAIN Ins[n] = 1..Len(Ins[n]) /\ Len(Ins[n]) \in Nat
      /\ \A i \in 1..Len(Ins[n]) : Ins[n][i] \in Nodes
  BY <1>1
<1>3. EffKind(n) \notin SourceKinds => 1 \in DOMAIN Ins[n] /\ Ins[n][1] \in Nodes
  <2> HAVE EffKind(n) \notin SourceKinds
  <2>1. Kind[n] \notin SourceKinds
    BY DEF EffKind, SourceKinds, SinkKinds
  <2>2. Len(Ins[n]) \in {1, 2}
    BY <1>1, <2>1
  <2>3. 1 \in 1..Len(Ins[n])
    BY <2>2
  <2> QED BY <1>2, <2>3
<1>4. EffKind(n) \in JoinKinds => 2 \in DOMAIN Ins[n] /\ Ins[n][2] \in Nodes /\ Ins[n][1] # Ins[n][2]
  <2> HAVE EffKind(n) \in JoinKinds
  <2>1. Kind[n] \in JoinKinds /\ Kind[n] \notin SourceKinds
    BY DEF EffKind, SourceKinds, JoinKinds, SinkKinds
  <2>2. Len(Ins[n]) = 2
    BY <1>1, <2>1
  <2>3. 1 \in DOMAIN Ins[n] /\ 2 \in DOMAIN Ins[n]
    BY <1>2, <2>2
  <2> QED BY <1>1, <1>2, <2>3
<1>5. EffKind(n) \notin JoinKinds => Len(Ins[n]) \in {0, 1}
  BY <1>1 DEF EffKind, SourceKinds, JoinKinds, SinkKinds, Kinds
<1>6. EffKind(n) \in JoinKinds => Len(Ins[n]) = 2 /\ EffKind(n) \notin SourceKinds
  BY <1>1 DEF EffKind, SourceKinds, JoinKinds, SinkKinds, Kinds
<1>7. ASSUME NEW e \in Edges, e[2] = n
      PROVE  e = Left(n) \/ (EffKind(n) \in JoinKinds /\ e = Right(n))
  <2>1. PICK i \in DOMAIN Ins[n] : Ins[n][i] = e[1]
    BY <1>7 DEF Edges
  <2>2. e = <<e[1], e[2]>>
    BY DEF Edges
  <2> QED BY <1>2, <1>5, <1>6, <1>7, <2>1, <2>2 DEF Left, Right
<1>8. EffKind(n) \notin SourceKinds => Left(n) \in Edges
  BY <1>3 DEF Left, Edges
<1>9. EffKind(n) \in JoinKinds => Right(n) \in Edges /\ Left(n) # Right(n)
  BY <1>4 DEF Left, Right, Edges
<1>10. ASSUME NEW e \in Edges, e[2] = n PROVE EffKind(n) \notin SourceKinds
  <2>1. PICK i \in DOMAIN Ins[n] : Ins[n][i] = e[1]
    BY <1>10 DEF Edges
  <2>2. Kind[n] \notin SourceKinds
    BY <1>1, <1>2, <2>1
  <2> QED BY <2>2 DEF EffKind, SourceKinds
<1> QED BY <1>6, <1>7, <1>8, <1>9, <1>10

\* The channel a sender uses exists.
LEMMA OutputEdges ==
  ASSUME NEW p \in Nodes, NEW i \in DOMAIN Outs[p]
  PROVE  Outs[p][i] \in Nodes /\ <<p, Outs[p][i]>> \in Edges
<1>1. Outs[p] \in Seq(Nodes)
  BY WiringAssumption
<1>2. Outs[p][i] \in Nodes
  BY <1>1
<1> QED BY <1>2, WiringAssumption

-----------------------------------------------------------------------------
(* Type correctness. *)

LEMMA InitType == Init => TypeOK
  BY DEF Init, TypeOK, PcFits, PCs, Inner, Msgs, ErrKinds

\* What pc[n] may become without breaking the type invariant.
Fits(n, where) ==
  /\ where \in PCs
  /\ where = "read" => EffKind(n) \in SourceKinds
  /\ where \in {"send", "sendTail"} => EffKind(n) \notin SinkKinds
  /\ where \in {"build", "hash", "drain"} => EffKind(n) \in JoinKinds
  /\ where \in {"recv", "work", "tail", "sendTail"} => EffKind(n) \notin SourceKinds

LEMMA GotoType ==
  ASSUME TypeOK, NEW n \in Nodes, NEW where, Fits(n, where), Goto(n, where)
  PROVE  pc' \in [Nodes -> PCs] /\ \A m \in Nodes : PcFits(m)'
BY DEF TypeOK, Goto, Fits, PcFits

LEMMA MoveType ==
  ASSUME TypeOK, NEW n \in Nodes, NEW where, Fits(n, where), Move(n, where)
  PROVE  TypeOK'
BY GotoType DEF TypeOK, Move

LEMMA EmitType ==
  ASSUME TypeOK, NEW n \in Nodes, NEW sending, Fits(n, sending), Emit(n, sending)
  PROVE  TypeOK'
<1>1. pc' \in [Nodes -> PCs] /\ \A m \in Nodes : PcFits(m)'
  BY GotoType DEF Emit
<1>2. next' \in [Nodes -> Nat \ {0}]
  BY DEF TypeOK, Emit
<1>3. made' \in [Nodes -> Nat]
  BY DEF TypeOK, Emit
<1> QED BY <1>1, <1>2, <1>3 DEF TypeOK, Emit

LEMMA AbortType ==
  ASSUME TypeOK, NEW n \in Nodes, NEW k \in ErrKinds, Abort(n, k),
         chan' \in [Edges -> Seq(Msgs)], got' = got
  PROVE  TypeOK'
<1>1. Fits(n, "forward")
  BY DEF Fits, PCs
<1>2. pc' \in [Nodes -> PCs] /\ \A m \in Nodes : PcFits(m)'
  BY <1>1, GotoType DEF Abort
<1>3. next' \in [Nodes -> Nat \ {0}]
  BY DEF TypeOK, Abort
<1>4. err' \in [Nodes -> ErrKinds \cup {"none"}]
  BY DEF TypeOK, Abort
<1> QED BY <1>2, <1>3, <1>4 DEF TypeOK, Abort

\* Taking the first message leaves a queue of messages.
LEMMA TakeType ==
  ASSUME TypeOK, NEW e \in Edges, chan[e] # <<>>, Take(e)
  PROVE  chan' \in [Edges -> Seq(Msgs)]
<1>1. chan[e] \in Seq(Msgs)
  BY DEF TypeOK
<1>2. Tail(chan[e]) \in Seq(Msgs)
  BY <1>1, HeadTailProperties
<1> QED BY <1>2 DEF TypeOK, Take

\* So does queueing one more.
LEMMA AppendType ==
  ASSUME TypeOK, NEW e \in Edges, NEW m \in Msgs, chan' = [chan EXCEPT ![e] = Append(@, m)]
  PROVE  chan' \in [Edges -> Seq(Msgs)]
<1>1. chan[e] \in Seq(Msgs)
  BY DEF TypeOK
<1>2. Append(chan[e], m) \in Seq(Msgs)
  BY <1>1, AppendProperties
<1> QED BY <1>2 DEF TypeOK

LEMMA TakeBatchType ==
  ASSUME TypeOK, NEW e \in Edges, chan[e] # <<>>, NEW where, Fits(e[2], where), TakeBatch(e, where)
  PROVE  TypeOK'
<1>1. chan' \in [Edges -> Seq(Msgs)]
  BY TakeType DEF TakeBatch
<1>2. e[2] \in Nodes
  BY DEF Edges
<1>3. pc' \in [Nodes -> PCs] /\ \A m \in Nodes : PcFits(m)'
  BY <1>2, GotoType DEF TakeBatch
<1>4. got' \in [Edges -> Nat]
  BY DEF TypeOK, TakeBatch
<1> QED BY <1>1, <1>3, <1>4 DEF TypeOK, TakeBatch

LEMMA TakeErrorType ==
  ASSUME TypeOK, NEW e \in Edges, chan[e] # <<>>, TakeError(e)
  PROVE  TypeOK'
<1>1. chan' \in [Edges -> Seq(Msgs)]
  BY TakeType DEF TakeError
<1>2. e[2] \in Nodes
  BY DEF Edges
<1> QED BY <1>1, <1>2, AbortType DEF TakeError

\* Every step of the executor keeps the type invariant.
LEMMA StepType == TypeOK /\ ErrorsMatch /\ [Next]_vars => TypeOK'
<1> SUFFICES ASSUME TypeOK, ErrorsMatch, [Next]_vars PROVE TypeOK'
  OBVIOUS
<1> USE DEF Fits, PCs, Inner, Terminal
<1>0. \A n \in Nodes : pc[n] \in PCs /\ PcFits(n)
  BY DEF TypeOK
<1>1. ASSUME NEW n \in Nodes, Start(n) PROVE TypeOK'
  <2>1. EffKind(n) \in JoinKinds => EffKind(n) \notin SourceKinds
    BY InputEdges DEF JoinKinds, SourceKinds
  <2> QED BY <1>1, <2>1, MoveType DEF Start
<1>2. ASSUME NEW n \in Nodes, SourceRead(n) PROVE TypeOK'
  <2>1. CASE Emit(n, "send")
    BY <1>0, <1>2, <2>1, EmitType DEF SourceRead, PcFits, SourceKinds, SinkKinds
  <2>2. CASE ~Emit(n, "send")
    <3>1. pc' \in [Nodes -> PCs] /\ \A m \in Nodes : PcFits(m)'
      BY <1>2, <2>2, GotoType DEF SourceRead
    <3>2. made' = [made EXCEPT ![n] = @ + 1]
      BY <1>2, <2>2 DEF SourceRead
    <3>3. made' \in [Nodes -> Nat]
      BY <3>2 DEF TypeOK
    <3> QED BY <1>2, <2>2, <3>1, <3>3 DEF SourceRead, TypeOK
  <2> QED BY <2>1, <2>2
<1>3. ASSUME NEW n \in Nodes, SourceEnd(n) PROVE TypeOK'
  BY <1>3, MoveType DEF SourceEnd
<1>4. ASSUME NEW n \in Nodes, SendBatch(n) PROVE TypeOK'
  <2>1. next[n] \in DOMAIN Outs[n]
    BY <1>4, WiringAssumption DEF SendBatch, TypeOK
  <2>2. chan' \in [Edges -> Seq(Msgs)]
    BY <1>4, <2>1, OutputEdges, AppendType DEF SendBatch, Msgs
  <2>3. next' \in [Nodes -> Nat \ {0}]
    BY <1>4 DEF SendBatch, TypeOK
  <2> QED BY <1>4, <2>2, <2>3 DEF SendBatch, TypeOK, PcFits
<1>5. ASSUME NEW n \in Nodes, SendClosed(n) PROVE TypeOK'
  BY <1>5, AbortType DEF SendClosed, ErrKinds, TypeOK
<1>6. ASSUME NEW n \in Nodes, SentToAll(n) PROVE TypeOK'
  BY <1>0, <1>6, MoveType DEF SentToAll, Resume, PcFits, Sending
<1>7. ASSUME NEW n \in Nodes, Recv(n) PROVE TypeOK'
  <2>1. EffKind(n) \notin SourceKinds /\ Left(n) \in Edges /\ Left(n)[2] = n
    BY <1>0, <1>7, InputEdges DEF Recv, Left, PcFits
  <2>2. CASE chan[Left(n)] # <<>> /\ TakeBatch(Left(n), "work")
    BY <2>1, <2>2, TakeBatchType
  <2>3. CASE chan[Left(n)] # <<>> /\ TakeError(Left(n))
    BY <2>1, <2>3, TakeErrorType
  <2>4. CASE Move(n, AfterEof(n))
    BY <2>1, <2>4, MoveType DEF AfterEof
  <2> QED BY <1>7, <2>2, <2>3, <2>4 DEF Recv
<1>8. ASSUME NEW n \in Nodes, Build(n) PROVE TypeOK'
  <2>1. EffKind(n) \in JoinKinds /\ Right(n) \in Edges /\ Right(n)[2] = n
    BY <1>0, <1>8, InputEdges DEF Build, Right, PcFits
  <2>2. CASE chan[Right(n)] # <<>> /\ TakeBatch(Right(n), "build")
    BY <2>1, <2>2, TakeBatchType
  <2>3. CASE chan[Right(n)] # <<>> /\ TakeError(Right(n))
    BY <2>1, <2>3, TakeErrorType
  <2>4. CASE Move(n, IF EffKind(n) = "innerJoin" /\ got[Right(n)] = 0 THEN "drain" ELSE "hash")
    BY <2>1, <2>4, MoveType
  <2> QED BY <1>8, <2>2, <2>3, <2>4 DEF Build
<1>9. ASSUME NEW n \in Nodes, Hash(n) PROVE TypeOK'
  <2>1. EffKind(n) \notin SourceKinds
    BY <1>0, <1>9 DEF Hash, PcFits, JoinKinds, SourceKinds
  <2> QED BY <1>9, <2>1, MoveType DEF Hash
<1>10. ASSUME NEW n \in Nodes, Drain(n) PROVE TypeOK'
  <2>1. Left(n) \in Edges
    BY <1>0, <1>10, InputEdges DEF Drain, PcFits
  <2>2. CASE Move(n, "report")
    BY <2>2, MoveType
  <2>3. CASE ~Move(n, "report")
    <3>1. chan' \in [Edges -> Seq(Msgs)]
      BY <1>10, <2>1, <2>3, TakeType DEF Drain
    <3>2. got' \in [Edges -> Nat]
      <4>1. got[Left(n)] \in Nat /\ got \in [Edges -> Nat]
        BY <2>1 DEF TypeOK
      <4>2. \E k \in {got[Left(n)], got[Left(n)] + 1} : got' = [got EXCEPT ![Left(n)] = k]
        BY <1>10, <2>3 DEF Drain, AtEof
      <4> QED BY <2>1, <4>1, <4>2
    <3> QED BY <1>10, <2>3, <3>1, <3>2 DEF Drain, TypeOK, PcFits
  <2> QED BY <2>2, <2>3
<1>11. ASSUME NEW n \in Nodes, Work(n) PROVE TypeOK'
  <2>1. EffKind(n) \notin SourceKinds
    BY <1>0, <1>11 DEF Work, PcFits
  <2>2. CASE Emit(n, "send")
    <3>1. EffKind(n) \notin SinkKinds
      BY <1>11, <2>2 DEF Work, Emit, Move, Goto, JoinKinds, SinkKinds, TypeOK
    <3> QED BY <2>2, <3>1, EmitType
  <2>3. CASE Move(n, "recv")
    BY <2>1, <2>3, MoveType
  <2>4. CASE ~Emit(n, "send") /\ ~Move(n, "recv")
    <3>1. pc' \in [Nodes -> PCs] /\ \A m \in Nodes : PcFits(m)'
      BY <1>11, <2>1, <2>4, GotoType DEF Work
    <3> QED BY <1>11, <2>4, <3>1 DEF Work, TypeOK
  <2> QED BY <2>2, <2>3, <2>4
<1>12. ASSUME NEW n \in Nodes, EmitLast(n) PROVE TypeOK'
  <2>1. EffKind(n) \notin SourceKinds
    BY <1>0, <1>12 DEF EmitLast, PcFits
  <2> QED BY <1>12, <2>1, MoveType, EmitType DEF EmitLast, SinkKinds
<1>13. ASSUME NEW n \in Nodes, Land(n) PROVE TypeOK'
  <2>1. pc' \in [Nodes -> PCs] /\ \A m \in Nodes : PcFits(m)'
    BY <1>13, GotoType DEF Land
  <2> QED BY <1>13, <2>1 DEF Land, TypeOK
<1>14. ASSUME NEW n \in Nodes, Forward(n) PROVE TypeOK'
  <2>1. next[n] \in DOMAIN Outs[n]
    BY <1>14, WiringAssumption DEF Forward, TypeOK
  <2>2. next' \in [Nodes -> Nat \ {0}]
    BY <1>14 DEF Forward, TypeOK
  <2>3. chan' \in [Edges -> Seq(Msgs)]
    <3>1. CASE chan' = chan
      BY <3>1 DEF TypeOK
    <3>2. CASE chan' # chan
      <4>1. err[n] \in Msgs
        BY <1>14 DEF Forward, ErrorsMatch, Msgs
      <4>2. chan' = [chan EXCEPT ![<<n, Outs[n][next[n]]>>] = Append(@, err[n])]
        BY <1>14, <3>2 DEF Forward
      <4> QED BY <2>1, <4>1, <4>2, OutputEdges, AppendType
    <3> QED BY <3>1, <3>2
  <2> QED BY <1>14, <2>2, <2>3 DEF Forward, TypeOK, PcFits
<1>15. ASSUME NEW n \in Nodes, Report(n) PROVE TypeOK'
  <2>1. pc' \in [Nodes -> PCs] /\ \A m \in Nodes : PcFits(m)'
    BY <1>15, GotoType DEF Report
  <2> QED BY <1>15, <2>1 DEF Report, TypeOK
<1>16. ASSUME NEW n \in Nodes, Fail(n) PROVE TypeOK'
  BY <1>16, AbortType DEF Fail, ErrKinds, TypeOK
<1>17. ASSUME NEW n \in Nodes, Panic(n) PROVE TypeOK'
  BY <1>17, MoveType DEF Panic
<1>18. ASSUME Finish PROVE TypeOK'
  BY <1>18 DEF Finish, TypeOK, PcFits
<1>19. CASE UNCHANGED vars
  BY <1>19 DEF vars, TypeOK, PcFits
<1> QED
  BY <1>1, <1>2, <1>3, <1>4, <1>5, <1>6, <1>7, <1>8, <1>9, <1>10, <1>11, <1>12, <1>13,
     <1>14, <1>15, <1>16, <1>17, <1>18, <1>19 DEF Next, Progress, Finished

\* A task gets its error when it starts to forward it and keeps it.
LEMMA StepErrors == TypeOK /\ ErrorsMatch /\ [Next]_vars => ErrorsMatch'
<1> SUFFICES ASSUME TypeOK, ErrorsMatch, [Next]_vars, NEW m \in Nodes
             PROVE  err'[m] \in ErrKinds <=> pc'[m] \in {"forward", "failed"}
  BY DEF ErrorsMatch
<1>0. /\ err[m] \in ErrKinds <=> pc[m] \in {"forward", "failed"}
      /\ pc \in [Nodes -> PCs] /\ err \in [Nodes -> ErrKinds \cup {"none"}]
  BY DEF ErrorsMatch, TypeOK
<1> DEFINE Kept == err'[m] \in ErrKinds <=> pc'[m] \in {"forward", "failed"}
<1>1. ASSUME NEW n \in Nodes, NEW where, where \notin {"forward", "failed"},
             pc[n] \notin {"forward", "failed"}, Goto(n, where), err' = err
      PROVE  Kept
  BY <1>0, <1>1 DEF Goto
<1>2. ASSUME NEW n \in Nodes, NEW k \in ErrKinds, Abort(n, k)
      PROVE  Kept
  BY <1>0, <1>2 DEF Abort, Goto
<1>3. ASSUME pc' = pc, err' = err PROVE Kept
  BY <1>0, <1>3
<1>4. ASSUME NEW n \in Nodes, Start(n) \/ SourceRead(n) \/ SourceEnd(n) \/ SentToAll(n)
               \/ Hash(n) \/ Work(n) \/ EmitLast(n) \/ Land(n) \/ Panic(n)
      PROVE  Kept
  <2>1. PICK where : /\ where \notin {"forward", "failed"}
                     /\ pc[n] \notin {"forward", "failed"}
                     /\ Goto(n, where) /\ err' = err
    BY <1>4 DEF Start, SourceRead, SourceEnd, SentToAll, Hash, Work, EmitLast, Land, Panic,
                Move, Emit, Resume, Sending
  <2> QED BY <1>1, <2>1
<1>5. ASSUME NEW n \in Nodes, SendClosed(n) \/ Fail(n) PROVE Kept
  BY <1>2, <1>5 DEF SendClosed, Fail, ErrKinds
<1>6. ASSUME NEW n \in Nodes, SendBatch(n) \/ Forward(n) PROVE Kept
  BY <1>3, <1>6 DEF SendBatch, Forward
<1>7. ASSUME NEW n \in Nodes, Recv(n) PROVE Kept
  <2>1. CASE TakeBatch(Left(n), "work")
    BY <1>1, <1>7, <2>1 DEF TakeBatch, Left, Recv
  <2>2. CASE TakeError(Left(n))
    BY <1>2, <2>2 DEF TakeError, Left
  <2>3. CASE Move(n, AfterEof(n))
    BY <1>1, <1>7, <2>3 DEF Move, AfterEof, Recv
  <2> QED BY <1>7, <2>1, <2>2, <2>3 DEF Recv
<1>8. ASSUME NEW n \in Nodes, Build(n) PROVE Kept
  <2>1. CASE TakeBatch(Right(n), "build")
    BY <1>1, <1>8, <2>1 DEF TakeBatch, Right, Build
  <2>2. CASE TakeError(Right(n))
    BY <1>2, <2>2 DEF TakeError, Right
  <2>3. CASE \E where \in {"drain", "hash"} : Move(n, where)
    BY <1>1, <1>8, <2>3 DEF Move, Build
  <2> QED BY <1>8, <2>1, <2>2, <2>3 DEF Build
<1>9. ASSUME NEW n \in Nodes, Drain(n) PROVE Kept
  <2>1. CASE Move(n, "report")
    BY <1>1, <1>9, <2>1 DEF Move, Drain
  <2>2. CASE ~Move(n, "report")
    BY <1>3, <1>9, <2>2 DEF Drain
  <2> QED BY <2>1, <2>2
<1>10. ASSUME NEW n \in Nodes, Report(n) PROVE Kept
  BY <1>0, <1>10 DEF Report, Goto
<1>11. CASE Finish \/ Finished \/ UNCHANGED vars
  BY <1>3, <1>11 DEF Finish, Finished, vars
<1> QED
  BY <1>4, <1>5, <1>6, <1>7, <1>8, <1>9, <1>10, <1>11 DEF Next, Progress

LEMMA InitErrors == Init => ErrorsMatch
  BY DEF Init, ErrorsMatch, ErrKinds

\* Type correctness: in particular a step only builds a join side if it is a join, never
\* waits on an input it does not have, and forwards nothing but errors.
THEOREM TypeCorrect == Spec => []TypeOK
<1>1. Init => TypeOK /\ ErrorsMatch
  BY InitType, InitErrors
<1>2. TypeOK /\ ErrorsMatch /\ [Next]_vars => TypeOK' /\ ErrorsMatch'
  BY StepType, StepErrors
<1> QED BY <1>1, <1>2, PTL DEF Spec

-----------------------------------------------------------------------------
(* Every step has one of a few forms, which say what it does to the channels *)
(* and to what its consumers know; the other proofs split on the forms.      *)

\* Task n moves on without touching a channel.
MoveForm(n, to) ==
  /\ pc[n] \in Inner /\ to \in Inner \cup {"report", "panicked"}
  /\ Goto(n, to)
  /\ \A p \in Nodes \ {n} : next'[p] = next[p]
  /\ UNCHANGED <<chan, got, err, landed, verdict>>
  /\ \A e \in Edges :
       e[2] = n =>
         /\ SawEnd(e) /\ to \in Inner => SawEnd(e)'
         /\ SawEnd(e)' /\ ~SawEnd(e) => AtEof(e)
         /\ SawEnd(e)' /\ ~SawEnd(e) /\ pc[n] = "drain" => e = Left(n)
  /\ pc[n] = "drain" => to = "report"
  /\ to = "drain" => Drained(n)
  /\ to = "report" => n \notin Committers

\* A sink commits.
LandForm(n) ==
  /\ n \in Committers /\ pc[n] = "tail" /\ Goto(n, "report")
  /\ landed' = landed \cup {n}
  /\ UNCHANGED <<next, chan, got, err, verdict>>

\* The consumer of e takes a batch, or whatever there is while it drains.
TakeForm(e) ==
  /\ chan[e] # <<>> /\ Take(e)
  /\ \/ pc[e[2]] = "recv" /\ e = Left(e[2]) /\ Goto(e[2], "work") /\ Head(chan[e]) = "batch"
     \/ pc[e[2]] = "build" /\ e = Right(e[2]) /\ pc' = pc /\ Head(chan[e]) = "batch"
     \/ pc[e[2]] = "drain" /\ e = Left(e[2]) /\ pc' = pc
  /\ \E k \in Nat : got' = [got EXCEPT ![e] = k]
  /\ UNCHANGED <<next, err, landed, verdict>>

\* Task n ends in an error of kind k, which has a cause.
AbortForm(n, k) ==
  /\ pc[n] \in Inner
  /\ Abort(n, k)
  /\ UNCHANGED got
  /\ chan' = chan \/ \E e \in Edges : e[2] = n /\ chan[e] # <<>> /\ Take(e)
  /\ k = "closed" => \/ \E e \in Edges : e[1] = n /\ ~RxOpen(e[2])
                     \/ \E e \in Edges : chan[e] # <<>> /\ Head(chan[e]) = "closed"

\* Task n sends a batch or forwards its error to its next consumer.
AppendForm(n, m) ==
  /\ next[n] \in DOMAIN Outs[n]
  /\ LET e == <<n, Outs[n][next[n]]>> IN
       \/ RxOpen(e[2]) /\ chan' = [chan EXCEPT ![e] = Append(@, m)]
       \/ ~RxOpen(e[2]) /\ chan' = chan
  /\ next' = [next EXCEPT ![n] = @ + 1]
  /\ \/ pc[n] = "forward" /\ m = err[n]
     \/ Sending(n) /\ m = "batch"
  /\ UNCHANGED <<pc, got, err, landed, verdict>>

ReportForm(n) ==
  /\ \/ pc[n] = "report" /\ Goto(n, "done")
     \/ pc[n] = "forward" /\ next[n] > Len(Outs[n]) /\ Goto(n, "failed")
  /\ UNCHANGED <<next, chan, got, err, landed, verdict>>

FinishForm ==
  /\ verdict' = verdict \/ Finish
  /\ UNCHANGED <<pc, next, chan, got, err, landed>>

\* A step of Next is of one of these forms.
LEMMA StepForms ==
  ASSUME TypeOK, ErrorsMatch, [Next]_vars
  PROVE  \/ \E n \in Nodes, to \in PCs : MoveForm(n, to)
         \/ \E n \in Nodes : LandForm(n)
         \/ \E e \in Edges : TakeForm(e)
         \/ \E n \in Nodes, k \in ErrKinds : AbortForm(n, k)
         \/ \E n \in Nodes, m \in Msgs : AppendForm(n, m)
         \/ \E n \in Nodes : ReportForm(n)
         \/ FinishForm
<1> DEFINE Goal == \/ \E n \in Nodes, to \in PCs : MoveForm(n, to)
                   \/ \E n \in Nodes : LandForm(n)
                   \/ \E e \in Edges : TakeForm(e)
                   \/ \E n \in Nodes, k \in ErrKinds : AbortForm(n, k)
                   \/ \E n \in Nodes, m \in Msgs : AppendForm(n, m)
                   \/ \E n \in Nodes : ReportForm(n)
                   \/ FinishForm
<1> USE DEF Inner
<1>0. /\ pc \in [Nodes -> PCs] /\ \A n \in Nodes : PcFits(n)
      /\ \A e \in Edges : e[1] \in Nodes /\ e[2] \in Nodes /\ e = <<e[1], e[2]>>
  BY DEF TypeOK, Edges
<1>1. ASSUME NEW n \in Nodes, Start(n) PROVE Goal
  <2>1. PICK to \in {"read", "build", "recv"} :
          /\ Move(n, to) /\ pc[n] = "init" /\ (to = "recv" => EffKind(n) \notin JoinKinds)
    BY <1>1 DEF Start, SourceKinds, JoinKinds
  <2>2. MoveForm(n, to)
    BY <1>0, <2>1 DEF MoveForm, Move, Goto, SawEnd, TypeOK
  <2> QED BY <2>2 DEF PCs
<1>2. ASSUME NEW n \in Nodes, SourceRead(n) \/ SourceEnd(n) PROVE Goal
  <2>1. pc[n] = "read" /\ EffKind(n) \in SourceKinds
    BY <1>0, <1>2 DEF PcFits, SourceRead, SourceEnd
  <2>2. (\A e \in Edges : e[2] # n) /\ n \notin Committers
    BY <2>1, InputEdges DEF Committers, SourceKinds
  <2>3. PICK to \in {"send", "report"} :
          Goto(n, to) /\ (\A p \in Nodes \ {n} : next'[p] = next[p])
                      /\ UNCHANGED <<chan, got, err, landed, verdict>>
    BY <1>2 DEF SourceRead, SourceEnd, Emit, Move, TypeOK
  <2>4. MoveForm(n, to)
    BY <2>1, <2>2, <2>3 DEF MoveForm
  <2> QED BY <2>4 DEF PCs
<1>3. ASSUME NEW n \in Nodes, SendBatch(n) \/ Forward(n) PROVE Goal
  <2>1. next[n] \in DOMAIN Outs[n]
    BY <1>3, WiringAssumption DEF SendBatch, Forward, TypeOK
  <2>2. CASE SendBatch(n)
    BY <2>1, <2>2 DEF SendBatch, AppendForm, Msgs
  <2>3. CASE Forward(n)
    <3>1. err[n] \in Msgs
      BY <2>3 DEF Forward, ErrorsMatch, Msgs
    <3> QED BY <2>1, <2>3, <3>1 DEF Forward, AppendForm
  <2> QED BY <1>3, <2>2, <2>3
<1>4. ASSUME NEW n \in Nodes, SendClosed(n) PROVE Goal
  <2>1. next[n] \in DOMAIN Outs[n]
    BY <1>4, WiringAssumption DEF SendClosed, TypeOK
  <2>2. <<n, Outs[n][next[n]]>> \in Edges /\ ~RxOpen(<<n, Outs[n][next[n]]>>[2])
    BY <1>4, <2>1, OutputEdges DEF SendClosed
  <2>3. \E e \in Edges : e[1] = n /\ ~RxOpen(e[2])
    BY <2>2
  <2>4. AbortForm(n, "closed")
    BY <1>4, <2>3 DEF SendClosed, AbortForm, Sending
  <2> QED BY <2>4 DEF ErrKinds
<1>5. ASSUME NEW n \in Nodes, SentToAll(n) PROVE Goal
  <2>1. CASE EffKind(n) \in SourceKinds
    <3>1. (\A e \in Edges : e[2] # n) /\ n \notin Committers
      BY <2>1, InputEdges DEF Committers, SourceKinds
    <3>2. PICK to \in {"read", "report"} : Move(n, to) /\ pc[n] \in {"send", "sendTail"}
      BY <1>5, <2>1 DEF SentToAll, Sending, Resume
    <3>3. MoveForm(n, to)
      BY <3>1, <3>2 DEF MoveForm, Move
    <3> QED BY <3>3 DEF PCs
  <2>2. CASE EffKind(n) \notin SourceKinds
    <3>1. PICK to \in {"recv", "report"} :
            Move(n, to) /\ pc[n] = IF to = "recv" THEN "send" ELSE "sendTail"
      BY <1>5, <2>2 DEF SentToAll, Sending, Resume
    <3>2. n \notin Committers
      BY <1>0, <3>1 DEF PcFits, Committers, SinkKinds
    <3>3. MoveForm(n, to)
      BY <1>0, <3>1, <3>2 DEF MoveForm, Move, Goto, SawEnd
    <3> QED BY <3>3 DEF PCs
  <2> QED BY <2>1, <2>2
<1>6. ASSUME NEW n \in Nodes, Recv(n) PROVE Goal
  <2>1. pc[n] = "recv" /\ Left(n) \in Edges /\ Left(n)[2] = n
    BY <1>0, <1>6, InputEdges DEF Recv, PcFits, Left
  <2>2. CASE chan[Left(n)] # <<>> /\ TakeBatch(Left(n), "work")
    <3>1. \E k \in Nat : got' = [got EXCEPT ![Left(n)] = k]
      <4>1. got[Left(n)] + 1 \in Nat
        BY <2>1 DEF TypeOK
      <4>2. got' = [got EXCEPT ![Left(n)] = got[Left(n)] + 1]
        BY <2>2 DEF TakeBatch
      <4> QED BY <4>1, <4>2
    <3>2. TakeForm(Left(n))
      BY <2>1, <2>2, <3>1 DEF TakeForm, TakeBatch
    <3> QED BY <2>1, <3>2
  <2>3. CASE chan[Left(n)] # <<>> /\ TakeError(Left(n))
    <3>1. AbortForm(n, Head(chan[Left(n)]))
      BY <2>1, <2>3 DEF AbortForm, TakeError
    <3> QED BY <2>3, <3>1 DEF TakeError
  <2>4. CASE AtEof(Left(n)) /\ Move(n, AfterEof(n))
    <3>1. AfterEof(n) \in {"tail", "report"} /\ (AfterEof(n) = "report" => n \notin Committers)
      BY DEF AfterEof
    <3>2. ASSUME NEW e \in Edges, e[2] = n, SawEnd(e)', ~SawEnd(e) PROVE AtEof(e)
      BY <2>1, <2>4, <3>2, InputEdges DEF SawEnd
    <3>3. ASSUME NEW e \in Edges, e[2] = n, AfterEof(n) = "tail" PROVE SawEnd(e)'
      BY <1>0, <2>4, <3>3 DEF SawEnd, Move, Goto
    <3>4. MoveForm(n, AfterEof(n))
      BY <2>1, <2>4, <3>1, <3>2, <3>3 DEF MoveForm, Move
    <3> QED BY <3>1, <3>4 DEF PCs
  <2> QED BY <1>6, <2>2, <2>3, <2>4 DEF Recv
<1>7. ASSUME NEW n \in Nodes, Build(n) PROVE Goal
  <2>1. pc[n] = "build" /\ Right(n) \in Edges /\ Right(n)[2] = n /\ EffKind(n) \in JoinKinds
    BY <1>0, <1>7, InputEdges DEF Build, PcFits, Right
  <2>2. CASE chan[Right(n)] # <<>> /\ TakeBatch(Right(n), "build")
    <3>1. \E k \in Nat : got' = [got EXCEPT ![Right(n)] = k]
      <4>1. got[Right(n)] + 1 \in Nat
        BY <2>1 DEF TypeOK
      <4>2. got' = [got EXCEPT ![Right(n)] = got[Right(n)] + 1]
        BY <2>2 DEF TakeBatch
      <4> QED BY <4>1, <4>2
    <3>2. pc' = pc
      BY <1>0, <2>1, <2>2 DEF TakeBatch, Goto
    <3>3. TakeForm(Right(n))
      BY <2>1, <2>2, <3>1, <3>2 DEF TakeForm, TakeBatch
    <3> QED BY <2>1, <3>3
  <2>3. CASE chan[Right(n)] # <<>> /\ TakeError(Right(n))
    <3>1. AbortForm(n, Head(chan[Right(n)]))
      BY <2>1, <2>3 DEF AbortForm, TakeError
    <3> QED BY <2>3, <3>1 DEF TakeError
  <2>4. ASSUME NEW to \in {"drain", "hash"}, AtEof(Right(n)), Move(n, to), to = "drain" => Drained(n)
        PROVE  Goal
    <3>1. ASSUME NEW e \in Edges, e[2] = n, SawEnd(e)' PROVE e = Right(n)
      BY <1>0, <2>1, <2>4, <3>1 DEF SawEnd, Move, Goto, Right
    <3>2. ASSUME NEW e \in Edges, e[2] = n PROVE ~SawEnd(e)
      BY <2>1, <3>2 DEF SawEnd
    <3>3. MoveForm(n, to)
      BY <2>1, <2>4, <3>1, <3>2 DEF MoveForm, Move
    <3> QED BY <3>3 DEF PCs
  <2> QED BY <1>7, <2>2, <2>3, <2>4 DEF Build, Drained
<1>8. ASSUME NEW n \in Nodes, Hash(n) PROVE Goal
  <2>1. EffKind(n) \in JoinKinds
    BY <1>0, <1>8 DEF Hash, PcFits
  <2>2. MoveForm(n, "recv")
    BY <1>0, <1>8 DEF Hash, MoveForm, Move, Goto, SawEnd, Right
  <2> QED BY <2>2 DEF PCs
<1>9. ASSUME NEW n \in Nodes, Drain(n) PROVE Goal
  <2>1. pc[n] = "drain" /\ Left(n) \in Edges /\ Left(n)[2] = n /\ EffKind(n) \in JoinKinds
    BY <1>0, <1>9, InputEdges DEF Drain, PcFits, Left
  <2>2. CASE AtEof(Left(n)) /\ Move(n, "report")
    <3>1. ASSUME NEW e \in Edges, e[2] = n, ~SawEnd(e) PROVE e = Left(n)
      BY <2>1, <3>1, InputEdges DEF SawEnd
    <3>2. n \notin Committers
      BY <2>1 DEF Committers, JoinKinds
    <3>3. MoveForm(n, "report")
      BY <2>1, <2>2, <3>1, <3>2 DEF MoveForm, Move
    <3> QED BY <3>3 DEF PCs
  <2>3. CASE ~(AtEof(Left(n)) /\ Move(n, "report"))
    <3>1. PICK k \in Nat : got' = [got EXCEPT ![Left(n)] = k]
      <4>1. got[Left(n)] \in Nat
        BY <2>1 DEF TypeOK
      <4>2. got' = [got EXCEPT ![Left(n)] = IF Head(chan[Left(n)]) = "batch" THEN @ + 1 ELSE @]
        BY <1>9, <2>3 DEF Drain
      <4>3. CASE Head(chan[Left(n)]) = "batch"
        <5>1. got' = [got EXCEPT ![Left(n)] = got[Left(n)] + 1] /\ got[Left(n)] + 1 \in Nat
          BY <4>1, <4>2, <4>3
        <5> QED BY <5>1
      <4>4. CASE Head(chan[Left(n)]) # "batch"
        BY <4>1, <4>2, <4>4
      <4> QED BY <4>3, <4>4
    <3>2. TakeForm(Left(n))
      BY <1>9, <2>1, <2>3, <3>1 DEF Drain, TakeForm
    <3> QED BY <2>1, <3>2
  <2> QED BY <2>2, <2>3
<1>10. ASSUME NEW n \in Nodes, Work(n) PROVE Goal
  <2>1. PICK to \in {"send", "recv"} :
          /\ Goto(n, to) /\ (\A p \in Nodes \ {n} : next'[p] = next[p])
          /\ UNCHANGED <<chan, got, err, landed, verdict>>
    BY <1>10 DEF Work, Emit, Move, TypeOK
  <2>2. MoveForm(n, to)
    BY <1>0, <1>10, <2>1 DEF Work, MoveForm, Goto, SawEnd, Right
  <2> QED BY <2>2 DEF PCs
<1>11. ASSUME NEW n \in Nodes, EmitLast(n) PROVE Goal
  <2>1. PICK to \in {"sendTail", "report"} :
          /\ Goto(n, to) /\ (\A p \in Nodes \ {n} : next'[p] = next[p])
          /\ UNCHANGED <<chan, got, err, landed, verdict>>
    BY <1>11 DEF EmitLast, Emit, Move, TypeOK
  <2>2. n \notin Committers
    BY <1>11 DEF EmitLast, Committers
  <2>3. MoveForm(n, to)
    BY <1>0, <1>11, <2>1, <2>2 DEF EmitLast, MoveForm, Goto, SawEnd
  <2> QED BY <2>3 DEF PCs
<1>12. ASSUME NEW n \in Nodes, Land(n) PROVE Goal
  BY <1>12 DEF Land, LandForm
<1>13. ASSUME NEW n \in Nodes, Fail(n) PROVE Goal
  <2>1. pc[n] \in Inner
    <3>1. \A k \in Kinds : FallibleAt(k) \subseteq Inner
      BY DEF FallibleAt, Kinds, SourceKinds, SinkKinds, JoinKinds
    <3>2. EffKind(n) \in Kinds
      BY <1>13, PipelineAssumption DEF Fail
    <3> QED BY <1>13, <3>1, <3>2 DEF Fail
  <2>2. AbortForm(n, "fault")
    BY <1>13, <2>1 DEF Fail, AbortForm
  <2> QED BY <2>2 DEF ErrKinds
<1>14. ASSUME NEW n \in Nodes, Panic(n) PROVE Goal
  <2>1. MoveForm(n, "panicked")
    BY <1>0, <1>14 DEF Panic, MoveForm, Move, Goto, SawEnd
  <2> QED BY <2>1 DEF PCs, Terminal
<1>15. ASSUME NEW n \in Nodes, Report(n) PROVE Goal
  BY <1>15 DEF Report, ReportForm
<1>16. CASE Finish \/ Finished \/ UNCHANGED vars
  BY <1>16 DEF Finish, Finished, vars, FinishForm
<1> QED
  BY <1>1, <1>2, <1>3, <1>4, <1>5, <1>6, <1>7, <1>8, <1>9, <1>10, <1>11, <1>12, <1>13,
     <1>14, <1>15, <1>16 DEF Next, Progress

-----------------------------------------------------------------------------
(* What every step respects. *)

\* A task that has ended stays ended, the way it ended.
LEMMA TerminalStable ==
  ASSUME TypeOK, ErrorsMatch, [Next]_vars, NEW n \in Nodes, pc[n] \in Terminal
  PROVE  pc'[n] = pc[n]
<1> USE DEF Inner, Terminal
<1>0. pc \in [Nodes -> PCs]
  BY DEF TypeOK
<1>1. ASSUME NEW m \in Nodes, NEW to \in PCs, MoveForm(m, to) PROVE pc'[n] = pc[n]
  BY <1>0, <1>1 DEF MoveForm, Goto
<1>2. ASSUME NEW m \in Nodes, LandForm(m) PROVE pc'[n] = pc[n]
  BY <1>0, <1>2 DEF LandForm, Goto
<1>3. ASSUME NEW e \in Edges, TakeForm(e) PROVE pc'[n] = pc[n]
  BY <1>0, <1>3 DEF TakeForm, Goto
<1>4. ASSUME NEW m \in Nodes, NEW k \in ErrKinds, AbortForm(m, k) PROVE pc'[n] = pc[n]
  BY <1>0, <1>4 DEF AbortForm, Abort, Goto
<1>5. ASSUME NEW m \in Nodes, NEW x \in Msgs, AppendForm(m, x) PROVE pc'[n] = pc[n]
  BY <1>5 DEF AppendForm
<1>6. ASSUME NEW m \in Nodes, ReportForm(m) PROVE pc'[n] = pc[n]
  BY <1>0, <1>6 DEF ReportForm, Goto
<1>7. CASE FinishForm
  BY <1>7 DEF FinishForm
<1> QED BY <1>1, <1>2, <1>3, <1>4, <1>5, <1>6, <1>7, StepForms

\* Nobody learns of the end of an input before it is empty and its producer gone.
LEMMA EndSeen ==
  ASSUME TypeOK, ErrorsMatch, [Next]_vars, NEW e \in Edges, SawEnd(e)', ~SawEnd(e)
  PROVE  AtEof(e) /\ RxOpen(e[2]) /\ (pc[e[2]] = "drain" => e = Left(e[2]))
<1> USE DEF Inner
<1> DEFINE Goal == AtEof(e) /\ RxOpen(e[2]) /\ (pc[e[2]] = "drain" => e = Left(e[2]))
<1>0. pc \in [Nodes -> PCs] /\ e[2] \in Nodes /\ e[1] \in Nodes
  BY DEF TypeOK, Edges
<1>1. ASSUME NEW m \in Nodes, NEW to \in PCs, MoveForm(m, to) PROVE Goal
  <2>1. CASE e[2] = m
    <3>1. MoveForm(e[2], to)
      BY <1>1, <2>1
    <3>2. SawEnd(e)' /\ ~SawEnd(e) => AtEof(e) /\ (pc[e[2]] = "drain" => e = Left(e[2]))
      BY <3>1 DEF MoveForm
    <3>3. RxOpen(e[2])
      BY <3>1 DEF MoveForm, RxOpen
    <3> QED BY <3>2, <3>3
  <2>2. CASE e[2] # m
    BY <1>0, <1>1, <2>2 DEF MoveForm, Goto, SawEnd
  <2> QED BY <2>1, <2>2
<1>2. ASSUME NEW m \in Nodes, LandForm(m) PROVE Goal
  BY <1>0, <1>2 DEF LandForm, Goto, SawEnd
<1>3. ASSUME NEW f \in Edges, TakeForm(f) PROVE Goal
  BY <1>0, <1>3 DEF TakeForm, Goto, SawEnd
<1>4. ASSUME NEW m \in Nodes, NEW k \in ErrKinds, AbortForm(m, k) PROVE Goal
  BY <1>0, <1>4 DEF AbortForm, Abort, Goto, SawEnd
<1>5. ASSUME NEW m \in Nodes, NEW x \in Msgs, AppendForm(m, x) PROVE Goal
  BY <1>5 DEF AppendForm, SawEnd
<1>6. ASSUME NEW m \in Nodes, ReportForm(m) PROVE Goal
  BY <1>0, <1>6 DEF ReportForm, Goto, SawEnd
<1>7. CASE FinishForm
  BY <1>7 DEF FinishForm, SawEnd
<1> QED BY <1>1, <1>2, <1>3, <1>4, <1>5, <1>6, <1>7, StepForms

\* A consumer that does not listen to an input will not listen to it later.
LEMMA ListeningFalls ==
  ASSUME TypeOK, ErrorsMatch, [Next]_vars, NEW e \in Edges, Listening(e)'
  PROVE  Listening(e)
<1> USE DEF Inner
<1>0. pc \in [Nodes -> PCs] /\ e[2] \in Nodes
  BY DEF TypeOK, Edges
<1>1. ASSUME NEW m \in Nodes, NEW to \in PCs, MoveForm(m, to) PROVE Listening(e)
  <2>1. CASE e[2] = m
    <3>1. pc[m] \in Inner /\ pc'[m] = to /\ to \in Inner
      BY <1>0, <1>1, <2>1 DEF MoveForm, Goto, Listening, RxOpen
    <3>2. ~SawEnd(e)
      <4>1. MoveForm(e[2], to) /\ ~SawEnd(e)'
        BY <1>1, <2>1 DEF Listening
      <4> QED BY <3>1, <4>1 DEF MoveForm
    <3>3. pc[m] # "drain"
      BY <1>1, <3>1 DEF MoveForm
    <3> QED BY <2>1, <3>1, <3>2, <3>3 DEF Listening, RxOpen
  <2>2. CASE e[2] # m
    BY <1>0, <1>1, <2>2 DEF MoveForm, Goto, SawEnd, Listening, RxOpen
  <2> QED BY <2>1, <2>2
<1>2. ASSUME NEW m \in Nodes, LandForm(m) PROVE Listening(e)
  BY <1>0, <1>2 DEF LandForm, Goto, SawEnd, Listening, RxOpen
<1>3. ASSUME NEW f \in Edges, TakeForm(f) PROVE Listening(e)
  BY <1>0, <1>3 DEF TakeForm, Goto, SawEnd, Listening, RxOpen
<1>4. ASSUME NEW m \in Nodes, NEW k \in ErrKinds, AbortForm(m, k) PROVE Listening(e)
  BY <1>0, <1>4 DEF AbortForm, Abort, Goto, SawEnd, Listening, RxOpen
<1>5. ASSUME NEW m \in Nodes, NEW x \in Msgs, AppendForm(m, x) PROVE Listening(e)
  BY <1>5 DEF AppendForm, SawEnd, Listening, RxOpen
<1>6. ASSUME NEW m \in Nodes, ReportForm(m) PROVE Listening(e)
  BY <1>0, <1>6 DEF ReportForm, Goto, SawEnd, Listening, RxOpen
<1>7. CASE FinishForm
  BY <1>7 DEF FinishForm, SawEnd, Listening, RxOpen
<1> QED BY <1>1, <1>2, <1>3, <1>4, <1>5, <1>6, <1>7, StepForms

\* Which inputs bind a step is settled when it has seen their end.
LEMMA BindingSettled ==
  ASSUME TypeOK, ErrorsMatch, [Next]_vars, NEW e \in Edges, SawEnd(e)'
  PROVE  Binding(e)' <=> Binding(e)
<1> USE DEF Inner
<1> DEFINE n == e[2]
<1>0. /\ pc \in [Nodes -> PCs] /\ n \in Nodes
      /\ EffKind(n) \in JoinKinds => Right(n) \in Edges
      /\ "innerJoin" \in JoinKinds
  BY InputEdges DEF TypeOK, Edges, JoinKinds
<1>1. CASE EffKind(n) = "innerJoin" => got'[Right(n)] = got[Right(n)]
  BY <1>1 DEF Binding, Drained
<1>2. CASE EffKind(n) = "innerJoin" /\ got'[Right(n)] # got[Right(n)]
  <2>1. PICK f \in Edges : TakeForm(f)
    BY <1>2, StepForms DEF MoveForm, LandForm, AbortForm, AppendForm, ReportForm, FinishForm
  <2>2. f = Right(n)
    BY <1>0, <1>2, <2>1 DEF TakeForm, TypeOK
  <2>3. f[2] = n /\ f # Left(n)
    BY <1>0, <1>2, <2>2, InputEdges DEF Right
  <2>4. pc'[n] = "build"
    BY <2>1, <2>3 DEF TakeForm
  <2> QED BY <2>4 DEF SawEnd
<1> QED BY <1>1, <1>2

-----------------------------------------------------------------------------
(* Preservation of the invariant, conjunct by conjunct. *)

LEMMA StepEndMeansGone ==
  ASSUME TypeOK, ErrorsMatch, EndMeansGone, [Next]_vars
  PROVE  EndMeansGone'
<1> SUFFICES ASSUME NEW e \in Edges, SawEnd(e)' PROVE pc'[e[1]] \in Terminal
  BY DEF EndMeansGone, TxOpen
<1>0. e[1] \in Nodes
  BY DEF Edges
<1>1. pc[e[1]] \in Terminal
  BY EndSeen DEF EndMeansGone, AtEof, TxOpen
<1> QED BY <1>0, <1>1, TerminalStable

\* At the end of an input that binds, the producer has not failed: its error would
\* still be queued.
LEMMA StepEndMeansClean ==
  ASSUME TypeOK, ErrorsMatch, DrainMatches, ErrorQueued, EndMeansClean, [Next]_vars
  PROVE  EndMeansClean'
<1> SUFFICES ASSUME NEW e \in Edges, SawEnd(e)', Binding(e)'
             PROVE  pc'[e[1]] \in {"done", "panicked"}
  BY DEF EndMeansClean
<1>0. e[1] \in Nodes /\ e[2] \in Nodes /\ e = <<e[1], e[2]>>
  BY DEF Edges
<1>1. Binding(e)
  BY BindingSettled
<1>2. pc[e[1]] \in {"done", "panicked"}
  <2>1. CASE SawEnd(e)
    BY <1>1, <2>1 DEF EndMeansClean
  <2>2. CASE ~SawEnd(e)
    <3>1. AtEof(e) /\ RxOpen(e[2]) /\ (pc[e[2]] = "drain" => e = Left(e[2]))
      BY <2>2, EndSeen
    <3>2. pc[e[2]] # "drain"
      BY <1>0, <1>1, <3>1 DEF DrainMatches, Binding
    <3>3. Listening(e)
      BY <2>2, <3>1, <3>2 DEF Listening
    <3>4. PICK i \in DOMAIN Outs[e[1]] : Outs[e[1]][i] = e[2]
      BY <1>0, WiringAssumption
    <3>5. ~HasError(chan[e])
      BY <3>1 DEF AtEof, HasError
    <3>6. pc[e[1]] # "failed"
      BY <1>0, <3>3, <3>4, <3>5 DEF ErrorQueued
    <3> QED BY <3>1, <3>6 DEF AtEof, TxOpen, Terminal
  <2> QED BY <2>1, <2>2
<1> QED BY <1>0, <1>2, TerminalStable DEF Terminal

\* Receiving a batch leaves a queued error where it is, and so does sending.
LEMMA QueuedErrors ==
  ASSUME NEW q \in Seq(Msgs)
  PROVE  /\ q # <<>> /\ Head(q) = "batch" /\ HasError(q) => HasError(Tail(q))
         /\ \A m \in Msgs : HasError(q) => HasError(Append(q, m))
         /\ \A m \in ErrKinds : HasError(Append(q, m))
<1>1. ASSUME q # <<>>, Head(q) = "batch", HasError(q) PROVE HasError(Tail(q))
  <2>1. PICK i \in 1..Len(q) : q[i] \in ErrKinds
    BY <1>1 DEF HasError
  <2>2. i # 1
    BY <1>1, <2>1 DEF ErrKinds
  <2>3. Tail(q) \in Seq(Msgs) /\ Len(Tail(q)) = Len(q) - 1 /\ \A j \in 1..Len(Tail(q)) : Tail(q)[j] = q[j + 1]
    BY <1>1, HeadTailProperties
  <2>4. i - 1 \in 1..Len(Tail(q)) /\ Tail(q)[i - 1] = q[i]
    BY <2>1, <2>2, <2>3
  <2>5. i - 1 \in DOMAIN Tail(q) /\ Tail(q)[i - 1] \in ErrKinds
    BY <2>1, <2>3, <2>4
  <2> QED BY <2>5 DEF HasError
<1>2. ASSUME NEW m \in Msgs PROVE /\ HasError(q) => HasError(Append(q, m))
                                  /\ m \in ErrKinds => HasError(Append(q, m))
  <2>1. /\ Append(q, m) \in Seq(Msgs) /\ Len(Append(q, m)) = Len(q) + 1
        /\ \A j \in 1..Len(q) : Append(q, m)[j] = q[j]
        /\ Append(q, m)[Len(q) + 1] = m
    BY AppendProperties
  <2>2. DOMAIN Append(q, m) = 1..Len(q) + 1 /\ DOMAIN q = 1..Len(q) /\ Len(q) \in Nat
    BY <2>1
  <2>3. HasError(q) => HasError(Append(q, m))
    BY <2>1, <2>2 DEF HasError
  <2>4. m \in ErrKinds => HasError(Append(q, m))
    <3>1. Len(q) + 1 \in DOMAIN Append(q, m)
      BY <2>2
    <3> QED BY <2>1, <3>1 DEF HasError
  <2> QED BY <2>3, <2>4
<1> QED BY <1>1, <1>2 DEF Msgs

\* An error that is queued for a consumer stays queued as long as that listens.
LEMMA ErrorKept ==
  ASSUME TypeOK, ErrorsMatch, [Next]_vars, NEW e \in Edges, HasError(chan[e]), Listening(e)'
  PROVE  HasError(chan'[e])
<1>0. Listening(e) /\ chan \in [Edges -> Seq(Msgs)] /\ chan[e] \in Seq(Msgs)
  BY ListeningFalls DEF TypeOK
<1>1. CASE chan'[e] = chan[e]
  BY <1>1
<1>2. ASSUME NEW f \in Edges, TakeForm(f), chan'[e] # chan[e] PROVE HasError(chan'[e])
  <2>1. f = e /\ chan'[e] = Tail(chan[e]) /\ chan[e] # <<>>
    BY <1>0, <1>2 DEF TakeForm, Take
  <2>2. Head(chan[e]) = "batch"
    BY <1>0, <1>2, <2>1 DEF TakeForm, Listening
  <2> QED BY <1>0, <2>1, <2>2, QueuedErrors
<1>3. ASSUME NEW n \in Nodes, NEW k \in ErrKinds, AbortForm(n, k), chan'[e] # chan[e]
      PROVE  FALSE
  <2>1. e[2] = n
    BY <1>0, <1>3 DEF AbortForm, Take
  <2>2. pc'[n] = "forward"
    BY <1>3 DEF AbortForm, Abort, Goto, TypeOK
  <2> QED BY <2>1, <2>2 DEF Listening, RxOpen, Inner
<1>4. ASSUME NEW n \in Nodes, NEW m \in Msgs, AppendForm(n, m), chan'[e] # chan[e]
      PROVE  HasError(chan'[e])
  <2>1. chan'[e] = Append(chan[e], m)
    BY <1>0, <1>4 DEF AppendForm
  <2> QED BY <1>0, <2>1, QueuedErrors
<1> QED
  BY <1>1, <1>2, <1>3, <1>4, StepForms DEF MoveForm, LandForm, ReportForm, FinishForm

LEMMA StepErrorQueued ==
  ASSUME TypeOK, ErrorsMatch, ErrorQueued, [Next]_vars
  PROVE  ErrorQueued'
<1> SUFFICES ASSUME NEW p \in Nodes, NEW i \in DOMAIN Outs[p],
                    pc'[p] = "failed" \/ (pc'[p] = "forward" /\ i < next'[p]),
                    Listening(<<p, Outs[p][i]>>)'
             PROVE  HasError(chan'[<<p, Outs[p][i]>>])
  BY DEF ErrorQueued
<1> DEFINE e == <<p, Outs[p][i]>>
           Forwarded == pc[p] = "failed" \/ (pc[p] = "forward" /\ i < next[p])
<1>0. /\ e \in Edges /\ Listening(e) /\ Outs[p] \in Seq(Nodes) /\ i \in 1..Len(Outs[p])
      /\ pc \in [Nodes -> PCs] /\ next \in [Nodes -> Nat \ {0}] /\ chan \in [Edges -> Seq(Msgs)]
  <2>1. e \in Edges
    BY OutputEdges
  <2>2. Listening(e)
    BY <2>1, ListeningFalls
  <2>3. Outs[p] \in Seq(Nodes) /\ i \in 1..Len(Outs[p])
    BY WiringAssumption
  <2> QED BY <2>1, <2>2, <2>3 DEF TypeOK
<1>1. CASE Forwarded
  BY <1>0, <1>1, ErrorKept DEF ErrorQueued
<1>2. CASE ~Forwarded
  <2>1. ASSUME NEW n \in Nodes, NEW to \in PCs, MoveForm(n, to) PROVE FALSE
    BY <1>0, <1>2, <2>1 DEF MoveForm, Goto, Inner
  <2>2. ASSUME NEW n \in Nodes, LandForm(n) PROVE FALSE
    BY <1>0, <1>2, <2>2 DEF LandForm, Goto
  <2>3. ASSUME NEW f \in Edges, TakeForm(f) PROVE FALSE
    BY <1>0, <1>2, <2>3 DEF TakeForm, Goto
  <2>4. ASSUME NEW n \in Nodes, NEW k \in ErrKinds, AbortForm(n, k) PROVE FALSE
    BY <1>0, <1>2, <2>4 DEF AbortForm, Abort, Goto
  <2>5. ASSUME NEW n \in Nodes, ReportForm(n) PROVE FALSE
    BY <1>0, <1>2, <2>5 DEF ReportForm, Goto
  <2>6. CASE FinishForm
    BY <1>0, <1>2, <2>6 DEF FinishForm
  <2>7. ASSUME NEW n \in Nodes, NEW m \in Msgs, AppendForm(n, m) PROVE HasError(chan'[e])
    <3>1. n = p /\ i = next[p] /\ pc[p] = "forward"
      BY <1>0, <1>2, <2>7 DEF AppendForm
    <3>2. m \in ErrKinds
      BY <2>7, <3>1 DEF AppendForm, ErrorsMatch, Sending
    <3>3. chan'[e] = Append(chan[e], m)
      BY <1>0, <2>7, <3>1 DEF AppendForm, Listening
    <3> QED BY <1>0, <3>2, <3>3, QueuedErrors
  <2> QED BY <2>1, <2>2, <2>3, <2>4, <2>5, <2>6, <2>7, StepForms
<1> QED BY <1>1, <1>2

LEMMA StepDrain ==
  ASSUME TypeOK, ErrorsMatch, DrainMatches, [Next]_vars
  PROVE  DrainMatches'
<1> SUFFICES ASSUME NEW n \in Nodes, pc'[n] = "drain" PROVE Drained(n)'
  BY DEF DrainMatches
<1>0. pc \in [Nodes -> PCs] /\ (pc[n] = "drain" => Drained(n))
  BY DEF TypeOK, DrainMatches
<1>1. ASSUME NEW m \in Nodes, NEW to \in PCs, MoveForm(m, to) PROVE Drained(n)'
  <2>1. Drained(n)
    BY <1>0, <1>1 DEF MoveForm, Goto
  <2> QED BY <1>1, <2>1 DEF MoveForm, Drained
<1>2. ASSUME NEW m \in Nodes, LandForm(m) PROVE Drained(n)'
  BY <1>0, <1>2 DEF LandForm, Goto, Drained
<1>3. ASSUME NEW e \in Edges, TakeForm(e) PROVE Drained(n)'
  <2>1. pc[n] = "drain" /\ Drained(n)
    BY <1>0, <1>3 DEF TakeForm, Goto
  <2>2. EffKind(n) \in JoinKinds
    BY <2>1 DEF Drained, JoinKinds
  <2>3. e # Right(n)
    BY <1>3, <2>1, <2>2, InputEdges DEF TakeForm, Right
  <2>4. got'[Right(n)] = got[Right(n)]
    BY <1>3, <2>2, <2>3, InputEdges DEF TakeForm, TypeOK
  <2> QED BY <2>1, <2>4 DEF Drained
<1>4. ASSUME NEW m \in Nodes, NEW k \in ErrKinds, AbortForm(m, k) PROVE Drained(n)'
  BY <1>0, <1>4 DEF AbortForm, Abort, Goto, Drained
<1>5. ASSUME NEW m \in Nodes, NEW x \in Msgs, AppendForm(m, x) PROVE Drained(n)'
  BY <1>0, <1>5 DEF AppendForm, Drained
<1>6. ASSUME NEW m \in Nodes, ReportForm(m) PROVE Drained(n)'
  BY <1>0, <1>6 DEF ReportForm, Goto, Drained
<1>7. CASE FinishForm
  BY <1>0, <1>7 DEF FinishForm, Drained
<1> QED BY <1>1, <1>2, <1>3, <1>4, <1>5, <1>6, <1>7, StepForms

LEMMA StepLanded ==
  ASSUME TypeOK, ErrorsMatch, LandedMatches, [Next]_vars
  PROVE  LandedMatches'
<1> SUFFICES ASSUME NEW n \in Nodes
             PROVE  n \in landed' <=> n \in Committers /\ pc'[n] \in {"report", "done"}
  BY DEF LandedMatches, Committers
<1> USE DEF Inner
<1> DEFINE Goal == n \in landed' <=> n \in Committers /\ pc'[n] \in {"report", "done"}
<1>0. /\ pc \in [Nodes -> PCs]
      /\ n \in landed <=> n \in Committers /\ pc[n] \in {"report", "done"}
  BY DEF TypeOK, LandedMatches
<1>1. ASSUME NEW m \in Nodes, NEW to \in PCs, MoveForm(m, to) PROVE Goal
  BY <1>0, <1>1 DEF MoveForm, Goto
<1>2. ASSUME NEW m \in Nodes, LandForm(m) PROVE Goal
  BY <1>0, <1>2 DEF LandForm, Goto
<1>3. ASSUME NEW e \in Edges, TakeForm(e) PROVE Goal
  BY <1>0, <1>3 DEF TakeForm, Goto
<1>4. ASSUME NEW m \in Nodes, NEW k \in ErrKinds, AbortForm(m, k) PROVE Goal
  BY <1>0, <1>4 DEF AbortForm, Abort, Goto
<1>5. ASSUME NEW m \in Nodes, NEW x \in Msgs, AppendForm(m, x) PROVE Goal
  BY <1>0, <1>5 DEF AppendForm
<1>6. ASSUME NEW m \in Nodes, ReportForm(m) PROVE Goal
  BY <1>0, <1>6 DEF ReportForm, Goto
<1>7. CASE FinishForm
  BY <1>0, <1>7 DEF FinishForm
<1> QED BY <1>1, <1>2, <1>3, <1>4, <1>5, <1>6, <1>7, StepForms

\* Some task has failed by itself.
HasCause == \E n \in Nodes : err[n] = "fault" \/ pc[n] = "panicked"

HasSymptom ==
  \/ \E n \in Nodes : err[n] = "closed"
  \/ \E e \in Edges : \E i \in DOMAIN chan[e] : chan[e][i] = "closed"

LEMMA CauseStable ==
  ASSUME TypeOK, ErrorsMatch, [Next]_vars, HasCause
  PROVE  HasCause'
<1>1. PICK n \in Nodes : err[n] = "fault" \/ pc[n] = "panicked"
  BY DEF HasCause
<1>2. CASE pc[n] = "panicked"
  BY <1>2, TerminalStable DEF Terminal, HasCause
<1>3. CASE err[n] = "fault"
  <2>1. pc[n] \notin Inner /\ err \in [Nodes -> ErrKinds \cup {"none"}]
    BY <1>3 DEF ErrorsMatch, ErrKinds, Inner, TypeOK
  <2>2. ASSUME NEW m \in Nodes, NEW k \in ErrKinds, AbortForm(m, k) PROVE err'[n] = "fault"
    BY <1>3, <2>1, <2>2 DEF AbortForm, Abort
  <2>3. err'[n] = "fault"
    BY <1>3, <2>2, StepForms DEF MoveForm, LandForm, TakeForm, AppendForm, ReportForm, FinishForm
  <2> QED BY <2>3 DEF HasCause
<1> QED BY <1>1, <1>2, <1>3

\* A first error about a closed channel needs a consumer that has failed or panicked: one
\* that returned Ok has outlived all its producers.
LEMMA StepSymptom ==
  ASSUME TypeOK, ErrorsMatch, EndMeansGone, HasSymptom => HasCause, [Next]_vars
  PROVE  HasSymptom' => HasCause'
<1> SUFFICES ASSUME ~HasCause, HasSymptom', ~HasCause' PROVE FALSE
  BY CauseStable
<1>0. /\ \A n \in Nodes : err[n] = "none" /\ pc[n] \notin {"forward", "failed", "panicked"}
      /\ \A e \in Edges : \A i \in DOMAIN chan[e] : chan[e][i] # "closed"
      /\ chan \in [Edges -> Seq(Msgs)] /\ err \in [Nodes -> ErrKinds \cup {"none"}]
  BY DEF HasSymptom, HasCause, TypeOK, ErrorsMatch, ErrKinds
<1>1. ASSUME chan' = chan, err' = err PROVE FALSE
  BY <1>0, <1>1 DEF HasSymptom
<1>2. ASSUME NEW f \in Edges, chan[f] # <<>>, Take(f), NEW e \in Edges,
             NEW i \in DOMAIN chan'[e], chan'[e][i] = "closed"
      PROVE  FALSE
  <2>1. CASE e = f
    <3>1. /\ chan[e] \in Seq(Msgs) /\ chan'[e] = Tail(chan[e])
      BY <1>0, <1>2, <2>1 DEF Take
    <3>2. /\ Tail(chan[e]) \in Seq(Msgs) /\ Len(Tail(chan[e])) = Len(chan[e]) - 1
          /\ \A j \in 1..Len(Tail(chan[e])) : Tail(chan[e])[j] = chan[e][j + 1]
      BY <1>2, <2>1, <3>1, HeadTailProperties
    <3>3. i \in 1..Len(Tail(chan[e])) /\ i + 1 \in DOMAIN chan[e]
      BY <1>2, <3>1, <3>2
    <3> QED BY <1>0, <1>2, <3>1, <3>2, <3>3
  <2>2. CASE e # f
    BY <1>0, <1>2, <2>2 DEF Take
  <2> QED BY <2>1, <2>2
<1>3. ASSUME NEW f \in Edges, TakeForm(f) PROVE FALSE
  BY <1>0, <1>2, <1>3 DEF TakeForm, HasSymptom
<1>4. ASSUME NEW n \in Nodes, NEW k \in ErrKinds, AbortForm(n, k) PROVE FALSE
  <2>1. k = "closed"
    BY <1>0, <1>4 DEF AbortForm, Abort, HasCause, ErrKinds
  <2>2. ~\E e \in Edges : chan[e] # <<>> /\ Head(chan[e]) = "closed"
    <3> SUFFICES ASSUME NEW e \in Edges, chan[e] # <<>> PROVE Head(chan[e]) # "closed"
      OBVIOUS
    <3>1. chan[e] \in Seq(Msgs) /\ 1 \in DOMAIN chan[e] /\ Head(chan[e]) = chan[e][1]
      BY <1>0, EmptySeq
    <3> QED BY <1>0, <3>1
  <2>3. PICK e \in Edges : e[1] = n /\ ~RxOpen(e[2])
    BY <1>4, <2>1, <2>2 DEF AbortForm
  <2>4. e[2] \in Nodes /\ pc[e[2]] \in PCs
    BY DEF Edges, TypeOK
  <2>5. pc[e[2]] \in {"report", "done"}
    BY <1>0, <2>3, <2>4 DEF RxOpen, PCs, Terminal
  <2>6. ~TxOpen(n)
    BY <2>3, <2>5 DEF EndMeansGone, SawEnd
  <2> QED BY <1>4, <2>6 DEF AbortForm, TxOpen, Terminal, Inner
<1>5. ASSUME NEW n \in Nodes, NEW m \in Msgs, AppendForm(n, m) PROVE FALSE
  <2>1. m = "batch"
    BY <1>0, <1>5 DEF AppendForm, Sending
  <2>2. ASSUME NEW e \in Edges, NEW i \in DOMAIN chan'[e] PROVE chan'[e][i] # "closed"
    <3>1. CASE chan'[e] = chan[e]
      BY <1>0, <3>1
    <3>2. CASE chan'[e] # chan[e]
      <4>1. chan'[e] = Append(chan[e], m) /\ chan[e] \in Seq(Msgs)
        BY <1>0, <1>5, <3>2 DEF AppendForm
      <4>2. /\ Append(chan[e], m) \in Seq(Msgs) /\ Len(Append(chan[e], m)) = Len(chan[e]) + 1
            /\ \A j \in 1..Len(chan[e]) : Append(chan[e], m)[j] = chan[e][j]
            /\ Append(chan[e], m)[Len(chan[e]) + 1] = m
        BY <4>1, AppendProperties
      <4>3. i \in 1..Len(chan[e]) \/ i = Len(chan[e]) + 1
        BY <2>2, <4>1, <4>2
      <4> QED BY <1>0, <2>1, <4>1, <4>2, <4>3
    <3> QED BY <3>1, <3>2
  <2> QED BY <1>0, <1>5, <2>2 DEF AppendForm, HasSymptom
<1> QED
  BY <1>1, <1>3, <1>4, <1>5, StepForms DEF MoveForm, LandForm, ReportForm, FinishForm

-----------------------------------------------------------------------------
(* The invariant and what follows from it. *)

\* The run never ends with a mere symptom.
LEMMA StepVerdict ==
  ASSUME TypeOK, ErrorsMatch, SymptomHasCause, ReportsRootCause, [Next]_vars
  PROVE  ReportsRootCause'
<1>1. CASE Finish
  <2>1. SymptomHasCause => ~(/\ ~\E n \in Nodes : pc[n] = "panicked" \/ err[n] = "fault"
                            /\ \E n \in Nodes : err[n] = "closed")
    BY DEF SymptomHasCause
  <2> QED BY <1>1, <2>1 DEF Finish, ReportsRootCause
<1>2. CASE ~Finish
  BY <1>2, StepForms DEF ReportsRootCause, MoveForm, LandForm, TakeForm, AbortForm, Abort,
                         AppendForm, ReportForm, FinishForm
<1> QED BY <1>1, <1>2

LEMMA InitInvariant == Init => IInv
<1> SUFFICES ASSUME Init PROVE IInv
  OBVIOUS
<1>1. TypeOK /\ ErrorsMatch
  BY InitType, InitErrors
<1>2. \A n \in Nodes : pc[n] = "init" /\ err[n] = "none" /\ next[n] = 1
  BY DEF Init
<1>3. \A e \in Edges : ~SawEnd(e)
  BY <1>2 DEF SawEnd, Edges
<1>4. EndMeansGone /\ EndMeansClean /\ DrainMatches
  BY <1>2, <1>3 DEF EndMeansGone, EndMeansClean, DrainMatches
<1>5. ErrorQueued
  BY <1>2 DEF ErrorQueued
<1>6. SymptomHasCause
  BY <1>2 DEF SymptomHasCause, Init
<1>7. LandedMatches /\ ReportsRootCause
  BY <1>2 DEF LandedMatches, ReportsRootCause, Init
<1> QED BY <1>1, <1>4, <1>5, <1>6, <1>7 DEF IInv

LEMMA StepInvariant == IInv /\ [Next]_vars => IInv'
<1> SUFFICES ASSUME IInv, [Next]_vars PROVE IInv'
  OBVIOUS
<1>1. /\ TypeOK /\ ErrorsMatch /\ DrainMatches /\ EndMeansGone /\ ErrorQueued
      /\ EndMeansClean /\ SymptomHasCause /\ LandedMatches /\ ReportsRootCause
  BY DEF IInv
<1>2. TypeOK' /\ ErrorsMatch'
  BY <1>1, StepType, StepErrors
<1>3. DrainMatches' /\ LandedMatches'
  BY <1>1, StepDrain, StepLanded
<1>4. EndMeansGone' /\ EndMeansClean'
  BY <1>1, StepEndMeansGone, StepEndMeansClean
<1>5. ErrorQueued'
  BY <1>1, StepErrorQueued
<1>6. SymptomHasCause'
  <2>1. HasSymptom => HasCause
    BY <1>1 DEF SymptomHasCause, HasSymptom, HasCause
  <2>2. HasSymptom' => HasCause'
    BY <1>1, <2>1, StepSymptom
  <2> QED BY <2>2 DEF SymptomHasCause, HasSymptom, HasCause
<1>7. ReportsRootCause'
  BY <1>1, StepVerdict
<1> QED BY <1>2, <1>3, <1>4, <1>5, <1>6, <1>7 DEF IInv

\* The inductive invariant holds in every reachable state.
THEOREM Invariance == Spec => []IInv
<1>1. Init => IInv
  BY InitInvariant
<1>2. IInv /\ [Next]_vars => IInv'
  BY StepInvariant
<1> QED BY <1>1, <1>2, PTL DEF Spec

\* No sink commits behind a failure: the steps that have ended well, and the panicked
\* ones, hold every step that data of a committed sink came through.
THEOREM CommitsAreClean == Spec => []CommitNeedsCleanUpstream
<1>1. ASSUME IInv PROVE CommitNeedsCleanUpstream
  <2> SUFFICES ASSUME NEW n \in landed, NEW m \in UpstreamVia(n, LiveEdges) \ {n}
               PROVE  pc[m] \in {"done", "panicked"}
    BY DEF CommitNeedsCleanUpstream
  <2> DEFINE S == {n} \cup {k \in Nodes : pc[k] \in {"done", "panicked"}}
  <2>1. n \in Nodes /\ pc[n] \in {"report", "done"}
    BY <1>1 DEF IInv, TypeOK, LandedMatches, Committers
  <2>2. ASSUME NEW e \in LiveEdges, e[2] \in S PROVE e[1] \in S
    <3>1. e \in Edges /\ Binding(e) /\ pc[e[2]] # "panicked" /\ e[1] \in Nodes
      BY DEF LiveEdges, Edges
    <3>2. pc[e[2]] \in {"report", "done"}
      BY <2>1, <2>2, <3>1
    <3>3. pc[e[1]] \in {"done", "panicked"}
      BY <1>1, <3>1, <3>2 DEF IInv, EndMeansClean, SawEnd
    <3> QED BY <3>1, <3>3
  <2>3. S \in SUBSET Nodes /\ n \in S
    BY <2>1
  <2>4. m \in S
    BY <2>2, <2>3 DEF UpstreamVia
  <2> QED BY <2>4
<1> QED BY <1>1, Invariance, PTL

\* The error a failed run reports is never a mere symptom: the fall-back to an error about
\* a closed channel is never needed.
THEOREM RootCauseReported == Spec => []ReportsRootCause
<1>1. IInv => ReportsRootCause
  BY DEF IInv
<1> QED BY <1>1, Invariance, PTL

-----------------------------------------------------------------------------
(* The executor implements the contract. *)

\* A step that has seen the end of its inputs, and needs them all, may end well.
LEMMA CleanInputs ==
  ASSUME IInv, NEW n \in Nodes, ~Drained(n),
         pc[n] \in {"tail", "sendTail", "report", "done"}
  PROVE  Contract!InputsPassed(n)
<1> SUFFICES ASSUME NEW i \in DOMAIN Ins[n]
             PROVE  Ins[n][i] \in Nodes /\ OutcomeOf(Ins[n][i]) \in {"ok", "panic"}
  BY DEF Contract!InputsPassed, Contract!Passed
<1> DEFINE e == <<Ins[n][i], n>>
<1>1. Ins[n][i] \in Nodes
  BY PipelineAssumption
<1>2. e \in Edges
  BY <1>1 DEF Edges
<1>3. SawEnd(e) /\ Binding(e)
  BY DEF SawEnd, Binding
<1>4. pc[e[1]] \in {"done", "panicked"}
  BY <1>2, <1>3 DEF IInv, EndMeansClean
<1> QED BY <1>1, <1>4 DEF OutcomeOf

\* An inner join that only drained its left side may end well too.
LEMMA DrainedInputs ==
  ASSUME IInv, NEW n \in Nodes, Drained(n), pc[n] = "report"
  PROVE  /\ Ins[n][1] \in Nodes /\ OutcomeOf(Ins[n][1]) # "pending"
         /\ Ins[n][2] \in Nodes /\ OutcomeOf(Ins[n][2]) \in {"ok", "panic"}
<1>1. EffKind(n) \in JoinKinds
  BY DEF Drained, JoinKinds
<1>2. Left(n) \in Edges /\ Right(n) \in Edges /\ Left(n) # Right(n)
  BY <1>1, InputEdges
<1>3. SawEnd(Left(n)) /\ SawEnd(Right(n)) /\ Binding(Right(n))
  BY <1>2 DEF SawEnd, Binding, Left, Right
<1>4. pc[Ins[n][1]] \in Terminal /\ pc[Ins[n][2]] \in {"done", "panicked"}
  BY <1>2, <1>3 DEF IInv, EndMeansGone, EndMeansClean, TxOpen, Left, Right
<1> QED BY <1>2, <1>4 DEF OutcomeOf, Terminal, Edges, Left, Right

\* Every step of the executor is a step of the contract or changes nothing in it.
LEMMA StepContract ==
  ASSUME IInv, [Next]_vars
  PROVE  [Contract!Next]_(Contract!vars)
<1> DEFINE out == [n \in Nodes |-> OutcomeOf(n)]
           res == IF verdict \in {"rootCause", "symptom"} THEN "error" ELSE verdict
<1>0. /\ pc \in [Nodes -> PCs] /\ TypeOK /\ ErrorsMatch /\ LandedMatches
  BY DEF IInv, TypeOK
<1>1. ASSUME NEW n \in Nodes, NEW to, pc[n] \notin Terminal, Goto(n, to),
             verdict' = verdict, landed' = landed, to \notin Terminal
      PROVE  UNCHANGED Contract!vars
  BY <1>0, <1>1 DEF Contract!vars, OutcomeOf, Goto, Terminal
<1>2. ASSUME pc' = pc, verdict' = verdict, landed' = landed
      PROVE  UNCHANGED Contract!vars
  BY <1>2 DEF Contract!vars, OutcomeOf
<1>3. ASSUME NEW n \in Nodes, NEW to \in Terminal, pc[n] \notin Terminal, Goto(n, to)
      PROVE  /\ out[n] = "pending"
             /\ out' = [out EXCEPT ![n] = CASE to = "done"     -> "ok"
                                            [] to = "failed"   -> "error"
                                            [] to = "panicked" -> "panic"]
  <2>1. /\ pc'[n] = to
        /\ \A p \in Nodes \ {n} : pc'[p] = pc[p]
    BY <1>0, <1>3 DEF Goto
  <2> QED BY <1>3, <2>1 DEF OutcomeOf, Terminal
<1>4. ASSUME NEW n \in Nodes, NEW to \in PCs, MoveForm(n, to)
      PROVE  [Contract!Next]_(Contract!vars)
  <2>1. pc[n] \notin Terminal /\ n \notin landed
    BY <1>0, <1>4 DEF MoveForm, Inner, Terminal, LandedMatches
  <2>2. CASE to = "panicked"
    <3>1. Contract!GoWrong(n)
      BY <1>3, <1>4, <2>1, <2>2 DEF MoveForm, Terminal, Contract!GoWrong
    <3> QED BY <3>1 DEF Contract!Next
  <2>3. CASE to # "panicked"
    BY <1>1, <1>4, <2>1, <2>3 DEF MoveForm, Inner, Terminal
  <2> QED BY <2>2, <2>3
<1>5. ASSUME NEW n \in Nodes, LandForm(n)
      PROVE  [Contract!Next]_(Contract!vars)
  <2>1. ~Drained(n) /\ n \notin landed
    BY <1>0, <1>5 DEF LandForm, Drained, Committers, LandedMatches
  <2>2. Contract!InputsPassed(n)
    BY <1>5, <2>1, CleanInputs DEF LandForm
  <2>3. out[n] = "pending" /\ out' = out
    BY <1>0, <1>5 DEF LandForm, Goto, OutcomeOf
  <2>4. Contract!Commit(n)
    BY <1>5, <2>1, <2>2, <2>3 DEF LandForm, Contract!Commit
  <2> QED BY <2>4 DEF Contract!Next
<1>6. ASSUME NEW e \in Edges, TakeForm(e)
      PROVE  [Contract!Next]_(Contract!vars)
  <2>1. e[2] \in Nodes
    BY DEF Edges
  <2> QED BY <1>1, <1>2, <1>6, <2>1 DEF TakeForm, Terminal
<1>7. ASSUME NEW n \in Nodes, NEW k \in ErrKinds, AbortForm(n, k)
      PROVE  [Contract!Next]_(Contract!vars)
  BY <1>1, <1>7 DEF AbortForm, Abort, Inner, Terminal
<1>8. ASSUME NEW n \in Nodes, NEW m \in Msgs, AppendForm(n, m)
      PROVE  [Contract!Next]_(Contract!vars)
  BY <1>2, <1>8 DEF AppendForm
<1>9. ASSUME NEW n \in Nodes, ReportForm(n)
      PROVE  [Contract!Next]_(Contract!vars)
  <2>1. CASE pc[n] = "forward" /\ Goto(n, "failed")
    <3>1. n \notin landed
      BY <1>0, <2>1 DEF LandedMatches
    <3>2. Contract!GoWrong(n)
      BY <1>3, <1>9, <2>1, <3>1 DEF ReportForm, Terminal, Contract!GoWrong
    <3> QED BY <3>2 DEF Contract!Next
  <2>2. CASE pc[n] = "report" /\ Goto(n, "done")
    <3>1. n \in Committers => n \in landed
      BY <1>0, <2>2 DEF LandedMatches
    <3>2. out[n] = "pending" /\ out' = [out EXCEPT ![n] = "ok"]
      BY <1>3, <2>2 DEF Terminal
    <3>3. \/ Contract!InputsPassed(n)
          \/ /\ n \in {p \in Nodes : EffKind(p) = "innerJoin"}
             /\ out[Ins[n][1]] # "pending"
             /\ Contract!Passed(Ins[n][2])
      BY <2>2, CleanInputs, DrainedInputs DEF Drained, Contract!Passed
    <3>4. Contract!Succeed(n)
      BY <1>9, <3>1, <3>2, <3>3 DEF ReportForm, Contract!Succeed
    <3> QED BY <3>4 DEF Contract!Next
  <2> QED BY <1>9, <2>1, <2>2 DEF ReportForm
<1>10. ASSUME FinishForm
       PROVE  [Contract!Next]_(Contract!vars)
  <2>1. CASE verdict' = verdict
    BY <1>2, <1>10, <2>1 DEF FinishForm
  <2>2. CASE Finish
    <3>1. \A n \in Nodes : out[n] # "pending"
      BY <2>2 DEF Finish, OutcomeOf, Terminal
    <3>2. \A n \in Nodes : out[n] = "ok" <=> pc[n] # "panicked" /\ err[n] \notin ErrKinds
      BY <1>0, <2>2 DEF Finish, OutcomeOf, Terminal, ErrorsMatch
    <3>3. res = "running" /\ res' = IF \A n \in Nodes : out[n] = "ok" THEN "ok" ELSE "error"
      BY <2>2, <3>2 DEF Finish, ErrKinds
    <3>4. out' = out /\ landed' = landed
      BY <2>2 DEF Finish, OutcomeOf
    <3>5. Contract!Conclude
      BY <3>1, <3>3, <3>4 DEF Contract!Conclude
    <3> QED BY <3>5 DEF Contract!Next
  <2> QED BY <1>10, <2>1, <2>2 DEF FinishForm
<1> QED
  BY <1>0, <1>4, <1>5, <1>6, <1>7, <1>8, <1>9, <1>10, StepForms

\* The executor implements DagContract.
THEOREM ImplementsContract == Spec => ContractSpec
<1>1. Init => Contract!Init
  BY DEF Init, Contract!Init, OutcomeOf, Terminal
<1>2. IInv /\ [Next]_vars => [Contract!Next]_(Contract!vars)
  BY StepContract
<1> QED BY <1>1, <1>2, Invariance, PTL DEF Spec, ContractSpec, Contract!Spec

-----------------------------------------------------------------------------
(* No batch is lost, and none queued beyond what the channels hold. *)

\* A step comes strictly after its inputs, and sends to each consumer by one channel.
LEMMA NoLoops ==
  /\ \A e \in Edges : e[1] # e[2]
  /\ \A p \in Nodes : \A i, j \in DOMAIN Outs[p] : Outs[p][i] = Outs[p][j] => i = j
<1>1. \A n \in Nodes : ~Before(n, n)
  <2>1. \A i, j \in DOMAIN Order : Order[i] = Order[j] => i = j
    BY PipelineAssumption
  <2>2. \A i \in DOMAIN Order : i \in Nat
    BY PipelineAssumption
  <2> QED BY <2>1, <2>2 DEF Before
<1>2. ASSUME NEW e \in Edges PROVE e[1] # e[2]
  <2>1. PICK i \in DOMAIN Ins[e[2]] : Ins[e[2]][i] = e[1]
    BY DEF Edges
  <2>2. e[1] \in Nodes /\ e[2] \in Nodes
    BY DEF Edges
  <2>3. Before(Ins[e[2]][i], e[2])
    BY <2>1, <2>2, PipelineAssumption
  <2> QED BY <1>1, <2>1, <2>2, <2>3
<1>3. ASSUME NEW p \in Nodes, NEW i \in DOMAIN Outs[p], NEW j \in DOMAIN Outs[p], Outs[p][i] = Outs[p][j]
      PROVE  i = j
  <2>1. i \in Nat /\ j \in Nat /\ Outs[p][i] \in Nodes
    BY WiringAssumption, OutputEdges
  <2>2. ~(i < j) /\ ~(j < i)
    BY <1>1, <1>3, <2>1, WiringAssumption
  <2> QED BY <2>1, <2>2
<1> QED BY <1>2, <1>3

\* Taking the first message of a queue, and adding one at its end.
LEMMA Queues ==
  ASSUME NEW q \in Seq(Msgs)
  PROVE  /\ Len(q) \in Nat /\ DOMAIN q = 1..Len(q)
         /\ q # <<>> => /\ Len(q) > 0 /\ Len(Tail(q)) = Len(q) - 1 /\ Head(q) = q[1] /\ Head(q) \in Msgs
                        /\ DOMAIN Tail(q) = 1..(Len(q) - 1)
                        /\ \A j \in DOMAIN Tail(q) : Tail(q)[j] = q[j + 1]
                        /\ HasError(Tail(q)) => HasError(q)
         /\ \A m \in Msgs : /\ Len(Append(q, m)) = Len(q) + 1
                            /\ DOMAIN Append(q, m) = 1..(Len(q) + 1)
                            /\ \A j \in 1..Len(q) : Append(q, m)[j] = q[j]
                            /\ Append(q, m)[Len(q) + 1] = m
                            /\ HasError(Append(q, m)) <=> HasError(q) \/ m \in ErrKinds
<1>1. Len(q) \in Nat /\ DOMAIN q = 1..Len(q)
  OBVIOUS
<1>2. ASSUME q # <<>>
      PROVE  /\ Len(q) > 0 /\ Len(Tail(q)) = Len(q) - 1 /\ Head(q) = q[1] /\ Head(q) \in Msgs
             /\ DOMAIN Tail(q) = 1..(Len(q) - 1)
             /\ \A j \in DOMAIN Tail(q) : Tail(q)[j] = q[j + 1]
             /\ HasError(Tail(q)) => HasError(q)
  <2>1. /\ Tail(q) \in Seq(Msgs) /\ Head(q) \in Msgs /\ Len(Tail(q)) = Len(q) - 1
        /\ \A j \in 1..Len(Tail(q)) : Tail(q)[j] = q[j + 1]
    BY <1>2, HeadTailProperties
  <2>2. Len(q) > 0 /\ Head(q) = q[1] /\ DOMAIN Tail(q) = 1..(Len(q) - 1)
    BY <1>1, <1>2, <2>1, EmptySeq
  <2>3. ASSUME NEW j \in DOMAIN Tail(q), Tail(q)[j] \in ErrKinds PROVE \E k \in DOMAIN q : q[k] \in ErrKinds
    <3>1. j + 1 \in DOMAIN q /\ q[j + 1] \in ErrKinds
      BY <1>1, <2>1, <2>2, <2>3
    <3> QED BY <3>1
  <2> QED BY <2>1, <2>2, <2>3 DEF HasError
<1>3. ASSUME NEW m \in Msgs
      PROVE  /\ Len(Append(q, m)) = Len(q) + 1
             /\ DOMAIN Append(q, m) = 1..(Len(q) + 1)
             /\ \A j \in 1..Len(q) : Append(q, m)[j] = q[j]
             /\ Append(q, m)[Len(q) + 1] = m
             /\ HasError(Append(q, m)) <=> HasError(q) \/ m \in ErrKinds
  <2>1. /\ Append(q, m) \in Seq(Msgs) /\ Len(Append(q, m)) = Len(q) + 1
        /\ \A j \in 1..Len(q) : Append(q, m)[j] = q[j]
        /\ Append(q, m)[Len(q) + 1] = m
    BY AppendProperties
  <2>2. DOMAIN Append(q, m) = 1..(Len(q) + 1)
    BY <2>1
  <2>3. ASSUME HasError(Append(q, m)) PROVE HasError(q) \/ m \in ErrKinds
    <3>1. PICK j \in 1..(Len(q) + 1) : Append(q, m)[j] \in ErrKinds
      BY <2>2, <2>3 DEF HasError
    <3>2. j \in 1..Len(q) \/ j = Len(q) + 1
      BY <1>1
    <3> QED BY <1>1, <2>1, <3>1, <3>2 DEF HasError
  <2> QED BY <2>1, <2>2, <2>3, QueuedErrors
<1> QED BY <1>1, <1>2, <1>3

-----------------------------------------------------------------------------
(* What a step does to the batches: these forms look at the counters, where *)
(* the forms of DagExecutorProofs look at what the consumers know.          *)

\* A step has made a batch and starts to send it.
EmitsForm(n, to) ==
  /\ pc[n] \in {"read", "work", "tail"} /\ to \in {"send", "sendTail"} /\ Goto(n, to)
  /\ next' = [next EXCEPT ![n] = 1]
  /\ made' = [made EXCEPT ![n] = @ + 1]
  /\ UNCHANGED <<chan, got>>

\* A step goes on otherwise, after a batch only once every consumer has it.
GoesForm(n, to) ==
  /\ pc[n] \in Inner /\ to \in (Inner \ {"send", "sendTail"}) \cup {"report", "panicked"} /\ Goto(n, to)
  /\ Sending(n) => next[n] > Len(Outs[n])
  /\ EffKind(n) \notin SinkKinds => made' = made
  /\ \A p \in Nodes \ {n} : made'[p] = made[p]
  /\ UNCHANGED <<next, chan, got>>

\* A file source stops at the dry-run limit with a batch it has counted.
LimitForm(n) ==
  /\ DryRun /\ Kind[n] = "fileSource" /\ pc[n] = "read" /\ Goto(n, "report")
  /\ made[n] + 1 >= Limit
  /\ made' = [made EXCEPT ![n] = @ + 1]
  /\ UNCHANGED <<next, chan, got>>

\* A consumer takes a message and goes on.
TakesForm(e) ==
  /\ chan[e] # <<>> /\ Take(e)
  /\ pc[e[2]] \in {"recv", "build", "drain"} /\ (pc' = pc \/ Goto(e[2], "work"))
  /\ got' = [got EXCEPT ![e] = IF Head(chan[e]) = "batch" THEN @ + 1 ELSE @]
  /\ UNCHANGED <<next, made>>

\* A step gives up, perhaps because of an error it has just taken.
GivesUpForm(n) ==
  /\ pc[n] \in Inner /\ Goto(n, "forward")
  /\ next' = [next EXCEPT ![n] = 1]
  /\ chan' = chan \/ \E e \in Edges : e[2] = n /\ chan[e] # <<>> /\ Head(chan[e]) \in ErrKinds /\ Take(e)
  /\ UNCHANGED <<got, made>>

\* A step hands message m to its next consumer, or skips that one if it is gone.
HandsForm(n, m) ==
  /\ next[n] \in DOMAIN Outs[n]
  /\ LET e == <<n, Outs[n][next[n]]>> IN
       \/ Len(chan[e]) < Cap /\ chan' = [chan EXCEPT ![e] = Append(@, m)]
       \/ pc[n] = "forward" /\ chan' = chan
  /\ next' = [next EXCEPT ![n] = @ + 1]
  /\ \/ pc[n] = "forward" /\ m \in ErrKinds
     \/ Sending(n) /\ m = "batch"
  /\ UNCHANGED <<pc, got, made>>

EndsForm(n) ==
  /\ \/ pc[n] = "report" /\ Goto(n, "done")
     \/ pc[n] = "forward" /\ Goto(n, "failed")
  /\ UNCHANGED <<next, chan, got, made>>

BatchesRest == UNCHANGED <<pc, next, chan, got, made>>

\* A step of Next is of one of these forms.
LEMMA BatchForms ==
  ASSUME TypeOK, ErrorsMatch, [Next]_vars
  PROVE  \/ \E n \in Nodes, to \in PCs : EmitsForm(n, to)
         \/ \E n \in Nodes, to \in PCs : GoesForm(n, to)
         \/ \E n \in Nodes : LimitForm(n)
         \/ \E e \in Edges : TakesForm(e)
         \/ \E n \in Nodes : GivesUpForm(n)
         \/ \E n \in Nodes, m \in Msgs : HandsForm(n, m)
         \/ \E n \in Nodes : EndsForm(n)
         \/ BatchesRest
<1> DEFINE Goal == \/ \E n \in Nodes, to \in PCs : EmitsForm(n, to)
                   \/ \E n \in Nodes, to \in PCs : GoesForm(n, to)
                   \/ \E n \in Nodes : LimitForm(n)
                   \/ \E e \in Edges : TakesForm(e)
                   \/ \E n \in Nodes : GivesUpForm(n)
                   \/ \E n \in Nodes, m \in Msgs : HandsForm(n, m)
                   \/ \E n \in Nodes : EndsForm(n)
                   \/ BatchesRest
<1> USE DEF Inner
<1>0. /\ pc \in [Nodes -> PCs] /\ \A n \in Nodes : PcFits(n)
      /\ \A e \in Edges : e[1] \in Nodes /\ e[2] \in Nodes /\ e = <<e[1], e[2]>>
      /\ Inner \subseteq PCs /\ {"report", "panicked"} \subseteq PCs
      /\ made \in [Nodes -> Nat] /\ chan \in [Edges -> Seq(Msgs)]
  BY DEF TypeOK, Edges, PCs, Terminal
<1>1. ASSUME NEW n \in Nodes, NEW to \in {"send", "sendTail"}, pc[n] \in {"read", "work", "tail"}, Emit(n, to)
      PROVE  Goal
  <2>1. EmitsForm(n, to) /\ to \in PCs
    BY <1>0, <1>1 DEF Emit, EmitsForm
  <2> QED BY <2>1
<1>2. ASSUME NEW n \in Nodes, pc[n] \in Inner, Sending(n) => next[n] > Len(Outs[n]),
             NEW to \in (Inner \ {"send", "sendTail"}) \cup {"report", "panicked"}, Move(n, to)
      PROVE  Goal
  <2>1. GoesForm(n, to) /\ to \in PCs
    BY <1>0, <1>2 DEF Move, GoesForm
  <2> QED BY <2>1
<1>3. ASSUME NEW e \in Edges, chan[e] # <<>>, TakeError(e), pc[e[2]] \in Inner
      PROVE  Goal
  <2>1. GivesUpForm(e[2])
    BY <1>3 DEF TakeError, Abort, GivesUpForm
  <2> QED BY <1>0, <2>1
<1>4. ASSUME NEW n \in Nodes, Start(n) \/ SourceEnd(n) \/ SentToAll(n) \/ Hash(n) \/ Panic(n)
      PROVE  Goal
  <2>1. /\ pc[n] \in Inner /\ (Sending(n) => next[n] > Len(Outs[n]))
        /\ \E to \in (Inner \ {"send", "sendTail"}) \cup {"report", "panicked"} : Move(n, to)
    BY <1>4 DEF Start, SourceEnd, SentToAll, Hash, Panic, Sending, Resume
  <2> QED BY <1>2, <2>1
<1>5. ASSUME NEW n \in Nodes, SourceRead(n) PROVE Goal
  <2>1. CASE Emit(n, "send")
    BY <1>1, <1>5, <2>1 DEF SourceRead
  <2>2. CASE ~Emit(n, "send")
    <3>1. LimitForm(n)
      BY <1>5, <2>2 DEF SourceRead, LimitForm, EffKind
    <3> QED BY <3>1
  <2> QED BY <2>1, <2>2
<1>6. ASSUME NEW n \in Nodes, SendBatch(n) \/ Forward(n) PROVE Goal
  <2>1. next[n] \in DOMAIN Outs[n]
    BY <1>6, WiringAssumption DEF SendBatch, Forward, TypeOK
  <2>2. CASE SendBatch(n)
    BY <2>1, <2>2 DEF SendBatch, HandsForm, Msgs
  <2>3. CASE Forward(n)
    <3>1. err[n] \in ErrKinds /\ err[n] \in Msgs
      BY <2>3 DEF Forward, ErrorsMatch, Msgs
    <3>2. HandsForm(n, err[n])
      BY <2>1, <2>3, <3>1 DEF Forward, HandsForm
    <3> QED BY <3>1, <3>2
  <2> QED BY <1>6, <2>2, <2>3
<1>7. ASSUME NEW n \in Nodes, SendClosed(n) \/ Fail(n) PROVE Goal
  <2>1. pc[n] \in Inner
    <3>1. \A k \in Kinds : FallibleAt(k) \subseteq Inner
      BY DEF FallibleAt, Kinds, SourceKinds, SinkKinds, JoinKinds
    <3>2. Fail(n) => EffKind(n) \in Kinds
      BY PipelineAssumption DEF Fail
    <3> QED BY <1>7, <3>1, <3>2 DEF Fail, SendClosed, Sending
  <2>2. GivesUpForm(n)
    BY <1>7, <2>1 DEF SendClosed, Fail, Abort, GivesUpForm
  <2> QED BY <2>2
<1>8. ASSUME NEW n \in Nodes, Recv(n) PROVE Goal
  <2>1. pc[n] = "recv" /\ Left(n) \in Edges /\ Left(n)[2] = n
    BY <1>0, <1>8, InputEdges DEF Recv, PcFits, Left
  <2>2. CASE chan[Left(n)] # <<>> /\ TakeBatch(Left(n), "work")
    <3>1. TakesForm(Left(n))
      BY <2>1, <2>2 DEF TakesForm, TakeBatch
    <3> QED BY <2>1, <3>1
  <2>3. CASE chan[Left(n)] # <<>> /\ TakeError(Left(n))
    BY <1>3, <2>1, <2>3
  <2>4. CASE Move(n, AfterEof(n))
    BY <1>2, <2>1, <2>4 DEF AfterEof, Sending
  <2> QED BY <1>8, <2>2, <2>3, <2>4 DEF Recv
<1>9. ASSUME NEW n \in Nodes, Build(n) PROVE Goal
  <2>1. pc[n] = "build" /\ Right(n) \in Edges /\ Right(n)[2] = n
    BY <1>0, <1>9, InputEdges DEF Build, PcFits, Right
  <2>2. CASE chan[Right(n)] # <<>> /\ TakeBatch(Right(n), "build")
    <3>1. pc' = pc
      BY <1>0, <2>1, <2>2 DEF TakeBatch, Goto
    <3>2. TakesForm(Right(n))
      BY <2>1, <2>2, <3>1 DEF TakesForm, TakeBatch
    <3> QED BY <2>1, <3>2
  <2>3. CASE chan[Right(n)] # <<>> /\ TakeError(Right(n))
    BY <1>3, <2>1, <2>3
  <2>4. CASE \E to \in {"drain", "hash"} : Move(n, to)
    BY <1>2, <2>1, <2>4 DEF Sending
  <2> QED BY <1>9, <2>2, <2>3, <2>4 DEF Build
<1>10. ASSUME NEW n \in Nodes, Drain(n) PROVE Goal
  <2>1. pc[n] = "drain" /\ Left(n) \in Edges /\ Left(n)[2] = n
    BY <1>0, <1>10, InputEdges DEF Drain, PcFits, Left
  <2>2. CASE Move(n, "report")
    BY <1>2, <2>1, <2>2 DEF Sending
  <2>3. CASE ~Move(n, "report")
    <3>1. TakesForm(Left(n))
      BY <1>10, <2>1, <2>3 DEF Drain, TakesForm
    <3> QED BY <2>1, <3>1
  <2> QED BY <2>2, <2>3
<1>11. ASSUME NEW n \in Nodes, Work(n) PROVE Goal
  <2>1. CASE Emit(n, "send")
    BY <1>1, <1>11, <2>1 DEF Work
  <2>2. CASE Move(n, "recv")
    BY <1>2, <1>11, <2>2 DEF Work, Sending
  <2>3. CASE ~Emit(n, "send") /\ ~Move(n, "recv")
    <3>1. GoesForm(n, "recv")
      BY <1>0, <1>11, <2>3 DEF Work, GoesForm, Sending, SinkKinds
    <3> QED BY <1>0, <3>1
  <2> QED BY <2>1, <2>2, <2>3
<1>12. ASSUME NEW n \in Nodes, EmitLast(n) PROVE Goal
  <2>1. CASE Emit(n, "sendTail")
    BY <1>1, <1>12, <2>1 DEF EmitLast
  <2>2. CASE Move(n, "report")
    BY <1>2, <1>12, <2>2 DEF EmitLast, Sending
  <2> QED BY <1>12, <2>1, <2>2 DEF EmitLast
<1>13. ASSUME NEW n \in Nodes, Land(n) PROVE Goal
  <2>1. EffKind(n) \in SinkKinds
    BY <1>13 DEF Land, Committers, SinkKinds
  <2>2. GoesForm(n, "report")
    BY <1>0, <1>13, <2>1 DEF Land, GoesForm, Sending
  <2> QED BY <1>0, <2>2
<1>14. ASSUME NEW n \in Nodes, Report(n) PROVE Goal
  BY <1>14 DEF Report, EndsForm
<1>15. CASE Finish \/ Finished \/ UNCHANGED vars
  BY <1>15 DEF Finish, Finished, vars, BatchesRest
<1> QED
  BY <1>4, <1>5, <1>6, <1>7, <1>8, <1>9, <1>10, <1>11, <1>12, <1>13, <1>14, <1>15 DEF Next, Progress

-----------------------------------------------------------------------------
(* Preservation of the invariant, for one channel at a time. *)

\* The error of a step is behind its consumer's batches, and nothing comes after it.
ErrorOf(p, i) == pc[p] = "failed" \/ (pc[p] = "forward" /\ i < next[p])

LEMMA StepQueueFits ==
  ASSUME TypeOK, ErrorsMatch, [Next]_vars, NEW p \in Nodes, NEW i \in DOMAIN Outs[p], QueueFits(p, i)
  PROVE  QueueFits(p, i)'
<1> DEFINE e == <<p, Outs[p][i]>>
           q == chan[e]
           Fits1(r) == Len(r) <= Cap /\ \A j \in DOMAIN r : r[j] \in ErrKinds => j = Len(r)
           Clean(r) == \A j \in DOMAIN r : r[j] \notin ErrKinds
<1> USE DEF Inner
<1>0. /\ e \in Edges /\ e[1] = p /\ e[2] # p /\ i \in Nat /\ q \in Seq(Msgs) /\ Cap \in Nat
      /\ pc \in [Nodes -> PCs] /\ next \in [Nodes -> Nat \ {0}] /\ chan \in [Edges -> Seq(Msgs)]
      /\ DOMAIN q = 1..Len(q) /\ Len(q) \in Nat
  <2>1. e \in Edges /\ e[2] # p
    BY OutputEdges, NoLoops
  <2>2. i \in Nat /\ Cap \in Nat
    BY WiringAssumption, ConfigAssumption
  <2> QED BY <2>1, <2>2 DEF TypeOK
<1>1. Fits1(q) /\ (ErrorOf(p, i) \/ Clean(q))
  BY DEF QueueFits, ErrorOf
<1>2. ASSUME Fits1(chan'[e]), ErrorOf(p, i)' \/ Clean(chan'[e]) PROVE QueueFits(p, i)'
  BY <1>2 DEF QueueFits, ErrorOf
<1>3. ASSUME chan'[e] = q, ErrorOf(p, i) => ErrorOf(p, i)' PROVE QueueFits(p, i)'
  BY <1>1, <1>2, <1>3
<1>4. ASSUME q # <<>>, chan'[e] = Tail(q), ErrorOf(p, i) => ErrorOf(p, i)' PROVE QueueFits(p, i)'
  <2>1. /\ Len(Tail(q)) = Len(q) - 1 /\ DOMAIN Tail(q) = 1..(Len(q) - 1)
        /\ \A j \in DOMAIN Tail(q) : Tail(q)[j] = q[j + 1]
    BY <1>0, <1>4, Queues
  <2>2. \A j \in DOMAIN Tail(q) : j \in Nat /\ j + 1 \in DOMAIN q
    BY <1>0, <2>1
  <2>3. Len(Tail(q)) <= Cap
    BY <1>0, <1>1, <2>1
  <2>4. ASSUME NEW j \in DOMAIN Tail(q), Tail(q)[j] \in ErrKinds PROVE j = Len(Tail(q)) /\ ~Clean(q)
    <3>1. q[j + 1] \in ErrKinds /\ j + 1 \in DOMAIN q /\ j \in Nat
      BY <2>1, <2>2, <2>4
    <3>2. j + 1 = Len(q)
      BY <1>1, <3>1
    <3>3. Len(q) \in Nat /\ Len(Tail(q)) = Len(q) - 1
      BY <1>0, <2>1
    <3>4. ~Clean(q)
      BY <3>1
    <3> QED BY <3>1, <3>2, <3>3, <3>4
  <2> QED BY <1>1, <1>2, <1>4, <2>3, <2>4
<1>5. ASSUME NEW n \in Nodes, NEW to \in PCs, EmitsForm(n, to) \/ GoesForm(n, to) PROVE QueueFits(p, i)'
  <2>1. chan'[e] = q /\ (ErrorOf(p, i) => ErrorOf(p, i)')
    BY <1>0, <1>5 DEF EmitsForm, GoesForm, Goto, ErrorOf
  <2> QED BY <1>3, <2>1
<1>6. ASSUME NEW n \in Nodes, LimitForm(n) \/ EndsForm(n) PROVE QueueFits(p, i)'
  <2>1. chan'[e] = q /\ (ErrorOf(p, i) => ErrorOf(p, i)')
    BY <1>0, <1>6 DEF LimitForm, EndsForm, Goto, ErrorOf
  <2> QED BY <1>3, <2>1
<1>7. ASSUME NEW f \in Edges, TakesForm(f) PROVE QueueFits(p, i)'
  <2>1. ErrorOf(p, i) => ErrorOf(p, i)'
    BY <1>0, <1>7 DEF TakesForm, Goto, ErrorOf
  <2>2. chan'[e] = q \/ (q # <<>> /\ chan'[e] = Tail(q))
    BY <1>0, <1>7 DEF TakesForm, Take
  <2> QED BY <1>3, <1>4, <2>1, <2>2
<1>8. ASSUME NEW n \in Nodes, GivesUpForm(n) PROVE QueueFits(p, i)'
  <2>1. ErrorOf(p, i) => ErrorOf(p, i)'
    BY <1>0, <1>8 DEF GivesUpForm, Goto, ErrorOf
  <2>2. chan'[e] = q \/ (q # <<>> /\ chan'[e] = Tail(q))
    BY <1>0, <1>8 DEF GivesUpForm, Take
  <2> QED BY <1>3, <1>4, <2>1, <2>2
<1>9. ASSUME NEW n \in Nodes, NEW m \in Msgs, HandsForm(n, m) PROVE QueueFits(p, i)'
  <2>1. ErrorOf(p, i) => ErrorOf(p, i)'
    BY <1>0, <1>9 DEF HandsForm, ErrorOf
  <2>2. CASE chan'[e] = q
    BY <1>3, <2>1, <2>2
  <2>3. CASE chan'[e] # q
    <3>1. n = p /\ next[n] \in DOMAIN Outs[p] /\ Outs[p][next[n]] = Outs[p][i]
      BY <1>0, <1>9, <2>3 DEF HandsForm
    <3>2. i = next[p]
      BY <3>1, NoLoops
    <3>3. Len(q) < Cap /\ chan'[e] = Append(q, m) /\ next'[p] = i + 1
          /\ pc'[p] = pc[p] /\ (pc[p] = "forward" \/ (Sending(p) /\ m \notin ErrKinds))
      BY <1>0, <1>9, <2>3, <3>1, <3>2 DEF HandsForm, ErrKinds
    <3>4. Clean(q)
      <4>1. ~ErrorOf(p, i)
        BY <1>0, <3>2, <3>3 DEF ErrorOf, Sending
      <4> QED BY <1>1, <4>1
    <3>5. /\ Len(Append(q, m)) = Len(q) + 1 /\ DOMAIN Append(q, m) = 1..(Len(q) + 1)
          /\ \A j \in 1..Len(q) : Append(q, m)[j] = q[j]
          /\ Append(q, m)[Len(q) + 1] = m
      BY <1>0, Queues
    <3>6. Fits1(Append(q, m)) /\ (m \notin ErrKinds => Clean(Append(q, m)))
      <4>1. \A j \in DOMAIN Append(q, m) : j \in DOMAIN q \/ j = Len(q) + 1
        BY <1>0, <3>5
      <4>2. Len(Append(q, m)) <= Cap
        BY <1>0, <3>3, <3>5
      <4> QED BY <1>0, <3>4, <3>5, <4>1, <4>2
    <3>7. pc[p] = "forward" => ErrorOf(p, i)'
      BY <1>0, <3>3 DEF ErrorOf
    <3> QED BY <1>2, <3>3, <3>6, <3>7
  <2> QED BY <2>2, <2>3
<1>10. CASE BatchesRest
  <2>1. chan'[e] = q /\ (ErrorOf(p, i) => ErrorOf(p, i)')
    BY <1>10 DEF BatchesRest, ErrorOf
  <2> QED BY <1>3, <2>1
<1> QED BY <1>5, <1>6, <1>7, <1>8, <1>9, <1>10, BatchForms

\* Step p has a batch that it has not yet handed to its i-th consumer.
Owes(p, i) == Sending(p) /\ next[p] <= i

\* A file source has counted a batch it does not send.
Skipped(p) ==
  /\ DryRun /\ Kind[p] = "fileSource" /\ pc[p] \in {"report", "done"}
  /\ made[p] >= Limit

LEMMA StepAccounted ==
  ASSUME TypeOK, ErrorsMatch, [Next]_vars, NEW p \in Nodes, EffKind(p) \notin SinkKinds,
         NEW i \in DOMAIN Outs[p], QueueFits(p, i), Accounted(p, i)
  PROVE  Accounted(p, i)'
<1> DEFINE e == <<p, Outs[p][i]>>
           q == chan[e]
           Sent == got[e] + Len(q)
           Balanced(m, s, owes, skipped) ==
             \/ ~owes /\ m = s
             \/ owes /\ m = s + 1
             \/ skipped /\ m = s + 1
<1> USE DEF Inner
<1>0. /\ e \in Edges /\ e[1] = p /\ e[2] # p /\ i \in Nat /\ 1 <= i /\ i <= Len(Outs[p]) /\ Len(Outs[p]) \in Nat
      /\ q \in Seq(Msgs) /\ next[p] \in Nat
      /\ pc \in [Nodes -> PCs] /\ next \in [Nodes -> Nat \ {0}] /\ chan \in [Edges -> Seq(Msgs)]
      /\ got \in [Edges -> Nat] /\ made \in [Nodes -> Nat]
      /\ got[e] \in Nat /\ Len(q) \in Nat /\ made[p] \in Nat
  <2>1. e \in Edges /\ e[2] # p
    BY OutputEdges, NoLoops
  <2>2. i \in Nat /\ 1 <= i /\ i <= Len(Outs[p]) /\ Len(Outs[p]) \in Nat
    BY WiringAssumption
  <2>3. q \in Seq(Msgs)
    BY <2>1 DEF TypeOK
  <2> QED BY <2>1, <2>2, <2>3 DEF TypeOK
<1>1. /\ HasError(q) => made[p] <= Sent
      /\ made[p] <= Sent + 1
      /\ pc[p] \notin {"forward", "failed"} => Balanced(made[p], Sent, Owes(p, i), Skipped(p)) /\ ~HasError(q)
  <2>1. pc[p] \notin {"forward", "failed"} => ~HasError(q)
    BY DEF QueueFits, HasError
  <2>2. HasError(q) => made[p] <= Sent
    BY <1>0 DEF Accounted
  <2>3. made[p] <= Sent + 1
    BY <1>0 DEF Accounted
  <2>4. pc[p] \notin {"forward", "failed"} => Balanced(made[p], Sent, Owes(p, i), Skipped(p))
    BY <1>0 DEF Accounted, Owes, Skipped
  <2> QED BY <2>1, <2>2, <2>3, <2>4
<1>2. ASSUME NEW g \in Nat, NEW l \in Nat, NEW m \in Nat,
             got'[e] = g, Len(chan'[e]) = l, made'[p] = m,
             HasError(chan'[e]) => m <= g + l,
             m <= g + l + 1,
             pc'[p] \notin {"forward", "failed"} => Balanced(m, g + l, Owes(p, i)', Skipped(p)')
      PROVE  Accounted(p, i)'
  BY <1>2 DEF Accounted, Owes, Skipped
<1>3. ASSUME got'[e] = got[e], chan'[e] = q, made'[p] = made[p],
             pc'[p] \notin {"forward", "failed"} =>
               /\ pc[p] \notin {"forward", "failed"}
               /\ Owes(p, i)' <=> Owes(p, i)
               /\ Skipped(p) => Skipped(p)'
      PROVE  Accounted(p, i)'
  <2>1. Len(chan'[e]) = Len(q) /\ (HasError(chan'[e]) => HasError(q))
    BY <1>3
  <2> QED BY <1>0, <1>1, <1>2, <1>3, <2>1
<1>4. ASSUME q # <<>>, chan'[e] = Tail(q), made'[p] = made[p], next'[p] = next[p],
             IF Head(q) = "batch" THEN got'[e] = got[e] + 1 ELSE got'[e] = got[e] /\ Head(q) \in ErrKinds,
             pc'[p] # pc[p] => pc[p] \in Inner /\ pc'[p] \in {"work", "forward"} /\ ~Sending(p)
      PROVE  Accounted(p, i)'
  <2>1. /\ Len(q) > 0 /\ Len(Tail(q)) = Len(q) - 1 /\ Head(q) = q[1] /\ (HasError(Tail(q)) => HasError(q))
        /\ DOMAIN q = 1..Len(q) /\ DOMAIN Tail(q) = 1..(Len(q) - 1)
    BY <1>0, <1>4, Queues
  <2>2. CASE Head(q) = "batch"
    <3>1. /\ got'[e] = got[e] + 1 /\ Len(chan'[e]) = Len(q) - 1 /\ made'[p] = made[p]
          /\ HasError(chan'[e]) => HasError(q)
      BY <1>4, <2>1, <2>2
    <3>2. got[e] + 1 \in Nat /\ Len(q) - 1 \in Nat /\ (got[e] + 1) + (Len(q) - 1) = Sent
      BY <1>0, <2>1
    <3>3. pc'[p] \notin {"forward", "failed"} => Balanced(made[p], Sent, Owes(p, i)', Skipped(p)')
      <4>1. pc'[p] = pc[p] => (Owes(p, i)' <=> Owes(p, i)) /\ (Skipped(p)' <=> Skipped(p))
        BY <1>4 DEF Owes, Skipped, Sending
      <4>2. pc'[p] # pc[p] /\ pc'[p] # "forward" => ~Owes(p, i)' /\ ~Owes(p, i) /\ ~Skipped(p)
                                                   /\ pc[p] \notin {"forward", "failed"}
        BY <1>4 DEF Owes, Skipped, Sending
      <4> QED BY <1>1, <4>1, <4>2
    <3> HIDE DEF Balanced
    <3> QED BY <1>0, <1>1, <1>2, <3>1, <3>2, <3>3
  <2>3. CASE Head(q) # "batch"
    <3>1. q[1] \in ErrKinds /\ 1 \in DOMAIN q
      BY <1>0, <1>4, <2>1, <2>3
    <3>2. Len(q) = 1 /\ pc[p] \in {"failed", "forward"}
      BY <3>1 DEF QueueFits
    <3>3. Len(chan'[e]) = 0 /\ ~HasError(chan'[e]) /\ got'[e] = got[e] /\ made'[p] = made[p]
      <4>1. DOMAIN Tail(q) = {}
        BY <2>1, <3>2
      <4> QED BY <1>4, <2>1, <2>3, <3>2, <4>1 DEF HasError
    <3>4. HasError(q)
      BY <3>1 DEF HasError
    <3>5. made[p] <= got[e] + 0 + 1
      BY <1>0, <1>1, <3>2, <3>4
    <3>6. pc'[p] \in {"failed", "forward"}
      BY <1>4, <3>2
    <3>7. 0 \in Nat /\ got[e] \in Nat /\ made[p] \in Nat
      BY <1>0
    <3> QED BY <1>2, <3>3, <3>5, <3>6, <3>7
  <2> QED BY <2>2, <2>3
<1>5. ASSUME NEW n \in Nodes, NEW to \in PCs, EmitsForm(n, to) PROVE Accounted(p, i)'
  <2>1. CASE n = p
    <3>1. made[p] = Sent /\ ~HasError(q)
      BY <1>1, <1>5, <2>1 DEF EmitsForm, Owes, Skipped, Sending
    <3>2. /\ got'[e] = got[e] /\ Len(chan'[e]) = Len(q) /\ made'[p] = made[p] + 1
          /\ ~HasError(chan'[e]) /\ Owes(p, i)'
      BY <1>0, <1>5, <2>1, <3>1 DEF EmitsForm, Goto, Owes, Sending
    <3>3. made[p] + 1 \in Nat /\ made[p] + 1 <= got[e] + Len(q) + 1
          /\ Balanced(made[p] + 1, got[e] + Len(q), Owes(p, i)', Skipped(p)')
      BY <1>0, <3>1, <3>2
    <3> HIDE DEF Balanced
    <3> QED BY <1>0, <1>2, <3>2, <3>3
  <2>2. CASE n # p
    BY <1>0, <1>3, <1>5, <2>2 DEF EmitsForm, Goto, Owes, Skipped, Sending
  <2> QED BY <2>1, <2>2
<1>6. ASSUME NEW n \in Nodes, NEW to \in PCs, GoesForm(n, to) PROVE Accounted(p, i)'
  <2>1. got'[e] = got[e] /\ chan'[e] = q /\ made'[p] = made[p] /\ next'[p] = next[p]
    BY <1>0, <1>6 DEF GoesForm
  <2>2. CASE n = p
    <3>1. ~Owes(p, i) /\ ~Skipped(p) /\ pc[p] \notin {"forward", "failed"}
      BY <1>0, <1>6, <2>2 DEF GoesForm, Owes, Skipped
    <3>2. ~Owes(p, i)'
      BY <1>0, <1>6, <2>2 DEF GoesForm, Goto, Owes, Sending
    <3> QED BY <1>3, <2>1, <3>1, <3>2
  <2>3. CASE n # p
    BY <1>0, <1>3, <1>6, <2>1, <2>3 DEF GoesForm, Goto, Owes, Skipped, Sending
  <2> QED BY <2>2, <2>3
<1>7. ASSUME NEW n \in Nodes, LimitForm(n) PROVE Accounted(p, i)'
  <2>1. CASE n = p
    <3>1. made[p] = Sent /\ ~HasError(q)
      BY <1>1, <1>7, <2>1 DEF LimitForm, Owes, Skipped, Sending
    <3>2. /\ got'[e] = got[e] /\ Len(chan'[e]) = Len(q) /\ made'[p] = made[p] + 1
          /\ ~HasError(chan'[e]) /\ Skipped(p)'
      BY <1>0, <1>7, <2>1, <3>1 DEF LimitForm, Goto, Skipped
    <3>3. made[p] + 1 \in Nat /\ made[p] + 1 <= got[e] + Len(q) + 1
          /\ Balanced(made[p] + 1, got[e] + Len(q), Owes(p, i)', Skipped(p)')
      BY <1>0, <3>1, <3>2
    <3> HIDE DEF Balanced
    <3> QED BY <1>0, <1>2, <3>2, <3>3
  <2>2. CASE n # p
    BY <1>0, <1>3, <1>7, <2>2 DEF LimitForm, Goto, Owes, Skipped, Sending
  <2> QED BY <2>1, <2>2
<1>8. ASSUME NEW f \in Edges, TakesForm(f) PROVE Accounted(p, i)'
  <2>1. /\ made'[p] = made[p] /\ next'[p] = next[p]
        /\ pc'[p] # pc[p] => pc[p] \in Inner /\ pc'[p] = "work" /\ ~Sending(p)
    BY <1>0, <1>8 DEF TakesForm, Goto, Sending
  <2>2. CASE f = e
    <3>1. q # <<>> /\ chan'[e] = Tail(q) /\ Head(q) \in Msgs
      BY <1>0, <1>8, <2>2, Queues DEF TakesForm, Take
    <3>2. IF Head(q) = "batch" THEN got'[e] = got[e] + 1 ELSE got'[e] = got[e] /\ Head(q) \in ErrKinds
      BY <1>0, <1>8, <2>2, <3>1 DEF TakesForm, Msgs
    <3> QED BY <1>4, <2>1, <3>1, <3>2
  <2>3. CASE f # e
    <3>1. got'[e] = got[e] /\ chan'[e] = q
      BY <1>0, <1>8, <2>3 DEF TakesForm, Take
    <3>2. pc'[p] # pc[p] => ~Owes(p, i) /\ ~Owes(p, i)' /\ ~Skipped(p)
                            /\ pc[p] \notin {"forward", "failed"}
      BY <2>1 DEF Owes, Skipped, Sending
    <3>3. pc'[p] = pc[p] => (Owes(p, i)' <=> Owes(p, i)) /\ (Skipped(p)' <=> Skipped(p))
      BY <2>1 DEF Owes, Skipped, Sending
    <3> QED BY <1>3, <2>1, <3>1, <3>2, <3>3
  <2> QED BY <2>2, <2>3
<1>9. ASSUME NEW n \in Nodes, GivesUpForm(n) PROVE Accounted(p, i)'
  <2>1. got'[e] = got[e] /\ made'[p] = made[p]
    BY <1>9 DEF GivesUpForm
  <2>2. CASE n = p
    <3>1. chan'[e] = q /\ pc'[p] = "forward"
      BY <1>0, <1>9, <2>2 DEF GivesUpForm, Goto, Take
    <3> QED BY <1>3, <2>1, <3>1
  <2>3. CASE n # p
    <3>1. pc'[p] = pc[p] /\ next'[p] = next[p]
      BY <1>0, <1>9, <2>3 DEF GivesUpForm, Goto
    <3>2. chan'[e] = q \/ (q # <<>> /\ chan'[e] = Tail(q) /\ Head(q) \in ErrKinds)
      BY <1>0, <1>9, <2>3 DEF GivesUpForm, Take
    <3>3. CASE chan'[e] = q
      BY <1>3, <2>1, <3>1, <3>3 DEF Owes, Skipped, Sending
    <3>4. CASE q # <<>> /\ chan'[e] = Tail(q) /\ Head(q) \in ErrKinds
      BY <1>4, <2>1, <3>1, <3>4 DEF ErrKinds
    <3> QED BY <3>2, <3>3, <3>4
  <2> QED BY <2>2, <2>3
<1>10. ASSUME NEW n \in Nodes, NEW m \in Msgs, HandsForm(n, m) PROVE Accounted(p, i)'
  <2>1. pc' = pc /\ got'[e] = got[e] /\ made'[p] = made[p] /\ (Skipped(p)' <=> Skipped(p))
    BY <1>10 DEF HandsForm, Skipped
  <2>2. CASE n # p
    <3>1. chan'[e] = q /\ next'[p] = next[p]
      BY <1>0, <1>10, <2>2 DEF HandsForm
    <3> QED BY <1>3, <2>1, <3>1 DEF Owes, Sending
  <2>3. CASE n = p /\ next[p] # i
    <3>1. Outs[p][next[p]] # Outs[p][i]
      BY <1>10, <2>3, NoLoops DEF HandsForm
    <3>2. chan'[e] = q /\ next'[p] = next[p] + 1
      BY <1>0, <1>10, <2>3, <3>1 DEF HandsForm
    <3>3. Owes(p, i)' <=> Owes(p, i)
      BY <1>0, <2>1, <2>3, <3>2 DEF Owes, Sending
    <3> QED BY <1>3, <2>1, <3>2, <3>3
  <2>4. CASE n = p /\ next[p] = i
    <3>1. /\ next'[p] = i + 1 /\ ((pc[p] = "forward" /\ m \in ErrKinds) \/ (Sending(p) /\ m = "batch"))
          /\ chan'[e] = Append(q, m) \/ (pc[p] = "forward" /\ chan'[e] = q)
      <4>1. HandsForm(p, m) /\ next[p] = i
        BY <1>10, <2>4
      <4>2. next'[p] = i + 1
        <5>1. next' = [next EXCEPT ![p] = next[p] + 1]
          BY <4>1 DEF HandsForm
        <5> QED BY <1>0, <4>1, <5>1
      <4>3. (pc[p] = "forward" /\ m \in ErrKinds) \/ (Sending(p) /\ m = "batch")
        BY <4>1 DEF HandsForm
      <4>4. chan'[e] = Append(q, m) \/ (pc[p] = "forward" /\ chan'[e] = q)
        BY <1>0, <4>1 DEF HandsForm
      <4> QED BY <4>2, <4>3, <4>4
    <3>2. CASE chan'[e] = q /\ pc[p] = "forward"
      BY <1>3, <2>1, <3>2
    <3>3. CASE chan'[e] = Append(q, m)
      <4>1. Len(chan'[e]) = Len(q) + 1 /\ (HasError(chan'[e]) <=> HasError(q) \/ m \in ErrKinds)
        BY <1>0, <3>3, Queues
      <4>2. Len(q) + 1 \in Nat /\ made[p] <= got[e] + (Len(q) + 1) /\ made[p] <= got[e] + (Len(q) + 1) + 1
        BY <1>0, <1>1
      <4>3. pc'[p] \notin {"forward", "failed"} => ~Owes(p, i)' /\ made[p] = got[e] + (Len(q) + 1)
        <5> HAVE pc'[p] \notin {"forward", "failed"}
        <5>1. Sending(p) /\ pc[p] \notin {"forward", "failed"}
          BY <2>1, <3>1
        <5>2. Owes(p, i) /\ ~Skipped(p)
          BY <1>0, <2>4, <5>1 DEF Owes, Skipped, Sending
        <5>3. made[p] = Sent + 1
          BY <1>1, <5>1, <5>2
        <5>4. ~Owes(p, i)'
          BY <1>0, <3>1 DEF Owes
        <5> QED BY <1>0, <5>3, <5>4
      <4> QED BY <1>0, <1>2, <2>1, <4>1, <4>2, <4>3
    <3> QED BY <3>1, <3>2, <3>3
  <2> QED BY <2>2, <2>3, <2>4
<1>11. ASSUME NEW n \in Nodes, EndsForm(n) PROVE Accounted(p, i)'
  BY <1>0, <1>3, <1>11 DEF EndsForm, Goto, Owes, Skipped, Sending
<1>12. CASE BatchesRest
  BY <1>3, <1>12 DEF BatchesRest, Owes, Skipped, Sending
<1> QED BY <1>5, <1>6, <1>7, <1>8, <1>9, <1>10, <1>11, <1>12, BatchForms

\* A channel whose consumer saw its end stays empty: its producer is gone.
LEMMA StepEndMeansEmpty ==
  ASSUME TypeOK, ErrorsMatch, EndMeansGone, EndMeansEmpty, [Next]_vars
  PROVE  EndMeansEmpty'
<1> SUFFICES ASSUME NEW e \in Edges, SawEnd(e)' PROVE chan'[e] = <<>>
  BY DEF EndMeansEmpty
<1>0. e[1] \in Nodes /\ e = <<e[1], e[2]>> /\ chan \in [Edges -> Seq(Msgs)]
  <2>1. e[1] \in Nodes /\ e = <<e[1], e[2]>>
    BY DEF Edges
  <2> QED BY <2>1 DEF TypeOK
<1>1. chan[e] = <<>> /\ pc[e[1]] \in Terminal
  <2>1. CASE SawEnd(e)
    BY <2>1 DEF EndMeansEmpty, EndMeansGone, TxOpen
  <2>2. CASE ~SawEnd(e)
    BY <2>2, EndSeen DEF AtEof, TxOpen
  <2> QED BY <2>1, <2>2
<1>2. ASSUME NEW f \in Edges, chan[f] # <<>>, Take(f) PROVE chan'[e] = <<>>
  BY <1>0, <1>1, <1>2 DEF Take
<1>3. ASSUME NEW n \in Nodes, NEW m \in Msgs, HandsForm(n, m) PROVE chan'[e] = <<>>
  <2>1. n # e[1]
    BY <1>1, <1>3 DEF HandsForm, Sending, Terminal
  <2> QED BY <1>0, <1>1, <1>3, <2>1 DEF HandsForm
<1> QED
  BY <1>1, <1>2, <1>3, BatchForms
     DEF EmitsForm, GoesForm, LimitForm, TakesForm, GivesUpForm, EndsForm, BatchesRest

\* Only run_component's last step ends a task without a panic, and it reports.
LEMMA StepReported ==
  ASSUME TypeOK, ErrorsMatch, ReportedMatches, [Next]_vars
  PROVE  ReportedMatches'
<1> SUFFICES ASSUME NEW m \in Nodes PROVE m \in reported' <=> pc'[m] \in {"done", "failed"}
  BY DEF ReportedMatches
<1> DEFINE Kept == m \in reported' <=> pc'[m] \in {"done", "failed"}
<1>0. pc \in [Nodes -> PCs] /\ (m \in reported <=> pc[m] \in {"done", "failed"})
  BY DEF TypeOK, ReportedMatches
<1>1. ASSUME NEW n \in Nodes, Report(n) PROVE Kept
  BY <1>0, <1>1 DEF Report, Goto
<1>2. ASSUME reported' = reported, pc'[m] \in {"done", "failed"} => pc[m] \in {"done", "failed"}
      PROVE  Kept
  BY <1>0, <1>2, TerminalStable DEF Terminal
<1>3. ASSUME NEW n \in Nodes, NEW to, to \notin {"done", "failed"}, Goto(n, to), reported' = reported
      PROVE  Kept
  BY <1>0, <1>2, <1>3 DEF Goto
<1>4. ASSUME NEW n \in Nodes, Start(n) \/ SourceRead(n) \/ SourceEnd(n) \/ SentToAll(n) \/ Hash(n)
               \/ Work(n) \/ EmitLast(n) \/ Land(n) \/ Panic(n) \/ SendClosed(n) \/ Fail(n)
      PROVE  Kept
  <2>1. PICK to : to \notin {"done", "failed"} /\ Goto(n, to) /\ reported' = reported
    BY <1>4 DEF Start, SourceRead, SourceEnd, SentToAll, Hash, Work, EmitLast, Land, Panic, SendClosed,
                Fail, Move, Emit, Abort, Resume
  <2> QED BY <1>3, <2>1
<1>5. ASSUME NEW n \in Nodes, SendBatch(n) \/ Forward(n) PROVE Kept
  BY <1>2, <1>5 DEF SendBatch, Forward
<1>6. ASSUME NEW n \in Nodes, Recv(n) \/ Build(n) PROVE Kept
  <2>1. \E k \in Nodes : \E to : to \notin {"done", "failed"} /\ Goto(k, to) /\ reported' = reported
    BY <1>6 DEF Recv, Build, TakeBatch, TakeError, Abort, Move, AfterEof, Left, Right
  <2> QED BY <1>3, <2>1
<1>7. ASSUME NEW n \in Nodes, Drain(n) PROVE Kept
  BY <1>2, <1>3, <1>7 DEF Drain, Move
<1>8. CASE Finish \/ Finished \/ UNCHANGED vars
  BY <1>2, <1>8 DEF Finish, Finished, vars
<1> QED BY <1>1, <1>4, <1>5, <1>6, <1>7, <1>8 DEF Next, Progress

\* run_inner reports a success only of tasks that all returned Ok.
LEMMA StepSuccess ==
  ASSUME TypeOK, ErrorsMatch, SuccessOfAll, [Next]_vars
  PROVE  SuccessOfAll'
<1> SUFFICES ASSUME verdict' = "ok", NEW n \in Nodes PROVE pc'[n] = "done"
  BY DEF SuccessOfAll
<1>1. CASE Finish
  <2>1. pc[n] \in Terminal /\ pc[n] # "panicked" /\ err[n] \notin ErrKinds
    BY <1>1 DEF Finish, ErrKinds
  <2>2. pc[n] = "done"
    BY <2>1 DEF ErrorsMatch, Terminal
  <2> QED BY <1>1, <2>2 DEF Finish
<1>2. CASE ~Finish
  <2>1. verdict' = verdict
    BY <1>2, StepForms DEF MoveForm, LandForm, TakeForm, AbortForm, Abort, AppendForm, ReportForm, FinishForm
  <2>2. pc[n] = "done"
    BY <2>1 DEF SuccessOfAll
  <2> QED BY <2>2, TerminalStable DEF Terminal
<1> QED BY <1>1, <1>2

LEMMA InitDelivery == Init => DeliveryInv
<1> SUFFICES ASSUME Init PROVE DeliveryInv
  OBVIOUS
<1>1. IInv
  BY InitInvariant
<1>2. /\ \A n \in Nodes : pc[n] = "init" /\ next[n] = 1 /\ made[n] = 0
      /\ \A e \in Edges : chan[e] = <<>> /\ got[e] = 0
      /\ reported = {} /\ verdict = "running"
  BY DEF Init
<1>3. EndMeansEmpty /\ ReportedMatches /\ SuccessOfAll
  BY <1>2 DEF EndMeansEmpty, ReportedMatches, SuccessOfAll
<1>4. ASSUME NEW p \in Nodes, NEW i \in DOMAIN Outs[p] PROVE QueueFits(p, i) /\ Accounted(p, i)
  <2>1. chan[<<p, Outs[p][i]>>] = <<>> /\ got[<<p, Outs[p][i]>>] = 0
    BY <1>2, OutputEdges
  <2>2. Len(<<>>) = 0 /\ DOMAIN <<>> = {}
    OBVIOUS
  <2>3. QueueFits(p, i)
    BY <2>1, <2>2, ConfigAssumption DEF QueueFits
  <2>4. Accounted(p, i)
    BY <1>2, <2>1, <2>2 DEF Accounted, Sending
  <2> QED BY <2>3, <2>4
<1>5. QueuesFit /\ BatchesAccounted
  BY <1>4 DEF QueuesFit, BatchesAccounted
<1> QED BY <1>1, <1>3, <1>5 DEF DeliveryInv

LEMMA StepDelivery == DeliveryInv /\ [Next]_vars => DeliveryInv'
<1> SUFFICES ASSUME DeliveryInv, [Next]_vars PROVE DeliveryInv'
  OBVIOUS
<1>1. /\ IInv /\ EndMeansEmpty /\ QueuesFit /\ BatchesAccounted /\ ReportedMatches /\ SuccessOfAll
      /\ TypeOK /\ ErrorsMatch /\ EndMeansGone
  BY DEF DeliveryInv, IInv
<1>2. IInv'
  BY <1>1, StepInvariant
<1>3. EndMeansEmpty' /\ ReportedMatches' /\ SuccessOfAll'
  BY <1>1, StepEndMeansEmpty, StepReported, StepSuccess
<1>4. QueuesFit'
  <2>1. ASSUME NEW p \in Nodes, NEW i \in DOMAIN Outs[p] PROVE QueueFits(p, i)'
    BY <1>1, StepQueueFits DEF QueuesFit
  <2> QED BY <2>1 DEF QueuesFit
<1>5. BatchesAccounted'
  <2>1. ASSUME NEW p \in Nodes, EffKind(p) \notin SinkKinds, NEW i \in DOMAIN Outs[p] PROVE Accounted(p, i)'
    BY <1>1, <2>1, StepAccounted DEF QueuesFit, BatchesAccounted
  <2> QED BY <2>1 DEF BatchesAccounted
<1> QED BY <1>2, <1>3, <1>4, <1>5 DEF DeliveryInv

-----------------------------------------------------------------------------
(* What the invariant says of a run. *)

\* The inductive invariant holds in every reachable state.
THEOREM DeliveryInvariance == Spec => []DeliveryInv
<1>1. Init => DeliveryInv
  BY InitDelivery
<1>2. DeliveryInv /\ [Next]_vars => DeliveryInv'
  BY StepDelivery
<1> QED BY <1>1, <1>2, PTL DEF Spec

\* The books of one channel, the i-th of its producer.
LEMMA ChannelBooks ==
  ASSUME DeliveryInv, NEW e \in Edges, EffKind(e[1]) \notin SinkKinds
  PROVE  /\ made[e[1]] <= got[e] + Len(chan[e]) + 1 /\ Len(chan[e]) <= Cap
         /\ pc[e[1]] = "done" /\ chan[e] = <<>> =>
              \/ made[e[1]] = got[e]
              \/ DryRun /\ Kind[e[1]] = "fileSource" /\ made[e[1]] = got[e] + 1 /\ made[e[1]] >= Limit
         /\ made[e[1]] \in Nat /\ got[e] \in Nat /\ Len(chan[e]) \in Nat
<1>1. e[1] \in Nodes /\ e[2] \in Nodes /\ e = <<e[1], e[2]>>
  BY DEF Edges
<1>2. PICK i \in DOMAIN Outs[e[1]] : Outs[e[1]][i] = e[2]
  BY <1>1, WiringAssumption
<1>3. e = <<e[1], Outs[e[1]][i]>>
  BY <1>1, <1>2
<1>4. QueueFits(e[1], i) /\ Accounted(e[1], i)
  BY <1>1 DEF DeliveryInv, QueuesFit, BatchesAccounted
<1>5. made[e[1]] \in Nat /\ got[e] \in Nat /\ Len(chan[e]) \in Nat
  <2>1. chan[e] \in Seq(Msgs)
    BY DEF DeliveryInv, IInv, TypeOK
  <2>2. made[e[1]] \in Nat /\ got[e] \in Nat
    BY <1>1 DEF DeliveryInv, IInv, TypeOK
  <2> QED BY <2>1, <2>2
<1>6. Len(chan[e]) <= Cap
  BY <1>3, <1>4 DEF QueueFits
<1>7. made[e[1]] <= got[e] + Len(chan[e]) + 1
  BY <1>3, <1>4, <1>5 DEF Accounted
<1>8. ASSUME pc[e[1]] = "done", chan[e] = <<>>
      PROVE  \/ made[e[1]] = got[e]
             \/ DryRun /\ Kind[e[1]] = "fileSource" /\ made[e[1]] = got[e] + 1 /\ made[e[1]] >= Limit
  <2>1. Len(chan[e]) = 0
    BY <1>8
  <2> QED BY <1>3, <1>4, <1>5, <1>8, <2>1 DEF Accounted, Sending
<1> QED BY <1>5, <1>6, <1>7, <1>8

\* After a success every channel is empty and its producer has returned Ok.
LEMMA SuccessSettles ==
  ASSUME DeliveryInv, verdict = "ok"
  PROVE  /\ \A n \in Nodes : pc[n] = "done"
         /\ \A e \in Edges : chan[e] = <<>> /\ pc[e[1]] = "done"
<1>1. \A n \in Nodes : pc[n] = "done"
  BY DEF DeliveryInv, SuccessOfAll
<1>2. \A e \in Edges : e[1] \in Nodes /\ e[2] \in Nodes
  BY DEF Edges
<1>3. \A e \in Edges : SawEnd(e)
  BY <1>1, <1>2 DEF SawEnd
<1> QED BY <1>1, <1>2, <1>3 DEF DeliveryInv, EndMeansEmpty

\* Back-pressure: whatever the capacity and however slow a consumer, a step is at most
\* the channel and the one batch it is sending ahead of it.
THEOREM BuffersAreBounded == Spec => []BoundedBuffering
<1>1. DeliveryInv => BoundedBuffering
  <2> SUFFICES ASSUME DeliveryInv, NEW e \in Edges, EffKind(e[1]) \notin SinkKinds
               PROVE  made[e[1]] <= got[e] + Cap + 1
    BY DEF BoundedBuffering
  <2> QED BY ChannelBooks, ConfigAssumption
<1> QED BY <1>1, DeliveryInvariance, PTL

\* A run that reports success has lost nothing: every batch a step made was taken by
\* every consumer, every sink has committed, every step's statistics are reported.  A
\* dry run over a file source is left out: that source counts the batch at the limit,
\* which it does not send.
THEOREM SuccessLosesNothing ==
  ASSUME DryRun => \A n \in Nodes : Kind[n] # "fileSource"
  PROVE  Spec => []SuccessDelivers
<1>1. DeliveryInv => SuccessDelivers
  <2> SUFFICES ASSUME DeliveryInv, verdict = "ok"
               PROVE  /\ \A e \in Edges : chan[e] = <<>> /\ (EffKind(e[1]) \notin SinkKinds => got[e] = made[e[1]])
                      /\ landed = Committers
                      /\ reported = Nodes
    BY DEF SuccessDelivers
  <2>1. ASSUME NEW e \in Edges
        PROVE  chan[e] = <<>> /\ (EffKind(e[1]) \notin SinkKinds => got[e] = made[e[1]])
    <3>1. chan[e] = <<>> /\ pc[e[1]] = "done" /\ e[1] \in Nodes
      BY SuccessSettles DEF Edges
    <3> QED BY <3>1, ChannelBooks
  <2>2. landed = Committers
    <3>1. landed \subseteq Committers /\ Committers \subseteq Nodes
      BY DEF DeliveryInv, IInv, TypeOK, Committers
    <3>2. \A n \in Committers : n \in landed
      BY <3>1, SuccessSettles DEF DeliveryInv, IInv, LandedMatches
    <3> QED BY <3>1, <3>2
  <2>3. reported = Nodes
    BY SuccessSettles DEF DeliveryInv, IInv, TypeOK, ReportedMatches
  <2> QED BY <2>1, <2>2, <2>3
<1> QED BY <1>1, DeliveryInvariance, PTL

\* In a dry run that succeeds, whatever a source feeds has seen a batch if the source has
\* counted one.  With a limit of one a file source stops at its first batch.
THEOREM SamplesArrive ==
  ASSUME \A n \in Nodes : Kind[n] = "fileSource" => Limit > 1
  PROVE  Spec => []SampleReachesConsumers
<1>1. DeliveryInv => SampleReachesConsumers
  <2> SUFFICES ASSUME DeliveryInv, verdict = "ok", NEW e \in Edges, Kind[e[1]] \in SourceKinds, made[e[1]] > 0
               PROVE  got[e] > 0
    BY DEF SampleReachesConsumers
  <2>1. e[1] \in Nodes /\ EffKind(e[1]) \notin SinkKinds
    BY DEF Edges, EffKind, SourceKinds, SinkKinds
  <2>2. chan[e] = <<>> /\ pc[e[1]] = "done"
    BY SuccessSettles
  <2>3. \/ made[e[1]] = got[e]
        \/ Kind[e[1]] = "fileSource" /\ made[e[1]] = got[e] + 1 /\ made[e[1]] >= Limit
    BY <2>1, <2>2, ChannelBooks
  <2>4. made[e[1]] \in Nat /\ got[e] \in Nat /\ Limit \in Nat
    BY <2>1, ChannelBooks, ConfigAssumption
  <2> QED BY <2>1, <2>3, <2>4
<1> QED BY <1>1, DeliveryInvariance, PTL
=============================================================================
