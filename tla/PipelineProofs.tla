--------------------------- MODULE PipelineProofs ---------------------------
(***************************************************************************)
(* Proofs about Pipeline for any number of processes, run directories and  *)
(* input files.                                                            *)
(***************************************************************************)
EXTENDS Pipeline, TLAPS

\* Every record an active process would register is a record of the index.
LEMMA RunRecordType ==
  ASSUME TypeOK, NEW p \in Proc, Running(p), stage[p] # "analyse"
  PROVE  RunRecord(p) \in Record
BY DEF TypeOK, RunRecord, Record, Job

\* The stage write_artifacts goes to is a stage of the try block.
LEMMA StageAfterType ==
  ASSUME NEW p \in Proc, NEW a \in Artifact
  PROVE  StageAfter(p, a) \in TryStage \ {"analyse"}
BY DEF StageAfter, Artifact, TryStage

\* The options of an invocation are a job (cli.py 96-104).
LEMMA InvocationType == Invocation \subseteq Job
<1> SUFFICES ASSUME NEW j \in Invocation
             PROVE  j \in Job
  OBVIOUS
<1>1. PICK f \in Input : j \in [input : {f}, target : {0} \union Weeks[f], mode : LlmMode]
  BY DEF Invocation
<1>2. /\ {0} \union Weeks[f] \subseteq Nat
      /\ LlmMode \subseteq {"off", "full"}
  BY PipelineAssumption
<1> QED
  BY <1>1, <1>2 DEF Job

\* Reading the trends changes nothing but what the process has read, and its
\* stage when it is done.
LEMMA TrendsFrame ==
  ASSUME NEW p \in Proc, ComputeTrends(p)
  PROVE  /\ stage[p] = "trends"
         /\ stage' = stage \/ stage' = [stage EXCEPT ![p] = "llm"]
         /\ UNCHANGED <<run, job, week, llm, writing, disk, store>>
BY DEF ComputeTrends, ReadHistory, FindFindings, ReadFindings, LoseTrends, FinishTrends, Goto

\* What a process looks up are runs of the index it reads.
LEMMA EarlierRunsIndexed ==
  ASSUME NEW p \in Proc
  PROVE  EarlierRuns(p) \subseteq Ids(index.entries)
BY DEF EarlierRuns, Ids

\* Every variable keeps its type (all of Pipeline's actions).
LEMMA TypeStep == TypeOK /\ [Next]_vars => TypeOK'
<1> SUFFICES ASSUME TypeOK, [Next]_vars
             PROVE  TypeOK'
  OBVIOUS
<1> USE PipelineAssumption
<1> USE DEF TypeOK, Stage, TryStage, ExitStage, Running, Artifact, history, progress, disk, store
<1>1. ASSUME NEW p \in Proc, NEW j \in Invocation, NEW id \in IdPool[p], Start(p, id, j)
      PROVE  TypeOK'
  <2>1. j \in Job /\ id \in RunId
    BY InvocationType
  <2> QED
    BY <1>1, <2>1 DEF Start, MayStart, Goto
<1>2. ASSUME NEW p \in Proc, NEW j \in Invocation, NEW id \in IdPool[p], StartRaises(p, id, j)
      PROVE  TypeOK'
  <2>1. j \in Job
    BY InvocationType
  <2> QED
    BY <1>2, <2>1 DEF StartRaises, MayStart, Goto
<1>3. ASSUME NEW p \in Proc, Analyse(p)
      PROVE  TypeOK'
  <2>1. PICK w \in ResolvedWeek(job[p].input, job[p].target) :
               week' = [week EXCEPT ![p] = w]
    BY <1>3 DEF Analyse
  <2>2. job[p].input \in Input
    BY <1>3 DEF Analyse, Job
  <2>3. w \in Nat /\ w \in WeekStart
    BY <2>1, <2>2 DEF ResolvedWeek, WeekStart
  <2>4. PICK s \in {"findings", "trends"} : stage' = [stage EXCEPT ![p] = s]
    BY <1>3 DEF Analyse, Goto
  <2>5. metrics' \in [Proc -> 0..MaxMetrics]
    BY <1>3 DEF Analyse
  <2>6. week' \in [Proc -> Nat] /\ \A q \in Proc \ {p} : week'[q] = week[q]
    BY <2>1, <2>3
  <2> QED
    BY <1>3, <2>1, <2>3, <2>4, <2>5, <2>6 DEF Analyse
<1>4. ASSUME NEW p \in Proc, ComputeTrends(p)
      PROVE  TypeOK'
  <2>1. stage' \in [Proc -> Stage] /\ UNCHANGED <<run, job, week, llm, writing, disk, store>>
    BY <1>4, TrendsFrame
  <2>2. Ids(index.entries) \subseteq RunId
    <3>1. \A i \in DOMAIN index.entries : index.entries[i] \in Record
      OBVIOUS
    <3> QED
      BY <3>1 DEF Ids, Record
  <2>3. ReadErrors(p) \subseteq {"unreadable", "torn", "vanished"}
    BY DEF ReadErrors
  <2>4. trends' \in [Proc -> {"unread", "read", "unreadable", "torn", "vanished"}]
    <3>1. CASE LoseTrends(p)
      <4>1. PICK e \in ReadErrors(p) : trends' = [trends EXCEPT ![p] = e]
        BY <3>1 DEF LoseTrends
      <4> QED
        BY <2>3, <4>1
    <3>2. CASE FinishTrends(p)
      BY <3>2 DEF FinishTrends
    <3> QED
      BY <1>4, <3>1, <3>2 DEF ComputeTrends, ReadHistory, FindFindings, ReadFindings
  <2>5. metrics' \in [Proc -> 0..MaxMetrics]
    <3>1. CASE ReadHistory(p)
      <4>1. metrics[p] \in 0..MaxMetrics /\ metrics[p] > 0 /\ metrics' = [metrics EXCEPT ![p] = @ - 1]
        BY <3>1 DEF ReadHistory
      <4>2. metrics[p] - 1 \in 0..MaxMetrics
        BY <4>1
      <4> QED
        BY <4>1, <4>2
    <3>2. CASE LoseTrends(p)
      BY <3>2, 0 \in 0..MaxMetrics DEF LoseTrends
    <3> QED
      BY <1>4, <3>1, <3>2 DEF ComputeTrends, FindFindings, ReadFindings, FinishTrends
  <2>6. lookup' \in [Proc -> SUBSET RunId] /\ found' \in [Proc -> RunId \union {Nil}]
    <3>1. CASE ReadHistory(p)
      <4>1. PICK ids \in SUBSET EarlierRuns(p) : lookup' = [lookup EXCEPT ![p] = ids]
        BY <3>1 DEF ReadHistory
      <4>2. ids \in SUBSET RunId
        BY <2>2, EarlierRunsIndexed
      <4> QED
        BY <3>1, <4>1, <4>2 DEF ReadHistory
    <3>2. CASE FindFindings(p)
      <4>1. PICK id \in lookup[p] :
               \/ lookup' = [lookup EXCEPT ![p] = @ \ {id}] /\ UNCHANGED found
               \/ found' = [found EXCEPT ![p] = id] /\ UNCHANGED lookup
        BY <3>2 DEF FindFindings
      <4>2. id \in RunId /\ lookup[p] \ {id} \in SUBSET RunId
        OBVIOUS
      <4>3. CASE lookup' = [lookup EXCEPT ![p] = @ \ {id}] /\ UNCHANGED found
        BY <4>2, <4>3
      <4>4. CASE found' = [found EXCEPT ![p] = id] /\ UNCHANGED lookup
        BY <4>2, <4>4
      <4> QED
        BY <4>1, <4>3, <4>4
    <3>3. CASE ReadFindings(p)
      BY <3>3 DEF ReadFindings
    <3>4. CASE LoseTrends(p)
      BY <3>4 DEF LoseTrends
    <3> QED
      BY <1>4, <3>1, <3>2, <3>3, <3>4 DEF ComputeTrends, FinishTrends
  <2>7. UNCHANGED <<run, job, week, llm, writing, dirs, file, llmStatus, llmResult, snapshot,
                    tmp, index, registered>>
    BY <2>1
  <2>8. PICK s \in {"trends", "llm"} : stage' = [stage EXCEPT ![p] = s]
    BY <1>4, TrendsFrame
  <2>9. stage[p] = "trends"
    BY <1>4, TrendsFrame
  <2>10. ASSUME NEW q \in Proc, stage'[q] \in TryStage
         PROVE  /\ run'[q] \in RunId /\ job'[q] \in Job
                /\ stage'[q] # "analyse" => week'[q] \in WeekStart
    BY <2>7, <2>8, <2>9, <2>10
  <2> QED
    BY <2>1, <2>4, <2>5, <2>6, <2>7, <2>10
<1>5. ASSUME NEW p \in Proc, NEW o \in {"unprompted"} \union Generated,
             RenderLlm(p, o)
      PROVE  TypeOK'
  BY <1>5 DEF RenderLlm, Generated, Goto
<1>6. ASSUME NEW p \in Proc, RenderLlmRaises(p)
      PROVE  TypeOK'
  BY <1>6 DEF RenderLlmRaises, Goto
<1>7. ASSUME NEW p \in Proc, OpenArtifact(p)
      PROVE  TypeOK'
  BY <1>7 DEF OpenArtifact, Goto
<1>8. ASSUME NEW p \in Proc, CloseArtifact(p)
      PROVE  TypeOK'
  <2>1. StageAfter(p, stage[p]) \in TryStage \ {"analyse"}
    BY <1>8, StageAfterType DEF CloseArtifact
  <2>2. /\ ResolveLlmStatus(p) \in {"none", "off", "fallback", "success"}
        /\ LlmResult(p) \in {"none"} \union Reply
    BY DEF ResolveLlmStatus, LlmResult
  <2>3. stage' \in [Proc -> Stage] /\ file' \in [RunId -> [Artifact -> {"absent", "torn", "whole"}]]
    BY <1>8, <2>1 DEF CloseArtifact, Goto
  <2>4. /\ llmStatus' \in [RunId -> {"none", "off", "fallback", "success"}]
        /\ llmResult' \in [RunId -> {"none"} \union Reply]
    BY <1>8, <2>2 DEF CloseArtifact
  <2> QED
    BY <1>8, <2>1, <2>3, <2>4 DEF CloseArtifact, Goto
<1>9. ASSUME NEW p \in Proc, RegisterRead(p)
      PROVE  TypeOK'
  BY <1>9 DEF RegisterRead, Goto
<1>10. ASSUME NEW p \in Proc, MakeTmp(p)
       PROVE  TypeOK'
  BY <1>10 DEF MakeTmp, Goto
<1>11. ASSUME NEW p \in Proc, DumpTmp(p)
       PROVE  TypeOK'
  BY <1>11 DEF DumpTmp, Goto
<1>12. ASSUME NEW p \in Proc, ReplaceIndex(p)
       PROVE  TypeOK'
  <2>1. RunRecord(p) \in Record
    BY <1>12, RunRecordType DEF ReplaceIndex
  <2>2. NewEntries(p) \in Seq(Record)
    BY <2>1 DEF NewEntries
  <2>3. index' \in [entries : Seq(Record), whole : BOOLEAN]
    BY <1>12, <2>2 DEF ReplaceIndex
  <2> QED
    BY <1>12, <2>3 DEF ReplaceIndex, Goto
<1>13. ASSUME NEW p \in Proc, Announce(p)
       PROVE  TypeOK'
  BY <1>13 DEF Announce, Goto
<1>14. ASSUME NEW p \in Proc, Fail(p)
       PROVE  TypeOK'
  <2>1. PICK t \in TmpAfterError(p) : tmp' = [tmp EXCEPT ![p] = t]
    BY <1>14 DEF Fail
  <2>2. t \in {"none", "partial", "whole"}
    BY <2>1 DEF TmpAfterError
  <2> QED
    BY <1>14, <2>1, <2>2 DEF Fail, Goto
<1>15. ASSUME NEW p \in Proc, Crash(p)
       PROVE  TypeOK'
  BY <1>15 DEF Crash, Goto
<1>16. ASSUME NEW id \in RunId, DeleteRunDir(id)
       PROVE  TypeOK'
  BY <1>16 DEF DeleteRunDir, NoFiles
<1>17. CASE UNCHANGED vars
  BY <1>17 DEF vars
<1> QED
  BY <1>1, <1>2, <1>3, <1>4, <1>5, <1>6, <1>7, <1>8, <1>9, <1>10, <1>11, <1>12,
     <1>13, <1>14, <1>15, <1>16, <1>17
  DEF Next, Launch, Step

\* Every variable of the pipeline always has its type (pipeline.py 23-202).
THEOREM TypeCorrect == Spec => []TypeOK
<1>1. Init => TypeOK
  BY PipelineAssumption
  DEF Init, TypeOK, Stage, TryStage, ExitStage, Running, Artifact, NoFiles
<1> QED
  BY <1>1, TypeStep, PTL DEF Spec

-----------------------------------------------------------------------------
(***************************************************************************)
(* The index under any interleaving, crashes and colliding run_ids.        *)
(***************************************************************************)

UniqueIds(s) == \A i, j \in DOMAIN s : s[i].id = s[j].id => i = j

\* The stages between the reading of the index and its replacement.
HoldsSnapshot(p) == stage[p] \in {"mkstemp", "dump", "replace"}

\* What a registration in progress has to preserve for the index to be sound:
\* its snapshot is itself a sound log that lacks the process's run, and what
\* os.replace is about to publish is complete.
StoreInv ==
  /\ index.whole
  /\ UniqueIds(index.entries)
  /\ \A p \in Proc : HoldsSnapshot(p) => /\ UniqueIds(snapshot[p])
                                         /\ run[p] \notin Ids(snapshot[p])
  /\ \A p \in Proc : stage[p] = "replace" => tmp[p] = "whole"

\* Appending a record with a new id to a log without repetitions.
LEMMA UniqueIdsAppend ==
  ASSUME NEW s \in Seq(Record), NEW r \in Record, UniqueIds(s), r.id \notin Ids(s)
  PROVE  /\ UniqueIds(Append(s, r))
         /\ Ids(Append(s, r)) = Ids(s) \union {r.id}
<1>1. /\ DOMAIN s = 1..Len(s) /\ Len(s) \in Nat
      /\ DOMAIN Append(s, r) = 1..(Len(s) + 1)
      /\ \A i \in 1..Len(s) : Append(s, r)[i] = s[i]
      /\ Append(s, r)[Len(s) + 1] = r
  OBVIOUS
<1>2. UniqueIds(Append(s, r))
  BY <1>1 DEF UniqueIds, Ids
<1>3. Ids(Append(s, r)) = Ids(s) \union {r.id}
  BY <1>1 DEF Ids
<1> QED
  BY <1>2, <1>3

\* A step that leaves the index alone and neither enters nor stays in a
\* registration with another snapshot keeps StoreInv.
LEMMA StoreStep == TypeOK /\ StoreInv /\ [Next]_vars => StoreInv'
<1> SUFFICES ASSUME TypeOK, StoreInv, [Next]_vars
             PROVE  StoreInv'
  OBVIOUS
<1> USE DEF StoreInv, HoldsSnapshot, store, disk, history, progress, Goto
<1>1. ASSUME NEW p \in Proc, NEW j \in Invocation, NEW id \in IdPool[p], Start(p, id, j)
      PROVE  StoreInv'
  BY <1>1 DEF TypeOK, Start
<1>2. ASSUME NEW p \in Proc, NEW j \in Invocation, NEW id \in IdPool[p], StartRaises(p, id, j)
      PROVE  StoreInv'
  BY <1>2 DEF TypeOK, StartRaises
<1>3. ASSUME NEW p \in Proc, Analyse(p)
      PROVE  StoreInv'
  <2>1. PICK s \in {"findings", "trends"} : stage' = [stage EXCEPT ![p] = s]
    BY <1>3 DEF Analyse
  <2> QED
    BY <1>3, <2>1 DEF TypeOK, Analyse
<1>4. ASSUME NEW p \in Proc, ComputeTrends(p)
      PROVE  StoreInv'
  <2>1. PICK s \in {"trends", "llm"} : stage' = [stage EXCEPT ![p] = s]
    BY <1>4, TrendsFrame DEF TypeOK
  <2> QED
    BY <1>4, <2>1, TrendsFrame DEF TypeOK
<1>5. ASSUME NEW p \in Proc, NEW o \in {"unprompted"} \union Generated,
             RenderLlm(p, o)
      PROVE  StoreInv'
  BY <1>5 DEF TypeOK, RenderLlm
<1>6. ASSUME NEW p \in Proc, RenderLlmRaises(p)
      PROVE  StoreInv'
  BY <1>6 DEF TypeOK, RenderLlmRaises
<1>7. ASSUME NEW p \in Proc, OpenArtifact(p)
      PROVE  StoreInv'
  BY <1>7 DEF TypeOK, OpenArtifact
<1>8. ASSUME NEW p \in Proc, CloseArtifact(p)
      PROVE  StoreInv'
  <2>1. StageAfter(p, stage[p]) \notin {"mkstemp", "dump", "replace"}
    BY <1>8 DEF CloseArtifact, StageAfter, Artifact
  <2> QED
    BY <1>8, <2>1 DEF TypeOK, CloseArtifact
<1>9. ASSUME NEW p \in Proc, RegisterRead(p)
      PROVE  StoreInv'
  BY <1>9 DEF TypeOK, RegisterRead, IsDuplicate
<1>10. ASSUME NEW p \in Proc, MakeTmp(p)
       PROVE  StoreInv'
  BY <1>10 DEF TypeOK, MakeTmp
<1>11. ASSUME NEW p \in Proc, DumpTmp(p)
       PROVE  StoreInv'
  BY <1>11 DEF TypeOK, DumpTmp
<1>12. ASSUME NEW p \in Proc, ReplaceIndex(p)
       PROVE  StoreInv'
  <2>1. RunRecord(p) \in Record /\ RunRecord(p).id = run[p]
    BY <1>12, RunRecordType DEF ReplaceIndex, Running, TryStage, RunRecord
  <2>2. snapshot[p] \in Seq(Record)
    BY DEF TypeOK
  <2>3. UniqueIds(NewEntries(p))
    BY <1>12, <2>1, <2>2, UniqueIdsAppend DEF ReplaceIndex, NewEntries
  <2>4. index'.whole /\ UniqueIds(index'.entries)
    BY <1>12, <2>3 DEF ReplaceIndex
  <2> QED
    BY <1>12, <2>4 DEF TypeOK, ReplaceIndex
<1>13. ASSUME NEW p \in Proc, Announce(p)
       PROVE  StoreInv'
  BY <1>13 DEF TypeOK, Announce
<1>14. ASSUME NEW p \in Proc, Fail(p)
       PROVE  StoreInv'
  <2>1. PICK t \in TmpAfterError(p) : tmp' = [tmp EXCEPT ![p] = t]
    BY <1>14 DEF Fail
  <2> QED
    BY <1>14, <2>1 DEF TypeOK, Fail
<1>15. ASSUME NEW p \in Proc, Crash(p)
       PROVE  StoreInv'
  BY <1>15 DEF TypeOK, Crash
<1>16. ASSUME NEW id \in RunId, DeleteRunDir(id)
       PROVE  StoreInv'
  BY <1>16 DEF TypeOK, DeleteRunDir
<1>17. CASE UNCHANGED vars
  BY <1>17 DEF vars
<1> QED
  BY <1>1, <1>2, <1>3, <1>4, <1>5, <1>6, <1>7, <1>8, <1>9, <1>10, <1>11, <1>12,
     <1>13, <1>14, <1>15, <1>16, <1>17
  DEF Next, Launch, Step

\* The index is well formed in the sense of StoreInv in every state.
THEOREM StoreInvariant == Spec => []StoreInv
<1>1. Init => StoreInv
  BY DEF Init, StoreInv, UniqueIds, HoldsSnapshot
<1> QED
  BY <1>1, StoreStep, TypeCorrect, PTL DEF Spec

\* No run_id is ever twice in the index, whatever run_ids the processes draw
\* and however their registrations interleave (history/store.py 116-120).
THEOREM UniqueEntries == Spec => []EntriesUnique
<1>1. StoreInv => EntriesUnique
  BY DEF StoreInv, UniqueIds, EntriesUnique
<1> QED
  BY <1>1, StoreInvariant, PTL

\* No reader ever meets a half-written index (history/store.py 124-134).
THEOREM WholeIndex == Spec => []IndexWhole
<1>1. StoreInv => IndexWhole
  BY DEF StoreInv, IndexWhole
<1> QED
  BY <1>1, StoreInvariant, PTL

-----------------------------------------------------------------------------
(***************************************************************************)
(* The index when runs do not overlap.                                     *)
(***************************************************************************)

\* One run at a time, so what a registration has read is still the index.
SerialInv ==
  /\ \A p, q \in Proc : Running(p) /\ Running(q) => p = q
  /\ \A p \in Proc : HoldsSnapshot(p) => snapshot[p] = index.entries
  /\ registered \subseteq Ids(index.entries)

\* The three parts of SerialInv support each other over every step.
LEMMA SerialStep ==
  ASSUME ~Overlap
  PROVE  TypeOK /\ StoreInv /\ SerialInv /\ [Next]_vars => SerialInv'
<1> SUFFICES ASSUME TypeOK, StoreInv, SerialInv, [Next]_vars
             PROVE  SerialInv'
  OBVIOUS
<1> USE DEF SerialInv, HoldsSnapshot, Running, TryStage, Artifact, store, disk, history, progress, Goto
<1>1. ASSUME NEW p \in Proc, NEW j \in Invocation, NEW id \in IdPool[p], Start(p, id, j)
      PROVE  SerialInv'
  BY <1>1 DEF TypeOK, Start, MayStart
<1>2. ASSUME NEW p \in Proc, NEW j \in Invocation, NEW id \in IdPool[p], StartRaises(p, id, j)
      PROVE  SerialInv'
  BY <1>2 DEF TypeOK, StartRaises
<1>3. ASSUME NEW p \in Proc, Analyse(p)
      PROVE  SerialInv'
  <2>1. PICK s \in {"findings", "trends"} : stage' = [stage EXCEPT ![p] = s]
    BY <1>3 DEF Analyse
  <2> QED
    BY <1>3, <2>1 DEF TypeOK, Analyse
<1>4. ASSUME NEW p \in Proc, ComputeTrends(p)
      PROVE  SerialInv'
  <2>1. PICK s \in {"trends", "llm"} : stage' = [stage EXCEPT ![p] = s]
    BY <1>4, TrendsFrame DEF TypeOK
  <2>2. stage[p] = "trends" /\ UNCHANGED <<snapshot, index, registered>>
    BY <1>4, TrendsFrame
  <2>3. \A q \in Proc : (Running(q)' <=> Running(q)) /\ (HoldsSnapshot(q)' <=> HoldsSnapshot(q))
    BY <2>1, <2>2 DEF TypeOK
  <2> HIDE DEF Running, HoldsSnapshot
  <2> QED
    BY <2>2, <2>3 DEF SerialInv
<1>5. ASSUME NEW p \in Proc, NEW o \in {"unprompted"} \union Generated,
             RenderLlm(p, o)
      PROVE  SerialInv'
  BY <1>5 DEF TypeOK, RenderLlm
<1>6. ASSUME NEW p \in Proc, RenderLlmRaises(p)
      PROVE  SerialInv'
  BY <1>6 DEF TypeOK, RenderLlmRaises
<1>7. ASSUME NEW p \in Proc, OpenArtifact(p)
      PROVE  SerialInv'
  BY <1>7 DEF TypeOK, OpenArtifact
<1>8. ASSUME NEW p \in Proc, CloseArtifact(p)
      PROVE  SerialInv'
  <2>1. StageAfter(p, stage[p]) \in TryStage \ {"mkstemp", "dump", "replace"}
    BY <1>8 DEF CloseArtifact, StageAfter
  <2> QED
    BY <1>8, <2>1 DEF TypeOK, CloseArtifact
<1>9. ASSUME NEW p \in Proc, RegisterRead(p)
      PROVE  SerialInv'
  BY <1>9 DEF TypeOK, RegisterRead
<1>10. ASSUME NEW p \in Proc, MakeTmp(p)
      PROVE  SerialInv'
  BY <1>10 DEF TypeOK, MakeTmp
<1>11. ASSUME NEW p \in Proc, DumpTmp(p)
      PROVE  SerialInv'
  BY <1>11 DEF TypeOK, DumpTmp
<1>12. ASSUME NEW p \in Proc, ReplaceIndex(p)
      PROVE  SerialInv'
  <2>1. RunRecord(p) \in Record /\ RunRecord(p).id = run[p]
    BY <1>12, RunRecordType DEF ReplaceIndex, RunRecord
  <2>2. snapshot[p] \in Seq(Record) /\ snapshot[p] = index.entries
    BY <1>12 DEF TypeOK, ReplaceIndex
  <2>3. Ids(NewEntries(p)) = Ids(index.entries) \union {run[p]}
    BY <1>12, <2>1, <2>2, UniqueIdsAppend DEF StoreInv, ReplaceIndex, NewEntries
  <2>4. registered' \subseteq Ids(index'.entries)
    BY <1>12, <2>3 DEF ReplaceIndex
  <2> QED
    BY <1>12, <2>4 DEF TypeOK, ReplaceIndex
<1>13. ASSUME NEW p \in Proc, Announce(p)
      PROVE  SerialInv'
  BY <1>13 DEF TypeOK, Announce
<1>14. ASSUME NEW p \in Proc, Fail(p)
      PROVE  SerialInv'
  <2>1. PICK t \in TmpAfterError(p) : tmp' = [tmp EXCEPT ![p] = t]
    BY <1>14 DEF Fail
  <2> QED
    BY <1>14, <2>1 DEF TypeOK, Fail
<1>15. ASSUME NEW p \in Proc, Crash(p)
      PROVE  SerialInv'
  BY <1>15 DEF TypeOK, Crash
<1>16. ASSUME NEW id \in RunId, DeleteRunDir(id)
      PROVE  SerialInv'
  BY <1>16 DEF TypeOK, DeleteRunDir
<1>17. CASE UNCHANGED vars
  BY <1>17 DEF vars
<1> QED
  BY <1>1, <1>2, <1>3, <1>4, <1>5, <1>6, <1>7, <1>8, <1>9, <1>10, <1>11, <1>12,
     <1>13, <1>14, <1>15, <1>16, <1>17
  DEF Next, Launch, Step

\* Runs that do not overlap keep SerialInv from the empty index on.
THEOREM SerialInvariant ==
  ASSUME ~Overlap
  PROVE  Spec => []SerialInv
<1>1. Init => SerialInv
  BY DEF Init, SerialInv, HoldsSnapshot, Running, TryStage, Artifact
<1>2. TypeOK /\ StoreInv /\ SerialInv /\ [Next]_vars => SerialInv'
  BY SerialStep
<1> QED
  BY <1>1, <1>2, TypeCorrect, StoreInvariant, PTL DEF Spec

\* Runs that do not overlap never lose a published run (history/store.py 86-133).
THEOREM SerialNoRunLost ==
  ASSUME ~Overlap
  PROVE  Spec => []NoRunLost
<1>1. SerialInv => NoRunLost
  BY DEF SerialInv, NoRunLost
<1> QED
  BY <1>1, SerialInvariant, PTL

\* Only os.replace changes the index.
LEMMA IndexFrame ==
  ASSUME [Next]_vars
  PROVE  index' = index \/ \E p \in Proc : ReplaceIndex(p)
BY TrendsFrame
DEF Next, Launch, Step, vars, store, disk, history, progress, Start, StartRaises, Analyse,
    RenderLlm, RenderLlmRaises, OpenArtifact, CloseArtifact,
    RegisterRead, MakeTmp, DumpTmp, Announce, Fail, Crash, DeleteRunDir

\* Runs that do not overlap publish an append-only log: every step of the
\* pipeline adds one record at the end of the index or leaves it alone.
THEOREM SerialRunLog ==
  ASSUME ~Overlap
  PROVE  Spec => PublishesRunLog
<1>1. Init => Log!Init
  BY DEF Init, Log!Init
<1>2. TypeOK /\ StoreInv /\ SerialInv /\ [Next]_vars => [Log!Next]_(index.entries)
  <2> SUFFICES ASSUME TypeOK, StoreInv, SerialInv, [Next]_vars
               PROVE  [Log!Next]_(index.entries)
    OBVIOUS
  <2>1. CASE index' = index
    BY <2>1
  <2>2. ASSUME NEW p \in Proc, ReplaceIndex(p)
        PROVE  Log!Next
    <3>1. RunRecord(p) \in Record /\ RunRecord(p).id = run[p]
      BY <2>2, RunRecordType DEF ReplaceIndex, Running, TryStage, RunRecord
    <3>2. snapshot[p] = index.entries /\ run[p] \notin Ids(index.entries)
      BY <2>2 DEF SerialInv, StoreInv, HoldsSnapshot, ReplaceIndex
    <3>3. index'.entries = Append(index.entries, RunRecord(p))
      BY <2>2, <3>2 DEF ReplaceIndex, NewEntries
    <3>4. Log!AppendRecord(RunRecord(p))
      BY <3>1, <3>2, <3>3 DEF Log!AppendRecord, Log!Ids, Ids
    <3> QED
      BY <3>1, <3>4 DEF Log!Next
  <2> QED
    BY <2>1, <2>2, IndexFrame
<1> QED
  BY <1>1, <1>2, TypeCorrect, StoreInvariant, SerialInvariant, PTL
  DEF Spec, PublishesRunLog, Log!Spec

-----------------------------------------------------------------------------
(***************************************************************************)
(* The artifacts of indexed runs, when run_ids do not collide.             *)
(***************************************************************************)

DistinctIds ==
  \A p, q \in Proc : \A id \in IdPool[p] : id \in IdPool[q] => p = q

\* write_artifacts is behind the process.
Registering == {"register", "mkstemp", "dump", "replace", "announce"}

\* A process that has returned or is about to: it writes no artifact any more.
Finished == {"announce"} \union ExitStage

\* The run_id of a process is its own.
OwnId ==
  \A p \in Proc :
    /\ run[p] # Nil => run[p] \in IdPool[p]
    /\ stage[p] = "idle" => run[p] = Nil

\* What a process has written so far, while its directory exists.
WrittenBy(p) ==
  /\ writing[p] => file[run[p]][stage[p]] = "torn"
  /\ stage[p] \in {"brief", "llm_response", "manifest"} \union Registering
       => file[run[p]]["findings"] = "whole"
  /\ stage[p] \in {"llm_response", "manifest"} \union Registering
       => file[run[p]]["brief"] = "whole"
  /\ stage[p] \in Registering => file[run[p]]["manifest"] = "whole"

Written ==
  /\ \A p \in Proc : writing[p] => stage[p] \in Artifact
  /\ \A p \in Proc : run[p] \in dirs => WrittenBy(p)

Complete(id) ==
  \A a \in {"findings", "brief", "manifest"} : file[id][a] = "whole"

\* A published run belongs to a finished process and is complete.
Published ==
  /\ \A id \in registered : \E p \in Proc : run[p] = id /\ stage[p] \in Finished
  /\ \A id \in registered \intersect dirs : Complete(id)

\* The index and every snapshot name published runs only.
NamesPublished ==
  /\ Ids(index.entries) \subseteq registered
  /\ \A p \in Proc : HoldsSnapshot(p) => Ids(snapshot[p]) \subseteq registered

\* A directory that is gone has no files, the trends are looked up in
\* published runs, and no half-written file has been met there.
Readable ==
  /\ \A id \in RunId \ dirs : file[id] = NoFiles
  /\ \A p \in Proc : lookup[p] \subseteq registered /\ found[p] \in registered \union {Nil}
  /\ \A p \in Proc : trends[p] # "torn"

ArtifactInv == OwnId /\ Written /\ Published /\ NamesPublished /\ Readable

\* The run_id of a process in an artifact stage is nobody else's and not
\* yet published.
LEMMA WriterOwnsDir ==
  ASSUME DistinctIds, TypeOK, OwnId, Published, NEW p \in Proc, stage[p] \in TryStage
  PROVE  /\ run[p] \in RunId
         /\ \A q \in Proc \ {p} : run[q] # run[p]
         /\ stage[p] # "announce" => run[p] \notin registered
<1>1. run[p] \in RunId /\ run[p] # Nil
  BY PipelineAssumption DEF TypeOK, Running
<1>2. \A q \in Proc \ {p} : run[q] # run[p]
  <2> SUFFICES ASSUME NEW q \in Proc, run[q] = run[p]
               PROVE  q = p
    OBVIOUS
  <2>1. run[p] \in IdPool[p] /\ run[p] \in IdPool[q]
    BY <1>1 DEF OwnId
  <2> QED
    BY <2>1 DEF DistinctIds
<1>3. stage[p] # "announce" => run[p] \notin registered
  BY <1>2 DEF Published, Finished, ExitStage, TryStage, Artifact
<1> QED
  BY <1>1, <1>2, <1>3

\* The run_id an idle process draws belongs to nobody yet.
LEMMA FreshId ==
  ASSUME DistinctIds, OwnId, NEW p \in Proc, stage[p] = "idle", NEW id \in IdPool[p]
  PROVE  id \in RunId /\ id # Nil /\ \A q \in Proc : run[q] # id
<1>1. id \in RunId /\ id # Nil
  BY PipelineAssumption
<1>2. ASSUME NEW q \in Proc, run[q] = id
      PROVE  FALSE
  <2>1. id \in IdPool[q] /\ run[p] = Nil
    BY <1>1, <1>2 DEF OwnId
  <2> QED
    BY <1>1, <1>2, <2>1 DEF DistinctIds
<1> QED
  BY <1>1, <1>2

\* A step of a running process that only moves it on, to a stage that claims
\* no more artifacts than the one it leaves, keeps all but the trends.
LEMMA QuietStep ==
  ASSUME TypeOK, OwnId, Written, Published, NamesPublished,
         NEW p \in Proc, NEW s \in Stage, Running(p), s # "idle",
         stage' = [stage EXCEPT ![p] = s],
         UNCHANGED <<run, disk, index, registered, snapshot>>,
         writing' \in {writing, [writing EXCEPT ![p] = FALSE]},
         writing'[p] => s \in Artifact /\ s = stage[p],
         s \in {"brief", "llm_response", "manifest"} \union Registering
           => stage[p] \in Registering,
         stage[p] \in Finished => s \in Finished,
         s \in {"mkstemp", "dump", "replace"} => HoldsSnapshot(p)
  PROVE  OwnId' /\ Written' /\ Published' /\ NamesPublished'
<1> USE DEF disk
<1>1. stage'[p] = s /\ \A q \in Proc \ {p} : stage'[q] = stage[q]
  BY DEF TypeOK
<1>2. /\ \A q \in Proc \ {p} : writing'[q] = writing[q]
      /\ writing'[p] => writing[p]
  BY DEF TypeOK
<1>3. OwnId'
  BY <1>1 DEF OwnId, Running, TryStage, Artifact
<1>4. Written'
  <2>1. ASSUME NEW q \in Proc
        PROVE  (writing'[q] => stage'[q] \in Artifact) /\ (run'[q] \in dirs' => WrittenBy(q)')
    <3>1. CASE q = p
      BY <1>1, <1>2, <3>1 DEF Written, WrittenBy, Registering, Artifact
    <3>2. CASE q # p
      BY <1>1, <1>2, <3>2 DEF Written, WrittenBy
    <3> QED
      BY <3>1, <3>2
  <2> QED
    BY <2>1 DEF Written
<1>5. Published'
  BY <1>1 DEF Published, Complete
<1>6. NamesPublished'
  BY <1>1 DEF NamesPublished, HoldsSnapshot
<1> QED
  BY <1>3, <1>4, <1>5, <1>6

\* Every part of ArtifactInv is preserved by every step.
LEMMA ArtifactStep ==
  ASSUME DistinctIds
  PROVE  TypeOK /\ StoreInv /\ ArtifactInv /\ [Next]_vars => ArtifactInv'
<1> SUFFICES ASSUME TypeOK, StoreInv, ArtifactInv, [Next]_vars
             PROVE  ArtifactInv'
  OBVIOUS
<1> USE DEF ArtifactInv, HoldsSnapshot, Registering, Finished, ExitStage, TryStage,
            Artifact, Stage, store, disk, history, progress, Goto
<1>1. ASSUME NEW p \in Proc, NEW j \in Invocation, NEW id \in IdPool[p], Start(p, id, j)
      PROVE  ArtifactInv'
  <2>1. stage[p] = "idle"
    BY <1>1 DEF Start, MayStart
  <2>2. id \in RunId /\ id # Nil /\ \A q \in Proc : run[q] # id
    BY <2>1, FreshId
  <2>3. stage[p] = "idle" /\ ~writing[p]
    BY <2>1 DEF Written
  <2>4. id \notin registered
    BY <2>2, <2>3 DEF Published
  <2>5. /\ run'[p] = id /\ stage'[p] = "analyse"
        /\ \A q \in Proc \ {p} : run'[q] = run[q] /\ stage'[q] = stage[q]
        /\ dirs' = dirs \union {id}
    BY <1>1 DEF TypeOK, Start
  <2>6. UNCHANGED <<writing, file, history, snapshot, index, registered>>
    BY <1>1 DEF Start
  <2>7. OwnId'
    BY <2>2, <2>5 DEF OwnId
  <2>8. Written'
    BY <2>2, <2>3, <2>5, <2>6 DEF Written, WrittenBy
  <2>9. Published'
    BY <2>3, <2>4, <2>5, <2>6 DEF Published, Complete
  <2>10. NamesPublished' /\ Readable'
    BY <2>5, <2>6 DEF NamesPublished, Readable
  <2> QED
    BY <2>7, <2>8, <2>9, <2>10
<1>2. ASSUME NEW p \in Proc, NEW j \in Invocation, NEW id \in IdPool[p], StartRaises(p, id, j)
      PROVE  ArtifactInv'
  <2>1. stage[p] = "idle" /\ ~writing[p]
    BY <1>2 DEF StartRaises, MayStart, Written
  <2>2. id \notin registered
    BY <1>2, <2>1, FreshId DEF Published
  <2>3. /\ run'[p] = id /\ stage'[p] = "raised"
        /\ \A q \in Proc \ {p} : run'[q] = run[q] /\ stage'[q] = stage[q]
        /\ dirs' = dirs \/ dirs' = dirs \union {id}
    BY <1>2 DEF TypeOK, StartRaises
  <2>4. UNCHANGED <<writing, file, history, snapshot, index, registered>>
    BY <1>2 DEF StartRaises
  <2>5. OwnId'
    BY <1>2, <2>3 DEF OwnId
  <2>6. Written'
    <3>1. \A q \in Proc \ {p} : run'[q] \in dirs' => run[q] \in dirs
      BY <2>1, <2>3, FreshId DEF StartRaises
    <3> QED
      BY <2>1, <2>3, <2>4, <3>1 DEF Written, WrittenBy
  <2>7. Published'
    <3>1. registered \intersect dirs' = registered \intersect dirs
      BY <2>2, <2>3
    <3> QED
      BY <2>1, <2>3, <2>4, <3>1 DEF Published, Complete
  <2>8. NamesPublished' /\ Readable'
    BY <2>3, <2>4 DEF NamesPublished, Readable
  <2> QED
    BY <2>5, <2>6, <2>7, <2>8
<1>3. ASSUME NEW p \in Proc, Analyse(p)
      PROVE  ArtifactInv'
  <2>1. ~writing[p]
    BY <1>3 DEF Analyse, Written
  <2>2. PICK s \in {"findings", "trends"} : stage' = [stage EXCEPT ![p] = s]
    BY <1>3 DEF Analyse
  <2>3. OwnId' /\ Written' /\ Published' /\ NamesPublished'
    BY <1>3, <2>1, <2>2, QuietStep, s \in Stage DEF Analyse, Running
  <2>4. Readable'
    BY <1>3 DEF Analyse, Readable
  <2> QED
    BY <2>3, <2>4
<1>4. ASSUME NEW p \in Proc, ComputeTrends(p)
      PROVE  ArtifactInv'
  <2>1. /\ stage[p] = "trends" /\ ~writing[p]
        /\ UNCHANGED <<run, writing, disk, index, registered, snapshot>>
    BY <1>4, TrendsFrame DEF Written
  <2>2. PICK s \in {"trends", "llm"} : stage' = [stage EXCEPT ![p] = s]
    BY <1>4, TrendsFrame DEF TypeOK
  <2>3. OwnId' /\ Written' /\ Published' /\ NamesPublished'
    BY <2>1, <2>2, QuietStep, s \in Stage DEF Running
  <2>4. \A q \in Proc : lookup'[q] \subseteq registered' /\ found'[q] \in registered' \union {Nil}
    <3>1. EarlierRuns(p) \subseteq registered
      BY EarlierRunsIndexed DEF NamesPublished
    <3>2. CASE ReadHistory(p)
      BY <2>1, <3>1, <3>2 DEF TypeOK, Readable, ReadHistory
    <3>3. CASE FindFindings(p)
      <4>1. PICK id \in lookup[p] :
               \/ lookup' = [lookup EXCEPT ![p] = @ \ {id}] /\ UNCHANGED found
               \/ found' = [found EXCEPT ![p] = id] /\ UNCHANGED lookup
        BY <3>3 DEF FindFindings
      <4>2. id \in registered
        BY DEF Readable
      <4>3. CASE lookup' = [lookup EXCEPT ![p] = @ \ {id}] /\ UNCHANGED found
        BY <2>1, <4>2, <4>3 DEF TypeOK, Readable
      <4>4. CASE found' = [found EXCEPT ![p] = id] /\ UNCHANGED lookup
        BY <2>1, <4>2, <4>4 DEF TypeOK, Readable
      <4> QED
        BY <4>1, <4>3, <4>4
    <3>4. CASE ReadFindings(p)
      BY <2>1, <3>4 DEF TypeOK, Readable, ReadFindings
    <3>5. CASE LoseTrends(p)
      BY <2>1, <3>5 DEF TypeOK, Readable, LoseTrends
    <3>6. CASE FinishTrends(p)
      BY <2>1, <3>6 DEF TypeOK, Readable, FinishTrends
    <3> QED
      BY <1>4, <3>2, <3>3, <3>4, <3>5, <3>6 DEF ComputeTrends
  <2>5. "torn" \notin ReadErrors(p)
    <3>1. index.whole
      BY DEF StoreInv
    <3>2. found[p] \in RunId => file[found[p]]["findings"] # "torn"
      <4> SUFFICES ASSUME found[p] \in RunId
                   PROVE  file[found[p]]["findings"] # "torn"
        OBVIOUS
      <4>1. found[p] \in registered
        BY PipelineAssumption DEF Readable
      <4> QED
        BY <4>1 DEF NoFiles, Published, Complete, Readable
    <3> QED
      BY <3>1, <3>2 DEF ReadErrors
  <2>6. \A q \in Proc : trends'[q] # "torn"
    BY <1>4, <2>5
    DEF TypeOK, Readable, ComputeTrends, ReadHistory, FindFindings, ReadFindings, LoseTrends,
        FinishTrends
  <2>7. Readable'
    BY <2>1, <2>4, <2>6 DEF Readable
  <2> QED
    BY <2>3, <2>7
<1>5. ASSUME NEW p \in Proc, NEW o \in {"unprompted"} \union Generated,
             RenderLlm(p, o)
      PROVE  ArtifactInv'
  <2>1. ~writing[p]
    BY <1>5 DEF RenderLlm, Written
  <2>2. OwnId' /\ Written' /\ Published' /\ NamesPublished'
    BY <1>5, <2>1, QuietStep, "findings" \in Stage DEF RenderLlm, Running
  <2>3. Readable'
    BY <1>5 DEF RenderLlm, Readable
  <2> QED
    BY <2>2, <2>3
<1>6. ASSUME NEW p \in Proc, RenderLlmRaises(p)
      PROVE  ArtifactInv'
  <2>1. ~writing[p]
    BY <1>6 DEF RenderLlmRaises, Written
  <2>2. OwnId' /\ Written' /\ Published' /\ NamesPublished'
    BY <1>6, <2>1, QuietStep, "exit1" \in Stage DEF RenderLlmRaises, Running
  <2>3. Readable'
    BY <1>6 DEF RenderLlmRaises, Readable
  <2> QED
    BY <2>2, <2>3
<1>7. ASSUME NEW p \in Proc, OpenArtifact(p)
      PROVE  ArtifactInv'
  <2>1. /\ run[p] \in RunId
        /\ \A q \in Proc \ {p} : run[q] # run[p]
        /\ run[p] \notin registered
    BY <1>7, WriterOwnsDir DEF OpenArtifact
  <2>2. \A id \in RunId \ {run[p]} : file'[id] = file[id]
    BY <1>7 DEF TypeOK, OpenArtifact
  <2>3. /\ file'[run[p]][stage[p]] = "torn"
        /\ \A a \in Artifact \ {stage[p]} : file'[run[p]][a] = file[run[p]][a]
    BY <1>7, <2>1 DEF TypeOK, OpenArtifact
  <2>4. UNCHANGED <<stage, run, dirs, history, snapshot, index, registered>>
    BY <1>7 DEF OpenArtifact
  <2>5. Written'
    <3>1. \A q \in Proc \ {p} : writing'[q] = writing[q]
      BY <1>7 DEF TypeOK, OpenArtifact
    <3>2. run[p] \in dirs => WrittenBy(p)'
      BY <1>7, <2>3, <2>4 DEF OpenArtifact, Written, WrittenBy
    <3>3. \A q \in Proc \ {p} : run[q] \in dirs => WrittenBy(q)'
      BY <2>1, <2>2, <2>4, <3>1 DEF TypeOK, Written, WrittenBy
    <3> QED
      BY <1>7, <2>4, <3>1, <3>2, <3>3 DEF OpenArtifact, Written
  <2>6. Published'
    <3>1. \A id \in registered : file'[id] = file[id]
      BY <2>1, <2>2 DEF TypeOK
    <3> QED
      BY <2>4, <3>1 DEF Published, Complete
  <2>7. Readable'
    BY <1>7, <2>1, <2>2, <2>4 DEF OpenArtifact, Readable
  <2>8. OwnId' /\ NamesPublished'
    BY <2>4 DEF OwnId, NamesPublished
  <2> QED
    BY <2>5, <2>6, <2>7, <2>8
<1>8. ASSUME NEW p \in Proc, CloseArtifact(p)
      PROVE  ArtifactInv'
  <2>1. /\ run[p] \in RunId
        /\ \A q \in Proc \ {p} : run[q] # run[p]
        /\ run[p] \notin registered
    BY <1>8, WriterOwnsDir DEF CloseArtifact
  <2>2. \A id \in RunId \ {run[p]} : file'[id] = file[id]
    BY <1>8 DEF TypeOK, CloseArtifact
  <2>3. /\ file[run[p]][stage[p]] = "torn" => file'[run[p]][stage[p]] = "whole"
        /\ file[run[p]][stage[p]] # "torn" => file'[run[p]] = file[run[p]]
        /\ \A a \in Artifact \ {stage[p]} : file'[run[p]][a] = file[run[p]][a]
    BY <1>8, <2>1 DEF TypeOK, CloseArtifact
  <2>4. /\ stage'[p] = StageAfter(p, stage[p])
        /\ \A q \in Proc \ {p} : stage'[q] = stage[q]
        /\ ~writing'[p]
        /\ \A q \in Proc \ {p} : writing'[q] = writing[q]
    BY <1>8 DEF TypeOK, CloseArtifact
  <2>5. UNCHANGED <<run, dirs, history, snapshot, index, registered>>
    BY <1>8 DEF CloseArtifact
  <2>6. /\ stage[p] \in Artifact /\ writing[p]
        /\ StageAfter(p, stage[p]) \in {"brief", "llm_response", "manifest", "register"}
    BY <1>8 DEF CloseArtifact, StageAfter
  <2>7. Written'
    <3>1. run[p] \in dirs => WrittenBy(p)'
      BY <2>3, <2>4, <2>5, <2>6 DEF Written, WrittenBy, StageAfter
    <3>2. \A q \in Proc \ {p} : run[q] \in dirs => WrittenBy(q)'
      BY <2>1, <2>2, <2>4, <2>5 DEF TypeOK, Written, WrittenBy
    <3> QED
      BY <2>4, <2>5, <3>1, <3>2 DEF Written
  <2>8. Published'
    <3>1. \A id \in registered : \E q \in Proc : run[q] = id /\ stage'[q] \in Finished
      BY <2>1, <2>4 DEF Published
    <3>2. \A id \in registered : file'[id] = file[id]
      BY <2>1, <2>2 DEF TypeOK
    <3> QED
      BY <2>5, <3>1, <3>2 DEF Published, Complete
  <2>9. Readable'
    <3>1. file[run[p]] = NoFiles => file'[run[p]] = NoFiles
      BY <2>3, <2>6 DEF NoFiles
    <3> QED
      BY <2>1, <2>2, <2>5, <3>1 DEF Readable
  <2>10. NamesPublished'
    BY <2>4, <2>5, <2>6 DEF NamesPublished
  <2>11. OwnId'
    BY <2>4, <2>5, <2>6 DEF OwnId
  <2> QED
    BY <2>7, <2>8, <2>9, <2>10, <2>11
<1>9. ASSUME NEW p \in Proc, RegisterRead(p)
      PROVE  ArtifactInv'
  <2>1. /\ stage'[p] = "mkstemp" /\ stage[p] = "register"
        /\ \A q \in Proc \ {p} : stage'[q] = stage[q] /\ snapshot'[q] = snapshot[q]
        /\ snapshot'[p] = index.entries
    BY <1>9 DEF TypeOK, RegisterRead
  <2>2. UNCHANGED <<run, dirs, file, writing, history, index, registered>>
    BY <1>9 DEF RegisterRead
  <2>3. OwnId' /\ Readable' /\ Published'
    BY <2>1, <2>2 DEF OwnId, Readable, Published, Complete
  <2>4. Written'
    BY <2>1, <2>2 DEF Written, WrittenBy
  <2>5. NamesPublished'
    BY <2>1, <2>2 DEF NamesPublished
  <2> QED
    BY <2>3, <2>4, <2>5
<1>10. ASSUME NEW p \in Proc, MakeTmp(p)
      PROVE  ArtifactInv'
  <2>1. ~writing[p]
    BY <1>10 DEF MakeTmp, Written
  <2>2. OwnId' /\ Written' /\ Published' /\ NamesPublished'
    BY <1>10, <2>1, QuietStep, "dump" \in Stage DEF MakeTmp, Running
  <2>3. Readable'
    BY <1>10 DEF MakeTmp, Readable
  <2> QED
    BY <2>2, <2>3
<1>11. ASSUME NEW p \in Proc, DumpTmp(p)
      PROVE  ArtifactInv'
  <2>1. ~writing[p]
    BY <1>11 DEF DumpTmp, Written
  <2>2. OwnId' /\ Written' /\ Published' /\ NamesPublished'
    BY <1>11, <2>1, QuietStep, "replace" \in Stage DEF DumpTmp, Running
  <2>3. Readable'
    BY <1>11 DEF DumpTmp, Readable
  <2> QED
    BY <2>2, <2>3
<1>12. ASSUME NEW p \in Proc, ReplaceIndex(p)
      PROVE  ArtifactInv'
  <2>1. RunRecord(p) \in Record /\ RunRecord(p).id = run[p]
    BY <1>12, RunRecordType DEF ReplaceIndex, Running, RunRecord
  <2>2. snapshot[p] \in Seq(Record)
    BY DEF TypeOK
  <2>3. Ids(NewEntries(p)) = Ids(snapshot[p]) \union {run[p]}
    BY <1>12, <2>1, <2>2, UniqueIdsAppend DEF StoreInv, ReplaceIndex, NewEntries
  <2>4. /\ stage'[p] = "announce" /\ stage[p] = "replace"
        /\ \A q \in Proc \ {p} : stage'[q] = stage[q]
        /\ index'.entries = NewEntries(p)
        /\ registered' = registered \union {run[p]}
    BY <1>12 DEF TypeOK, ReplaceIndex
  <2>5. UNCHANGED <<run, dirs, file, writing, history, snapshot>>
    BY <1>12 DEF ReplaceIndex
  <2>6. NamesPublished'
    BY <2>3, <2>4, <2>5 DEF NamesPublished
  <2>7. Published'
    BY <2>4, <2>5 DEF Published, Written, WrittenBy, Complete
  <2>8. OwnId' /\ Readable'
    BY <2>4, <2>5 DEF OwnId, Readable
  <2>9. Written'
    BY <2>4, <2>5 DEF Written, WrittenBy
  <2> QED
    BY <2>6, <2>7, <2>8, <2>9
<1>13. ASSUME NEW p \in Proc, Announce(p)
      PROVE  ArtifactInv'
  <2>1. ~writing[p]
    BY <1>13 DEF Announce, Written
  <2>2. OwnId' /\ Written' /\ Published' /\ NamesPublished'
    BY <1>13, <2>1, QuietStep, "exit0" \in Stage DEF Announce, Running
  <2>3. Readable'
    BY <1>13 DEF Announce, Readable
  <2> QED
    BY <2>2, <2>3
<1>14. ASSUME NEW p \in Proc, Fail(p)
      PROVE  ArtifactInv'
  <2>1. OwnId' /\ Written' /\ Published' /\ NamesPublished'
    BY <1>14, QuietStep, "exit1" \in Stage DEF TypeOK, Fail, Running
  <2>2. Readable'
    BY <1>14 DEF Fail, Readable
  <2> QED
    BY <2>1, <2>2
<1>15. ASSUME NEW p \in Proc, Crash(p)
      PROVE  ArtifactInv'
  <2>1. OwnId' /\ Written' /\ Published' /\ NamesPublished'
    BY <1>15, QuietStep, "crashed" \in Stage DEF TypeOK, Crash, Running
  <2>2. Readable'
    BY <1>15 DEF Crash, Readable
  <2> QED
    BY <2>1, <2>2
<1>16. ASSUME NEW id \in RunId, DeleteRunDir(id)
      PROVE  ArtifactInv'
  <2>1. /\ dirs' = dirs \ {id}
        /\ file'[id] = NoFiles
        /\ \A r \in RunId \ {id} : file'[r] = file[r]
    BY <1>16 DEF TypeOK, DeleteRunDir
  <2>2. UNCHANGED <<stage, run, writing, history, snapshot, index, registered>>
    BY <1>16 DEF DeleteRunDir
  <2>3. OwnId' /\ NamesPublished' /\ Readable'
    BY <2>1, <2>2 DEF OwnId, NamesPublished, Readable
  <2>4. Written'
    BY <2>1, <2>2 DEF TypeOK, Written, WrittenBy
  <2>5. Published'
    BY <2>1, <2>2 DEF TypeOK, Published, Complete
  <2> QED
    BY <2>3, <2>4, <2>5
<1>17. CASE UNCHANGED vars
  BY <1>17 DEF vars, OwnId, Written, WrittenBy, Published, Complete,
              NamesPublished, Readable
<1> QED
  BY <1>1, <1>2, <1>3, <1>4, <1>5, <1>6, <1>7, <1>8, <1>9, <1>10, <1>11, <1>12,
     <1>13, <1>14, <1>15, <1>16, <1>17
  DEF Next, Launch, Step

\* With distinct run_ids ArtifactInv holds in every state.
THEOREM ArtifactInvariant ==
  ASSUME DistinctIds
  PROVE  Spec => []ArtifactInv
<1>1. Init => ArtifactInv
  BY DEF Init, ArtifactInv, OwnId, Written, Published, NamesPublished, Readable, Ids,
         HoldsSnapshot
<1>2. TypeOK /\ StoreInv /\ ArtifactInv /\ [Next]_vars => ArtifactInv'
  BY ArtifactStep
<1> QED
  BY <1>1, <1>2, TypeCorrect, StoreInvariant, PTL DEF Spec

\* A reader of the index never meets an incomplete run, however runs overlap,
\* fail, crash or have their directories deleted (pipeline.py 154-187).
THEOREM CompleteRuns ==
  ASSUME DistinctIds
  PROVE  Spec => []IndexedRunsComplete
<1>1. ArtifactInv => IndexedRunsComplete
  BY DEF ArtifactInv, Published, NamesPublished, Complete, IndexedRunsComplete
<1> QED
  BY <1>1, ArtifactInvariant, PTL

\* Whoever writes meanwhile, the trends are never lost to a half-written file,
\* although the handler around compute_trends would hide it (pipeline.py 129-137).
THEOREM TrendsRead ==
  ASSUME DistinctIds
  PROVE  Spec => []TrendsReadWholeFiles
<1>1. ArtifactInv => TrendsReadWholeFiles
  BY DEF ArtifactInv, Readable, TrendsReadWholeFiles
<1> QED
  BY <1>1, ArtifactInvariant, PTL

-----------------------------------------------------------------------------
(* What a run leaves behind: exit code 0 means that it is in the index, and   *)
(* a complete manifest that all artifacts are complete.                       *)

\* A process that is about to return 0, or has, has registered its run and
\* left no temporary file.
Recorded ==
  \A p \in Proc : stage[p] \in {"announce", "exit0"} => run[p] \in registered /\ tmp[p] = "none"

\* Every step keeps Recorded: nothing but os.replace leads to "announce".
LEMMA RecordedStep == TypeOK /\ Recorded /\ [Next]_vars => Recorded'
<1> SUFFICES ASSUME TypeOK, Recorded, [Next]_vars
             PROVE  Recorded'
  OBVIOUS
<1> USE DEF TypeOK, Recorded, Running, TryStage, Artifact, store, disk, history, progress, Goto
<1>1. ASSUME NEW p \in Proc, NEW j \in Invocation, NEW id \in IdPool[p],
             Start(p, id, j) \/ StartRaises(p, id, j)
      PROVE  Recorded'
  BY <1>1 DEF Start, StartRaises, MayStart
<1>2. ASSUME NEW p \in Proc, Analyse(p) \/ ComputeTrends(p) \/ RenderLlmRaises(p) \/ OpenArtifact(p)
      PROVE  Recorded'
  BY <1>2, TrendsFrame DEF Analyse, RenderLlmRaises, OpenArtifact
<1>3. ASSUME NEW p \in Proc, NEW o \in {"unprompted"} \union Generated, RenderLlm(p, o)
      PROVE  Recorded'
  BY <1>3 DEF RenderLlm
<1>4. ASSUME NEW p \in Proc, CloseArtifact(p)
      PROVE  Recorded'
  <2>1. StageAfter(p, stage[p]) \notin {"announce", "exit0"}
    BY <1>4 DEF CloseArtifact, StageAfter
  <2> QED
    BY <1>4, <2>1 DEF CloseArtifact
<1>5. ASSUME NEW p \in Proc, RegisterRead(p) \/ MakeTmp(p) \/ DumpTmp(p)
      PROVE  Recorded'
  BY <1>5 DEF RegisterRead, MakeTmp, DumpTmp
<1>6. ASSUME NEW p \in Proc, ReplaceIndex(p) \/ Announce(p)
      PROVE  Recorded'
  BY <1>6 DEF ReplaceIndex, Announce
<1>7. ASSUME NEW p \in Proc, Fail(p)
      PROVE  Recorded'
  <2>1. PICK t \in TmpAfterError(p) : tmp' = [tmp EXCEPT ![p] = t]
    BY <1>7 DEF Fail
  <2> QED
    BY <1>7, <2>1 DEF Fail
<1>8. ASSUME NEW p \in Proc, Crash(p)
      PROVE  Recorded'
  BY <1>8 DEF Crash
<1>9. ASSUME NEW id \in RunId, DeleteRunDir(id)
      PROVE  Recorded'
  BY <1>9 DEF DeleteRunDir
<1>10. CASE UNCHANGED vars
  BY <1>10 DEF vars
<1> QED
  BY <1>1, <1>2, <1>3, <1>4, <1>5, <1>6, <1>7, <1>8, <1>9, <1>10 DEF Next, Launch, Step

\* Exit code 0 means that the run is in the index and its temporary file is
\* gone, when runs do not overlap (pipeline.py 176-197).
THEOREM SuccessRecorded ==
  ASSUME ~Overlap
  PROVE  Spec => []SuccessIsRecorded
<1>1. Init => Recorded
  BY DEF Init, Recorded
<1>2. Recorded /\ NoRunLost => SuccessIsRecorded
  BY DEF Recorded, NoRunLost, SuccessIsRecorded
<1> QED
  BY <1>1, <1>2, RecordedStep, TypeCorrect, SerialNoRunLost, PTL DEF Spec

-----------------------------------------------------------------------------
(***************************************************************************)
(* The manifest, when run_ids do not collide.                              *)
(***************************************************************************)

\* The stages of a run whose manifest is not complete yet.
Unsealed == {"analyse", "trends", "llm"} \union Artifact

\* What a complete manifest vouches for.
Sealed(id) ==
  file[id]["manifest"] = "whole"
    => /\ file[id]["findings"] = "whole" /\ file[id]["brief"] = "whole"
       /\ llmStatus[id] \in {"success", "fallback"} => file[id]["llm_response"] = "whole"

\* A run_id nobody has drawn has no files; a run that is still writing has no
\* complete manifest; before the manifest comes the answer, if there is one.
SealInv ==
  /\ \A id \in RunId : (\A q \in Proc : run[q] # id) => file[id] = NoFiles
  /\ \A p \in Proc : stage[p] \in Unsealed => file[run[p]]["manifest"] # "whole"
  /\ \A p \in Proc : stage[p] = "manifest" /\ llm[p] \in Reply /\ run[p] \in dirs
                       => file[run[p]]["llm_response"] = "whole"
  /\ \A id \in RunId : Sealed(id)

\* A step that touches no file keeps SealInv, if it moves its process to no
\* stage from which it has to write the manifest.
LEMMA SealQuiet ==
  ASSUME TypeOK, SealInv, NEW p \in Proc, NEW s \in Stage,
         stage' = [stage EXCEPT ![p] = s], UNCHANGED <<run, disk>>,
         \A q \in Proc \ {p} : llm'[q] = llm[q],
         s # "manifest", s \in Unsealed => stage[p] \in Unsealed
  PROVE  SealInv'
BY DEF SealInv, Sealed, TypeOK, disk

\* Every step keeps SealInv.
LEMMA SealStep ==
  ASSUME DistinctIds
  PROVE  TypeOK /\ ArtifactInv /\ SealInv /\ [Next]_vars => SealInv'
<1> SUFFICES ASSUME TypeOK, ArtifactInv, SealInv, [Next]_vars
             PROVE  SealInv'
  OBVIOUS
<1> USE DEF Unsealed, Running, Stage, TryStage, ExitStage, Artifact, store, disk, history, progress, Goto
<1>1. ASSUME NEW p \in Proc, NEW j \in Invocation, NEW id \in IdPool[p],
             Start(p, id, j) \/ StartRaises(p, id, j)
      PROVE  SealInv'
  <2>1. stage[p] = "idle" /\ UNCHANGED <<file, llm, llmStatus>>
    BY <1>1 DEF Start, StartRaises, MayStart
  <2>2. id \in RunId /\ \A q \in Proc : run[q] # id
    BY <2>1, FreshId DEF ArtifactInv
  <2>3. /\ run'[p] = id /\ stage'[p] \in {"analyse", "raised"}
        /\ \A q \in Proc \ {p} : run'[q] = run[q] /\ stage'[q] = stage[q]
        /\ dirs' \subseteq dirs \union {id}
    BY <1>1 DEF TypeOK, Start, StartRaises
  <2>4. file[id] = NoFiles /\ file[id]["manifest"] # "whole"
    BY <2>2 DEF SealInv, NoFiles
  <2>5. run[p] = Nil /\ Nil \notin RunId
    BY <2>1, PipelineAssumption DEF ArtifactInv, OwnId
  <2>6. \A i \in RunId : (\A q \in Proc : run'[q] # i) => \A q \in Proc : run[q] # i
    BY <2>3, <2>5
  <2> QED
    BY <2>1, <2>2, <2>3, <2>4, <2>6 DEF SealInv, Sealed
<1>2. ASSUME NEW p \in Proc, Analyse(p)
      PROVE  SealInv'
  <2>1. PICK s \in {"findings", "trends"} : stage' = [stage EXCEPT ![p] = s]
    BY <1>2 DEF Analyse
  <2> QED
    BY <1>2, <2>1, SealQuiet, s \in Stage DEF Analyse
<1>3. ASSUME NEW p \in Proc, ComputeTrends(p)
      PROVE  SealInv'
  <2>1. PICK s \in {"trends", "llm"} : stage' = [stage EXCEPT ![p] = s]
    BY <1>3, TrendsFrame DEF TypeOK
  <2> QED
    BY <1>3, <2>1, TrendsFrame, SealQuiet, s \in Stage
<1>4. ASSUME NEW p \in Proc, NEW o \in {"unprompted"} \union Generated, RenderLlm(p, o)
      PROVE  SealInv'
  <2>1. \A q \in Proc \ {p} : llm'[q] = llm[q]
    BY <1>4 DEF RenderLlm, TypeOK
  <2> QED
    BY <1>4, <2>1, SealQuiet, "findings" \in Stage DEF RenderLlm
<1>5. ASSUME NEW p \in Proc, RenderLlmRaises(p)
      PROVE  SealInv'
  <2>1. \A q \in Proc \ {p} : llm'[q] = llm[q]
    BY <1>5 DEF RenderLlmRaises, TypeOK
  <2> QED
    BY <1>5, <2>1, SealQuiet, "exit1" \in Stage DEF RenderLlmRaises
<1>6. ASSUME NEW p \in Proc, OpenArtifact(p)
      PROVE  SealInv'
  <2>1. /\ run[p] \in RunId /\ run[p] \in dirs
        /\ \A q \in Proc \ {p} : run[q] # run[p]
    BY <1>6, WriterOwnsDir DEF OpenArtifact, ArtifactInv
  <2>2. /\ \A id \in RunId \ {run[p]} : file'[id] = file[id]
        /\ file'[run[p]][stage[p]] = "torn"
        /\ \A a \in Artifact \ {stage[p]} : file'[run[p]][a] = file[run[p]][a]
    BY <1>6, <2>1 DEF TypeOK, OpenArtifact
  <2>3. UNCHANGED <<stage, run, llm, dirs, llmStatus>>
    BY <1>6 DEF OpenArtifact
  <2>4. file[run[p]]["manifest"] # "whole" /\ file'[run[p]]["manifest"] # "whole"
    BY <1>6, <2>2 DEF OpenArtifact, SealInv
  <2>5. \A q \in Proc : stage[q] \in Unsealed => run[q] \in RunId
    BY DEF TypeOK
  <2>6. stage[p] = "manifest" => file'[run[p]]["llm_response"] = file[run[p]]["llm_response"]
    BY <2>2
  <2>7. \A id \in RunId : Sealed(id)'
    BY <2>2, <2>3, <2>4 DEF SealInv, Sealed
  <2> QED
    BY <2>1, <2>2, <2>3, <2>4, <2>5, <2>6, <2>7 DEF SealInv
<1>7. ASSUME NEW p \in Proc, CloseArtifact(p)
      PROVE  SealInv'
  <2>1. /\ run[p] \in RunId
        /\ \A q \in Proc \ {p} : run[q] # run[p]
    BY <1>7, WriterOwnsDir DEF CloseArtifact, ArtifactInv
  <2>2. /\ \A id \in RunId \ {run[p]} : file'[id] = file[id] /\ llmStatus'[id] = llmStatus[id]
        /\ file[run[p]][stage[p]] = "torn" => file'[run[p]][stage[p]] = "whole"
        /\ file[run[p]][stage[p]] # "torn" => file'[run[p]] = file[run[p]]
        /\ \A a \in Artifact \ {stage[p]} : file'[run[p]][a] = file[run[p]][a]
    BY <1>7, <2>1 DEF TypeOK, CloseArtifact
  <2>3. /\ stage[p] \in Artifact /\ writing[p]
        /\ stage'[p] = StageAfter(p, stage[p])
        /\ \A q \in Proc \ {p} : stage'[q] = stage[q]
        /\ UNCHANGED <<run, llm, dirs>>
    BY <1>7 DEF TypeOK, CloseArtifact
  <2>4. file[run[p]]["manifest"] # "whole"
    BY <2>3 DEF SealInv
  <2>5. \A q \in Proc : stage[q] \in Unsealed => run[q] \in RunId
    BY DEF TypeOK
  <2>6. run[p] \notin dirs => file'[run[p]] = NoFiles
    BY <2>1, <2>2, <2>3 DEF ArtifactInv, Readable, NoFiles
  <2>7. CASE stage[p] = "manifest"
    <3>1. stage'[p] = "register"
      BY <2>3, <2>7 DEF StageAfter
    <3>2. llmStatus'[run[p]] \in {"success", "fallback"} => llm[p] \in Reply
      <4>1. llmStatus'[run[p]] = ResolveLlmStatus(p)
        BY <1>7, <2>1, <2>7 DEF CloseArtifact, TypeOK
      <4> QED
        BY <4>1 DEF ResolveLlmStatus
    <3>3. Sealed(run[p])'
      BY <2>1, <2>2, <2>3, <2>6, <2>7, <3>2
      DEF Sealed, SealInv, ArtifactInv, Written, WrittenBy, NoFiles
    <3> QED
      BY <2>1, <2>2, <2>3, <2>5, <3>1, <3>3 DEF SealInv, Sealed
  <2>8. CASE stage[p] # "manifest"
    <3>1. file'[run[p]]["manifest"] # "whole"
      BY <2>2, <2>3, <2>4, <2>8
    <3>2. stage'[p] = "manifest" /\ llm[p] \in Reply => stage[p] = "llm_response"
      BY <2>3, <2>8 DEF StageAfter, WritesLlmResponse, Generated
    <3>3. stage'[p] = "manifest" /\ llm[p] \in Reply /\ run[p] \in dirs
            => file'[run[p]]["llm_response"] = "whole"
      BY <2>2, <2>3, <3>2 DEF ArtifactInv, Written, WrittenBy
    <3> QED
      BY <2>1, <2>2, <2>3, <2>5, <3>1, <3>3 DEF SealInv, Sealed
  <2> QED
    BY <2>7, <2>8
<1>8. ASSUME NEW p \in Proc, RegisterRead(p) \/ MakeTmp(p) \/ DumpTmp(p) \/ ReplaceIndex(p)
                               \/ Announce(p) \/ Fail(p) \/ Crash(p)
      PROVE  SealInv'
  <2>1. PICK s \in {"mkstemp", "dump", "replace", "announce", "exit0", "exit1", "crashed"} :
               stage' = [stage EXCEPT ![p] = s]
    BY <1>8 DEF RegisterRead, MakeTmp, DumpTmp, ReplaceIndex, Announce, Fail, Crash
  <2>2. UNCHANGED <<run, llm, disk>>
    BY <1>8 DEF RegisterRead, MakeTmp, DumpTmp, ReplaceIndex, Announce, Fail, Crash
  <2> QED
    BY <2>1, <2>2, SealQuiet, s \in Stage
<1>9. ASSUME NEW id \in RunId, DeleteRunDir(id)
      PROVE  SealInv'
  <2>1. /\ dirs' = dirs \ {id}
        /\ file'[id] = NoFiles
        /\ \A r \in RunId \ {id} : file'[r] = file[r]
        /\ UNCHANGED <<stage, run, llm, llmStatus>>
    BY <1>9 DEF TypeOK, DeleteRunDir
  <2>2. \A q \in Proc : stage[q] \in Unsealed => run[q] \in RunId
    BY DEF TypeOK
  <2> QED
    BY <2>1, <2>2 DEF SealInv, Sealed, NoFiles
<1>10. CASE UNCHANGED vars
  BY <1>10 DEF vars, SealInv, Sealed
<1> QED
  BY <1>1, <1>2, <1>3, <1>4, <1>5, <1>6, <1>7, <1>8, <1>9, <1>10 DEF Next, Launch, Step

\* A complete manifest vouches for every artifact it hashes, whatever overlaps,
\* fails or is deleted, when run_ids are distinct (export/write.py 83-137).
THEOREM ManifestVouches ==
  ASSUME DistinctIds
  PROVE  Spec => []ManifestComesLast
<1>1. Init => SealInv
  BY DEF Init, SealInv, Sealed, NoFiles, Unsealed, Artifact
<1>2. TypeOK /\ SealInv => ManifestComesLast
  BY DEF TypeOK, SealInv, Sealed, ManifestComesLast
<1> QED
  BY <1>1, <1>2, SealStep, TypeCorrect, ArtifactInvariant, PTL DEF Spec
=============================================================================
