------------------------------ MODULE CliProofs ------------------------------
(***************************************************************************)
(* Proofs about Cli for any number of commands, channels, files and weeks: *)
(* the pipeline inside the commands is Pipeline, so its theorems carry     *)
(* over, and what a command delivers and alerts about.                     *)
(***************************************************************************)
EXTENDS Cli, PipelineProofs

\* What a command has found out by the time it uses it.
CommandInv ==
  /\ \A p \in Proc : phase[p] = "find" => opts[p] \in Options
  /\ \A p \in Proc : phase[p] \in {"check", "listing", "execute"} => request[p] \in Invocation
  /\ \A c \in Client : phase[c] \in {"warn", "load", "load_llm", "send"} => picked[c] \in RunId
  /\ watch \in Seq(Input)

\* A job of the automatic mode is an invocation (scheduler/auto.py, cli.py 133-157).
LEMMA AutoJob ==
  ASSUME NEW f \in Input, NEW m \in LlmMode
  PROVE  [input |-> f, target |-> 0, mode |-> m] \in Invocation
<1>1. [input |-> f, target |-> 0, mode |-> m] \in [input : {f}, target : {0} \union Weeks[f], mode : LlmMode]
  OBVIOUS
<1> QED
  BY <1>1 DEF Invocation

\* Every step of a command is a step of the pipeline or leaves it alone.
LEMMA PipelineStep == CommandInv /\ [CliNext]_cliVars => [Next]_vars
<1> SUFFICES ASSUME CommandInv, [CliNext]_cliVars
             PROVE  [Next]_vars
  OBVIOUS
<1>1. CASE Invoke
  BY <1>1 DEF Invoke, InvokeRun, InvokeAuto, InvokeDeliver
<1>2. ASSUME NEW p \in Proc, RunStep(p)
      PROVE  [Next]_vars
  <2>1. CASE CallExecute(p)
    <3>1. request[p] \in Invocation
      BY <2>1 DEF CallExecute, CommandInv
    <3>2. Launch(p)
      BY <2>1, <3>1 DEF CallExecute, Launch
    <3> QED
      BY <3>2 DEF Next
  <2>2. CASE Execute(p)
    BY <2>2 DEF Execute, Next
  <2>3. CASE FindRefused(p) \/ FindRaises(p) \/ FindNothing(p) \/ FindInput(p)
               \/ CheckProcessed(p) \/ CheckFails(p) \/ CheckElsewhere(p) \/ ListPrior(p)
    BY <2>3 DEF FindRefused, FindRaises, FindNothing, FindInput, CheckProcessed, CheckFails, CheckElsewhere,
                ListPrior
  <2>4. CASE CatchException(p) \/ ExecuteReturned(p) \/ PickRun(p) \/ PickNothing(p) \/ WarnFallback(p)
    BY <2>4 DEF CatchException, ExecuteReturned, PickRun, PickNothing, WarnFallback
  <2> QED
    BY <1>2, <2>1, <2>2, <2>3, <2>4 DEF RunStep
<1>3. ASSUME NEW c \in Client, DeliveryStep(c)
      PROVE  [Next]_vars
  BY <1>3 DEF DeliveryStep, LoadManifest, LoadLlmResponse, LoadFailed, SendOk, SendFailed, FinishDelivery
<1>4. ASSUME NEW c \in Client, Kill(c)
      PROVE  [Next]_vars
  BY <1>4 DEF Kill, Next
<1>5. ASSUME NEW id \in RunId, RemoveRunDir(id)
      PROVE  [Next]_vars
  BY <1>5 DEF RemoveRunDir, Next
<1>6. CASE (\E f \in Input : FileArrives(f)) \/ NextWeek
  BY <1>6 DEF FileArrives, NextWeek
<1>7. CASE UNCHANGED cliVars
  BY <1>7 DEF cliVars
<1> QED
  BY <1>1, <1>2, <1>3, <1>4, <1>5, <1>6, <1>7 DEF CliNext

\* Every variable of the commands keeps its type.
LEMMA CliTypeStep ==
  TypeOK /\ CliTypeOK /\ CommandInv /\ [CliNext]_cliVars => CliTypeOK' /\ CommandInv'
<1> SUFFICES ASSUME TypeOK, CliTypeOK, CommandInv, [CliNext]_cliVars
             PROVE  CliTypeOK' /\ CommandInv'
  OBVIOUS
<1> USE CliAssumption
<1> USE DEF CliTypeOK, CommandInv, Phase, command, delivery, channel, world, GoPhase, Client
<1>1. ASSUME NEW p \in Proc, NEW j \in Invocation, NEW d \in BOOLEAN, InvokeRun(p, j, d)
      PROVE  CliTypeOK' /\ CommandInv'
  <2>1. j \in Job /\ j.mode \in LlmMode
    BY InvocationType DEF Invocation
  <2>2. [auto |-> FALSE, deliver |-> d, mode |-> j.mode] \in Options
    BY <2>1 DEF Options
  <2>3. /\ opts' \in [Proc -> Options \union {Nil}]
        /\ request' \in [Proc -> Job \union {Nil}] /\ request'[p] = j
        /\ \A q \in Proc \ {p} : request'[q] = request[q] /\ opts'[q] = opts[q]
    BY <1>1, <2>1, <2>2 DEF InvokeRun
  <2>4. phase' \in [Client -> Phase] /\ phase'[p] = "listing"
        /\ \A c \in Client \ {p} : phase'[c] = phase[c]
    BY <1>1 DEF InvokeRun
  <2> QED
    BY <1>1, <2>3, <2>4 DEF InvokeRun, Watched
<1>2. ASSUME NEW p \in Proc, NEW o \in Options, InvokeAuto(p, o)
      PROVE  CliTypeOK' /\ CommandInv'
  BY <1>2 DEF InvokeAuto, Watched
<1>3. ASSUME NEW c \in Deliverer, NEW id \in RunId, InvokeDeliver(c, id)
      PROVE  CliTypeOK' /\ CommandInv'
  BY <1>3 DEF InvokeDeliver, Watched
<1>4. ASSUME NEW p \in Proc, FindRefused(p) \/ FindRaises(p) \/ ExecuteReturned(p) \/ PickNothing(p)
      PROVE  CliTypeOK' /\ CommandInv'
  BY <1>4 DEF FindRefused, FindRaises, ExecuteReturned, PickNothing, Watched
<1>5. ASSUME NEW p \in Proc, FindNothing(p)
      PROVE  CliTypeOK' /\ CommandInv'
  BY <1>5 DEF FindNothing, Alert, Watched
<1>6. ASSUME NEW p \in Proc, FindInput(p)
      PROVE  CliTypeOK' /\ CommandInv'
  <2>1. PICK f \in LatestInput :
          request' = [request EXCEPT ![p] = [input |-> f, target |-> 0, mode |-> opts[p].mode]]
    BY <1>6 DEF FindInput
  <2>2. f \in Input /\ opts[p].mode \in LlmMode
    BY <1>6 DEF FindInput, LatestInput, Options
  <2>3. [input |-> f, target |-> 0, mode |-> opts[p].mode] \in Invocation \intersect Job
    BY <2>2, AutoJob, InvocationType
  <2> QED
    BY <1>6, <2>1, <2>3 DEF FindInput, Watched
<1>7. ASSUME NEW p \in Proc, CheckProcessed(p) \/ CheckFails(p) \/ CheckElsewhere(p)
      PROVE  CliTypeOK' /\ CommandInv'
  <2>1. CASE CheckProcessed(p)
    BY <2>1 DEF CheckProcessed, Watched
  <2>2. CASE CheckFails(p) \/ CheckElsewhere(p)
    <3>1. PICK s \in {"done", "listing"} : phase[p] = "check" /\ phase' = [phase EXCEPT ![p] = s]
      BY <2>2 DEF CheckFails, CheckElsewhere
    <3>2. UNCHANGED <<command, delivery, channel, world>>
      BY <2>2 DEF CheckFails, CheckElsewhere
    <3> QED
      BY <3>1, <3>2 DEF Watched
  <2> QED
    BY <1>7, <2>1, <2>2
<1>8. ASSUME NEW p \in Proc, ListPrior(p)
      PROVE  CliTypeOK' /\ CommandInv'
  <2>1. PICK seen \in SUBSET RunId : prior' = [prior EXCEPT ![p] = seen]
    BY <1>8 DEF ListPrior, TypeOK
  <2> QED
    BY <1>8, <2>1 DEF ListPrior, Watched
<1>9. ASSUME NEW p \in Proc, CallExecute(p) \/ Execute(p)
      PROVE  CliTypeOK' /\ CommandInv'
  BY <1>9 DEF CallExecute, Execute, Watched
<1>10. ASSUME NEW p \in Proc, CatchException(p)
       PROVE  CliTypeOK' /\ CommandInv'
  <2>1. PICK id \in RunId \union {Nil} : Alert(p, "pipeline_error", id)
    BY <1>10 DEF CatchException, NewDirs, TypeOK
  <2> QED
    BY <1>10, <2>1 DEF CatchException, Alert, Watched
<1>11. ASSUME NEW p \in Proc, PickRun(p)
       PROVE  CliTypeOK' /\ CommandInv'
  <2>1. PICK id \in RunId : picked' = [picked EXCEPT ![p] = id]
    BY <1>11 DEF PickRun, NewDirs, TypeOK
  <2> QED
    BY <1>11, <2>1 DEF PickRun, Watched
<1>12. ASSUME NEW p \in Proc, WarnFallback(p)
       PROVE  CliTypeOK' /\ CommandInv'
  BY <1>12 DEF WarnFallback, Alert, Watched
<1>13. ASSUME NEW c \in Client, LoadManifest(c)
       PROVE  CliTypeOK' /\ CommandInv'
  <2>1. picked[c] \in RunId /\ file[picked[c]]["manifest"] = "whole"
    BY <1>13 DEF LoadManifest, Loadable
  <2>2. llmStatus[picked[c]] \in {"none", "off", "fallback", "success"}
    BY <2>1 DEF TypeOK
  <2> QED
    BY <1>13, <2>2 DEF LoadManifest, Watched
<1>14. ASSUME NEW c \in Client, LoadLlmResponse(c)
       PROVE  CliTypeOK' /\ CommandInv'
  <2>1. llmResult[picked[c]] \in {"none"} \union Reply
    BY <1>14 DEF LoadLlmResponse, TypeOK
  <2> QED
    BY <1>14, <2>1 DEF LoadLlmResponse, Watched
<1>15. ASSUME NEW c \in Client, LoadFailed(c) \/ FinishDelivery(c)
       PROVE  CliTypeOK' /\ CommandInv'
  <2>1. CASE LoadFailed(c)
    <3>1. verdict' \in [Client -> [Target -> {"none", "success", "failed"}]]
      BY <2>1 DEF LoadFailed
    <3> QED
      BY <2>1, <3>1 DEF LoadFailed, Watched
  <2>2. CASE FinishDelivery(c)
    BY <2>2 DEF FinishDelivery, Watched
  <2> QED
    BY <1>15, <2>1, <2>2
<1>16. ASSUME NEW c \in Client, NEW t \in Target, SendOk(c, t) \/ SendFailed(c, t)
       PROVE  CliTypeOK' /\ CommandInv'
  <2>1. Report(c, t) \in [by : Client, run : RunId, target : Target, card : {"narrative", "blank", "banner"}]
    <3>1. SituationText(t, effective[c]) \in {"narrative", "blank", "banner"}
      BY DEF SituationText
    <3> QED
      BY <1>16, <3>1 DEF SendOk, SendFailed, Turn, Report
  <2>2. posted' \in {posted, posted \union {Report(c, t)}}
    BY <1>16 DEF SendOk, SendFailed
  <2>3. PICK v \in {"success", "failed"} : verdict' = [verdict EXCEPT ![c][t] = v]
    BY <1>16 DEF SendOk, SendFailed
  <2>4. verdict' \in [Client -> [Target -> {"none", "success", "failed"}]]
    BY <2>3
  <2>5. UNCHANGED <<phase, command, picked, manifest, effective, alerts, world>>
    BY <1>16 DEF SendOk, SendFailed
  <2> QED
    BY <2>1, <2>2, <2>4, <2>5 DEF Watched
<1>17. ASSUME NEW c \in Client, Kill(c)
       PROVE  CliTypeOK' /\ CommandInv'
  BY <1>17 DEF Kill, Watched
<1>18. ASSUME NEW id \in RunId, RemoveRunDir(id)
       PROVE  CliTypeOK' /\ CommandInv'
  BY <1>18 DEF RemoveRunDir, Watched
<1>19. ASSUME NEW f \in Input, FileArrives(f)
       PROVE  CliTypeOK' /\ CommandInv'
  BY <1>19 DEF FileArrives, Watched
<1>20. CASE NextWeek
  BY <1>20 DEF NextWeek, Watched
<1>21. CASE UNCHANGED cliVars
  BY <1>21 DEF cliVars, Watched
<1> HIDE DEF CliTypeOK, CommandInv, Client
<1>22. CASE Invoke
  BY <1>1, <1>2, <1>3, <1>22 DEF Invoke
<1>23. ASSUME NEW p \in Proc, RunStep(p)
       PROVE  CliTypeOK' /\ CommandInv'
  BY <1>4, <1>5, <1>6, <1>7, <1>8, <1>9, <1>10, <1>11, <1>12, <1>23 DEF RunStep
<1>24. ASSUME NEW c \in Client, DeliveryStep(c)
       PROVE  CliTypeOK' /\ CommandInv'
  BY <1>13, <1>14, <1>15, <1>16, <1>24 DEF DeliveryStep
<1> QED
  BY <1>17, <1>18, <1>19, <1>20, <1>21, <1>22, <1>23, <1>24 DEF CliNext

\* The commands' variables always have their types, and never raise on a value
\* that is not there yet (cli.py 60-224, scheduler/auto.py, delivery/orchestrator.py).
THEOREM CliTypeCorrect == CliSpec => [](TypeOK /\ CliTypeOK /\ CommandInv)
<1>1. CliInit => Init /\ CliTypeOK /\ CommandInv
  BY CliAssumption
  DEF CliInit, CliTypeOK, CommandInv, Phase, Client, Watched
<1>2. Init => TypeOK
  BY PipelineAssumption
  DEF Init, TypeOK, Stage, TryStage, ExitStage, Running, Artifact, NoFiles
<1> QED
  BY <1>1, <1>2, PipelineStep, TypeStep, CliTypeStep, PTL DEF CliSpec

\* Whatever the commands and their caller do, the runs inside them are behaviours
\* of Pipeline, whose theorems therefore hold of every command (cli.py 90-113, 202-220).
THEOREM CliRunsPipeline == CliSpec => RunsPipeline
<1>1. CliInit => Init
  BY DEF CliInit
<1> QED
  BY <1>1, PipelineStep, CliTypeCorrect, PTL DEF CliSpec, RunsPipeline, Spec
=============================================================================
