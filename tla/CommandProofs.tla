---------------------------- MODULE CommandProofs ----------------------------
(***************************************************************************)
(* Proofs about what a command delivers and alerts about: its own run when *)
(* commands do not overlap, the truth about the LLM's answer always, and   *)
(* the current week once.                                                  *)
(***************************************************************************)
EXTENDS CliProofs

\* A command executes in its phase "execute" only, and delivers after exit 0.
StageFollowsPhase ==
  \A p \in Proc :
    /\ phase[p] \in {"idle", "find", "check", "listing"} => stage[p] = "idle"
    /\ Running(p) => phase[p] = "execute"
    /\ phase[p] \in {"pick", "warn", "load", "load_llm", "send"} => stage[p] = "exit0"

\* A process that has ended keeps its outcome and its run_id.
LEMMA ExitIsFinal ==
  ASSUME TypeOK, [Next]_vars, NEW p \in Proc, stage[p] \in ExitStage
  PROVE  UNCHANGED <<stage[p], run[p], job[p], week[p], llm[p]>>
<1> USE DEF TypeOK, ExitStage, TryStage, Artifact, Running, MayStart, Goto, history, progress, disk, store
<1>1. ASSUME NEW q \in Proc, Launch(q)
      PROVE  UNCHANGED <<stage[p], run[p], job[p], week[p], llm[p]>>
  BY <1>1 DEF Launch, Start, StartRaises
<1>2. ASSUME NEW q \in Proc, Analyse(q) \/ ComputeTrends(q) \/ RenderLlmRaises(q)
                \/ \E o \in {"unprompted"} \union Generated : RenderLlm(q, o)
      PROVE  UNCHANGED <<stage[p], run[p], job[p], week[p], llm[p]>>
  BY <1>2, TrendsFrame DEF Analyse, RenderLlmRaises, RenderLlm
<1>3. ASSUME NEW q \in Proc, OpenArtifact(q) \/ CloseArtifact(q)
      PROVE  UNCHANGED <<stage[p], run[p], job[p], week[p], llm[p]>>
  BY <1>3 DEF OpenArtifact, CloseArtifact
<1>4. ASSUME NEW q \in Proc, RegisterRead(q) \/ MakeTmp(q) \/ DumpTmp(q) \/ ReplaceIndex(q) \/ Announce(q)
      PROVE  UNCHANGED <<stage[p], run[p], job[p], week[p], llm[p]>>
  BY <1>4 DEF RegisterRead, MakeTmp, DumpTmp, ReplaceIndex, Announce
<1>5. ASSUME NEW q \in Proc, Fail(q) \/ Crash(q)
      PROVE  UNCHANGED <<stage[p], run[p], job[p], week[p], llm[p]>>
  BY <1>5 DEF Fail, Crash
<1>6. ASSUME NEW id \in RunId, DeleteRunDir(id)
      PROVE  UNCHANGED <<stage[p], run[p], job[p], week[p], llm[p]>>
  BY <1>6 DEF DeleteRunDir
<1> HIDE DEF TypeOK
<1> QED
  BY <1>1, <1>2, <1>3, <1>4, <1>5, <1>6 DEF Next, Step, vars

\* A step of a process moves that process only, and not back to "idle".
LEMMA StepMovesOne ==
  ASSUME TypeOK, NEW p \in Proc, Step(p) \/ Launch(p) \/ Crash(p)
  PROVE  /\ \A q \in Proc \ {p} :
              UNCHANGED <<stage[q], run[q], job[q], week[q], llm[q]>>
         /\ stage'[p] \in Stage \ {"idle"}
<1> USE DEF TypeOK, Stage, ExitStage, TryStage, Artifact, Running, MayStart, Goto, history, progress, disk, store
<1>1. CASE Launch(p)
  BY <1>1 DEF Launch, Start, StartRaises
<1>2. CASE Analyse(p) \/ ComputeTrends(p) \/ RenderLlmRaises(p)
             \/ \E o \in {"unprompted"} \union Generated : RenderLlm(p, o)
  BY <1>2, TrendsFrame DEF Analyse, RenderLlmRaises, RenderLlm
<1>3. CASE OpenArtifact(p)
  BY <1>3 DEF OpenArtifact
<1>4. CASE CloseArtifact(p)
  <2>1. StageAfter(p, stage[p]) \in TryStage
    BY <1>4, StageAfterType DEF CloseArtifact
  <2> QED
    BY <1>4, <2>1 DEF CloseArtifact
<1>5. CASE RegisterRead(p) \/ MakeTmp(p) \/ DumpTmp(p) \/ ReplaceIndex(p) \/ Announce(p)
  BY <1>5 DEF RegisterRead, MakeTmp, DumpTmp, ReplaceIndex, Announce
<1>6. CASE Fail(p) \/ Crash(p)
  BY <1>6 DEF Fail, Crash
<1> QED
  BY <1>1, <1>2, <1>3, <1>4, <1>5, <1>6 DEF Step

\* Every step keeps StageFollowsPhase.
LEMMA StageFollowsPhaseStep ==
  TypeOK /\ CliTypeOK /\ CommandInv /\ StageFollowsPhase /\ [CliNext]_cliVars
    => StageFollowsPhase'
<1> SUFFICES ASSUME TypeOK, CliTypeOK, CommandInv, StageFollowsPhase, [CliNext]_cliVars
             PROVE  StageFollowsPhase'
  OBVIOUS
<1>0. phase \in [Client -> Phase] /\ Proc \subseteq Client
  BY DEF CliTypeOK, Client
<1> USE DEF StageFollowsPhase, Running, TryStage, Artifact, GoPhase
<1>1. CASE Invoke
  <2>1. PICK c \in Client, s \in {"listing", "find", "load"} :
          /\ phase[c] = "idle" /\ phase' = [phase EXCEPT ![c] = s]
          /\ c \in Proc => s # "load"
    BY <1>1, CliAssumption
    DEF Invoke, InvokeRun, InvokeAuto, InvokeDeliver, Admitted, Client
  <2>2. stage' = stage
    BY <1>1 DEF Invoke, InvokeRun, InvokeAuto, InvokeDeliver, vars
  <2> QED
    BY <1>0, <2>1, <2>2
<1>2. ASSUME NEW p \in Proc, CallExecute(p) \/ Execute(p)
      PROVE  StageFollowsPhase'
  <2>1. Step(p) \/ Launch(p)
    BY <1>2 DEF CallExecute, Execute, Launch, CommandInv
  <2>2. phase[p] = "execute" /\ phase' = phase
    BY <1>2 DEF CallExecute, Execute
  <2>3. \A q \in Proc \ {p} : stage'[q] = stage[q]
    BY <2>1, StepMovesOne
  <2> QED
    BY <2>2, <2>3
<1>3. ASSUME NEW p \in Proc, FindRefused(p) \/ FindRaises(p) \/ FindNothing(p) \/ FindInput(p)
               \/ CheckProcessed(p) \/ CheckFails(p) \/ CheckElsewhere(p) \/ ListPrior(p)
      PROVE  StageFollowsPhase'
  BY <1>0, <1>3 DEF FindRefused, FindRaises, FindNothing, FindInput, CheckProcessed, CheckFails, CheckElsewhere, ListPrior, vars
<1>4. ASSUME NEW p \in Proc, CatchException(p) \/ ExecuteReturned(p)
      PROVE  StageFollowsPhase'
  BY <1>0, <1>4 DEF CatchException, ExecuteReturned, vars
<1>5. ASSUME NEW p \in Proc, PickRun(p) \/ PickNothing(p) \/ WarnFallback(p)
      PROVE  StageFollowsPhase'
  BY <1>0, <1>5 DEF PickRun, PickNothing, WarnFallback, vars
<1>6. ASSUME NEW c \in Client, DeliveryStep(c)
      PROVE  StageFollowsPhase'
  BY <1>0, <1>6
  DEF DeliveryStep, LoadManifest, LoadLlmResponse, LoadFailed, SendOk, SendFailed, Turn, FinishDelivery, vars
<1>7. ASSUME NEW c \in Client, Kill(c)
      PROVE  StageFollowsPhase'
  <2>1. CASE c \in Proc /\ Running(c)
    <3>1. Crash(c) /\ stage'[c] = "crashed" /\ \A q \in Proc \ {c} : stage'[q] = stage[q]
      BY <1>7, <2>1 DEF Kill, Crash, Goto, TypeOK
    <3> QED
      BY <1>0, <1>7, <3>1 DEF Kill
  <2>2. CASE ~(c \in Proc /\ Running(c))
    BY <1>0, <1>7, <2>2 DEF Kill, vars
  <2> QED
    BY <2>1, <2>2
<1>8. CASE \/ \E id \in RunId : RemoveRunDir(id)
           \/ \E f \in Input : FileArrives(f)
           \/ NextWeek
  BY <1>8 DEF RemoveRunDir, DeleteRunDir, FileArrives, NextWeek, vars
<1>9. CASE UNCHANGED cliVars
  BY <1>9 DEF cliVars, vars
<1> HIDE DEF StageFollowsPhase
<1> QED
  BY <1>1, <1>2, <1>3, <1>4, <1>5, <1>6, <1>7, <1>8, <1>9 DEF CliNext, RunStep

-----------------------------------------------------------------------------
(***************************************************************************)
(* Commands that do not overlap, with listings that do not fail.           *)
(***************************************************************************)

OneAtATime == \A c, d \in Client : Active(c) /\ Active(d) => c = d

\* The directories made since the listing are the command's own.
OwnDirs ==
  \A p \in Proc :
    /\ phase[p] = "execute" /\ stage[p] = "idle" => dirs \subseteq prior[p]
    /\ phase[p] \in {"execute", "pick"} /\ stage[p] # "idle" => NewDirs(p) \subseteq {run[p]}

\* What a command has picked, posted and alerted about is its own run.
OwnRun ==
  /\ \A p \in Proc : phase[p] \in {"warn", "load", "load_llm", "send"} => picked[p] = run[p]
  /\ \A r \in posted : r.by \in Proc => stage[r.by] = "exit0" /\ r.run = run[r.by]
  /\ \A a \in alerts :
       a.kind = "pipeline_error" => stage[a.by] = "raised" /\ a.run \in {run[a.by], Nil}

\* Commands are admitted one at a time.
LEMMA OneAtATimeStep ==
  ASSUME ~Overlap
  PROVE  CliTypeOK /\ OneAtATime /\ [CliNext]_cliVars => OneAtATime'
<1> SUFFICES ASSUME CliTypeOK, OneAtATime, [CliNext]_cliVars
             PROVE  OneAtATime'
  OBVIOUS
<1>0. phase \in [Client -> Phase] /\ Proc \subseteq Client /\ Deliverer \subseteq Client
  BY DEF CliTypeOK, Client
<1> USE DEF OneAtATime, Active, Ended, GoPhase
<1>1. CASE Invoke
  <2>1. PICK c \in Client, s \in {"listing", "find", "load"} :
          /\ phase' = [phase EXCEPT ![c] = s]
          /\ \A d \in Client : ~Active(d)
    BY <1>0, <1>1 DEF Invoke, InvokeRun, InvokeAuto, InvokeDeliver, Admitted
  <2> QED
    BY <1>0, <2>1
<1>2. ASSUME NEW p \in Proc, RunStep(p)
      PROVE  OneAtATime'
  <2>1. Active(p)
    BY <1>2 DEF RunStep, FindRefused, FindRaises, FindNothing, FindInput, CheckProcessed, CheckFails, CheckElsewhere, ListPrior,
                CallExecute, Execute, CatchException, ExecuteReturned, PickRun, PickNothing, WarnFallback
  <2>2. phase' = phase \/ \E s \in Phase : phase' = [phase EXCEPT ![p] = s]
    BY <1>0, <1>2 DEF RunStep, FindRefused, FindRaises, FindNothing, FindInput, CheckProcessed, CheckFails, CheckElsewhere, ListPrior,
                CallExecute, Execute, CatchException, ExecuteReturned, PickRun, PickNothing, WarnFallback, Phase
  <2> QED
    BY <1>0, <2>1, <2>2
<1>3. ASSUME NEW c \in Client, DeliveryStep(c) \/ Kill(c)
      PROVE  OneAtATime'
  <2>1. Active(c)
    BY <1>3 DEF DeliveryStep, LoadManifest, LoadLlmResponse, LoadFailed, SendOk, SendFailed, Turn,
                FinishDelivery, Kill
  <2>2. phase' = phase \/ \E s \in Phase : phase' = [phase EXCEPT ![c] = s]
    BY <1>3 DEF DeliveryStep, LoadManifest, LoadLlmResponse, LoadFailed, SendOk, SendFailed, Turn,
                FinishDelivery, Kill, Phase
  <2> QED
    BY <1>0, <2>1, <2>2
<1>4. CASE \/ \E id \in RunId : RemoveRunDir(id)
           \/ \E f \in Input : FileArrives(f)
           \/ NextWeek
  BY <1>4 DEF RemoveRunDir, FileArrives, NextWeek
<1>5. CASE UNCHANGED cliVars
  BY <1>5 DEF cliVars
<1> HIDE DEF OneAtATime
<1> QED
  BY <1>1, <1>2, <1>3, <1>4, <1>5 DEF CliNext

\* Only Start and StartRaises make a directory, the one of the run's own id.
LEMMA DirsStep ==
  ASSUME TypeOK, NEW p \in Proc, Step(p) \/ Launch(p) \/ Crash(p)
  PROVE  /\ dirs' \subseteq dirs \union {run'[p]}
         /\ stage[p] # "idle" => dirs' = dirs /\ run' = run
<1> USE DEF TypeOK, Artifact, Running, TryStage, MayStart, progress, disk
<1>1. CASE Launch(p)
  BY <1>1 DEF Launch, Start, StartRaises
<1>2. CASE Analyse(p) \/ ComputeTrends(p) \/ RenderLlmRaises(p)
             \/ \E o \in {"unprompted"} \union Generated : RenderLlm(p, o)
  BY <1>2, TrendsFrame DEF Analyse, RenderLlmRaises, RenderLlm
<1>3. CASE OpenArtifact(p) \/ CloseArtifact(p) \/ RegisterRead(p) \/ MakeTmp(p) \/ DumpTmp(p)
             \/ ReplaceIndex(p) \/ Announce(p) \/ Fail(p) \/ Crash(p)
  BY <1>3 DEF OpenArtifact, CloseArtifact, RegisterRead, MakeTmp, DumpTmp, ReplaceIndex, Announce,
              Fail, Crash
<1> QED
  BY <1>1, <1>2, <1>3 DEF Step

\* Nobody else makes a directory between a command's listing and its delivery.
LEMMA OwnDirsStep ==
  ASSUME ~Overlap, ~ListingFails
  PROVE  TypeOK /\ CliTypeOK /\ CommandInv /\ StageFollowsPhase /\ OneAtATime /\ OwnDirs
           /\ [CliNext]_cliVars => OwnDirs'
<1> SUFFICES ASSUME TypeOK, CliTypeOK, CommandInv, StageFollowsPhase, OneAtATime, OwnDirs,
                    [CliNext]_cliVars
             PROVE  OwnDirs'
  OBVIOUS
<1>0. phase \in [Client -> Phase] /\ Proc \subseteq Client /\ prior \in [Proc -> SUBSET RunId]
  BY DEF CliTypeOK, Client
<1> USE DEF OwnDirs, NewDirs, GoPhase
<1>1. CASE Invoke
  <2>1. PICK c \in Client, s \in {"listing", "find", "load"} : phase' = [phase EXCEPT ![c] = s]
    BY <1>0, <1>1 DEF Invoke, InvokeRun, InvokeAuto, InvokeDeliver, Client
  <2>2. UNCHANGED <<stage, run, dirs, prior>>
    BY <1>1 DEF Invoke, InvokeRun, InvokeAuto, InvokeDeliver, vars, progress, disk, command
  <2> QED
    BY <1>0, <2>1, <2>2
<1>2. ASSUME NEW p \in Proc, CallExecute(p) \/ Execute(p)
      PROVE  OwnDirs'
  <2>1. Step(p) \/ Launch(p)
    BY <1>2 DEF CallExecute, Execute, Launch, CommandInv
  <2>2. phase[p] = "execute" /\ UNCHANGED <<phase, prior>>
    BY <1>2 DEF CallExecute, Execute, command
  <2>3. \A q \in Proc \ {p} : phase[q] \notin {"execute", "pick"}
    BY <1>0, <2>2 DEF OneAtATime, Active, Ended
  <2>4. stage'[p] # "idle"
    BY <2>1, StepMovesOne
  <2>5. dirs' \ prior[p] \subseteq {run'[p]}
    BY <2>1, <2>2, DirsStep
  <2> QED
    BY <2>2, <2>3, <2>4, <2>5
<1>3. ASSUME NEW p \in Proc, ListPrior(p)
      PROVE  OwnDirs'
  <2>1. /\ prior' = [prior EXCEPT ![p] = dirs]
        /\ phase' = [phase EXCEPT ![p] = "execute"]
        /\ UNCHANGED <<stage, run, dirs>>
    BY <1>3 DEF ListPrior, vars, progress, disk
  <2>2. stage[p] = "idle"
    BY <1>3 DEF ListPrior, StageFollowsPhase
  <2> QED
    BY <1>0, <2>1, <2>2
<1>4. ASSUME NEW p \in Proc,
             \/ FindRefused(p) \/ FindRaises(p) \/ FindNothing(p) \/ FindInput(p)
             \/ CheckProcessed(p) \/ CheckFails(p) \/ CheckElsewhere(p) \/ CatchException(p) \/ ExecuteReturned(p)
             \/ PickRun(p) \/ PickNothing(p) \/ WarnFallback(p)
      PROVE  OwnDirs'
  <2>1. PICK s \in Phase \ {"execute"} : phase' = [phase EXCEPT ![p] = s] /\ (s = "pick" => phase[p] = "execute")
    BY <1>4 DEF FindRefused, FindRaises, FindNothing, FindInput, CheckProcessed, CheckFails, CheckElsewhere, CatchException,
                ExecuteReturned, PickRun, PickNothing, WarnFallback, Phase
  <2>2. UNCHANGED <<stage, run, dirs, prior>>
    BY <1>4 DEF FindRefused, FindRaises, FindNothing, FindInput, CheckProcessed, CheckFails, CheckElsewhere, CatchException,
                ExecuteReturned, PickRun, PickNothing, WarnFallback, vars, progress, disk, command
  <2> QED
    BY <1>0, <2>1, <2>2
<1>5. ASSUME NEW c \in Client, DeliveryStep(c)
      PROVE  OwnDirs'
  <2>1. phase' = phase \/ \E s \in {"load_llm", "send", "done"} : phase' = [phase EXCEPT ![c] = s]
    BY <1>5 DEF DeliveryStep, LoadManifest, LoadLlmResponse, LoadFailed, SendOk, SendFailed, Turn,
                FinishDelivery
  <2>2. UNCHANGED <<stage, run, dirs, prior>>
    BY <1>5 DEF DeliveryStep, LoadManifest, LoadLlmResponse, LoadFailed, SendOk, SendFailed, Turn,
                FinishDelivery, vars, progress, disk, command
  <2> QED
    BY <1>0, <2>1, <2>2
<1>6. ASSUME NEW c \in Client, Kill(c)
      PROVE  OwnDirs'
  <2>1. phase' = [phase EXCEPT ![c] = "killed"] /\ UNCHANGED prior
    BY <1>6 DEF Kill, command
  <2>2. UNCHANGED <<run, dirs>> /\ \A q \in Proc \ {c} : stage'[q] = stage[q]
    BY <1>6 DEF Kill, Crash, Goto, vars, progress, disk, TypeOK
  <2> QED
    BY <1>0, <2>1, <2>2
<1>7. CASE \/ \E id \in RunId : RemoveRunDir(id)
           \/ \E f \in Input : FileArrives(f)
           \/ NextWeek
  <2>1. UNCHANGED <<stage, run, phase, prior>> /\ dirs' \subseteq dirs
    BY <1>7 DEF RemoveRunDir, DeleteRunDir, FileArrives, NextWeek, vars, progress, disk, command
  <2> QED
    BY <2>1
<1>8. CASE UNCHANGED cliVars
  BY <1>8 DEF cliVars, vars, progress, disk, command
<1> HIDE DEF OwnDirs
<1> QED
  BY <1>1, <1>2, <1>3, <1>4, <1>5, <1>6, <1>7, <1>8 DEF CliNext, RunStep

\* A command picks, posts and alerts about its own run.
LEMMA OwnRunStep ==
  TypeOK /\ CliTypeOK /\ CommandInv /\ StageFollowsPhase /\ OwnDirs /\ OwnRun /\ [CliNext]_cliVars
    => OwnRun'
<1> SUFFICES ASSUME TypeOK, CliTypeOK, CommandInv, StageFollowsPhase, OwnDirs, OwnRun,
                    [CliNext]_cliVars
             PROVE  OwnRun'
  OBVIOUS
<1>0. /\ phase \in [Client -> Phase] /\ Proc \subseteq Client /\ Proc \intersect Deliverer = {}
      /\ picked \in [Client -> RunId \union {Nil}]
      /\ \A r \in posted : r.by \in Client
      /\ \A a \in alerts : a.by \in Proc
  BY CliAssumption DEF CliTypeOK, Client
<1>a. ASSUME NEW p \in Proc, stage[p] \in {"exit0", "raised"}
      PROVE  stage'[p] = stage[p] /\ run'[p] = run[p]
  BY <1>a, PipelineStep, ExitIsFinal DEF ExitStage
<1> USE DEF OwnRun, GoPhase
<1>1. CASE Invoke
  <2>1. PICK c \in Client, s \in {"listing", "find", "load"} :
          /\ phase' = [phase EXCEPT ![c] = s]
          /\ s = "load" => c \notin Proc
          /\ \A d \in Client \ {c} : picked'[d] = picked[d]
    BY <1>0, <1>1 DEF Invoke, InvokeRun, InvokeAuto, InvokeDeliver, Client, delivery
  <2>2. UNCHANGED <<stage, run, posted, alerts>>
    BY <1>1 DEF Invoke, InvokeRun, InvokeAuto, InvokeDeliver, vars, progress, channel
  <2> QED
    BY <1>0, <2>1, <2>2
<1>2. ASSUME NEW p \in Proc, CallExecute(p) \/ Execute(p)
      PROVE  OwnRun'
  <2>1. UNCHANGED <<phase, picked, posted, alerts>>
    BY <1>2 DEF CallExecute, Execute, delivery, channel
  <2>2. \A q \in Proc : phase[q] \in {"warn", "load", "load_llm", "send"} => stage[q] = "exit0"
    BY DEF StageFollowsPhase
  <2> QED
    BY <1>0, <1>a, <2>1, <2>2
<1>3. ASSUME NEW p \in Proc,
             \/ FindRefused(p) \/ FindRaises(p) \/ FindInput(p) \/ CheckProcessed(p) \/ CheckFails(p) \/ CheckElsewhere(p)
             \/ ListPrior(p) \/ ExecuteReturned(p) \/ PickNothing(p)
      PROVE  OwnRun'
  <2>1. PICK s \in {"done", "check", "listing", "execute", "pick"} : phase' = [phase EXCEPT ![p] = s]
    BY <1>3 DEF FindRefused, FindRaises, FindInput, CheckProcessed, CheckFails, CheckElsewhere, ListPrior, ExecuteReturned, PickNothing
  <2>2. UNCHANGED <<stage, run, picked, posted, alerts>>
    BY <1>3 DEF FindRefused, FindRaises, FindInput, CheckProcessed, CheckFails, CheckElsewhere, ListPrior, ExecuteReturned,
                PickNothing, vars, progress, delivery, channel
  <2> QED
    BY <1>0, <2>1, <2>2
<1>4. ASSUME NEW p \in Proc, FindNothing(p) \/ WarnFallback(p)
      PROVE  OwnRun'
  <2>1. PICK s \in {"done", "load"} : phase' = [phase EXCEPT ![p] = s] /\ (s = "load" => phase[p] = "warn")
    BY <1>4 DEF FindNothing, WarnFallback
  <2>2. UNCHANGED <<stage, run, picked, posted>>
    BY <1>4 DEF FindNothing, WarnFallback, vars, progress, delivery
  <2>3. \A a \in alerts' : a \in alerts \/ a.kind # "pipeline_error"
    BY <1>4 DEF FindNothing, WarnFallback, Alert
  <2> QED
    BY <1>0, <2>1, <2>2, <2>3
<1>5. ASSUME NEW p \in Proc, CatchException(p)
      PROVE  OwnRun'
  <2>1. stage[p] = "raised" /\ phase[p] = "execute" /\ phase' = [phase EXCEPT ![p] = "done"]
    BY <1>5 DEF CatchException
  <2>2. PICK id \in {run[p], Nil} : alerts' = alerts \union {[by |-> p, kind |-> "pipeline_error", run |-> id]}
    BY <1>5, <2>1 DEF CatchException, Alert, OwnDirs
  <2>3. UNCHANGED <<stage, run, picked, posted>>
    BY <1>5 DEF CatchException, vars, progress, delivery
  <2> QED
    BY <1>0, <2>1, <2>2, <2>3
<1>6. ASSUME NEW p \in Proc, PickRun(p)
      PROVE  OwnRun'
  <2>1. phase[p] = "pick" /\ stage[p] # "idle"
    BY <1>6 DEF PickRun, StageFollowsPhase
  <2>2. phase' = [phase EXCEPT ![p] = "warn"] /\ picked' = [picked EXCEPT ![p] = run[p]]
    BY <1>6, <2>1 DEF PickRun, OwnDirs
  <2>3. UNCHANGED <<stage, run, posted, alerts>>
    BY <1>6 DEF PickRun, vars, progress, channel
  <2> QED
    BY <1>0, <2>2, <2>3
<1>7. ASSUME NEW c \in Client, LoadManifest(c) \/ LoadLlmResponse(c) \/ LoadFailed(c) \/ FinishDelivery(c)
      PROVE  OwnRun'
  <2>1. PICK s \in {"load_llm", "send", "done"} : phase' = [phase EXCEPT ![c] = s] /\ (s # "done" => phase[c] \in {"load", "load_llm"})
    BY <1>7 DEF LoadManifest, LoadLlmResponse, LoadFailed, FinishDelivery
  <2>2. UNCHANGED <<stage, run, picked, posted, alerts>>
    BY <1>7 DEF LoadManifest, LoadLlmResponse, LoadFailed, FinishDelivery, vars, progress, delivery, channel
  <2> QED
    BY <1>0, <2>1, <2>2
<1>8. ASSUME NEW c \in Client, NEW t \in Target, SendOk(c, t) \/ SendFailed(c, t)
      PROVE  OwnRun'
  <2>1. posted' \in {posted, posted \union {Report(c, t)}} /\ phase[c] = "send"
    BY <1>8 DEF SendOk, SendFailed, Turn
  <2>2. Report(c, t).by = c /\ Report(c, t).run = picked[c]
    BY DEF Report
  <2>3. c \in Proc => stage[c] = "exit0" /\ picked[c] = run[c]
    BY <2>1 DEF StageFollowsPhase
  <2>4. UNCHANGED <<stage, run, phase, picked, alerts>>
    BY <1>8 DEF SendOk, SendFailed, Turn, vars, progress
  <2> QED
    BY <1>0, <2>1, <2>2, <2>3, <2>4
<1>9. ASSUME NEW c \in Client, Kill(c)
      PROVE  OwnRun'
  <2>1. phase' = [phase EXCEPT ![c] = "killed"] /\ UNCHANGED <<picked, posted, alerts>>
    BY <1>9 DEF Kill, delivery, channel
  <2>2. \A q \in Proc : run'[q] = run[q]
    BY <1>9 DEF Kill, Crash, vars, progress
  <2> QED
    BY <1>0, <1>a, <2>1, <2>2
<1>10. CASE \/ \E id \in RunId : RemoveRunDir(id)
            \/ \E f \in Input : FileArrives(f)
            \/ NextWeek
  BY <1>10 DEF RemoveRunDir, DeleteRunDir, FileArrives, NextWeek, vars, progress, delivery, channel
<1>11. CASE UNCHANGED cliVars
  BY <1>11 DEF cliVars, vars, progress, delivery, channel
<1> HIDE DEF OwnRun
<1> QED
  BY <1>1, <1>2, <1>3, <1>4, <1>5, <1>6, <1>7, <1>8, <1>9, <1>10, <1>11
  DEF CliNext, RunStep, DeliveryStep

\* Everything a command knows about its own run, when commands do not overlap.
LEMMA OwnRunInvariant ==
  ASSUME ~Overlap, ~ListingFails
  PROVE  CliSpec => [](StageFollowsPhase /\ OneAtATime /\ OwnDirs /\ OwnRun)
<1>1. CliInit => StageFollowsPhase /\ OneAtATime /\ OwnDirs /\ OwnRun
  BY DEF CliInit, Init, StageFollowsPhase, OneAtATime, OwnDirs, OwnRun, Client, Active, Running, TryStage,
         Artifact
<1> QED
  BY <1>1, StageFollowsPhaseStep, OneAtATimeStep, OwnDirsStep, OwnRunStep, CliTypeCorrect, PTL
  DEF CliSpec

\* `run --deliver` posts the run it has made and no other, and that run is in
\* the index, when commands do not overlap and listings succeed (cli.py 92-94, 264-275).
THEOREM DeliversItsOwnRun ==
  ASSUME ~Overlap, ~ListingFails
  PROVE  CliSpec => []DeliversOwnRun
<1>1. CliSpec => []SuccessIsRecorded
  BY CliRunsPipeline, SuccessRecorded, PTL DEF RunsPipeline
<1>2. CliTypeOK /\ OwnRun /\ SuccessIsRecorded => DeliversOwnRun
  BY DEF OwnRun, SuccessIsRecorded, DeliversOwnRun
<1> QED
  BY <1>1, <1>2, OwnRunInvariant, CliTypeCorrect, PTL

\* The pipeline error alert names the run that failed, or none, when commands
\* do not overlap and listings succeed (cli.py 107, 223-230).
THEOREM AlertsNameOwnRun ==
  ASSUME ~Overlap, ~ListingFails
  PROVE  CliSpec => []AlertNamesOwnRun
<1>1. OwnRun => AlertNamesOwnRun
  BY DEF OwnRun, AlertNamesOwnRun
<1> QED
  BY <1>1, OwnRunInvariant, PTL

-----------------------------------------------------------------------------
(***************************************************************************)
(* The card, for commands that overlap freely.                             *)
(***************************************************************************)

\* A run_id that was drawn, and whose manifest is complete or gone for good.
Settled(id) ==
  /\ \E p \in Proc : run[p] = id
  /\ id \in dirs => file[id]["manifest"] = "whole"

\* The response has been written when the manifest's turn comes, and a
\* complete manifest tells its status truly.
ManifestTruth ==
  \A p \in Proc :
    /\ stage[p] = "manifest" /\ llm[p] \in Reply => llmResult[run[p]] = llm[p]
    /\ run[p] \in RunId /\ file[run[p]]["manifest"] = "whole"
         => /\ llmStatus[run[p]] = ResolveLlmStatus(p)
            /\ llm[p] \in Reply => llmResult[run[p]] = llm[p]

\* The result a delivery of a finished run works with.
Effective(id) == IF llmStatus[id] = "success" THEN llmResult[id] ELSE "none"

\* What an artifact step leaves of the other files and directories.
LEMMA ArtifactFrame ==
  ASSUME TypeOK, NEW p \in Proc, OpenArtifact(p) \/ CloseArtifact(p), run[p] \in RunId
  PROVE  /\ \A id \in RunId \ {run[p]} :
              file'[id] = file[id] /\ UNCHANGED <<llmStatus[id], llmResult[id]>>
         /\ \A a \in Artifact \ {stage[p]} : file'[run[p]][a] = file[run[p]][a]
         /\ stage[p] # "manifest" => llmStatus'[run[p]] = llmStatus[run[p]]
         /\ UNCHANGED <<run, llm, dirs>>
BY DEF TypeOK, OpenArtifact, CloseArtifact, progress, Artifact

\* Once its manifest is complete a run is not written any more.
LEMMA SettledStep ==
  ASSUME DistinctIds, TypeOK, ArtifactInv, SealInv, [Next]_vars, NEW id \in RunId, Settled(id)
  PROVE  Settled(id)' /\ (id \in dirs' => id \in dirs /\ UNCHANGED <<llmStatus[id], llmResult[id]>>)
<1> USE DEF Settled, progress, disk, store
<1>1. ASSUME NEW p \in Proc, NEW j \in Invocation, NEW i \in IdPool[p],
             Start(p, i, j) \/ StartRaises(p, i, j)
      PROVE  Settled(id)' /\ (id \in dirs' => id \in dirs /\ UNCHANGED <<llmStatus[id], llmResult[id]>>)
  <2>1. stage[p] = "idle" /\ dirs' \subseteq dirs \union {i} /\ UNCHANGED <<file, llmStatus, llmResult>>
        /\ run' = [run EXCEPT ![p] = i]
    BY <1>1 DEF Start, StartRaises, MayStart
  <2>2. i # id
    BY <2>1, FreshId DEF ArtifactInv
  <2>3. run[p] # id
    BY <2>1, PipelineAssumption DEF ArtifactInv, OwnId
  <2> QED
    BY <2>1, <2>2, <2>3 DEF TypeOK
<1>2. ASSUME NEW p \in Proc, OpenArtifact(p) \/ CloseArtifact(p)
      PROVE  Settled(id)' /\ (id \in dirs' => id \in dirs /\ UNCHANGED <<llmStatus[id], llmResult[id]>>)
  <2>1. stage[p] \in Artifact /\ run[p] \in RunId
    BY <1>2 DEF OpenArtifact, CloseArtifact, TypeOK, Running, TryStage
  <2>2. id \in dirs => run[p] # id
    BY <2>1 DEF SealInv, Unsealed
  <2> QED
    BY <1>2, <2>1, <2>2, ArtifactFrame
<1>3. ASSUME NEW p \in Proc,
             \/ Analyse(p) \/ ComputeTrends(p) \/ RenderLlmRaises(p)
             \/ \E o \in {"unprompted"} \union Generated : RenderLlm(p, o)
             \/ RegisterRead(p) \/ MakeTmp(p) \/ DumpTmp(p) \/ ReplaceIndex(p) \/ Announce(p)
             \/ Fail(p) \/ Crash(p)
      PROVE  Settled(id)' /\ (id \in dirs' => id \in dirs /\ UNCHANGED <<llmStatus[id], llmResult[id]>>)
  BY <1>3, TrendsFrame DEF Analyse, RenderLlmRaises, RenderLlm, RegisterRead, MakeTmp, DumpTmp,
              ReplaceIndex, Announce, Fail, Crash
<1>4. ASSUME NEW i \in RunId, DeleteRunDir(i)
      PROVE  Settled(id)' /\ (id \in dirs' => id \in dirs /\ UNCHANGED <<llmStatus[id], llmResult[id]>>)
  BY <1>4 DEF DeleteRunDir, TypeOK
<1>5. CASE UNCHANGED vars
  BY <1>5 DEF vars
<1> HIDE DEF Settled
<1> QED
  BY <1>1, <1>2, <1>3, <1>4, <1>5 DEF Next, Launch, Step

\* What a process has told of its run, when nothing of it changes.
LEMMA ManifestTruthQuiet ==
  ASSUME ManifestTruth, NEW p \in Proc, run[p] \in RunId,
         UNCHANGED <<run[p], llm[p], llmStatus[run[p]], llmResult[run[p]]>>,
         stage'[p] = "manifest" => stage[p] = "manifest",
         file'[run[p]]["manifest"] = "whole" => file[run[p]]["manifest"] = "whole"
  PROVE  /\ stage'[p] = "manifest" /\ llm'[p] \in Reply => llmResult'[run'[p]] = llm'[p]
         /\ run'[p] \in RunId /\ file'[run'[p]]["manifest"] = "whole"
              => /\ llmStatus'[run'[p]] = ResolveLlmStatus(p)'
                 /\ llm'[p] \in Reply => llmResult'[run'[p]] = llm'[p]
BY DEF ManifestTruth, ResolveLlmStatus

\* Every step keeps ManifestTruth.
LEMMA ManifestTruthStep ==
  ASSUME DistinctIds
  PROVE  TypeOK /\ ArtifactInv /\ SealInv /\ ManifestTruth /\ [Next]_vars => ManifestTruth'
<1> SUFFICES ASSUME TypeOK, ArtifactInv, SealInv, ManifestTruth, [Next]_vars
             PROVE  ManifestTruth'
  OBVIOUS
<1> DEFINE Truth(q) ==
      /\ stage[q] = "manifest" /\ llm[q] \in Reply => llmResult[run[q]] = llm[q]
      /\ run[q] \in RunId /\ file[run[q]]["manifest"] = "whole"
           => /\ llmStatus[run[q]] = ResolveLlmStatus(q)
              /\ llm[q] \in Reply => llmResult[run[q]] = llm[q]
<1>0. /\ ManifestTruth' <=> \A q \in Proc : Truth(q)'
      /\ \A q \in Proc : run[q] \notin RunId => run[q] = Nil /\ ~Running(q)
  BY DEF ManifestTruth, TypeOK
<1>a. ASSUME NEW q \in Proc, run[q] \in RunId,
             UNCHANGED <<run[q], llm[q], llmStatus[run[q]], llmResult[run[q]]>>,
             stage'[q] = "manifest" => stage[q] = "manifest",
             file'[run[q]]["manifest"] = "whole" => file[run[q]]["manifest"] = "whole"
      PROVE  Truth(q)'
  BY <1>a, ManifestTruthQuiet
<1>b. ASSUME NEW q \in Proc, run[q] \notin RunId, run'[q] = run[q], stage'[q] = stage[q]
      PROVE  Truth(q)'
  BY <1>0, <1>b, PipelineAssumption DEF Running, TryStage, Artifact
<1> HIDE DEF Truth
<1> USE DEF progress, disk, store
<1>1. ASSUME NEW p \in Proc, NEW j \in Invocation, NEW i \in IdPool[p],
             Start(p, i, j) \/ StartRaises(p, i, j)
      PROVE  ManifestTruth'
  <2>1. /\ stage[p] = "idle" /\ UNCHANGED <<file, llm, llmStatus, llmResult>>
        /\ run' = [run EXCEPT ![p] = i]
        /\ stage'[p] # "manifest" /\ \A q \in Proc \ {p} : stage'[q] = stage[q]
    BY <1>1 DEF Start, StartRaises, MayStart, Goto, TypeOK
  <2>2. file[i]["manifest"] # "whole"
    BY <2>1, FreshId DEF ArtifactInv, SealInv, NoFiles, Artifact
  <2>3. Truth(p)'
    BY <2>1, <2>2 DEF TypeOK, Truth
  <2>4. ASSUME NEW q \in Proc \ {p}
        PROVE  Truth(q)'
    BY <1>a, <1>b, <2>1, <2>4 DEF TypeOK
  <2> QED
    BY <1>0, <2>3, <2>4
<1>2. ASSUME NEW p \in Proc,
             \/ Analyse(p) \/ ComputeTrends(p) \/ RenderLlmRaises(p)
             \/ \E o \in {"unprompted"} \union Generated : RenderLlm(p, o)
      PROVE  ManifestTruth'
  <2>1. stage[p] \in Unsealed /\ UNCHANGED <<run, file, llmStatus, llmResult>>
    BY <1>2, TrendsFrame DEF Analyse, RenderLlmRaises, RenderLlm, Unsealed
  <2>2. file[run[p]]["manifest"] # "whole"
    BY <2>1 DEF SealInv
  <2>3. stage'[p] # "manifest" /\ \A q \in Proc \ {p} : UNCHANGED <<stage[q], llm[q]>>
    BY <1>2, TrendsFrame DEF Analyse, RenderLlmRaises, RenderLlm, Goto, TypeOK
  <2>4. Truth(p)'
    BY <2>1, <2>2, <2>3 DEF Truth
  <2>5. ASSUME NEW q \in Proc \ {p}
        PROVE  Truth(q)'
    BY <1>a, <1>b, <2>1, <2>3, <2>5
  <2> QED
    BY <1>0, <2>4, <2>5
<1>3. ASSUME NEW p \in Proc, OpenArtifact(p) \/ CloseArtifact(p)
      PROVE  ManifestTruth'
  <2>1. stage[p] \in Artifact
    BY <1>3 DEF OpenArtifact, CloseArtifact
  <2>2. run[p] \in RunId /\ \A q \in Proc \ {p} : run[q] # run[p]
    BY <2>1, WriterOwnsDir DEF ArtifactInv, TryStage
  <2>3. file[run[p]]["manifest"] # "whole"
    BY <2>1 DEF SealInv, Unsealed
  <2>4. \A q \in Proc \ {p} : stage'[q] = stage[q]
    BY <1>3 DEF OpenArtifact, CloseArtifact, Goto, TypeOK
  <2>5. ASSUME NEW q \in Proc \ {p}
        PROVE  Truth(q)'
    BY <1>3, <1>a, <1>b, <2>2, <2>4, <2>5, ArtifactFrame
  <2>6. CASE OpenArtifact(p)
    <3>1. file'[run[p]]["manifest"] # "whole"
      BY <2>1, <2>2, <2>3, <2>6 DEF OpenArtifact, TypeOK, Artifact
    <3>2. UNCHANGED <<stage, run, llm, llmResult>>
      BY <2>6 DEF OpenArtifact
    <3> QED
      BY <1>0, <2>5, <3>1, <3>2 DEF Truth, ManifestTruth
  <2>7. CASE CloseArtifact(p) /\ stage[p] = "manifest"
    <3>1. llmStatus'[run[p]] = ResolveLlmStatus(p) /\ UNCHANGED <<run, llm, llmResult>>
      BY <2>2, <2>7 DEF CloseArtifact, TypeOK
    <3>2. ResolveLlmStatus(p)' = ResolveLlmStatus(p)
      BY <3>1 DEF ResolveLlmStatus
    <3>3. llm[p] \in Reply => llmResult[run[p]] = llm[p]
      BY <2>7 DEF ManifestTruth
    <3> QED
      BY <1>0, <2>5, <3>1, <3>2, <3>3 DEF Truth
  <2>8. CASE CloseArtifact(p) /\ stage[p] # "manifest"
    <3>1. file'[run[p]]["manifest"] # "whole" /\ UNCHANGED <<run, llm>>
      BY <1>3, <2>1, <2>2, <2>3, <2>8, ArtifactFrame DEF Artifact
    <3>2. stage'[p] = StageAfter(p, stage[p])
      BY <2>8 DEF CloseArtifact, Goto, TypeOK
    <3>3. stage'[p] = "manifest" /\ llm[p] \in Reply => llmResult'[run[p]] = llm[p]
      BY <2>1, <2>2, <2>8, <3>2
      DEF CloseArtifact, StageAfter, WritesLlmResponse, Generated, LlmResult, TypeOK, Artifact
    <3> QED
      BY <1>0, <2>5, <3>1, <3>3 DEF Truth
  <2> QED
    BY <1>3, <2>6, <2>7, <2>8
<1>4. ASSUME NEW p \in Proc,
             \/ RegisterRead(p) \/ MakeTmp(p) \/ DumpTmp(p) \/ ReplaceIndex(p) \/ Announce(p)
             \/ Fail(p) \/ Crash(p)
      PROVE  ManifestTruth'
  <2>1. /\ UNCHANGED <<run, llm, file, llmStatus, llmResult>>
        /\ Running(p) /\ stage'[p] # "manifest"
        /\ \A q \in Proc \ {p} : stage'[q] = stage[q]
    BY <1>4 DEF RegisterRead, MakeTmp, DumpTmp, ReplaceIndex, Announce, Fail, Crash, Goto, TypeOK, Running, TryStage
  <2>2. ASSUME NEW q \in Proc
        PROVE  Truth(q)'
    BY <1>0, <1>a, <1>b, <2>1, <2>2
  <2> QED
    BY <1>0, <2>2
<1>5. ASSUME NEW i \in RunId, DeleteRunDir(i)
      PROVE  ManifestTruth'
  <2>1. /\ UNCHANGED <<stage, run, llm, llmStatus, llmResult>>
        /\ \A id \in RunId : file'[id]["manifest"] = "whole" => file[id]["manifest"] = "whole"
    BY <1>5 DEF DeleteRunDir, TypeOK, NoFiles, Artifact
  <2>2. ASSUME NEW q \in Proc
        PROVE  Truth(q)'
    BY <1>a, <1>b, <2>1, <2>2
  <2> QED
    BY <1>0, <2>2
<1>6. CASE UNCHANGED vars
  <2>1. ASSUME NEW q \in Proc
        PROVE  Truth(q)'
    BY <1>6, <1>a, <1>b DEF vars
  <2> QED
    BY <1>0, <2>1
<1> QED
  BY <1>1, <1>2, <1>3, <1>4, <1>5, <1>6 DEF Next, Launch, Step

\* The result a delivery works with tells whether the LLM has answered.
LEMMA EffectiveTruth ==
  ASSUME ManifestTruth, NEW p \in Proc, run[p] \in RunId, file[run[p]]["manifest"] = "whole"
  PROVE  (Effective(run[p]) = "answered") = (llm[p] = "answered" /\ "answered" \in Reply)
BY DEF ManifestTruth, Effective, ResolveLlmStatus

\* What the pipeline guarantees to whoever reads a run directory.
ReaderFacts == TypeOK /\ ArtifactInv /\ SealInv /\ ManifestTruth

LEMMA ReaderFactsInvariant ==
  ASSUME DistinctIds
  PROVE  CliSpec => []ReaderFacts
<1>1. Init => SealInv /\ ManifestTruth
  BY DEF Init, SealInv, Sealed, NoFiles, Unsealed, Artifact, ManifestTruth
<1>2. Spec => []ReaderFacts
  BY <1>1, SealStep, ManifestTruthStep, TypeCorrect, ArtifactInvariant, PTL DEF Spec, ReaderFacts
<1> QED
  BY <1>2, CliRunsPipeline, PTL DEF RunsPipeline

\* What a delivery has read, and what it has posted, still agrees with the
\* artifacts, while the run directory is there.
CardInv ==
  /\ \A c \in Client :
       phase[c] = "load_llm"
         => Settled(picked[c]) /\ (picked[c] \in dirs => manifest[c] = llmStatus[picked[c]])
  /\ \A c \in Client :
       phase[c] = "send"
         => Settled(picked[c]) /\ (picked[c] \in dirs => effective[c] = Effective(picked[c]))
  /\ \A r \in posted :
       Settled(r.run) /\ (r.run \in dirs => r.card = SituationText(r.target, Effective(r.run)))

\* Every step keeps CardInv: the manifest is complete before a delivery goes
\* on, and what is complete stays as it is.
LEMMA CardStep ==
  ASSUME DistinctIds
  PROVE  ReaderFacts /\ CliTypeOK /\ CommandInv /\ CardInv /\ [CliNext]_cliVars => CardInv'
<1> SUFFICES ASSUME ReaderFacts, CliTypeOK, CommandInv, CardInv, [CliNext]_cliVars
             PROVE  CardInv'
  OBVIOUS
<1>0. /\ phase \in [Client -> Phase] /\ Proc \subseteq Client
      /\ picked \in [Client -> RunId \union {Nil}]
      /\ manifest \in [Client -> {"none", "off", "fallback", "success"}]
      /\ effective \in [Client -> {"none"} \union Reply]
      /\ \A c \in Client : phase[c] \in {"load", "load_llm", "send"} => picked[c] \in RunId
      /\ \A r \in posted : r.run \in RunId
  BY DEF CliTypeOK, CommandInv, Client
<1>a. ASSUME NEW id \in RunId, Settled(id)
      PROVE  Settled(id)' /\ (id \in dirs' => id \in dirs /\ UNCHANGED <<llmStatus[id], llmResult[id]>>)
  BY <1>a, PipelineStep, SettledStep DEF ReaderFacts
<1>c. ASSUME NEW id \in RunId, Settled(id)
      PROVE  Settled(id)' /\ (id \in dirs' => id \in dirs /\ Effective(id)' = Effective(id))
  BY <1>a, <1>c DEF Effective
<1> USE DEF CardInv, GoPhase
<1>b. \A r \in posted :
        /\ Settled(r.run)'
        /\ r.run \in dirs' => r.card = SituationText(r.target, Effective(r.run)')
  BY <1>0, <1>c
<1>1. ASSUME UNCHANGED <<manifest, effective, posted>>,
             NEW c \in Client, NEW s \in Phase \ {"load_llm", "send"},
             phase' = phase \/ phase' = [phase EXCEPT ![c] = s],
             \A d \in Client : picked'[d] = picked[d] \/ (d = c /\ phase[c] \in {"idle", "pick"})
      PROVE  CardInv'
  <2>1. \A d \in Client : phase'[d] \in {"load_llm", "send"}
                            => phase'[d] = phase[d] /\ picked'[d] = picked[d]
    BY <1>0, <1>1
  <2> QED
    BY <1>0, <1>1, <1>a, <1>b, <1>c, <2>1
<1>2. CASE Invoke
  <2>1. PICK c \in Client, s \in {"listing", "find", "load"} :
          /\ phase[c] = "idle" /\ phase' = [phase EXCEPT ![c] = s]
          /\ \A d \in Client : picked'[d] = picked[d] \/ d = c
    BY <1>0, <1>2
    DEF Invoke, InvokeRun, InvokeAuto, InvokeDeliver, Admitted, Client, delivery
  <2>2. UNCHANGED <<manifest, effective, posted>>
    BY <1>2 DEF Invoke, InvokeRun, InvokeAuto, InvokeDeliver, delivery, channel
  <2>3. s \in Phase \ {"load_llm", "send"}
    BY DEF Phase
  <2> QED
    BY <1>1, <2>1, <2>2, <2>3
<1>3. ASSUME NEW p \in Proc, RunStep(p)
      PROVE  CardInv'
  <2>1. UNCHANGED <<manifest, effective, posted>>
    BY <1>3 DEF RunStep, FindRefused, FindRaises, FindNothing, FindInput, CheckProcessed, CheckFails, CheckElsewhere, ListPrior, CallExecute,
                Execute, CatchException, ExecuteReturned, PickRun, PickNothing, WarnFallback, delivery, channel
  <2>2. PICK s \in Phase \ {"load_llm", "send"} : phase' = phase \/ phase' = [phase EXCEPT ![p] = s]
    BY <1>3 DEF RunStep, FindRefused, FindRaises, FindNothing, FindInput, CheckProcessed, CheckFails, CheckElsewhere, ListPrior, CallExecute,
                Execute, CatchException, ExecuteReturned, PickRun, PickNothing, WarnFallback, Phase
  <2>3. picked' = picked \/ (phase[p] = "pick" /\ \A d \in Client \ {p} : picked'[d] = picked[d])
    BY <1>0, <1>3 DEF RunStep, FindRefused, FindRaises, FindNothing, FindInput, CheckProcessed, CheckFails, CheckElsewhere, ListPrior, CallExecute,
                Execute, CatchException, ExecuteReturned, PickRun, PickNothing, WarnFallback, delivery
  <2> QED
    BY <1>0, <1>1, <2>1, <2>2, <2>3
<1>4. ASSUME NEW c \in Client, LoadManifest(c)
      PROVE  CardInv'
  <2>1. picked[c] \in RunId /\ file[picked[c]]["manifest"] = "whole"
    BY <1>0, <1>4 DEF LoadManifest, Loadable
  <2>2. Settled(picked[c])
    BY <2>1 DEF Settled, ReaderFacts, SealInv, NoFiles, Artifact
  <2>3. /\ manifest' = [manifest EXCEPT ![c] = llmStatus[picked[c]]]
        /\ phase' = [phase EXCEPT ![c] = "load_llm"]
        /\ UNCHANGED <<picked, effective, posted>>
    BY <1>4 DEF LoadManifest, channel
  <2> QED
    BY <1>0, <1>a, <1>b, <1>c, <2>1, <2>2, <2>3
<1>5. ASSUME NEW c \in Client, LoadLlmResponse(c)
      PROVE  CardInv'
  <2>1. /\ phase[c] = "load_llm" /\ phase' = [phase EXCEPT ![c] = "send"]
        /\ UNCHANGED <<picked, manifest, posted>>
        /\ file[picked[c]]["llm_response"] # "torn"
        /\ effective'[c] = IF IsFallback(c) THEN "none" ELSE llmResult[picked[c]]
        /\ \A d \in Client \ {c} : effective'[d] = effective[d]
    BY <1>0, <1>5 DEF LoadLlmResponse, channel
  <2>2. ASSUME picked[c] \in dirs
        PROVE  effective'[c] = Effective(picked[c])
    <3>1. PICK p \in Proc : run[p] = picked[c]
      BY <2>1 DEF Settled
    <3>2. file[picked[c]]["manifest"] = "whole" /\ manifest[c] = llmStatus[picked[c]] /\ picked[c] \in RunId
      BY <1>0, <2>1, <2>2 DEF Settled
    <3>3. manifest[c] = ResolveLlmStatus(p)
      BY <3>1, <3>2 DEF ReaderFacts, ManifestTruth
    <3>4. manifest[c] \in {"off", "fallback", "success"}
      BY <3>3 DEF ResolveLlmStatus
    <3>5. manifest[c] = "success" => file[picked[c]]["llm_response"] = "whole"
      BY <3>2 DEF ReaderFacts, SealInv, Sealed
    <3> QED
      BY <2>1, <3>2, <3>4, <3>5 DEF IsFallback, Effective
  <2> QED
    BY <1>0, <1>a, <1>b, <1>c, <2>1, <2>2
<1>6. ASSUME NEW c \in Client, LoadFailed(c) \/ FinishDelivery(c) \/ Kill(c)
      PROVE  CardInv'
  <2>1. PICK s \in Phase \ {"load_llm", "send"} : phase' = [phase EXCEPT ![c] = s]
    BY <1>6 DEF LoadFailed, FinishDelivery, Kill, Phase
  <2>2. UNCHANGED <<picked, manifest, effective, posted>>
    BY <1>6 DEF LoadFailed, FinishDelivery, Kill, delivery, channel
  <2> QED
    BY <1>1, <2>1, <2>2
<1>7. ASSUME NEW c \in Client, NEW t \in Target, SendOk(c, t) \/ SendFailed(c, t)
      PROVE  CardInv'
  <2>1. /\ phase[c] = "send"
        /\ posted' \in {posted, posted \union {Report(c, t)}}
        /\ UNCHANGED <<phase, picked, manifest, effective>>
    BY <1>7 DEF SendOk, SendFailed, Turn
  <2>2. /\ Report(c, t).run = picked[c] /\ Report(c, t).target = t
        /\ Report(c, t).card = SituationText(t, effective[c])
    BY DEF Report
  <2> QED
    BY <1>0, <1>a, <1>b, <1>c, <2>1, <2>2
<1>8. CASE \/ \E id \in RunId : RemoveRunDir(id)
           \/ \E f \in Input : FileArrives(f)
           \/ NextWeek
           \/ UNCHANGED cliVars
  <2>1. UNCHANGED <<phase, picked, manifest, effective, posted>>
    BY <1>8 DEF RemoveRunDir, FileArrives, NextWeek, cliVars, delivery, channel
  <2> QED
    BY <1>0, <1>a, <1>b, <1>c, <2>1
<1> HIDE DEF CardInv
<1> QED
  BY <1>2, <1>3, <1>4, <1>5, <1>6, <1>7, <1>8 DEF CliNext, DeliveryStep

LEMMA CardInvariant ==
  ASSUME DistinctIds
  PROVE  CliSpec => []CardInv
<1>1. CliInit => CardInv
  BY DEF CliInit, CardInv, Client
<1> QED
  BY <1>1, CardStep, ReaderFactsInvariant, CliTypeCorrect, PTL DEF CliSpec

\* A card shows the narrative exactly if the LLM has told a situation in the
\* run it is about and has not called its reply a fallback, however deliveries
\* and runs overlap or fail, when run_ids are distinct (export/write.py 96-137,
\* delivery/orchestrator.py 39-46, 111-112).
THEOREM CardsTellTheTruth ==
  ASSUME DistinctIds
  PROVE  CliSpec => []CardTellsTheTruth
<1>1. ASSUME ReaderFacts, CliTypeOK, CardInv,
             NEW r \in posted, NEW p \in Proc, run[p] = r.run, r.run \in dirs
      PROVE  (r.card = "narrative") = (llm[p] = "answered")
  <2>1. r.run \in RunId /\ file[r.run]["manifest"] = "whole"
    BY <1>1 DEF CliTypeOK, CardInv, Settled
  <2>2. r.card = SituationText(r.target, Effective(r.run))
    BY <1>1 DEF CardInv
  <2>3. (r.card = "narrative") = (Effective(r.run) = "answered")
    BY <2>2 DEF SituationText
  <2>4. llm[p] = "answered" => "answered" \in Reply
    <3>1. llm \in [Proc -> {"off", "unprompted", "raised"} \union Generated]
      BY <1>1 DEF ReaderFacts, TypeOK
    <3> QED
      BY <3>1 DEF Generated
  <2> QED
    BY <1>1, <2>1, <2>3, <2>4, EffectiveTruth DEF ReaderFacts
<1>2. ReaderFacts /\ CliTypeOK /\ CardInv => CardTellsTheTruth
  BY <1>1 DEF CardTellsTheTruth
<1> QED
  BY <1>2, CardInvariant, ReaderFactsInvariant, CliTypeCorrect, PTL

\* Whoever delivers a run, and whenever, posts the same card to a channel, while
\* its directory is there and run_ids are distinct (docs/iterations/i9/tasks.md 30).
THEOREM CardsNeverChange ==
  ASSUME DistinctIds
  PROVE  CliSpec => []SameCardAgain
<1>1. CliTypeOK /\ CardInv => SameCardAgain
  BY DEF CliTypeOK, CardInv, SameCardAgain
<1> QED
  BY <1>1, CardInvariant, CliTypeCorrect, PTL

-----------------------------------------------------------------------------
(***************************************************************************)
(* The automatic mode, when commands do not overlap.                       *)
(***************************************************************************)

\* What the pipeline guarantees about serial runs.
SerialFacts == TypeOK /\ StoreInv /\ SerialInv /\ ArtifactInv

\* A run is in the index after a step because it was before, unchanged, or
\* because the step has put it there.
LEMMA IndexedStep ==
  ASSUME DistinctIds, SerialFacts, [Next]_vars, NEW q \in Proc, run'[q] \in Ids(index'.entries)
  PROVE  \/ run[q] \in Ids(index.entries) /\ UNCHANGED <<run[q], job[q], week[q]>>
         \/ ReplaceIndex(q)
<1>0. Ids(index.entries) \subseteq registered /\ registered \subseteq RunId
  BY DEF SerialFacts, ArtifactInv, NamesPublished, TypeOK
<1> USE DEF SerialFacts, progress, disk, store
<1>1. ASSUME NEW p \in Proc, NEW j \in Invocation, NEW i \in IdPool[p],
             Start(p, i, j) \/ StartRaises(p, i, j)
      PROVE  run[q] \in Ids(index.entries) /\ UNCHANGED <<run[q], job[q], week[q]>>
  <2>1. /\ stage[p] = "idle" /\ UNCHANGED <<index, week>>
        /\ run' = [run EXCEPT ![p] = i] /\ job' = [job EXCEPT ![p] = j]
    BY <1>1 DEF Start, StartRaises, MayStart
  <2>2. i \notin registered
    BY <2>1, FreshId DEF ArtifactInv, Published
  <2> QED
    BY <1>0, <2>1, <2>2 DEF TypeOK
<1>2. ASSUME NEW p \in Proc, Analyse(p)
      PROVE  run[q] \in Ids(index.entries) /\ UNCHANGED <<run[q], job[q], week[q]>>
  <2>1. UNCHANGED <<run, job, index>> /\ stage[p] = "analyse"
        /\ \A r \in Proc \ {p} : week'[r] = week[r]
    BY <1>2 DEF Analyse, TypeOK
  <2>2. run[p] \notin registered
    BY <2>1, WriterOwnsDir DEF ArtifactInv, TryStage
  <2> QED
    BY <1>0, <2>1, <2>2
<1>3. ASSUME NEW p \in Proc, p # q, ReplaceIndex(p)
      PROVE  run[q] \in Ids(index.entries) /\ UNCHANGED <<run[q], job[q], week[q]>>
  <2>1. /\ stage[p] = "replace" /\ UNCHANGED <<run, job, week>>
        /\ index'.entries = Append(snapshot[p], RunRecord(p))
    BY <1>3 DEF ReplaceIndex, NewEntries
  <2>2. snapshot[p] = index.entries /\ index.entries \in Seq(Record)
    BY <2>1 DEF SerialInv, HoldsSnapshot, TypeOK
  <2>3. run[p] # run[q] /\ RunRecord(p).id = run[p]
    BY <1>3, <2>1, WriterOwnsDir DEF ArtifactInv, TryStage, RunRecord
  <2>4. Ids(index'.entries) \subseteq Ids(index.entries) \union {run[p]}
    BY <2>1, <2>2, <2>3 DEF Ids
  <2> QED
    BY <2>1, <2>3, <2>4
<1>4. ASSUME NEW p \in Proc,
             \/ ComputeTrends(p) \/ RenderLlmRaises(p)
             \/ \E o \in {"unprompted"} \union Generated : RenderLlm(p, o)
             \/ OpenArtifact(p) \/ CloseArtifact(p)
             \/ RegisterRead(p) \/ MakeTmp(p) \/ DumpTmp(p) \/ Announce(p)
             \/ Fail(p) \/ Crash(p)
      PROVE  run[q] \in Ids(index.entries) /\ UNCHANGED <<run[q], job[q], week[q]>>
  BY <1>4, TrendsFrame DEF RenderLlmRaises, RenderLlm, OpenArtifact, CloseArtifact, RegisterRead,
              MakeTmp, DumpTmp, Announce, Fail, Crash
<1>5. CASE (\E i \in RunId : DeleteRunDir(i)) \/ UNCHANGED vars
  BY <1>5 DEF DeleteRunDir, vars
<1> QED
  BY <1>1, <1>2, <1>3, <1>4, <1>5 DEF Next, Launch, Step

\* ReplaceIndex appends the run's record to the index.
LEMMA ReplaceAppends ==
  ASSUME SerialFacts, NEW p \in Proc, ReplaceIndex(p)
  PROVE  /\ index.entries \in Seq(Record)
         /\ index'.entries = Append(index.entries, RunRecord(p))
         /\ UNCHANGED <<run, job, week>>
<1>1. stage[p] = "replace"
  BY DEF ReplaceIndex
<1>2. snapshot[p] = index.entries
  BY <1>1 DEF SerialFacts, SerialInv, HoldsSnapshot
<1> QED
  BY <1>2 DEF SerialFacts, TypeOK, ReplaceIndex, NewEntries, progress

\* A process works on what its command has asked for.
JobIsRequest == \A p \in Proc : stage[p] # "idle" => job[p] = request[p]

\* Between a check that has read the index and the run's entry in it, the
\* dataset's week that was checked is missing there.
CheckedClear ==
  /\ \A p \in Proc : phase[p] \in {"idle", "find", "check"} => checkedIn[p] = 0
  /\ \A p \in Proc :
       (/\ checkedIn[p] # 0
        /\ phase[p] \in {"listing", "execute"}
        /\ stage[p] \in {"idle"} \union (TryStage \ {"announce"}))
         => \A i \in DOMAIN index.entries :
              ~(index.entries[i].key = DatasetKey[request[p].input] /\ index.entries[i].week = checkedIn[p])

\* The options, the request and the check of a started command do not change.
LEMMA RequestStays ==
  ASSUME CliTypeOK, [CliNext]_cliVars, NEW p \in Proc,
         phase[p] \notin {"idle", "find", "check"}
  PROVE  UNCHANGED <<opts[p], request[p], checkedIn[p]>>
<1> USE DEF CliTypeOK, command, world, delivery, channel
<1>1. CASE Invoke
  BY <1>1 DEF Invoke, InvokeRun, InvokeAuto, InvokeDeliver, Admitted
<1>2. ASSUME NEW q \in Proc, RunStep(q)
      PROVE  UNCHANGED <<opts[p], request[p], checkedIn[p]>>
  BY <1>2 DEF RunStep, FindRefused, FindRaises, FindNothing, FindInput, CheckProcessed, CheckFails, CheckElsewhere, ListPrior, CallExecute,
                Execute, CatchException, ExecuteReturned, PickRun, PickNothing, WarnFallback
<1>3. ASSUME NEW c \in Client, DeliveryStep(c) \/ Kill(c)
      PROVE  UNCHANGED <<opts[p], request[p], checkedIn[p]>>
  BY <1>3 DEF DeliveryStep, LoadManifest, LoadLlmResponse, LoadFailed, SendOk, SendFailed, Turn, FinishDelivery, Kill
<1>4. CASE \/ \E id \in RunId : RemoveRunDir(id)
           \/ \E f \in Input : FileArrives(f)
           \/ NextWeek
           \/ UNCHANGED cliVars
  BY <1>4 DEF RemoveRunDir, FileArrives, NextWeek, cliVars
<1> QED
  BY <1>1, <1>2, <1>3, <1>4 DEF CliNext

\* A process that has started keeps its job.
LEMMA JobStays ==
  ASSUME TypeOK, [Next]_vars, NEW p \in Proc, stage[p] # "idle"
  PROVE  job'[p] = job[p] /\ stage'[p] # "idle"
<1>1. ASSUME NEW q \in Proc, Launch(q)
      PROVE  job'[p] = job[p]
  BY <1>1 DEF TypeOK, Launch, Start, StartRaises, MayStart
<1>2. ASSUME NEW q \in Proc, Step(q) \/ Crash(q)
      PROVE  job'[p] = job[p]
  BY <1>2, TrendsFrame DEF Step, Analyse, RenderLlm, RenderLlmRaises, OpenArtifact, CloseArtifact, RegisterRead,
              MakeTmp, DumpTmp, ReplaceIndex, Announce, Fail, Crash, progress
<1>3. ASSUME NEW q \in Proc, Launch(q) \/ Step(q) \/ Crash(q)
      PROVE  stage'[p] # "idle"
  BY <1>3, StepMovesOne
<1>4. CASE (\E id \in RunId : DeleteRunDir(id)) \/ UNCHANGED vars
  BY <1>4 DEF DeleteRunDir, progress, vars
<1> QED
  BY <1>1, <1>2, <1>3, <1>4 DEF Next

\* A process starts with its command's request.
LEMMA StartsRequest ==
  ASSUME TypeOK, [CliNext]_cliVars, NEW p \in Proc, stage[p] = "idle", stage'[p] # "idle"
  PROVE  job'[p] = request[p] /\ request' = request
<1>1. ASSUME NEW q \in Proc, CallExecute(q)
      PROVE  job'[p] = request[p] /\ request' = request
  BY <1>1 DEF TypeOK, CallExecute, Start, StartRaises, Goto, command
<1>2. ASSUME NEW q \in Proc, Step(q) \/ Crash(q)
      PROVE  FALSE
  <2>1. p = q
    BY <1>2, StepMovesOne
  <2> QED
    BY <1>2, <2>1, TrendsFrame DEF Step, Analyse, RenderLlm, RenderLlmRaises, OpenArtifact, CloseArtifact,
              RegisterRead, MakeTmp, DumpTmp, ReplaceIndex, Announce, Fail, Crash, Running, TryStage, Artifact
<1>3. CASE UNCHANGED stage
  BY <1>3
<1> QED
  BY <1>1, <1>2, <1>3
  DEF CliNext, Invoke, InvokeRun, InvokeAuto, InvokeDeliver, RunStep, FindRefused, FindRaises, FindNothing, FindInput,
      CheckProcessed, CheckFails, CheckElsewhere, ListPrior, Execute, CatchException, ExecuteReturned, PickRun, PickNothing, WarnFallback,
      DeliveryStep, LoadManifest, LoadLlmResponse, LoadFailed, SendOk, SendFailed, Turn, FinishDelivery, Kill,
      RemoveRunDir, DeleteRunDir, FileArrives, NextWeek, cliVars, vars

LEMMA JobIsRequestStep ==
  TypeOK /\ CliTypeOK /\ CommandInv /\ StageFollowsPhase /\ JobIsRequest /\ [CliNext]_cliVars
    => JobIsRequest'
<1> SUFFICES ASSUME TypeOK, CliTypeOK, CommandInv, StageFollowsPhase, JobIsRequest, [CliNext]_cliVars,
                    NEW p \in Proc, stage'[p] # "idle"
             PROVE  job'[p] = request'[p]
  BY DEF JobIsRequest
<1>1. CASE stage[p] = "idle"
  BY <1>1, StartsRequest
<1>2. CASE stage[p] # "idle"
  <2>1. phase[p] \notin {"idle", "find", "check"}
    BY <1>2 DEF StageFollowsPhase
  <2>2. job'[p] = job[p]
    BY <1>2, PipelineStep, JobStays
  <2> QED
    BY <1>2, <2>1, <2>2, RequestStays DEF JobIsRequest
<1> QED
  BY <1>1, <1>2

\* Only the check that reads the index notes the week.
LEMMA UncheckedBefore ==
  ASSUME CliTypeOK, CheckedClear, [CliNext]_cliVars, NEW p \in Proc,
         phase'[p] \in {"idle", "find", "check"}
  PROVE  checkedIn'[p] = 0
<1>0. phase \in [Client -> Phase] /\ p \in Client /\ Proc \subseteq Client /\ Deliverer \subseteq Client
      /\ DOMAIN checkedIn = Proc
  BY DEF CliTypeOK, Client
<1> USE DEF GoPhase, CheckedClear, command
<1>1. CASE Invoke
  BY <1>0, <1>1 DEF Invoke, InvokeRun, InvokeAuto, InvokeDeliver, Admitted
<1>2. ASSUME NEW q \in Proc, CheckProcessed(q)
      PROVE  checkedIn'[p] = 0
  BY <1>0, <1>2 DEF CheckProcessed
<1>3. ASSUME NEW q \in Proc,
             \/ FindRefused(q) \/ FindRaises(q) \/ FindNothing(q) \/ FindInput(q)
             \/ CheckFails(q) \/ CheckElsewhere(q) \/ ListPrior(q) \/ CallExecute(q) \/ Execute(q)
             \/ CatchException(q) \/ ExecuteReturned(q) \/ PickRun(q) \/ PickNothing(q) \/ WarnFallback(q)
      PROVE  checkedIn'[p] = 0
  BY <1>0, <1>3 DEF FindRefused, FindRaises, FindNothing, FindInput, CheckFails, CheckElsewhere, ListPrior,
                CallExecute, Execute, CatchException, ExecuteReturned, PickRun, PickNothing, WarnFallback
<1>4. ASSUME NEW c \in Client, DeliveryStep(c) \/ Kill(c)
      PROVE  checkedIn'[p] = 0
  BY <1>0, <1>4
  DEF DeliveryStep, LoadManifest, LoadLlmResponse, LoadFailed, SendOk, SendFailed, Turn, FinishDelivery, Kill
<1>5. CASE \/ \E id \in RunId : RemoveRunDir(id)
           \/ \E f \in Input : FileArrives(f)
           \/ NextWeek
           \/ UNCHANGED cliVars
  BY <1>5 DEF RemoveRunDir, FileArrives, NextWeek, cliVars
<1> QED
  BY <1>1, <1>2, <1>3, <1>4, <1>5 DEF CliNext, RunStep

\* A command comes to its listing from the check or from its invocation.
LEMMA ListingBefore ==
  ASSUME CliTypeOK, [CliNext]_cliVars, NEW p \in Proc, phase'[p] \in {"listing", "execute"}
  PROVE  \/ phase[p] \in {"listing", "execute"}
         \/ CheckProcessed(p) \/ CheckFails(p) \/ CheckElsewhere(p)
         \/ \E j \in Invocation, d \in BOOLEAN : InvokeRun(p, j, d)
<1>0. phase \in [Client -> Phase] /\ p \in Client /\ Proc \subseteq Client /\ Deliverer \subseteq Client
  BY DEF CliTypeOK, Client
<1> USE DEF GoPhase
<1>1. CASE Invoke
  BY <1>0, <1>1 DEF Invoke, InvokeRun, InvokeAuto, InvokeDeliver
<1>2. ASSUME NEW q \in Proc, RunStep(q)
      PROVE  phase[p] \in {"listing", "execute"} \/ CheckProcessed(p) \/ CheckFails(p) \/ CheckElsewhere(p)
  BY <1>0, <1>2 DEF RunStep, FindRefused, FindRaises, FindNothing, FindInput, CheckProcessed, CheckFails, CheckElsewhere, ListPrior, CallExecute,
                Execute, CatchException, ExecuteReturned, PickRun, PickNothing, WarnFallback
<1>3. ASSUME NEW c \in Client, DeliveryStep(c) \/ Kill(c)
      PROVE  phase[p] \in {"listing", "execute"}
  BY <1>0, <1>3
  DEF DeliveryStep, LoadManifest, LoadLlmResponse, LoadFailed, SendOk, SendFailed, Turn, FinishDelivery, Kill
<1>4. CASE \/ \E id \in RunId : RemoveRunDir(id)
           \/ \E f \in Input : FileArrives(f)
           \/ NextWeek
           \/ UNCHANGED cliVars
  BY <1>4 DEF RemoveRunDir, FileArrives, NextWeek, cliVars
<1> QED
  BY <1>1, <1>2, <1>3, <1>4 DEF CliNext

\* A process that has registered does not go back to work.
LEMMA NearExit ==
  ASSUME TypeOK, [Next]_vars, NEW p \in Proc, stage[p] \in Finished
  PROVE  stage'[p] \in Finished
<1> USE DEF Finished
<1>1. CASE stage[p] \in ExitStage
  BY <1>1, ExitIsFinal
<1>2. ASSUME stage[p] = "announce", NEW q \in Proc, q # p, Launch(q) \/ Step(q) \/ Crash(q)
      PROVE  stage'[p] \in Finished
  BY <1>2, StepMovesOne
<1>3. ASSUME stage[p] = "announce", Launch(p) \/ Step(p) \/ Crash(p)
      PROVE  stage'[p] \in Finished
  BY <1>3, TrendsFrame DEF TypeOK, Launch, Start, StartRaises, MayStart, Step, Analyse, RenderLlm,
              RenderLlmRaises, OpenArtifact, CloseArtifact, RegisterRead, MakeTmp, DumpTmp, ReplaceIndex,
              Announce, Fail, Crash, Artifact, Goto, ExitStage
<1>4. CASE (\E id \in RunId : DeleteRunDir(id)) \/ UNCHANGED vars
  BY <1>4 DEF DeleteRunDir, vars
<1> QED
  BY <1>1, <1>2, <1>3, <1>4 DEF Next

\* Nobody else registers between a command's check and its own registration.
LEMMA CheckedClearStep ==
  ASSUME ~Overlap
  PROVE  SerialFacts /\ CliTypeOK /\ CommandInv /\ StageFollowsPhase /\ OneAtATime /\ CheckedClear
           /\ [CliNext]_cliVars => CheckedClear'
<1> SUFFICES ASSUME SerialFacts, CliTypeOK, CommandInv, StageFollowsPhase, OneAtATime, CheckedClear,
                    [CliNext]_cliVars,
                    NEW p \in Proc,
                    checkedIn'[p] # 0, phase'[p] \in {"listing", "execute"},
                    stage'[p] \in {"idle"} \union (TryStage \ {"announce"}),
                    NEW i \in DOMAIN index'.entries,
                    index'.entries[i].key = DatasetKey[request'[p].input],
                    index'.entries[i].week = checkedIn'[p]
             PROVE  FALSE
  BY UncheckedBefore DEF CheckedClear
<1>0. [Next]_vars /\ TypeOK
  BY PipelineStep DEF SerialFacts
<1>1. CASE phase[p] \in {"listing", "execute"}
  <2>1. UNCHANGED <<opts[p], request[p], checkedIn[p]>>
    BY <1>1, RequestStays
  <2>2. stage[p] \in {"idle"} \union (TryStage \ {"announce"})
    <3>1. stage[p] \notin Finished
      BY <1>0, NearExit DEF Finished, ExitStage, TryStage, Artifact
    <3> QED
      BY <1>0, <3>1 DEF TypeOK, Stage, Finished
  <2>3. ASSUME NEW q \in Proc, ReplaceIndex(q)
        PROVE  FALSE
    <3>1. Running(q) /\ stage'[q] = "announce"
      BY <1>0, <2>3 DEF ReplaceIndex, Goto, TypeOK, Running, TryStage
    <3>2. phase[q] = "execute"
      BY <3>1 DEF StageFollowsPhase
    <3>3. p = q
      BY <1>1, <3>2 DEF OneAtATime, Active, Ended, Client
    <3> QED
      BY <3>1, <3>3
  <2>4. UNCHANGED index
    BY <1>0, <2>3, IndexFrame
  <2> QED
    BY <1>1, <2>1, <2>2, <2>4 DEF CheckedClear
<1>2. CASE CheckProcessed(p)
  <2>1. ~AlreadyProcessed(request[p].input)
    BY <1>2 DEF CheckProcessed, GoPhase, CliTypeOK, Client
  <2>2. checkedIn'[p] = today /\ UNCHANGED <<request, index>>
    BY <1>2 DEF CheckProcessed, CliTypeOK, vars, store
  <2> QED
    BY <2>1, <2>2 DEF AlreadyProcessed
<1>3. CASE CheckFails(p) \/ CheckElsewhere(p)
  <2>1. phase[p] = "check" /\ UNCHANGED checkedIn
    BY <1>3 DEF CheckFails, CheckElsewhere, command
  <2> QED
    BY <2>1 DEF CheckedClear
<1>4. ASSUME NEW j \in Invocation, NEW d \in BOOLEAN, InvokeRun(p, j, d)
      PROVE  FALSE
  <2>1. phase[p] = "idle" /\ UNCHANGED checkedIn
    BY <1>4 DEF InvokeRun, Admitted
  <2> QED
    BY <2>1 DEF CheckedClear
<1> QED
  BY <1>1, <1>2, <1>3, <1>4, ListingBefore

\* A run that is in the index has ended, or is about to.
LEMMA IndexedHasEnded ==
  ASSUME DistinctIds, SerialFacts, NEW p \in Proc, run[p] \in Ids(index.entries)
  PROVE  stage[p] \in Finished
<1>1. run[p] \in registered /\ run[p] \in RunId
  BY DEF SerialFacts, ArtifactInv, NamesPublished, TypeOK
<1>2. PICK r \in Proc : run[r] = run[p] /\ stage[r] \in Finished
  BY <1>1 DEF SerialFacts, ArtifactInv, Published
<1>3. r = p
  BY <1>1, <1>2, PipelineAssumption DEF SerialFacts, ArtifactInv, OwnId, DistinctIds
<1> QED
  BY <1>2, <1>3

\* A run in the index has come past its command's check.
LEMMA IndexedIsLate ==
  ASSUME DistinctIds, SerialFacts, StageFollowsPhase, NEW p \in Proc, run[p] \in Ids(index.entries)
  PROVE  phase[p] \notin {"idle", "find", "check", "listing"} /\ stage[p] # "idle"
BY IndexedHasEnded DEF StageFollowsPhase, Finished, ExitStage

OnceFacts ==
  SerialFacts /\ JobIsRequest /\ CheckedClear /\ StageFollowsPhase /\ OneAtATime

\* The step that indexes a run after its check finds no entry of the same
\* dataset and week.
LEMMA NewIsAlone ==
  ASSUME OnceFacts, NEW p \in Proc, ReplaceIndex(p),
         checkedIn[p] # 0, week[p] = checkedIn[p],
         NEW i \in DOMAIN index.entries
  PROVE  ~(index.entries[i].key = RunRecord(p).key /\ index.entries[i].week = RunRecord(p).week)
<1>1. stage[p] = "replace" /\ phase[p] = "execute"
  BY DEF ReplaceIndex, OnceFacts, StageFollowsPhase, Running, TryStage
<1>2. job[p] = request[p]
  BY <1>1 DEF OnceFacts, JobIsRequest
<1> QED
  BY <1>1, <1>2 DEF OnceFacts, CheckedClear, TryStage, RunRecord

\* Every step keeps AutoOncePerWeek.
LEMMA AutoOnceStep ==
  ASSUME DistinctIds
  PROVE  OnceFacts /\ CliTypeOK /\ CommandInv /\ AutoOncePerWeek /\ [CliNext]_cliVars
           => AutoOncePerWeek'
<1> SUFFICES ASSUME OnceFacts, CliTypeOK, CommandInv, AutoOncePerWeek, [CliNext]_cliVars,
                    NEW p \in Proc, NEW i \in DOMAIN index'.entries, NEW j \in DOMAIN index'.entries,
                    checkedIn'[p] # 0, week'[p] = checkedIn'[p],
                    index'.entries[j].id = run'[p], i < j,
                    index'.entries[i].key = index'.entries[j].key,
                    index'.entries[i].week = index'.entries[j].week
             PROVE  FALSE
  BY DEF AutoOncePerWeek
<1>0. [Next]_vars
  BY PipelineStep
<1>1. ASSUME NEW r \in Proc, run[r] \in Ids(index.entries)
      PROVE  UNCHANGED checkedIn[r]
  BY <1>1, IndexedIsLate, RequestStays DEF OnceFacts
<1>2. CASE UNCHANGED index
  <2>1. run'[p] \in Ids(index'.entries)
    BY DEF Ids
  <2>2. ~ReplaceIndex(p)
    <3>1. ReplaceIndex(p) => index.entries \in Seq(Record) /\ index'.entries = Append(index.entries, RunRecord(p))
      BY ReplaceAppends DEF OnceFacts
    <3>2. ReplaceIndex(p) => Len(index'.entries) = Len(index.entries) + 1
      BY <3>1
    <3>3. index.entries \in Seq(Record)
      BY DEF OnceFacts, SerialFacts, TypeOK
    <3>4. Len(index.entries) # Len(index.entries) + 1
      BY <3>3
    <3> QED
      BY <1>2, <3>2, <3>4
  <2>3. run[p] \in Ids(index.entries) /\ UNCHANGED <<run[p], week[p]>>
    BY <1>0, <2>1, <2>2, IndexedStep DEF OnceFacts
  <2> QED
    BY <1>1, <1>2, <2>3 DEF AutoOncePerWeek
<1>3. ASSUME NEW q \in Proc, ReplaceIndex(q)
      PROVE  FALSE
  <2>1. /\ index.entries \in Seq(Record)
        /\ index'.entries = Append(index.entries, RunRecord(q))
        /\ UNCHANGED <<run, job, week>>
    BY <1>3, ReplaceAppends DEF OnceFacts
  <2>2. i \in DOMAIN index.entries /\ index'.entries[i] = index.entries[i]
    BY <2>1
  <2>3. CASE j \in DOMAIN index.entries
    <3>1. index'.entries[j] = index.entries[j]
      BY <2>1, <2>3
    <3>2. run[p] \in Ids(index.entries)
      BY <2>1, <2>3, <3>1 DEF Ids
    <3>3. UNCHANGED checkedIn[p]
      BY <1>1, <3>2
    <3> QED
      BY <2>1, <2>2, <2>3, <3>1, <3>3 DEF AutoOncePerWeek
  <2>4. CASE j \notin DOMAIN index.entries
    <3>1. index'.entries[j] = RunRecord(q)
      BY <2>1, <2>4
    <3>2. run[p] = run[q]
      BY <2>1, <3>1 DEF RunRecord
    <3>3. p = q
      BY <1>3, <3>2, WriterOwnsDir DEF ReplaceIndex, OnceFacts, SerialFacts, ArtifactInv, TryStage
    <3>4. phase[q] = "execute"
      BY <1>3 DEF ReplaceIndex, OnceFacts, StageFollowsPhase, Running, TryStage
    <3>5. UNCHANGED checkedIn[q]
      BY <3>4, RequestStays
    <3> QED
      BY <1>3, <2>1, <2>2, <3>1, <3>3, <3>5, NewIsAlone
  <2> QED
    BY <2>3, <2>4
<1> QED
  BY <1>0, <1>2, <1>3, IndexFrame

\* An automatic run whose check has read the pipeline's index does not index a
\* week of the dataset that is there already, when commands do not overlap and
\* run_ids are distinct (scheduler/auto.py 89-131).
THEOREM AutoRunsOncePerWeek ==
  ASSUME ~Overlap, DistinctIds
  PROVE  CliSpec => []AutoOncePerWeek
<1>1. CliInit => /\ JobIsRequest /\ CheckedClear
                 /\ StageFollowsPhase /\ OneAtATime /\ AutoOncePerWeek
  BY DEF CliInit, Init, JobIsRequest, CheckedClear, StageFollowsPhase, OneAtATime, AutoOncePerWeek,
         Client, Active, Running, TryStage, Artifact
<1>2. CliSpec => []SerialFacts
  BY CliRunsPipeline, TypeCorrect, StoreInvariant, SerialInvariant, ArtifactInvariant, PTL
  DEF RunsPipeline, SerialFacts
<1>3. CliSpec => []OnceFacts
  BY <1>1, <1>2, PipelineStep, CliTypeCorrect, StageFollowsPhaseStep, OneAtATimeStep,
     JobIsRequestStep, CheckedClearStep, PTL
  DEF CliSpec, OnceFacts, SerialFacts
<1> QED
  BY <1>1, <1>3, AutoOnceStep, CliTypeCorrect, PTL DEF CliSpec
=============================================================================
