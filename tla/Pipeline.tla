------------------------------ MODULE Pipeline ------------------------------
(***************************************************************************)
(* One `wbsb run` from the creation of its run directory to its exit code: *)
(* execute (pipeline.py), write_artifacts (export/write.py) and            *)
(* register_run (history/store.py), for any number of processes sharing    *)
(* one output directory.  A step is one effect on the file system that     *)
(* another process, or a later run after a crash, can see.                 *)
(*                                                                         *)
(* A file written with write_text is "torn" between the open that          *)
(* truncates it and the close; a crash or an I/O error leaves it torn.     *)
(* The index is written through a temporary file and os.replace.  Crashes  *)
(* are crashes of a process: the file system itself keeps what it has.     *)
(*                                                                         *)
(* A definition whose name ends in _Mutant is a plausible bug in the       *)
(* definition that follows it; the specification uses none of them.        *)
(***************************************************************************)
EXTENDS Naturals, Sequences, FiniteSets

CONSTANTS
  Proc,       \* the invocations of execute, each made once
  RunId,      \* the names a run directory can have
  IdPool,     \* the run_ids each invocation may draw: disjoint pools say
              \* that timestamp + uuid4 never collides
  Input,      \* the input files
  Weeks,      \* the weeks (numbered Mondays) present in each input file
  DatasetKey, \* derive_dataset_key of each input file's name
  LlmMode,    \* the --llm-mode values used, out of {"off", "full"}
  Reply,      \* the kinds of validated replies the LLM may give
  MaxMetrics, \* bound: the metrics with signals whose history is looked up
  Overlap,    \* FALSE: the operator never starts a run during another one
  Nil         \* no run_id, no options yet

ASSUME PipelineAssumption ==
  /\ IdPool \in [Proc -> SUBSET RunId]
  /\ Weeks \in [Input -> SUBSET Nat]
  /\ DOMAIN DatasetKey = Input
  /\ LlmMode \subseteq {"off", "full"}
  /\ Reply \subseteq {"answered", "untold", "blank", "flagged"}
  /\ MaxMetrics \in Nat
  /\ Overlap \in BOOLEAN
  /\ Nil \notin RunId

VARIABLES
  stage,      \* where each process is in execute
  run,        \* run_id of each process
  job,        \* the input file and the options of each process
  week,       \* week_start resolved by each process, 0 before that
  llm,        \* what render_llm gave the process
  trends,     \* whether the history could be read for the prompt
  metrics,    \* the signal metrics whose history is still to be read
  lookup,     \* the runs whose findings the current metric is still to get
  found,      \* the one of them whose findings.json exists() has just found
  writing,    \* whether the process has the artifact of its stage open
  snapshot,   \* the index entries register_run has read
  tmp,        \* the process's temporary index file
  dirs,       \* the run directories in output_dir
  file,       \* the artifacts in each run directory
  llmStatus,  \* the llm_status field of each manifest.json
  llmResult,  \* the llm_result in each llm_response.json
  index,      \* runs/index.json; an absent file is an empty array
  registered  \* history variable: the run_ids os.replace has published

history == <<trends, metrics, lookup, found>>
progress == <<run, job, week, llm, history>>
disk == <<dirs, file, llmStatus, llmResult>>
store == <<snapshot, tmp, index, registered>>
vars == <<stage, progress, writing, disk, store>>

-----------------------------------------------------------------------------
(* Values *)

Artifact == {"findings", "brief", "llm_response", "manifest"}

\* The stages inside execute's try block.
TryStage == {"analyse", "trends", "llm"} \union Artifact
              \union {"register", "mkstemp", "dump", "replace", "announce"}

\* exit0 and exit1 are execute's return values, "raised" an exception that
\* escapes it, "crashed" a killed process.
ExitStage == {"exit0", "exit1", "raised", "crashed"}

Stage == {"idle"} \union TryStage \union ExitStage

\* target 0 is an absent --week.
Job == [input : Input, target : Nat, mode : {"off", "full"}]

WeekStart == UNION {Weeks[f] : f \in Input}

Record == [id : RunId, key : {DatasetKey[f] : f \in Input}, week : WeekStart]

Ids(s) == {s[i].id : i \in DOMAIN s}

Running(p) == stage[p] \in TryStage

NoFiles == [a \in Artifact |-> "absent"]

-----------------------------------------------------------------------------
(* The decisions of execute, write_artifacts and register_run *)

\* resolve_target_week: the latest week, or the one asked for; the earliest
\* week of the data is refused, it has nothing to be compared with.
ResolvedWeek(f, target) ==
  {w \in Weeks[f] : /\ IF target = 0 THEN \A v \in Weeks[f] : v <= w ELSE w = target
                    /\ \E v \in Weeks[f] : v < w}

\* generate returns None after any failure of the call or of the response's
\* validation ("fallback"), or a validated response.  That response may have
\* no situation ("untold", the summary is enough), one of white space
\* ("blank"), or have set its own field fallback ("flagged").
Generated == {"fallback"} \union Reply

\* write_artifacts writes llm_response.json when it has a result or eval data.
WritesLlmResponse(p) == llm[p] \in Generated

LlmResult(p) == IF llm[p] \in Reply THEN llm[p] ELSE "none"

StageAfter_Mutant(p, a) ==   \* registers the run before the manifest is written
  CASE a = "findings"     -> "brief"
    [] a = "brief"        -> IF WritesLlmResponse(p) THEN "llm_response" ELSE "register"
    [] a = "llm_response" -> "register"
    [] a = "manifest"     -> "announce"

StageAfter_EarlyManifest_Mutant(p, a) ==   \* writes the manifest before the brief
  CASE a = "findings"     -> "manifest"
    [] a = "manifest"     -> "brief"
    [] a = "brief"        -> IF WritesLlmResponse(p) THEN "llm_response" ELSE "register"
    [] a = "llm_response" -> "register"

\* The order of the write_text calls of write_artifacts, then register_run.
StageAfter(p, a) ==
  CASE a = "findings"     -> "brief"
    [] a = "brief"        -> IF WritesLlmResponse(p) THEN "llm_response" ELSE "manifest"
    [] a = "llm_response" -> "manifest"
    [] a = "manifest"     -> "register"

ResolveLlmStatus_Mutant(p) == IF llm[p] \in Reply THEN "success" ELSE "off"   \* no look at the flag

\* _resolve_llm_status: no result at all counts as "off", and "fallback" is
\* what the reply has said of itself.
ResolveLlmStatus(p) ==
  IF llm[p] \notin Reply THEN "off"
  ELSE IF llm[p] = "flagged" THEN "fallback" ELSE "success"

RunRecord_Mutant(p) ==   \* indexes the week asked for, not the one resolved
  [id |-> run[p], key |-> DatasetKey[job[p].input], week |-> job[p].target]

RunRecord(p) ==
  [id |-> run[p], key |-> DatasetKey[job[p].input], week |-> week[p]]

IsDuplicate_Mutant(p, entries) == FALSE   \* the check is dropped

\* register_run refuses a run_id it has read in the index.
IsDuplicate(p, entries) == run[p] \in Ids(entries)

NewEntries_Mutant(p) == <<RunRecord(p)>>   \* "start fresh" although the index exists

NewEntries_Newest_Mutant(p) == <<RunRecord(p)>> \o snapshot[p]   \* newest first

\* The entries written are the ones read plus the new record.
NewEntries(p) == Append(snapshot[p], RunRecord(p))

\* A temporary file left by an exception is unlinked; unlink may fail too.
TmpAfterError(p) == {"none", tmp[p]}

-----------------------------------------------------------------------------
(* execute, step by step *)

Goto(p, s) == stage' = [stage EXCEPT ![p] = s]

MayStart(p) == stage[p] = "idle" /\ (Overlap \/ \A q \in Proc : ~Running(q))

\* The run directory is made with exist_ok, outside the try block.
Start(p, id, j) ==
  /\ MayStart(p)
  /\ run' = [run EXCEPT ![p] = id]
  /\ job' = [job EXCEPT ![p] = j]
  /\ dirs' = dirs \union {id}
  /\ Goto(p, "analyse")
  /\ UNCHANGED <<week, llm, history, writing, file, llmStatus, llmResult, store>>

\* mkdir or, after it, the log file failed: the exception reaches the caller.
StartRaises(p, id, j) ==
  /\ MayStart(p)
  /\ run' = [run EXCEPT ![p] = id]
  /\ job' = [job EXCEPT ![p] = j]
  /\ dirs' \in {dirs, dirs \union {id}}
  /\ Goto(p, "raised")
  /\ UNCHANGED <<week, llm, history, writing, file, llmStatus, llmResult, store>>

\* Hash, load, validate, resolve the week and build the findings in memory;
\* the signals say whose metrics' history is wanted.
Analyse(p) ==
  /\ stage[p] = "analyse"
  /\ \E w \in ResolvedWeek(job[p].input, job[p].target) :
       week' = [week EXCEPT ![p] = w]
  /\ IF job[p].mode = "off"
     THEN Goto(p, "findings") /\ UNCHANGED metrics
     ELSE Goto(p, "trends") /\ \E n \in 0..MaxMetrics : metrics' = [metrics EXCEPT ![p] = n]
  /\ UNCHANGED <<run, job, llm, trends, lookup, found, writing, disk, store>>

\* The runs of the dataset's earlier weeks.  get_metric_history takes the
\* newest n_weeks of them (see Trends), here any part.
EarlierRuns(p) ==
  {e.id : e \in {index.entries[i] : i \in
                   {j \in DOMAIN index.entries :
                      /\ index.entries[j].key = DatasetKey[job[p].input]
                      /\ index.entries[j].week < week[p]}}}

\* get_metric_history begins by reading the index, once for each metric.
ReadHistory(p) ==
  /\ stage[p] = "trends"
  /\ lookup[p] = {}
  /\ metrics[p] > 0
  /\ index.whole
  /\ \E ids \in SUBSET EarlierRuns(p) : lookup' = [lookup EXCEPT ![p] = ids]
  /\ metrics' = [metrics EXCEPT ![p] = @ - 1]
  /\ UNCHANGED <<stage, run, job, week, llm, trends, found, writing, disk, store>>

\* exists(): a run without findings.json is skipped.
FindFindings(p) ==
  /\ stage[p] = "trends"
  /\ found[p] = Nil
  /\ \E id \in lookup[p] :
       IF file[id]["findings"] = "absent"
       THEN lookup' = [lookup EXCEPT ![p] = @ \ {id}] /\ UNCHANGED found
       ELSE found' = [found EXCEPT ![p] = id] /\ UNCHANGED lookup
  /\ UNCHANGED <<stage, run, job, week, llm, trends, metrics, writing, disk, store>>

\* read_text() and json.loads() of the file found.
ReadFindings(p) ==
  /\ stage[p] = "trends"
  /\ found[p] \in RunId
  /\ file[found[p]]["findings"] = "whole"
  /\ lookup' = [lookup EXCEPT ![p] = @ \ {found[p]}]
  /\ found' = [found EXCEPT ![p] = Nil]
  /\ UNCHANGED <<stage, run, job, week, llm, trends, metrics, writing, disk, store>>

\* What the next read can raise: an OSError at any time, a JSONDecodeError
\* from a half-written file, a FileNotFoundError from findings.json deleted
\* since exists() has found it.
ReadErrors(p) ==
  {"unreadable"}
    \union {e \in {"torn"} : lookup[p] = {} /\ ~index.whole}
    \union {e \in {"torn"} : found[p] \in RunId /\ file[found[p]]["findings"] = "torn"}
    \union {e \in {"vanished"} : found[p] \in RunId /\ file[found[p]]["findings"] = "absent"}

\* The handler around compute_trends: any exception leaves an empty trend
\* context, and the run goes on.
LoseTrends(p) ==
  /\ stage[p] = "trends"
  /\ metrics[p] > 0 \/ lookup[p] # {}
  /\ \E e \in ReadErrors(p) : trends' = [trends EXCEPT ![p] = e]
  /\ metrics' = [metrics EXCEPT ![p] = 0]
  /\ lookup' = [lookup EXCEPT ![p] = {}]
  /\ found' = [found EXCEPT ![p] = Nil]
  /\ Goto(p, "llm")
  /\ UNCHANGED <<run, job, week, llm, writing, disk, store>>

\* The histories of all metrics have been read.
FinishTrends(p) ==
  /\ stage[p] = "trends"
  /\ metrics[p] = 0
  /\ lookup[p] = {}
  /\ trends' = [trends EXCEPT ![p] = "read"]
  /\ Goto(p, "llm")
  /\ UNCHANGED <<run, job, week, llm, metrics, lookup, found, writing, disk, store>>

ComputeTrends(p) ==
  ReadHistory(p) \/ FindFindings(p) \/ ReadFindings(p) \/ LoseTrends(p) \/ FinishTrends(p)

\* render_llm: "unprompted" is a prompt that could not be rendered.
RenderLlm(p, outcome) ==
  /\ stage[p] = "llm"
  /\ llm' = [llm EXCEPT ![p] = outcome]
  /\ Goto(p, "findings")
  /\ UNCHANGED <<run, job, week, history, writing, disk, store>>

\* The response is JSON but no object: validate_response, called outside
\* the try block of generate, raises AttributeError.
RenderLlmRaises(p) ==
  /\ stage[p] = "llm"
  /\ llm' = [llm EXCEPT ![p] = "raised"]
  /\ Goto(p, "exit1")
  /\ UNCHANGED <<run, job, week, history, writing, disk, store>>

\* write_text, first half: the file exists and is truncated.
OpenArtifact(p) ==
  /\ stage[p] \in Artifact
  /\ ~writing[p]
  /\ run[p] \in dirs
  /\ writing' = [writing EXCEPT ![p] = TRUE]
  /\ file' = [file EXCEPT ![run[p]][stage[p]] = "torn"]
  /\ UNCHANGED <<stage, progress, dirs, llmStatus, llmResult, store>>

\* write_text, second half: the content is complete, unless the directory
\* was deleted meanwhile.
CloseArtifact(p) ==
  /\ stage[p] \in Artifact
  /\ writing[p]
  /\ writing' = [writing EXCEPT ![p] = FALSE]
  /\ file' = [file EXCEPT ![run[p]][stage[p]] = IF @ = "torn" THEN "whole" ELSE @]
  /\ llmStatus' = IF stage[p] = "manifest"
                  THEN [llmStatus EXCEPT ![run[p]] = ResolveLlmStatus(p)]
                  ELSE llmStatus
  /\ llmResult' = IF stage[p] = "llm_response"
                  THEN [llmResult EXCEPT ![run[p]] = LlmResult(p)]
                  ELSE llmResult
  /\ Goto(p, StageAfter(p, stage[p]))
  /\ UNCHANGED <<progress, dirs, store>>

\* register_run checks that the findings exist, then reads the index.
RegisterRead(p) ==
  /\ stage[p] = "register"
  /\ file[run[p]]["findings"] # "absent"
  /\ index.whole
  /\ ~IsDuplicate(p, index.entries)
  /\ snapshot' = [snapshot EXCEPT ![p] = index.entries]
  /\ Goto(p, "mkstemp")
  /\ UNCHANGED <<progress, writing, disk, tmp, index, registered>>

MakeTmp_Mutant(p) ==   \* replaces the index before the dump is complete
  /\ stage[p] = "mkstemp"
  /\ tmp' = [tmp EXCEPT ![p] = "partial"]
  /\ Goto(p, "replace")
  /\ UNCHANGED <<progress, writing, disk, snapshot, index, registered>>

MakeTmp(p) ==
  /\ stage[p] = "mkstemp"
  /\ tmp' = [tmp EXCEPT ![p] = "partial"]
  /\ Goto(p, "dump")
  /\ UNCHANGED <<progress, writing, disk, snapshot, index, registered>>

DumpTmp(p) ==
  /\ stage[p] = "dump"
  /\ tmp' = [tmp EXCEPT ![p] = "whole"]
  /\ Goto(p, "replace")
  /\ UNCHANGED <<progress, writing, disk, snapshot, index, registered>>

\* os.replace: the temporary file becomes the index in one step.
ReplaceIndex(p) ==
  /\ stage[p] = "replace"
  /\ index' = [entries |-> NewEntries(p), whole |-> tmp[p] = "whole"]
  /\ tmp' = [tmp EXCEPT ![p] = "none"]
  /\ registered' = registered \union {run[p]}
  /\ Goto(p, "announce")
  /\ UNCHANGED <<progress, writing, disk, snapshot>>

\* The audit event, the log lines and the final print.
Announce(p) ==
  /\ stage[p] = "announce"
  /\ Goto(p, "exit0")
  /\ UNCHANGED <<progress, writing, disk, store>>

Fail_Mutant(p) ==   \* a failed registration no longer fails the run
  /\ Running(p)
  /\ stage[p] # "trends"
  /\ \E t \in TmpAfterError(p) : tmp' = [tmp EXCEPT ![p] = t]
  /\ writing' = [writing EXCEPT ![p] = FALSE]
  /\ Goto(p, IF stage[p] \in {"register", "mkstemp", "dump", "replace"}
             THEN "exit0" ELSE "exit1")
  /\ UNCHANGED <<progress, disk, snapshot, index, registered>>

\* Any exception inside the try block (bad data, I/O error, a refused
\* registration, a closed stdout) makes execute return 1.  What reading the
\* trends raises does not get here.
Fail(p) ==
  /\ Running(p)
  /\ stage[p] # "trends"
  /\ \E t \in TmpAfterError(p) : tmp' = [tmp EXCEPT ![p] = t]
  /\ writing' = [writing EXCEPT ![p] = FALSE]
  /\ Goto(p, "exit1")
  /\ UNCHANGED <<progress, disk, snapshot, index, registered>>

\* The process is killed: nothing is cleaned up.
Crash(p) ==
  /\ Running(p)
  /\ writing' = [writing EXCEPT ![p] = FALSE]
  /\ Goto(p, "crashed")
  /\ UNCHANGED <<progress, disk, store>>

\* The operator deletes the directory of a run (the readers allow for it).
DeleteRunDir(id) ==
  /\ id \in dirs
  /\ dirs' = dirs \ {id}
  /\ file' = [file EXCEPT ![id] = NoFiles]
  /\ UNCHANGED <<stage, progress, writing, llmStatus, llmResult, store>>

-----------------------------------------------------------------------------
Init ==
  /\ stage = [p \in Proc |-> "idle"]
  /\ run = [p \in Proc |-> Nil]
  /\ job = [p \in Proc |-> Nil]
  /\ week = [p \in Proc |-> 0]
  /\ llm = [p \in Proc |-> "off"]
  /\ trends = [p \in Proc |-> "unread"]
  /\ metrics = [p \in Proc |-> 0]
  /\ lookup = [p \in Proc |-> {}]
  /\ found = [p \in Proc |-> Nil]
  /\ writing = [p \in Proc |-> FALSE]
  /\ snapshot = [p \in Proc |-> <<>>]
  /\ tmp = [p \in Proc |-> "none"]
  /\ dirs = {}
  /\ file = [id \in RunId |-> NoFiles]
  /\ llmStatus = [id \in RunId |-> "none"]
  /\ llmResult = [id \in RunId |-> "none"]
  /\ index = [entries |-> <<>>, whole |-> TRUE]
  /\ registered = {}

\* One invocation: an input file, --week absent or a week of the data, a mode.
Invocation ==
  UNION {[input : {f}, target : {0} \union Weeks[f], mode : LlmMode] : f \in Input}

Launch(p) ==
  \E j \in Invocation, id \in IdPool[p] : Start(p, id, j) \/ StartRaises(p, id, j)

\* What the process does by itself once it has been launched.
Step(p) ==
  \/ Analyse(p)
  \/ ComputeTrends(p)
  \/ \E outcome \in {"unprompted"} \union Generated : RenderLlm(p, outcome)
  \/ RenderLlmRaises(p)
  \/ OpenArtifact(p)
  \/ CloseArtifact(p)
  \/ RegisterRead(p)
  \/ MakeTmp(p)
  \/ DumpTmp(p)
  \/ ReplaceIndex(p)
  \/ Announce(p)
  \/ Fail(p)

Next ==
  \/ \E p \in Proc : Launch(p) \/ Step(p) \/ Crash(p)
  \/ \E id \in RunId : DeleteRunDir(id)

Spec == Init /\ [][Next]_vars

-----------------------------------------------------------------------------
(* Properties *)

\* Type correctness of every variable; a running process has a run_id and
\* options, and a week once it has analysed its input (pipeline.py 49-84).
TypeOK ==
  /\ stage \in [Proc -> Stage]
  /\ run \in [Proc -> RunId \union {Nil}]
  /\ job \in [Proc -> Job \union {Nil}]
  /\ week \in [Proc -> Nat]
  /\ llm \in [Proc -> {"off", "unprompted", "raised"} \union Generated]
  /\ trends \in [Proc -> {"unread", "read", "unreadable", "torn", "vanished"}]
  /\ metrics \in [Proc -> 0..MaxMetrics]
  /\ lookup \in [Proc -> SUBSET RunId]
  /\ found \in [Proc -> RunId \union {Nil}]
  /\ writing \in [Proc -> BOOLEAN]
  /\ snapshot \in [Proc -> Seq(Record)]
  /\ tmp \in [Proc -> {"none", "partial", "whole"}]
  /\ dirs \subseteq RunId
  /\ file \in [RunId -> [Artifact -> {"absent", "torn", "whole"}]]
  /\ llmStatus \in [RunId -> {"none", "off", "fallback", "success"}]
  /\ llmResult \in [RunId -> {"none"} \union Reply]
  /\ index \in [entries : Seq(Record), whole : BOOLEAN]
  /\ registered \subseteq RunId
  /\ \A p \in Proc :
       /\ Running(p) => run[p] \in RunId /\ job[p] \in Job
       /\ Running(p) /\ stage[p] # "analyse" => week[p] \in WeekStart

\* Every run the index names has, unless its directory was deleted since, all
\* its artifacts complete on disk: whatever the interleaving or the crash, a
\* reader of the index never meets a half-written run (pipeline.py 154-187).
IndexedRunsComplete ==
  \A id \in Ids(index.entries) \intersect dirs :
    \A a \in {"findings", "brief", "manifest"} : file[id][a] = "whole"

\* manifest.json is a commit mark: when it is complete, so are the artifacts
\* it hashes (export/write.py 83-137).
ManifestComesLast ==
  \A id \in dirs :
    file[id]["manifest"] = "whole"
      => /\ file[id]["findings"] = "whole"
         /\ file[id]["brief"] = "whole"
         /\ llmStatus[id] \in {"success", "fallback"} => file[id]["llm_response"] = "whole"

\* No reader ever finds a half-written index (history/store.py 124-134).
IndexWhole == index.whole

\* The handler around compute_trends hides every error of reading the
\* history: of these, a half-written file is never the cause.  Whatever other
\* runs are writing, an empty trend context means an I/O error or a directory
\* deleted under the reader (pipeline.py 129-137, history/store.py 202-233).
TrendsReadWholeFiles == \A p \in Proc : trends[p] # "torn"

\* A run_id occurs once in the index, even when two processes draw the same
\* run_id or register at the same time (history/store.py 116-120).
EntriesUnique ==
  \A i, j \in DOMAIN index.entries :
    index.entries[i].id = index.entries[j].id => i = j

\* The index never loses a run it has published (history/store.py 86-133).
NoRunLost == registered \subseteq Ids(index.entries)

\* execute returns 0 only for a run that is in the index, with its temporary
\* file gone (pipeline.py 176-197).
SuccessIsRecorded ==
  \A p \in Proc :
    stage[p] = "exit0" => run[p] \in Ids(index.entries) /\ tmp[p] = "none"

\* "On any LLM failure the deterministic brief is returned ... the pipeline
\* must not crash": no response makes the run fail (render/llm.py 64-66).
LlmNeverFailsRun == \A p \in Proc : ~(llm[p] = "raised" /\ stage[p] = "exit1")

\* The index behaves as the append-only log of RunLog.
Log == INSTANCE RunLog WITH log <- index.entries

PublishesRunLog == Log!Spec
=============================================================================
