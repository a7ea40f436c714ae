-------------------------------- MODULE Cli --------------------------------
(***************************************************************************)
(* The commands around execute: `wbsb run`, `wbsb run --auto` and           *)
(* `wbsb deliver` (cli.py), with the scheduler's decision                  *)
(* (scheduler/auto.py), the delivery of a finished run                     *)
(* (delivery/orchestrator.py) and the alerts (delivery/alerts.py).         *)
(*                                                                         *)
(* The pipeline itself is Pipeline.tla; a process of Proc is one           *)
(* `wbsb run`, which tells the run it has made from the others by a        *)
(* difference of directory listings.  Exit codes are not kept: `wbsb run`  *)
(* returns execute's, and 1 after an exception.  Every alert is switched   *)
(* on and config/delivery.yaml is valid.                                   *)
(***************************************************************************)
EXTENDS Pipeline

CONSTANTS
  Deliverer,   \* the invocations of `wbsb deliver`, each made once
  Target,      \* the delivery channels that are enabled, out of {"teams", "slack"}
  Oversized,   \* the input files above MAX_INPUT_BYTES
  Outside,     \* the links in the watch directory that leave it
  ListingFails,\* TRUE: the listing before a run may fail with an OSError
  FirstWeek,   \* the calendar week in which the system is first used
  LastWeek     \* bound: the last calendar week of a behaviour

ASSUME CliAssumption ==
  /\ Proc \intersect Deliverer = {}
  /\ Target \subseteq {"teams", "slack"}
  /\ Oversized \subseteq Input
  /\ Outside \subseteq Input
  /\ ListingFails \in BOOLEAN
  /\ FirstWeek \in Nat \ {0} /\ LastWeek \in Nat /\ FirstWeek <= LastWeek

VARIABLES
  phase,       \* where each command is
  opts,        \* the flags of each `wbsb run`
  request,     \* what `wbsb run` is about to execute
  checkedIn,   \* the calendar week in which already_processed has read the
               \* pipeline's index, 0 if it has not
  prior,       \* the listing taken before the run
  picked,      \* the run a command delivers
  manifest,    \* llm_status as read by the delivery
  effective,   \* effective_llm: the LLM result the cards are built from
  verdict,     \* the delivery result of each channel
  posted,      \* the reports the channels have received
  alerts,      \* the alerts dispatched
  watch,       \* the matching files of the watch directory, newest last
  today        \* the current calendar week

Client == Proc \union Deliverer

command == <<opts, request, checkedIn, prior>>
delivery == <<picked, manifest, effective, verdict>>
channel == <<posted, alerts>>
world == <<watch, today>>
cliVars == <<vars, phase, command, delivery, channel, world>>

-----------------------------------------------------------------------------
(* Values and decisions *)

Phase == {"idle", "find", "check", "listing", "execute", "pick", "warn",
          "load", "load_llm", "send", "done", "killed"}

Options == [auto : BOOLEAN, deliver : BOOLEAN, mode : LlmMode]

Ended(c) == phase[c] \in {"done", "killed"}

\* A command in progress.
Active(c) == phase[c] # "idle" /\ ~Ended(c)

GoPhase(c, s) == phase' = [phase EXCEPT ![c] = s]

Watched == {watch[i] : i \in DOMAIN watch}

\* find_latest_input: the newest match, unless it is too large.
LatestInput ==
  {f \in Watched : f = watch[Len(watch)] /\ f \notin Oversized}

AlreadyProcessed_Mutant(f) ==   \* compares the week with a date that never matches
  \E i \in DOMAIN index.entries : index.entries[i].week = 0

\* already_processed: the index has the dataset with the current calendar
\* week.  The weeks of the data in f are not looked at.
AlreadyProcessed(f) ==
  \E i \in DOMAIN index.entries :
    /\ index.entries[i].key = DatasetKey[f]
    /\ index.entries[i].week = today

\* The directories made since the first listing: the run's own and others'.
NewDirs(p) == dirs \ prior[p]

\* send_alert: every channel is tried, and no failure is passed on.
Alert(p, kind, id) == alerts' = alerts \union {[by |-> p, kind |-> kind, run |-> id]}

-----------------------------------------------------------------------------
(* wbsb run *)

Admitted(c) == phase[c] = "idle" /\ (Overlap \/ \A d \in Client : ~Active(d))

\* `wbsb run -i file`: the options are valid.
InvokeRun(p, j, deliver) ==
  /\ Admitted(p)
  /\ opts' = [opts EXCEPT ![p] = [auto |-> FALSE, deliver |-> deliver, mode |-> j.mode]]
  /\ request' = [request EXCEPT ![p] = j]
  /\ GoPhase(p, "listing")
  /\ UNCHANGED <<vars, checkedIn, prior, delivery, channel, world>>

InvokeAuto(p, o) ==
  /\ Admitted(p)
  /\ o.auto
  /\ opts' = [opts EXCEPT ![p] = o]
  /\ GoPhase(p, "find")
  /\ UNCHANGED <<vars, request, checkedIn, prior, delivery, channel, world>>

\* A link that leaves the watch directory: the whole command is skipped.
FindRefused(p) ==
  /\ phase[p] = "find"
  /\ Watched \intersect Outside # {}
  /\ GoPhase(p, "done")
  /\ UNCHANGED <<vars, command, delivery, channel, world>>

\* A file that vanishes between iterdir and stat: the OSError is not caught.
FindRaises(p) ==
  /\ phase[p] = "find"
  /\ Watched # {}
  /\ GoPhase(p, "done")
  /\ UNCHANGED <<vars, command, delivery, channel, world>>

FindNothing(p) ==
  /\ phase[p] = "find"
  /\ Watched \intersect Outside = {}
  /\ LatestInput = {}
  /\ Alert(p, "no_file", Nil)
  /\ GoPhase(p, "done")
  /\ UNCHANGED <<vars, command, delivery, posted, world>>

FindInput_Mutant(p) ==   \* the LLM mode is not passed on
  /\ phase[p] = "find"
  /\ \E f \in LatestInput : request' = [request EXCEPT ![p] = [input |-> f, target |-> 0]]
  /\ GoPhase(p, "check")
  /\ UNCHANGED <<vars, opts, checkedIn, prior, delivery, channel, world>>

FindInput(p) ==
  /\ phase[p] = "find"
  /\ Watched \intersect Outside = {}
  /\ \E f \in LatestInput :
       request' = [request EXCEPT ![p] =
                     [input |-> f, target |-> 0, mode |-> opts[p].mode]]
  /\ GoPhase(p, "check")
  /\ UNCHANGED <<vars, opts, checkedIn, prior, delivery, channel, world>>

\* --index-path names the pipeline's index, and it can be read.
CheckProcessed(p) ==
  /\ phase[p] = "check"
  /\ index.whole
  /\ checkedIn' = [checkedIn EXCEPT ![p] = today]
  /\ GoPhase(p, IF AlreadyProcessed(request[p].input) THEN "done" ELSE "listing")
  /\ UNCHANGED <<vars, opts, request, prior, delivery, channel, world>>

\* An index that cannot be read or parsed counts as one without the week.
CheckFails(p) ==
  /\ phase[p] = "check"
  /\ GoPhase(p, "listing")
  /\ UNCHANGED <<vars, command, delivery, channel, world>>

\* --index-path names another file, which may say anything.
CheckElsewhere(p) ==
  /\ phase[p] = "check"
  /\ \E s \in {"done", "listing"} : GoPhase(p, s)
  /\ UNCHANGED <<vars, command, delivery, channel, world>>

ListPrior_Mutant(p) ==   \* no listing is taken
  /\ phase[p] = "listing"
  /\ GoPhase(p, "execute")
  /\ UNCHANGED <<vars, command, delivery, channel, world>>

\* _snapshot_run_dirs: an error counts as an empty listing.
ListPrior(p) ==
  /\ phase[p] = "listing"
  /\ \E seen \in {dirs} \union (IF ListingFails THEN {{}} ELSE {}) :
       prior' = [prior EXCEPT ![p] = seen]
  /\ GoPhase(p, "execute")
  /\ UNCHANGED <<vars, opts, request, checkedIn, delivery, channel, world>>

\* execute begins, or raises before its try block.
CallExecute(p) ==
  /\ phase[p] = "execute"
  /\ \E id \in IdPool[p] : Start(p, id, request[p]) \/ StartRaises(p, id, request[p])
  /\ UNCHANGED <<phase, command, delivery, channel, world>>

Execute(p) ==
  /\ phase[p] = "execute"
  /\ Step(p)
  /\ UNCHANGED <<phase, command, delivery, channel, world>>

\* An exception that escapes execute is alerted with a new directory's name.
CatchException(p) ==
  /\ phase[p] = "execute"
  /\ stage[p] = "raised"
  /\ \E id \in IF NewDirs(p) = {} THEN {Nil} ELSE NewDirs(p) :
       Alert(p, "pipeline_error", id)
  /\ GoPhase(p, "done")
  /\ UNCHANGED <<vars, command, delivery, posted, world>>

ExecuteReturned_Mutant(p) ==   \* a failed run is started again in place
  /\ phase[p] = "execute"
  /\ stage[p] \in {"exit0", "exit1"}
  /\ IF stage[p] = "exit1"
     THEN Goto(p, "idle") /\ UNCHANGED phase
     ELSE /\ GoPhase(p, IF opts[p].deliver /\ ~opts[p].auto THEN "pick" ELSE "done")
          /\ UNCHANGED stage
  /\ UNCHANGED <<progress, writing, disk, store, command, delivery, channel, world>>

ExecuteReturned_DeliverFailed_Mutant(p) ==   \* the exit code is not looked at
  /\ phase[p] = "execute"
  /\ stage[p] \in {"exit0", "exit1"}
  /\ GoPhase(p, IF opts[p].deliver /\ ~opts[p].auto THEN "pick" ELSE "done")
  /\ UNCHANGED <<vars, command, delivery, channel, world>>

\* Only `wbsb run -i file --deliver` goes on to deliver a successful run.
ExecuteReturned(p) ==
  /\ phase[p] = "execute"
  /\ stage[p] \in {"exit0", "exit1"}
  /\ GoPhase(p, IF stage[p] = "exit0" /\ opts[p].deliver /\ ~opts[p].auto
                THEN "pick" ELSE "done")
  /\ UNCHANGED <<vars, command, delivery, channel, world>>

-----------------------------------------------------------------------------
(* Delivery *)

\* The run just made is taken to be any of the new directories.
PickRun(p) ==
  /\ phase[p] = "pick"
  /\ \E id \in NewDirs(p) : picked' = [picked EXCEPT ![p] = id]
  /\ GoPhase(p, "warn")
  /\ UNCHANGED <<vars, command, manifest, effective, verdict, channel, world>>

\* No new directory, or the listing failed: nothing is delivered.
PickNothing(p) ==
  /\ phase[p] = "pick"
  /\ GoPhase(p, "done")
  /\ UNCHANGED <<vars, command, delivery, channel, world>>

\* The LLM fallback alert goes by the manifest's llm_status.
WarnFallback(p) ==
  /\ phase[p] = "warn"
  /\ IF /\ file[picked[p]]["manifest"] = "whole"
        /\ llmStatus[picked[p]] \in {"fallback", "error"}
     THEN Alert(p, "llm_fallback", picked[p])
     ELSE UNCHANGED alerts
  /\ GoPhase(p, "load")
  /\ UNCHANGED <<vars, command, delivery, posted, world>>

\* `wbsb deliver --run-id id`
InvokeDeliver(c, id) ==
  /\ Admitted(c)
  /\ picked' = [picked EXCEPT ![c] = id]
  /\ GoPhase(c, "load")
  /\ UNCHANGED <<vars, command, manifest, effective, verdict, channel, world>>

Loadable_Mutant(id) == id \in dirs   \* no look at the files

\* load_run_artifacts parses findings.json and manifest.json.
Loadable(id) == file[id]["findings"] = "whole" /\ file[id]["manifest"] = "whole"

LoadManifest(c) ==
  /\ phase[c] = "load"
  /\ Loadable(picked[c])
  /\ manifest' = [manifest EXCEPT ![c] = llmStatus[picked[c]]]
  /\ GoPhase(c, "load_llm")
  /\ UNCHANGED <<vars, command, picked, effective, verdict, channel, world>>

\* is_fallback: the manifest says so, or there is no llm_result.
IsFallback(c) ==
  \/ manifest[c] \in {"off", "fallback"}
  \/ file[picked[c]]["llm_response"] = "absent"
  \/ llmResult[picked[c]] = "none"

LoadLlmResponse(c) ==
  /\ phase[c] = "load_llm"
  /\ file[picked[c]]["llm_response"] # "torn"
  /\ effective' = [effective EXCEPT ![c] =
                     IF IsFallback(c) THEN "none" ELSE llmResult[picked[c]]]
  /\ GoPhase(c, "send")
  /\ UNCHANGED <<vars, command, picked, manifest, verdict, channel, world>>

LoadFailed_Mutant(c) ==   \* waits for the artifacts to appear
  /\ phase[c] \in {"load", "load_llm"}
  /\ GoPhase(c, "load")
  /\ UNCHANGED <<vars, command, delivery, channel, world>>

\* A missing, unreadable or half-written artifact fails every channel.
LoadFailed(c) ==
  /\ phase[c] \in {"load", "load_llm"}
  /\ verdict' = [verdict EXCEPT ![c] = [t \in Target |-> "failed"]]
  /\ GoPhase(c, "done")
  /\ UNCHANGED <<vars, command, picked, manifest, effective, channel, world>>

\* The card shows the situation of the result, or the fallback banner if there
\* is none or the result calls itself a fallback.  Teams strips the situation
\* first; Slack shows one of white space as it is.
SituationText(t, result) ==
  CASE result = "answered" -> "narrative"
    [] result = "blank" /\ t = "slack" -> "blank"
    [] OTHER -> "banner"

Report(c, t) ==
  [by |-> c, run |-> picked[c], target |-> t, card |-> SituationText(t, effective[c])]

\* Teams comes before Slack.
Turn(c, t) ==
  /\ phase[c] = "send"
  /\ verdict[c][t] = "none"
  /\ t = "slack" => \A u \in Target \ {t} : verdict[c][u] # "none"

SendOk(c, t) ==
  /\ Turn(c, t)
  /\ posted' = posted \union {Report(c, t)}
  /\ verdict' = [verdict EXCEPT ![c][t] = "success"]
  /\ UNCHANGED <<vars, phase, command, picked, manifest, effective, alerts, world>>

\* The POST timed out or failed; the channel may have received it all the same.
SendFailed(c, t) ==
  /\ Turn(c, t)
  /\ posted' \in {posted, posted \union {Report(c, t)}}
  /\ verdict' = [verdict EXCEPT ![c][t] = "failed"]
  /\ UNCHANGED <<vars, phase, command, picked, manifest, effective, alerts, world>>

FinishDelivery(c) ==
  /\ phase[c] = "send"
  /\ \A t \in Target : verdict[c][t] # "none"
  /\ GoPhase(c, "done")
  /\ UNCHANGED <<vars, command, delivery, channel, world>>

-----------------------------------------------------------------------------
(* The operator, the clock and the specification *)

\* The process is killed inside execute or outside it.
Kill(c) ==
  /\ Active(c)
  /\ GoPhase(c, "killed")
  /\ IF c \in Proc /\ Running(c) THEN Crash(c) ELSE UNCHANGED vars
  /\ UNCHANGED <<command, delivery, channel, world>>

RemoveRunDir(id) ==
  /\ DeleteRunDir(id)
  /\ UNCHANGED <<phase, command, delivery, channel, world>>

\* An input file is put into the watch directory, each file once.
FileArrives(f) ==
  /\ f \notin Watched
  /\ watch' = Append(watch, f)
  /\ UNCHANGED <<vars, phase, command, delivery, channel, today>>

NextWeek ==
  /\ today < LastWeek
  /\ today' = today + 1
  /\ UNCHANGED <<vars, phase, command, delivery, channel, watch>>

CliInit ==
  /\ Init
  /\ phase = [c \in Client |-> "idle"]
  /\ opts = [p \in Proc |-> Nil]
  /\ request = [p \in Proc |-> Nil]
  /\ checkedIn = [p \in Proc |-> 0]
  /\ prior = [p \in Proc |-> {}]
  /\ picked = [c \in Client |-> Nil]
  /\ manifest = [c \in Client |-> "none"]
  /\ effective = [c \in Client |-> "none"]
  /\ verdict = [c \in Client |-> [t \in Target |-> "none"]]
  /\ posted = {}
  /\ alerts = {}
  /\ watch = <<>>
  /\ today = FirstWeek

RunStep(p) ==
  \/ FindRefused(p) \/ FindRaises(p) \/ FindNothing(p) \/ FindInput(p)
  \/ CheckProcessed(p) \/ CheckFails(p) \/ CheckElsewhere(p)
  \/ ListPrior(p) \/ CallExecute(p) \/ Execute(p)
  \/ CatchException(p) \/ ExecuteReturned(p)
  \/ PickRun(p) \/ PickNothing(p) \/ WarnFallback(p)

DeliveryStep(c) ==
  \/ LoadManifest(c) \/ LoadLlmResponse(c) \/ LoadFailed(c)
  \/ \E t \in Target : SendOk(c, t) \/ SendFailed(c, t)
  \/ FinishDelivery(c)

Invoke ==
  \/ \E p \in Proc : \/ \E j \in Invocation, d \in BOOLEAN : InvokeRun(p, j, d)
                     \/ \E o \in Options : InvokeAuto(p, o)
  \/ \E c \in Deliverer, id \in RunId : InvokeDeliver(c, id)

CliNext ==
  \/ Invoke
  \/ \E p \in Proc : RunStep(p)
  \/ \E c \in Client : DeliveryStep(c) \/ Kill(c)
  \/ \E id \in RunId : RemoveRunDir(id)
  \/ \E f \in Input : FileArrives(f)
  \/ NextWeek

CliSpec == CliInit /\ [][CliNext]_cliVars

\* A command that is not killed keeps being scheduled; its network calls have
\* timeouts.
FairCliSpec ==
  /\ CliSpec
  /\ \A p \in Proc : WF_cliVars(RunStep(p))
  /\ \A c \in Client : WF_cliVars(DeliveryStep(c))

-----------------------------------------------------------------------------
(* Properties *)

\* Type correctness of the commands' variables.
CliTypeOK ==
  /\ phase \in [Client -> Phase]
  /\ opts \in [Proc -> Options \union {Nil}]
  /\ request \in [Proc -> Job \union {Nil}]
  /\ checkedIn \in [Proc -> {0} \union FirstWeek..LastWeek]
  /\ prior \in [Proc -> SUBSET RunId]
  /\ picked \in [Client -> RunId \union {Nil}]
  /\ manifest \in [Client -> {"none", "off", "fallback", "success"}]
  /\ effective \in [Client -> {"none"} \union Reply]
  /\ verdict \in [Client -> [Target -> {"none", "success", "failed"}]]
  /\ posted \subseteq [by : Client, run : RunId, target : Target,
                       card : {"narrative", "blank", "banner"}]
  /\ alerts \subseteq [by : Proc, kind : {"no_file", "pipeline_error", "llm_fallback"},
                       run : RunId \union {Nil}]
  /\ Watched \subseteq Input
  /\ today \in FirstWeek..LastWeek

\* Whatever the commands and their caller do, the pipeline inside them behaves
\* as Pipeline says: what holds of a run there holds here (cli.py 90-113, 202-220).
RunsPipeline == Spec

\* Delivering a run again shows the same card in the same channel, whoever
\* delivers it and whenever, as long as its directory has not been deleted:
\* "Delivery must be idempotent" (docs/iterations/i9/tasks.md 30,
\* delivery/orchestrator.py 51).
SameCardAgain ==
  \A a, b \in posted :
    a.run = b.run /\ a.target = b.target /\ a.run \in dirs => a.card = b.card

\* `run --deliver` posts the run it has made and no other, and only if that
\* run is in the index (cli.py 92-94, 110-111, 264-275).
DeliversOwnRun ==
  \A r \in posted :
    r.by \in Proc => r.run = run[r.by] /\ r.run \in Ids(index.entries)

\* The pipeline error alert names the run that failed (cli.py 107, 223-230).
AlertNamesOwnRun ==
  \A a \in alerts : a.kind = "pipeline_error" => a.run \in {run[a.by], Nil}

\* A card shows the LLM's narrative exactly if the LLM has told a situation in
\* the run delivered and has not called its own reply a fallback: even when the
\* run is still being written while it is read, as long as its directory has
\* not been deleted.  The manifest must not be read before the artifacts it
\* speaks of are there (export/write.py 96-137, delivery/orchestrator.py 39-46,
\* 111-112).
CardTellsTheTruth ==
  \A r \in posted, p \in Proc :
    run[p] = r.run /\ r.run \in dirs => (r.card = "narrative") = (llm[p] = "answered")

\* An automatic run whose check has read the pipeline's index never indexes
\* the data of the week it has asked about when any run, automatic or not, has
\* indexed that week of the dataset before (scheduler/auto.py 89-131).
AutoOncePerWeek ==
  \A p \in Proc, i, j \in DOMAIN index.entries :
    (/\ checkedIn[p] # 0 /\ week[p] = checkedIn[p]
     /\ index.entries[j].id = run[p] /\ i < j)
      => ~(/\ index.entries[i].key = index.entries[j].key
           /\ index.entries[i].week = index.entries[j].week)

\* "dispatch alert when AI analysis was unavailable": a delivered run whose
\* LLM call fell back is alerted (cli.py 277).
FallbackAlerted ==
  \A r \in posted :
    (r.by \in Proc /\ llm[r.by] = "fallback")
      => \E a \in alerts : a.by = r.by /\ a.kind = "llm_fallback"

\* Every command that is not killed ends, whatever its calls return.
CommandEnds == \A c \in Client : Active(c) ~> Ended(c)
=============================================================================
