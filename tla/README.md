# Verification of wbsb

This directory holds TLA+ models of the Weekly Business Signal Brief (`src/src/wbsb`),
the TLC configurations that check them on small instances, and TLAPS proofs that hold for
every instance. Paths below are relative to `src/src/wbsb` unless they start with `docs/`.

## The system

| Part | State it keeps | Operations | Hard behaviour |
|---|---|---|---|
| Pipeline (`pipeline.py`, `export/write.py`) | the run directory `runs/<run_id>/` | `execute`, `write_artifacts` | several runs share `runs/`; crash or error between any two writes |
| History index (`history/store.py`) | `runs/index.json` | `register_run`, `get_metric_history` | read-append-replace without a lock; readers at any moment |
| Trends (`history/trends.py`) | none | `compute_trends` | reruns, gaps, flat, zero and negative values |
| Commands (`cli.py`) | a listing taken before the run | `run`, `run --auto`, `deliver` | find the own run among others; two error channels |
| Scheduler (`scheduler/`) | none; reads the watch directory and the index | `find_latest_input`, `already_processed` | check and act are minutes apart; calendar week against data week |
| Delivery (`delivery/`) | none; posts to Teams and Slack | `deliver_run`, `send_alert` | half-written runs, one channel failing, timeouts |
| Feedback server (`feedback/`) | nonces and windows in memory, files under `feedback/` | `POST /feedback` | retransmission, delay, restart, boundaries of time windows |
| LLM overlay (`render/llm*.py`) | none | `render_llm`, `generate`, `validate_response` | every failure must become a fallback; a reply may be malformed in any field |
| Findings, metrics, rules (`findings/`, `metrics/`, `compare/`, `rules/`) | none | pure functions of two weeks | zero, missing, negative and low-volume values; guards that read NaN |
| Validation (`validate/schema.py`) | the audit events | `validate_dataframe` | cells that are empty, no number, or no integer |
| Rendering (`render/context.py`, `render/template.py`) | none | `prepare_render_context`, `render_template` | two layouts of the narratives, two computations of the dominant cluster |
| Evaluation (`eval/scorer.py`) | none | the coverage and hallucination scores | the scores must be about what the brief shows |
| Logging, hashing, data models | none | formatting, I/O | |

They interact through files. `cli.run` calls `execute`; `execute` reads the index for the
trends, writes the artifacts and registers the run; `cli` finds the run again by a
difference of directory listings and hands it to `deliver_run`, which reads the artifacts
back; `run --auto` reads the index written by earlier runs to decide whether to run. Nothing
locks a file: every process that shares `runs/` can see the others between any two steps.
The feedback server is a process of its own, with one thread.

What makes each part correct:

- Pipeline and index: whatever overlaps, fails or is killed, the index is whole, names complete runs
  only and each once; exit code 0 means recorded; the manifest is the last artifact; serial runs
  lose nothing.
- Trends: the lookback is the dataset's newest runs before the week analysed; the label agrees with
  the count and with the metric's direction.
- Commands and scheduler: a command delivers and alerts about its own run; an automatic run that has
  looked into the index does not process a week it holds; every command ends.
- Delivery: a run gives the same card whenever it is delivered, and the card shows a narrative
  exactly when the LLM has told one.
- Feedback server: a signed message is saved at most once under one nonce in a life of the server, a
  200 means saved, the limits hold in every sliding window, and memory is bounded.
- LLM overlay: no response fails a run (one does, see `pipeline_llm_crash`). A brief is published once,
  enriched only by an accepted answer, and the recorded evaluation accounts for every answer. The
  brief shows what the reply says of this week's signals and nothing else of it.
- Findings and rules: no rule fires on a missing number or on a rate over nobody; a big loss
  leads the brief; a week still worse is still warned about.
- Evaluation: the scores agree with the brief.

Where the code is exposed to each hazard is listed line by line in `PROJECT.json`.

## Modules

| Module | Models | State and actions |
|---|---|---|
| `RunLog` | what the index promises its readers | `log`; `AppendRecord` |
| `Pipeline` | `execute`, `write_artifacts`, `register_run`, for any number of processes | see below |
| `Cli` (extends `Pipeline`) | `wbsb run`, `--auto`, `wbsb deliver`, alerts | `phase` is the command's place; each action is one file-system or network effect |
| `RateLimiter` | `feedback/ratelimit.py` | one action per outcome of `check`; time goes by, and the clock may be stepped back |
| `NonceStore` | `feedback/auth.py`, `NonceStore` | the two outcomes of `check_and_record`, as operators |
| `FeedbackServer` | `feedback/server.py`, `feedback/store.py` | the handler's steps; instances of `RateLimiter` and `NonceStore` share its variables |
| `Trends` | `get_metric_history`, `compute_trends` | the index grows, findings are deleted; the classification is a set of operators, with sorting and filtering stated by the position a member takes |
| `Findings` | `validate_dataframe`, `compute_metrics`, `compute_delta`, `safe_div`, `evaluate_rules` with the eleven rules of `config/rules.yaml`, `build_findings` | operators from the two rows of a sheet to audit events and signals |
| `LlmResponse` (extends `Findings`) | `validate_response`, the dominant cluster, what `render_template` prints | operators from a reply to the validated result and the sections of the brief |
| `Scorer` (extends `LlmResponse`) | `eval/scorer.py` | operators |
| `Overlay` | what `render_llm` promises a run | `answered`, `brief`, `eval`; `Answer`, `Publish` |
| `Report` (extends `Scorer`) | the stages of `execute` between the sheet and `brief.md` | see below |
| `PipelineProofs` | theorems about `Pipeline` | |
| `CliProofs`, `CommandProofs` | theorems about `Cli` | |
| `RateLimiterProofs`, `FeedbackProofs` | theorems about `RateLimiter` and, with an instance of these, `FeedbackServer` | |
| `TrendsProofs` | theorems about `Trends` | |
| `FindingsProofs`, `ReportProofs` | lemmas about `Findings`, theorems about `Report` | |
| `MC*` | values for TLC | |

`Pipeline` follows one call of `execute` as `stage[p]`: `Start` makes the run directory;
`Analyse` is everything from the hash of the input to the findings in memory; with an LLM
mode `ComputeTrends` and `RenderLlm` follow (`summary` takes the path of `full`). The history is
read for one metric after another, as the code does: the index (`ReadHistory`), then for each of the
runs found `exists()` (`FindFindings`) and the text of `findings.json` (`ReadFindings`), with other
runs and the operator between any two of these. Whatever they raise ends in the handler of
`pipeline.py` 129-137 and an empty trend context (`LoseTrends`); `trends[p]` remembers why. How many
metrics have signals is any number up to `MaxMetrics`. `llm[p]` is what the LLM call gave: a
fallback, or a reply of the set `Reply`, which may have a situation, none, one of white space, or
call itself a fallback; `ResolveLlmStatus` makes the manifest's status of it. Each
artifact is written by `OpenArtifact` (the file exists, truncated) and `CloseArtifact` (it is
complete) in the order of `write_artifacts`; `RegisterRead`, `MakeTmp`, `DumpTmp` and
`ReplaceIndex` are the steps of `register_run`; `Announce` is the logging and the print
before `return 0`. `Fail` is an exception anywhere in the `try` block, `Crash` a killed
process, `DeleteRunDir` the operator's `rm -r`. Crashes are crashes of a process: what it has
written stays, power failures are not modelled. Weeks are numbers, a run_id is a model value,
and whether two invocations may draw the same one is the constant `IdPool`. `Overlap` says
whether a run may be started during another.

`Report` follows the same call of `execute` through its contents, where `Pipeline` follows its files
(there `Analyse` and `RenderLlm` are single steps): `pc` goes from `loaded` over `validated`
(`Validate`) to `built` (`Build`), and from there to `published` directly (`RenderOff`, `PromptsFail`,
`CallFails`) or over `answered` (`Answer` with any reply), `accepted` (`Accept`, the validated
result) and `scored` (`Score`, or `ScorerFails`, which only loses the scores) to `RenderEnriched`.
`Reject` falls back to the deterministic brief; `AnswerRaises` and `Fail` end in `failed`. A float is
an exact rational, or NaN, and None is what `safe_div` gives for a zero denominator; comparisons
with NaN are false, as they are in Python. A text is one of "null", "blank", "text" and "long";
of a watch list the brief shows the positions printed. The texts for categories come as a list of
keys in any spelling, and the constant `NormalForm` is what `lower()` and `replace(" ", "_")` make of
each key; when two have one normal form, the later text is kept, as the dict of `template.py` 70-74
does.

`Cli` keeps of the options what decides the control flow. Every alert is switched on and the
configuration is valid. `PickRun` takes any new directory, because `next(iter(set))` does. The check
of an automatic run has three outcomes: it reads the pipeline's index (`CheckProcessed`), it fails to
read one and goes on (`CheckFails`), or `--index-path` names another file, which may say anything
(`CheckElsewhere`); `checkedIn` notes the week of the first. A delivery computes `effective_llm`
from the manifest and the result (`IsFallback`), and each channel makes its card of it
(`SituationText`): Teams strips the situation, Slack does not.

In `FeedbackServer` a client signs each message once (`Sign`) with a clock that is off by at
most `Skew`. The signature covers the timestamp and the body, not the nonce header: a request is a
message with any nonce, and any number of copies arrive at any time. `MaxPause` bounds the time between
the two clock readings of one request (`verify_timestamp` and the nonce store).

Definitions whose name ends in `_Mutant` are plausible bugs in the definition after them. No
specification uses them; each property is known to be violated by one of them.

## Runs

All configurations switch deadlock checking off: commands, runs and bounded clocks end.

| Run | Instance | Shows |
|---|---|---|
| `pipeline_overlap` | 2 overlapping runs, weeks 1-3, both modes, replies that call themselves a fallback, up to 2 metrics | no interleaving, crash or error makes the index name an incomplete run, or half-written; the manifest comes last; trends are never lost to a half-written file |
| `pipeline_serial` | 3 runs one after another, which may draw the run_id of the run before | the index is an append-only log (refinement of `RunLog`), loses nothing, has no run_id twice, and exit code 0 means recorded |
| `cli_serial` | 2 commands one at a time, calendar weeks 2 and 3, checks that fail or read another index | each command delivers and alerts about its own run; a week the check has asked about is processed once; `Cli` implements `Pipeline` |
| `cli_deliver` | a run and a delivery at once, both channels, replies with a situation, a blank one or their own fallback flag, listings that fail, a link that leaves the watch directory, fairness | the card of a run never changes and has a narrative exactly when the LLM told one; every command ends |
| `ratelimiter` | 3 addresses, limits 2 and 3, window 2, 6 instants, a clock stepped back by up to 2, symmetric addresses | limits hold in every closed window of real time, refusals are justified, idle addresses are forgotten |
| `feedback` | 2 messages, one of them invalid, under any of 3 symmetric nonces, freshness 1, skew 1, pause 1, TTL 3, capacity 3, 1 request per 2 instants, 5 instants, 1 restart | saved once per nonce and life; 200 means saved; the circuit breaker keeps the nonce store within its capacity |
| `trends` | 2 datasets, up to 4 runs over 3 weeks, 4 values, lookback 3, `min_consecutive` 2 | no leakage between datasets or from reruns; an older week leaves the newer history alone; labels, counts and the metric's direction agree |
| `report` | grids of revenue, cost and spend, of bookings, visits and cancellations, and of leads and clients, with every cell damaged once, unusable sheets; 5 weeks with replies that need every repair and every rejection | no rule rests on a missing number, big losses lead the brief, worse weeks stay warned about, the brief shows the reply, scores and brief agree, `Report` implements `Overlay` |

Why the bounds are enough: the index protocol has two-process races only (a third run can
do nothing a second cannot), and the serial runs use three to have a registration before and
after a failed one; the limits, windows and times of the server are scaled down so that every
boundary (exactly at the limit, exactly at the cutoff, exactly at the expiry) is reached. In
`trends` the band is 50 percent and the values are 0, 1, 2 and 4: every mix of flat (4 to 2, at
the edge of the band), rising, falling, zero and missing occurs, and a metric rises through three
different weeks as well as in reruns of one. In `report` the money is in
thousands with a minimum revenue of 3 and a volume threshold of 5: each metric takes values on
both sides of each threshold and on it, zero included, and each rule fires and stays silent. Both
modes of the hybrid rules occur. `WorseStaysWarned` lowers a cell to each of `Amounts`, here the halves
from -2 to 8. The replies are not combined with every sheet: what validation,
layout and scores do depends only on which signals there are, and five weeks without a
signal, with an INFO alone, one WARN, and clusters of two and three stand for them. Their
categories come under the internal name, in capitals, with a capital letter and under a name no
category has, two of them with one normal form.

`feedback` takes `Ttl = Skew + Fresh + MaxPause`, the least for which `SavedOncePerLife` holds; each of
the three is 1, and with `Ttl = 2` the instance saves a copy. The code has `Fresh` = 300 s and `Ttl` = 600 s,
so the lead of a client's clock and the pause between the two clock readings of a request may be
300 s together. A timestamp that leads by the full 300 s `verify_timestamp` accepts leaves no room
for any pause: with such a client a copy that is held up between the two readings is saved again. The
capacity is scaled with the traffic: three requests can have live nonces at once, and the store
holds three (in the code 100 a minute for ten minutes, against 10,000). The limit
per address is never the binding one there; it is in `ratelimiter`.

Four further runs show where the code and what its documents say of it part (the quotes and
lines are in `PROJECT.json`):

| Run | What happens |
|---|---|
| `pipeline_lost_run` | of two overlapping runs the index keeps one |
| `pipeline_llm_crash` | a response that is a JSON list or number fails the run |
| `cli_silent_fallback` | the fallback alert waits for a status that is never written |
| `report_key_story` | the key story the prompt asks for is scored as a critical hallucination |

The models contain the following as well, for which no run is kept. An error after the
replace (a closed stdout) gives exit code 1 to a run that is in the index. With overlapping runs, or when
the listing before a run failed, `--deliver` may take another run for its own. The trends are lost
without a trace to an I/O error, or to a directory that is deleted between `exists()` and the read. A
file that ends before this week is processed by every `--auto`; so is a week that is in the index when
the index cannot be read, or when `--index-path` names another one; and two `--auto` at once both
process the week. `docs/iterations/i9/tasks.md` 310 says that `--auto` never double-processes.
`execute` returning 1 sends no alert. A reply with a summary and no situation is accepted: the
manifest says "success", and the cards show the fallback banner. A situation of white space is
shown by Slack as it is. A signed message that is sent again under another nonce is saved again. `--auto --deliver` does not deliver. A retry after a failed
save is told that it was processed. A metric that jumps from zero may be called stable, and a
week that was run twice counts twice in `weeks_consecutive`. A rise of a negative metric is
classified "down" (`history/trends.py` 104; `docs/iterations/i6/tasks.md` 474 has "up").

In the contents of a report, too, the code differs from what is written of it. Each of these is
modelled as the code has it:

- An empty cell stays NaN and gives no audit event; `docs/project/HOW_IT_WORKS.md` 91 and 343 have it
  coerced to zero and logged. NaN passes every guard, so rule B1 may fire although the revenue
  of the week before is blank, and the reliability of its metric stays "ok".
- A fall of bookings or new clients from 4 to 2 is warned about by neither mode of a hybrid rule.
- A previous contribution of exactly 0 has no relative change, so H3 is silent after it.
- Signals are sorted by severity, priority and rule_id (`rules/engine.py` 151), not just "by rule_id"
  (line 28).
- Of two spellings of one category in a reply, such as "Operations" and "operations", the brief shows
  the later text only.
- A blank narrative counts as covered, and a blank key story as a key story. The `executive_summary`
  is validated but never printed, although `render/template.py` 116 says it is.
- When a prompt cannot be rendered, no evaluation is recorded, not even as skipped.

## Fairness

`FairCliSpec` assumes weak fairness of each command's own steps, not of its being started, of
crashes or of the operator. The operating system schedules a process that is not
killed, and every call it makes returns or raises: the LLM call has a timeout of 30 s, each
POST one of 10 s, file operations are local. A step is never disabled by another process for
good: where a file it needs is gone, `Fail` or `LoadFailed` is the step it takes.

## Proofs

Eight modules prove theorems for every value of the constants. Every invariant, action property and
refinement that a passing run checks has one. The assumptions are those of the constants
(`PipelineAssumption` and its like) and, where they are named below:

- `~Overlap`: commands do not overlap. `pipeline_lost_run` shows that it cannot be dropped.
- `DistinctIds`: no two invocations draw the same run_id. Without it, two processes that write into
  one directory can tear what the other has registered.
- `~ListingFails`: the outputs directory can be listed.
- `TrafficFits`: the limiter admits fewer requests in `Ttl` seconds than the nonce store has places.
  In the code 600 s are covered by ten closed windows of 60 s (a window of whole seconds has 61 of
  them) with 100 requests each, and the store has 10,000 places.
- `Skew + Fresh + MaxPause <= Ttl`: a nonce outlives the timestamps that come with it. The code has
  `Fresh` = 300 s and `Ttl` = 600 s and meets this while the client's lead and the pause are at most
  300 s together.
- `MinPrevNetRevenue \in Nat \ {0}`: the minimum revenue of the rules' guards is positive, as the
  configured one is.

`PipelineProofs`:

- `TypeCorrect`: `TypeOK`.
- `StoreInvariant`, from which `UniqueEntries` and `WholeIndex`. No run_id twice is not inductive:
  the invariant adds that what a process has read (`snapshot`) has no duplicate and lacks its own
  run_id, and that a process about to replace the index has a complete temporary file. It holds with
  overlapping processes and colliding run_ids, because each process writes what it has read plus
  itself.
- `SerialInvariant`, from which `SerialNoRunLost` and `SerialRunLog` (the refinement of `RunLog`),
  under `~Overlap`. At most one process runs, and what it has read is still the index when it
  replaces it.
- `ArtifactInvariant`, from which `CompleteRuns` and `TrendsRead`, under `DistinctIds`. A run_id in
  the index, or in what a process is about to write, belongs to a run whose artifacts were complete;
  they are touched only by the process that owns the directory (`WriterOwnsDir`), which does not
  write again once it registers. The runs a reader has still to look up come from the index
  (`EarlierRunsIndexed`), so their findings are complete or deleted, never half-written.
- `SuccessRecorded`, under `~Overlap`: `Recorded` says that a process past `ReplaceIndex` has
  registered its run and left no temporary file, and `SerialInvariant` that nothing registered is
  lost.
- `ManifestVouches`, under `DistinctIds`: `SealInv` says that a run_id nobody has drawn has no
  files, that a run still being written has no whole manifest, and that the answer of the LLM is on
  disk before the manifest is.

`CliProofs`: `CliTypeCorrect`, and `CliRunsPipeline`: every step of a command is a step of
`Pipeline` or leaves its variables alone. All theorems about `Pipeline` therefore hold of the
commands, and `CommandProofs` builds on them:

- `DeliversItsOwnRun` and `AlertsNameOwnRun`, under `~Overlap` and `~ListingFails`. `OneAtATime`
  says that of all commands one at most is under way, and `OwnDirs` that the directories which
  appeared since its listing are its own: the difference of the listings is then its run.
- `CardsTellTheTruth` and `CardsNeverChange`, under `DistinctIds` but with commands that overlap
  freely. A run with a whole manifest is `Settled`: the manifest does not change any more, it can
  only be deleted with its directory; `ManifestTruth` says that it and the stored result tell what the
  LLM call gave, and `EffectiveTruth` that the result a card is built from is a reply the LLM has
  given and not called a fallback.
- `AutoRunsOncePerWeek`, under `~Overlap` and `DistinctIds`, for runs whose check has read the
  pipeline's index. `CheckedClear` says that between the check and the registration the index still
  lacks the dataset's week that was asked about; a new entry is that of the only command under way
  (`NewIsAlone`), which executes the file it has checked (`JobIsRequest`).

`TrendsProofs`, for any number of runs, weeks and datasets and any thresholds:

- `EntriesTyped`: the index keeps its type.
- Sorting. `InOrder` lists a set by the number of members before each. For a strict linear order of
  a finite set these numbers are a bijection to 0, 1, ... (`RankBijective`), so the list is sorted,
  has every member once (`InOrderSorts`), and is the only such list (`InOrderUnique`); a map that
  keeps the order maps list to list (`InOrderMapped`).
- `RerunsDoNotLeak` and `BackfillIsHarmless` compare the history of the log with that of a part of
  it. `PartHistory` says that they agree on the part whenever no candidate outside of it is newer
  than one inside: then the limit of the lookback counts the same runs in both (`PartLookback`). The
  candidates themselves are such a part, and so are the runs of newer weeks.
- `CountsEnough`: the last `MinConsecutive` non-flat steps stand at positions after which no step
  goes against them, so all of them are counted (`TrailingEnough`). Where no week was run twice
  these steps lead to as many different weeks (`StepsAreWeeks`).
- `GrowthIsNotAFall`: no step of such a metric is "down" (`GrowingStep`, `NoStepDown`), and both
  labels need one.

`RateLimiterProofs` bounds requests that are counted in real time by windows of clock readings:

- `AddressesLimited`, `ServerLimited`, `RefusalsJustified`, `TableFollowsTraffic`. The invariant
  `WindowsTrace` says of each window that there is a function from its instants to the log of
  admitted requests which keeps the order, is off by at most the clock's lag, and misses no request
  of the last `Window` seconds. Purging preserves it (`TracesPurge`), since the cutoff lags behind
  real time by exactly as much as the readings may; so does an admission (`TracesAppend`). No recent
  request is missing, so the log has at most as many as the window has instants (`AtMostWindow`); a
  window whose head is recent holds recent requests only, because the log is in order, so the log
  has at least as many (`AtLeastWindow`). The first gives the limits, the second the other two.
- `ManyWindows`: `n` windows one after another admit at most `n` times the limit. It is an induction
  without the induction theorem, from the smallest number for which it fails (`Smallest`).

`FeedbackProofs`:

- `FeedbackTypeCorrect`: `TypeOK`.
- `AcknowledgedIsSaved`: between the opening of the file and the answer, the last file is the one of
  the current request (`LastIsCurrent`).
- `StoreNeverFull`, under `TrafficFits`: a nonce that has not expired is never evicted. Every step
  of the server is a step of the limiter, leaves it alone, or restarts it empty together with the
  log of what it admitted, so the limiter's invariant holds in the server (`LimiterHolds`). The
  nonces recorded in this life belong to different admitted requests, none of them later than its
  nonce, and the later ones no earlier than the nonce before them (`NonceTrace`). So all live nonces
  but the one recorded first belong to requests of the last `Ttl` seconds, as does the request in
  hand, and of those `ManyWindows` and `TrafficFits` leave fewer than the store has places
  (`FewLive`).
- `SavesOnce`: under `Skew + Fresh + MaxPause <= Ttl`, and as long as no live nonce is evicted, a life
  of the server saves a message under one nonce at most once. `Remembered` says that a nonce spent in
  this life is in the store until its message's last chance to pass (`LastChance`), or this has gone
  by; `SignedInTime` that no timestamp leads the server's clock by more than `Skew`; `HandlerTimes`
  that a request reaches the nonce store within `MaxPause` of a fresh timestamp.
- `SavesAtMostOnce`: the two together, with hypotheses on the constants alone.

`FindingsProofs` and `ReportProofs`, over exact rationals and for every sheet, damaged cells and
fractions included, every configuration and every reply:

- `SignalsRestOnNumbers`: what a condition compares is a number only if every cell behind it is
  (`MetricNumber`, `DeltaNumber`, `SafeDivNumber`).
- `LossAlwaysLeads`, for a positive minimum revenue: the case in which H3 is silenced by its guard
  on the current revenue is one in which A1 fires (`LossFires`, by way of `PercentOf` and
  `NetUnderContribution`), and a rule of the highest priority is among the first three
  (`HighestLeads`). With a minimum of zero it is false: two weeks without revenue and with a growing
  spend fire neither.
- `WorseIsStillWarned`: sums and quotients of the cells are monotone (`SumMonotone`,
  `QuotientMonotone`, by cross-multiplication), so a metric that has fallen further has a change at
  most as large (`FallsFurther`), and the conditions and guards of A1, F1 and G1 hold on
  (`FallStaysWarned`).
- `BriefIsTheReply`: `ResultBuilt` says that what is rendered and scored is what validation made of
  a reply it did not reject. The cluster of the prompt, two warnings in the dominant category, is
  the cluster of the brief, two in any, because the dominant one has the most (`DominantHasMost`,
  `SameCluster`); of narratives and watch list the template prints what validation has left
  (`NarrativesKept`, `WatchKept`), and of the texts given for a category the last one (`LastPosition`,
  `GroupsFacts`).
- `ScoresJudgeTheBrief`: the violations of each kind are about the same narratives, groups and
  entries the brief is made from (`ViolationsOfKind`).
- `ReportImplementsOverlay`: every step of a report is a step of `Overlay` or leaves its variables
  alone (`Progress`).

Only model-checked: the liveness property `CommandEnds`, which is out of the prover's reach. The
four runs that expect a violation have no theorems, of course: what they state is false.

## Not modelled

- Of the sheet, the rows of other weeks (of two rows of one week the first is taken); reading the
  file. Floating-point rounding and infinities.
- Of an evaluation, the grounding of the numbers in a text (string processing, which ignores
  signs); `eval`, which compares golden files.
- The wording of briefs, cards, prompts and alerts, with the mechanism chains and hints of the prompts;
  logging; digests; configuration files, but for the rules.
- Connections of the feedback server: a request arrives whole, so a client that stalls the
  single thread is out of sight. Signatures: a message is one that was signed with the secret.
- A clock that is stepped back under the nonce store (it is under the rate limiter): by the
  argument of `SavesOnce` a copy would be caught only if `Ttl` covered the step as well.
- Power failures: a crash is one of a process.
- `version` and `feedback list | summary | export`, which read and print.

## Plan

1. Done: every module of the table; a theorem for every safety property that a passing run checks.
2. Left: the clock of the nonce store; a connection that stalls. Each needs a change of `FeedbackServer` first,
   and the first of them a new bound in `SavesAtMostOnce`.
