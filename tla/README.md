# A verification project for Polarix

TLA+ models, TLC configurations and TLAPS proofs for the Polarix financial data
pipeline (`src/src/polarix`, with its command lines in `src/scripts`). Every
definition is translated from the Python source; the file and lines it stands
for are in `PROJECT.json` under `map`. Line numbers below are those of the
source files.

## 1. The system

Polarix is a local batch pipeline. Everything it keeps it keeps in files, and
its parts talk to each other through files, return codes and child processes.

| Part (source under `polarix/`) | State it keeps | Operations | Talks to |
|---|---|---|---|
| Day orchestrator (`orchestration/pipeline_orchestrator.py`, `stage_dependencies.py`) | per-invocation stage statuses, presence and trust verdicts; per-day report | `process_one_date`, `run_multiday`, `evaluate_stage_trust`, `classify_day_status` | starts one child per stage; reads what earlier invocations left on disk |
| Download (`orchestration/databento_download_plan.py`, `databento_cost_guard.py`, `ingestion/cme_downloader.py`) | raw file, completeness sidecar; attempt counter | `plan_day_download`, `decide_download_gate`, `run_day_download`, `run_download` | vendor API; the sidecar is read by the orchestrator |
| Demo run (`orchestration/demo.py`, `runner.py`, `artifacts.py`) | run directory: metadata, stage records, outputs, manifest | `run_demo`, `execute_stages`, `publish_json`, `verify_artifacts`, `inspect_run` | other processes using the same run id or directory |
| Stage tools (`ingestion/cme_reference_ingest.py`, `features/*`, `alignment/*`, `quality/*`) | Silver and Gold partitions, JSON reports | one run each, `--force` | children of the orchestrator, functions of the demo |
| Logger (`ingestion/main.py`, `mt5_readonly.py`, `tick_filter.py`, `parquet_writer.py`) | per-symbol filter state, row buffer, part files, health snapshot | `run_logger`, `consider`, `add`, `flush`, `close` | MT5 terminal; stop signal file; SIGTERM |
| Timestamp semantics (`normalization/timestamp_semantics.py`) | offset status, candidates, last fresh tick | `observe`, `evaluate_staleness`, `reset_for_reconnect` | called by the logger, read by normalization |
| Compaction (`ingestion/compaction.py`) | compacted files | `compact_partition`, `compact_all_closed` | reads and deletes the logger's part files |
| Supervisor (`orchestration/supervisor.py`, `preflight.py`) | the logger process, restart count, observations | `start_logger`, `stop_logger_graceful`, `run`, `_finalize` | stop signal, health file, terminate and kill |
| Child registry (`orchestration/subprocess_guard.py`) | list of live children | `add`, `remove`, `cleanup`, `run_tracked_subprocess` | used on Ctrl-C |
| Run metadata and selection (`orchestration/run_metadata.py`, `run_selection.py`, `day_plan.py`) | archived metadata per live run | `write_run_scoped_metadata`, selection policies | written by the supervisor, read by normalization and the orchestrator |
| Normalization (`normalization/normalization.py`, `silver_paths.py`) | Silver MT5 partitions, manifest | normalise with a verified offset, choose legacy or run-scoped Silver | logger output in, alignment out |
| Reports (`features/feature_eda.py`, `feature_statistics.py`, `feature_correlation.py`, `orchestration/multiday_dry_run_report.py`) | report files | pure computation | read by people |

What makes it hard:

* **Crashes between writes.** Nothing spans two files atomically. A tool is
  killed by its timeout, by Ctrl-C or with the machine, and the next invocation
  decides what to reuse from what it finds.
* **Snapshots that go stale.** Presence and trust of all stages are read once,
  before a loop that rewrites some of those stages. Health files and stop
  signals of one process are read by the next one.
* **Failure propagation** through a graph whose stages end in six statuses.
* **Interference.** Files may change between the check and the use.
* **Retries** that are not idempotent: write-once tools, truncated downloads.
* **Asynchronous exceptions**: signal handlers that raise anywhere, a hook that
  raises inside the flush meant to save the buffer.
* **Records of one thing made by another.** The manifest a run archives is a
  file every logger overwrites; which offset a row is normalized with depends on
  files written at three moments.
* **Time in the data.** Broker clocks that shift, late ticks, nanoseconds that
  meet milliseconds, features that must not look ahead while the day goes on.

Correctness, per part: a day is reported complete only when every stage earned
it; a truncated download reaches no consumer unnoticed; whole outputs are not
rewritten unasked; an invocation ends. A demo dataset is handed out only by a
run whose stages all passed on the inputs recorded; what is published is final.
The logger writes every emitted event once; compaction neither loses nor
doubles rows; the supervisor ends with the logger stopped, within its restart
budget, and reports failures as failures. A verified offset is earned by fresh
ticks; every Silver row has an offset that recorded ticks earned, and a run's
Silver holds that run's rows. No feature looks ahead, and rows once
exported stay as they were. The vendor is asked for data only with every
authorization; summary, reports and exit code of a multi-day run tell the same
story.

## 2. Modules

`StageLedger` is the abstract specification shared by both runners: a round
opens with all stages undecided; a stage is settled once, and as good only when
all its predecessors are; the round closes as complete only when all stages are
good, as partial only when the required ones are. `DayPipeline` and `DemoRun`
both implement it (`LedgerRefined`), by different means.

`RowJournal` is the abstract specification of the logger: a row is made where
there is room for it, held, and saved; nothing saved is taken back; only a fault
drops a held row, or has a saved one held again, once for each fault; the process
closes in order only when it holds nothing. `Capture` implements it
(`JournalRefined`): a row is held while it is the event in hand, in the buffer, or
in a flush that has not yet replaced its part file, and a fault is a signal or a
kill. Neither abstract specification has lines of code of its own.

### DayPipeline (with StageGraph)

One date over any number of invocations of the orchestrator.

| Model | Code |
|---|---|
| `raw`, `sidecar` | the raw Parquet (missing, size 0, torn, cut at the record limit, whole) and the `data_completeness_status` beside it |
| `disk[s]` | the output of stage `s` as `detect_artifact_present` sees it; `partial` is a directory tree missing a partition, or a temporary file |
| `sound` | history: outputs a passing run wrote from the inputs now on disk |
| `opt` | force, rebuild-existing, allow-truncated, continue-on-day-failure, download, dry-run |
| `present`, `intact` | `artifact_presence` and the stages with `trust_chain_intact`, computed before the loop |
| `stat`, `day` | `stage_status` and `final_status` |
| `ProcessOneDate` .. `FinishDay` | `process_one_date` from entry to the classified report, one action per way through a stage |
| `DownloadSucceeds`, `DownloadFails`, `GiveUpDownload` | one attempt of `run_day_download`: child ends with 0, ends otherwise or times out, budget used up |
| `Abort` | Ctrl-C, a kill or a power loss at any point, the running tool dying with it |

Abstractions. There is one raw file with one sidecar per day. A stage's output
is one of three values, the tools' computations are choices among the ends the
code can reach (`GoodEnds`, `BadEnds`): a write-once tool refuses existing
output without `--force`; partitioned tools write, and with `--force` unlink,
one partition at a time; report tools write the report before they return 1 for
a failed decision. Resource guards, missing MT5 Silver and vendor errors are
choices. Invocations of one date do not overlap (nothing in the code prevents
it; see the hazards). `StageGraph` is `DEFAULT_STAGE_GRAPH` as data.

### DemoRun

One run directory. A file is its digest: as written by its stage (`first`),
written by something else (`changed`), or missing. `recorded` is
`all_artifacts`, `inventory` the digests in the manifest, `published` the stage
records. `VerifyBefore`, `Act`, `VerifyAfter`, `RecordOutput` are the four
calls inside the try block of `execute_stages`, separate actions because other
writers (`Interfere`) run between them: they create, change and remove any file of
the directory, and put it back as it was. `PublishMetadata` (`demo.py:92`) and
`RecordMetadata` (`runner.py:42`) are two steps for the same reason, and the digest
recorded may be that of a changed `metadata.json`, or none. Two history variables
say what became of a change: `misled` holds the pairs of a stage and a file that
differed from its record when the stage acted, `undone` those where the file was
put back before the stage looked again. `CreateRun` is the exclusive `mkdir`,
`PublishStageRecord` and `PublishManifest` link at a name that must not exist.
`RunRaises` covers the calls outside the try block.

### Capture (with TickFilter and ParquetWriter)

The MT5 logger: `Capture` is the loop of `run_logger` and composes the filter
and the writer, whose actions it takes as steps of its own.

| Model | Code |
|---|---|
| `onFile`, `since`, `held` | `_SymbolState`: the last emitted quote, its time stamp, `suppressed_count` |
| `seen`, `emitted`, `suppressed`; `carried` | the totals; history: the sum of the `suppressed_count` of the rows emitted |
| `buffer`; `pending`, `done` | `_buffer`; the local variables `pending` and `published_event_ids` of `flush` |
| `cur`, `copies` | rows replaced into place and not yet noted; how many part files hold each row |
| `wpc` | where `flush` is: before the hook, between clearing the buffer and the `try`, in the loop, after `safe_replace`, in the `except` block |
| `pc`, `todo`, `hand`, `lastSeen` | the loop of `run_logger`, the symbols left in this round, tick or event, `last_seen_time_msc` |
| `stop`, `signals` | the stop file; signals (and kills) so far |
| `FlushInterrupted`, `Signal` | `GracefulExit` raised by the signal handler at any of these points |

A row is numbered by `total_emitted`, which makes "lost" and "written twice"
statements about numbers. A quote is what the filter compares. The kill switch
and a terminal that gives no answer are choices at every look. `--once`, health
files and the timestamp verdict are left out.

### Supervisor

One supervised run, with the loggers it starts as processes that may end at any
time, the stop file it shares with the operator, and time.

| Model | Code |
|---|---|
| `phase`, `why` | where `run` is; inside `stop_logger_graceful`, and whether a restart or the end called it |
| `reason`, `restarts`, `mode`, `seen`, `code` | `exit_reason`, `restart_count`, `shutdown_mode`, `first_parquet_seen`, what `run` returned |
| `gen`, `logger`, `killed` | the logger of `_proc`, the state of every logger so far, those `kill()` was called for |
| `stopFile` | `stop.signal`, and whether the operator or the supervisor wrote it |
| `clock` | before the last check interval, in it, after the deadline |
| `logFailed`, `clearFailed`, `asked` | history: a health line was refused, the stop file could not be removed, the operator asked for a stop |

A refused health line (`StartRaises`, `LoopFaults`, `StopRaises`) is modelled at
every place that writes one, since it is what leaves a start or a stop
half-done. Preflights, resource samples and snapshots are choices. The branch for
an unavailable terminal waits for a snapshot that is `None`, which
`_record_health_snapshot` never returns: it cannot be reached and is not
modelled. The written summary is left out, its verdict (`Decision`) is not.

### Compaction

One partition, compacted any number of times. A part is its place in the order
of names and stands for its rows, a compacted file is the set of parts whose
rows it holds. `src`, `at`, `chunk`, `rows`, `del`, `left` are the locals of
`compact_partition`. `WriteChunk` may come out one part short: that is the fault
the row count is compared for and that the tests inject. `Publish` is the
logger's `flush`, at any time, since rows buffered at midnight come later.
`Break` is an exception or a kill between any two file operations. A part that
cannot be opened ends a run before anything is written (`StartRun`).

### TimestampSemantics, RunRecords, Normalization, composed in Lineage

From the broker's clock to Silver rows, over several live runs.

| Model | Code |
|---|---|
| `status`, `offset`, `first`, `lastFresh`, `cand` | the fields of `TimestampSemantics`; `since` is history: the ticks since the last new start |
| `manifest`, `health` | `logger_manifest.json` and `logger_health.json`, which every logger overwrites |
| `arch[r]` | `logger_runs/<run>`: the directory, the archived copies, the summary |
| `bronze`, `silver` | rows of the part files; a Silver row remembers its directory (date level or `run_id=`) and the offset used |
| `clock`, `broker`, `shifts` | UTC, the true offset of the broker's server, how often it changed |
| `Poll`, `Reconnect`, `CheckStaleness`, `EmitBoth`, `EndLogger` | the loop of `run_logger` as far as it feeds time stamps and writes records |
| `Finalize` | `LiveSupervisor._finalize` with `write_run_scoped_metadata`, broken off anywhere |
| `Normalization` | `normalize_telemetry.py` with a run id or with a date and any record it can resolve |

`AgeAt` is the percentile of the residuals by rank. Left out: the remembered former
offset and last event, which only word messages; the cap of 1024 residuals;
broker identity; `--run-id` together with `--metadata-path`; dry runs; the
normalization manifest, which nothing reads; the residual of a row and
`is_join_safe`, a bound on it, which is arithmetic on one row. Compaction is taken as
run before normalization or after it on rows it leaves whole. Every tick gets a row,
since suppressed ones only make Bronze smaller, and a job with `--force` is the one
modelled, a job without it stops where that one replaces. That no logger
outlives its run is what `Supervisor` proves (`NothingOutlives`) and is relied
on. A run starts later than the rows of the one before. The window of a run ends with
the run or with the newest data file, whichever is later (`WindowEnd`): the summary
takes the newest one there is, whoever wrote it, and time may pass between the end of
the run and that look (`LatestWrites`, `Finalize`).

### Alignment, used by GoldFeatures

The batch computations as operators over sets of trades and ticks, and a day
that is recorded event by event while runs go over it.

| Model | Code |
|---|---|
| `ReferenceTrades` | the rows `_build_normalized_chunk` keeps |
| `Matches`, `Outcome`, `Aligned`, `TickReport` | `_align_one_event`, the metrics and the decision of the tick report |
| `CmeBar`, `Mt5Bar`, `Joined`, `IsBarAligned`, `BarReport` | aggregation, the outer join, classification and decision of the bar report over its bucket sizes |
| `FeatureBars`, `Previous`, `Trailing`, `Row`, `FeatureRows`, `Eligible` | `_build_features_one_pair`: which bars there are, which bars a row reads, whether it is eligible; for the sizes a model is fed and the diagnostic one |
| `MissingSource`, `ZeroVolume`, `LowJoinSafe`, `SpreadTooWide`; `InvalidVwap`, `InvalidClose` | the reasons to refuse a bar that both tools have; what counts as an invalid price in the report, and in the builder |
| `raw`, `ticks`, `now` | the sample, MT5 Silver, and the horizon up to which both are recorded |
| `IngestCme` .. `Export`, `EndRun`, `GiveUp` | the stages of a run, each gated by the one before |
| `exported` | history: rows handed out so far, and whether the windows overlapped then |

A bar is its size and the set of the events it was aggregated from: a price or a
statistic is a function of it, so two rows are equal when they read the same events.
That is what "looks ahead" and "stays unchanged" are about. Times are integers, a
tick's a whole number of `Ms`, a trade's not. A record of the sample may lack a
price or a size or be something else than a trade; a tick may be unsafe to join, or
have a spread above the threshold, which both tools are then given. Report and
builder go over their own bucket sizes: the report over all, the builder over those a
model is fed and the diagnostic one (`--include-diagnostic-5s`,
`stage_dependencies.py:79`). One pair; events that agree in everything collapse.
The bar report belongs to the day's pipeline and the export to
the demo; a run here may have both. Later data are later in time. A partition's
rewrite is not broken off here: that is `DayPipeline`'s and `DemoRun`'s matter.

### DownloadGate, used by MultiDay

Any number of invocations of `run_multiday_pipeline.py`.

| Model | Code |
|---|---|
| `Refused`, `WillDownload`, `ReachesVendor` | the three places that decide on a request: `main`, `plan_day_download`, `run_download` |
| `DetectCostEstimate`, `DetectPhysicalLimit`, `PreflightBlocked` | the capability probes and `--download-preflight` |
| `DecideDownloadGate`, `CmeDownloadMark`, `DownstreamMark`, `WouldAttempt` | the gate and the dry-run report |
| `silver`, `sdk`, `raw` | MT5 Silver of each date (none, coverable by one request, too wide), the vendor package, the raw file |
| `status`, `reports`, `summarised`, `code`, `told` | `per_day`, the reports on disk, summary, exit code, latest dry-run report |
| `NoSilver` .. `StagesEnd` | the ways through `process_one_date`; the stages' outcome is a choice, its earning is `DayPipeline`'s |
| `Interrupt`, `Dies` | `KeyboardInterrupt` in the loop; a kill, or an exception nothing catches |
| `before`, `asked` | history: the raw files when the invocation began, requests put to the vendor |

Simplifications: dates come without repeats; Silver and the vendor package stay as
they are over a history; the roll of the download window is the same in every
invocation and the `--no-...-required` switches keep their defaults; one raw
file per date, one without a sidecar counting as whole (`run_day_download` looks for
the file it would write, `databento_download_plan.py:241-252`, presence tests for any
part: a raw part of another name, with `--force`, is outside the model); disk and memory guard are
one. The child registry is always empty: `run_tracked_subprocess` is called by
tests only. One orchestrator runs at a time.

## 3. Runs

| Run | Asks | Bounds |
|---|---|---|
| `day` | All safety and liveness of one date, and that it implements the ledger | the real 7-stage graph, 1 retry, 4 command lines chosen so that each option decides something in one of them |
| `day_truncated` (violation) | Does truncation block downstream use, whatever was killed? | as `day` |
| `capture` | Where is every row, does the logger end, and does it keep the promise of the journal? | 2 symbols in one hour (two partitions), 2 quotes, times 0..2 with a heartbeat of 2, 3 ticks, a buffer of 2 rows, 1 signal |
| `supervisor` | Who runs when, what is left running, is the verdict earned, does a run end? | two restarts: one of each kind, or two of one |
| `supervisor_stop` (violation) | Does an operator's stop survive a restart? | as `supervisor` |
| `compaction` | Does a run keep what it lists, move it exactly, and end? | 4 parts, chunks of 2, any number of runs |
| `compaction_rows` (violation) | Do all published rows survive all runs? | as `compaction` |
| `demo` | Safety and liveness of a run directory under interference, and the ledger | 3 stages, two independent branches, 2 processes, 3 changes by other writers |
| `lineage` | Is an offset earned, does what selection takes resolve, whose ticks and whose rows are in Silver? | UTC and one hour ahead, 2 runs, ticks on time or an hour and six minutes late, 1 shift of the broker, clock 0..3 with midnight inside, 1 symbol |
| `gold` | Does a feature look ahead, does an exported row stay, do the reports say what was computed? | instants 0..8, buckets of 4 and a diagnostic one of 2, milliseconds and tolerance of 2, 2 records of four kinds, 2 ticks of three, a window of 2 bars |
| `gold_future` (violation) | Do exported rows stay, whatever is added? | as `gold` with 3 ticks and the demo's gate |
| `multiday` | Who may ask the vendor; do reports, summary, exit code and dry run agree with what was done? | 2 dates, 1 retry, 8 command lines |

The bounds are small in number, not in kind: one retry already gives both a
repeated and a last attempt; the day has no bound on invocations, since what is
on disk is finite. Three stages with `2` and `3` both on `1` give a chain, a
branch, and a stage after a failed independent one; three changes let a file be
changed and put back around an action while another one stays changed. In `capture` a buffer of
two rows over two symbols gives a flush of two partitions that fails between
them, the third tick a row that comes after a flush and a suppressed tick with
its heartbeat; terminal times may stand still and go back. The inductive
invariant `CaptureInv` was model-checked with two signals as well. Two restarts
give three loggers, hence one that is neither first nor last. Four parts in
chunks of two give full and short chunks, and every way to spread parts over two
runs; `raw` and `out` are finite, so runs need no bound. In `lineage` one shift
gives a verified offset that has become wrong, and two runs a record of the run
before; two fresh ticks verify, so that one is too few; time suffices for both
downgrades. In `gold` two full buckets and a third instant beyond them give a
bar with a predecessor, a gap between them and a close; an odd instant lies
inside a millisecond. Two dates give one that is last and one that is not, an
interrupt with and without a finished date before it, and a date after one that
stops the run; three dates were checked as well and took minutes.

What the properties say:

* `LedgerRefined`: a stage is settled once, as good only above good ones.
* `ReuseIsDownwardClosed`: the loop's decisions fit together although half of
  them come from a snapshot.
* `RanMeansSound`, `CompleteIsEarned`: statuses mean what they say about the
  files at the end, not only at the time they were given.
* `RecordedTruncationBlocks`: a sidecar that says truncated blocks every stage;
  one that says unknown blocks reuse.
* `NothingPresentIsRewritten`: an action property; `--force` alone never
  touches a whole output.
* `InvocationAdvances`: every step of an invocation lowers a rank, so that it
  takes `N + MaxRetries + 3` steps at most: retries, failures and skips give it
  nothing more to do.
* `InvocationEnds`, `RunEnds`: liveness.
* `PassedOnRecordedInputs`: a stage that acted on a file that differed from its
  record passes only if that file was put back in time for the second verification.
  Digests are compared before and after the action only (`runner.py:58-60`), so a
  change that is undone in between passes; one that stays never does.
* `ConsumptionIsAuthorized`: a dataset is read only of a run whose stages are all on
  record as passed, no change having been left standing under an action. It does not
  say that what is read is what was recorded, see the divergences.
* `ManifestSumsUpRecords`, `PublicationIsFinal`: the manifest is the last word, and
  what is published is never replaced.

* `EveryRowOnce`: at every step of every flush, also after one that failed
  half-way, each emitted row is in exactly one place. Signals are excepted: one
  that comes between clearing the buffer and the `try` block loses the rows of
  that flush, one that comes between `safe_replace` and the bookkeeping doubles
  those of one partition. How often a row is written is bounded even then. A
  logger that has ended has its rows in part files, except exactly those its refused
  closing flush put back, which are gone.
* `JournalRefined`: every step of the loop, the filter and the writer is a step of
  the journal or none. In particular `flush_max_rows` is the most the logger
  holds, and when it ends otherwise than by a signal or a kill, rows are lost
  only if the closing flush was refused. It is refused whenever the logger ends because
  of the stop file or the kill switch, whose hook looks at both again: all that is
  in the buffer is then dropped on an orderly stop, up to `flush_max_rows` rows
  when the stop is met by the flush of a full buffer.
* `TicksAddUp`, `RowsShowLatest`: every tick is a row or is counted by one, and
  the rows tell the latest quote of each symbol to within a heartbeat.
* `StopIsObeyed`: liveness of the stop file.

* `OneLogger`, `NothingOutlives`: a logger is left behind only ended or after
  `kill()`, whatever fails on the way; the exception is a supervisor that cannot
  write its health log, which returns with a logger running.
* `PassIsEarned`: verdict and return code, which are computed from different
  variables, agree, and PASS means a single logger that reached the last
  interval.
* `OwnStopIsNotManual`: the stop file the supervisor wrote to replace a silent
  logger does not end the next one as if the operator had asked.
* `RunAdvances`: a run leaves no phase for an earlier one without spending a
  restart; only the rounds of its monitoring repeat.
* `RunKeepsSources`, `CleanRunMovesOnce`: one run neither loses nor doubles what
  it has listed. Later runs do lose rows: see the finding of `compaction_rows`.

* `VerifiedIsEarned`: an offset counts as verified only if some set of the ticks of
  this connection, received since the last downgrade, fits it, is large enough, has
  two time stamps, and has half of its residuals within the median bound and more
  than 19 of 20 within the upper one. With the delays of the run the two bounds
  do not tell more than the fit; an instance with a third delay between them was
  checked as well.
* `SelectionResolves`: a policy takes one run at most, latest and longest take
  one whenever a run qualifies, and a run that is taken can be normalized, with
  the offset it was selected for, wherever its archiving broke off.
* `SilverOffsetIsEarned`: the offset of every Silver row was verified on ticks that
  are in Bronze, of one run and fresh under it: below `run_id=<run>` of no later run,
  and of this very run when its record was made after it had started. The record of
  a run may be the shared manifest an earlier run left, so that its rows are
  normalized with what that run verified: this is what the code does. Whether an
  offset still is the broker's when a row is made is another matter: a verified one
  outlives a shift while ticks look fresh under another (`timestamp_semantics.py:101`),
  and only the bound on a row's residual tells (not stated).
* `NoForeignRows`: once a run has its summary, its Silver holds its rows only.
* `NoLookAhead`: a row reads no event of its bucket's end or later.
* `SettledRowsStay`: rows exported when the two sources overlapped are rebuilt
  as they were, whatever is recorded later. Without the overlap they are not:
  see the finding of `gold_future`.
* `ReportIsRight`: the tick report's pairs are in reach and it misses none
  within the tolerance; a trade inside a millisecond may be matched with a quote
  up to one millisecond older than the tolerance, and may be refused for want of
  an overlap that is measured exactly.
* `EligibleIsAligned`: of the sizes a model is fed, the rows the builder calls
  eligible are the bars the report calls aligned. The two copies differ: the report
  refuses a bar without a positive VWAP, the builder one whose last trade has no
  price, and they come to the same only because ingestion calls no trade valid
  without a positive price and size. Of the diagnostic size the report may call bars
  aligned and the builder calls none eligible (`DIAGNOSTIC_ONLY`).
* `FetchIsAuthorized`: the vendor is asked only with both flags, acknowledgment
  and key, for dates with Silver and without data, within the retry budget, and
  not after a date that stops the run.
* `SummaryTellsReports`: the summary speaks of a prefix of the dates and agrees
  with the reports on disk, but for the one date an interrupt may rename, which
  is the previous, finished one when the interrupt comes early in a date.
* `ExitTellsFailures`: 0 hides no date whose report says failed, 130 is the
  interrupted run's; see below for what 0 does not exclude.
* `DryRunForetells`: with the same options, no `--force` and untouched raw files,
  what the dry run did not plan is not asked for and what it marked blocked does
  not end complete.

Four runs show where the documentation, or a test, promises more than the code
does (`findings` in `PROJECT.json`).

**Divergences met that have no run of their own.**

* A stage runs above the output of a predecessor that failed or was killed in an
  earlier invocation, since presence is all that is asked of an output
  (`stage_dependencies.py:145`); `docs/architecture.md:32`: "A stage runs only
  after each named predecessor passes."
* `run_demo` digests every file again for its manifest (`demo.py:230`) and does
  not compare with what it recorded: a change after the last verification is
  recorded as the truth, and `inspect_run` hands the file out; so does a change that
  is put back around an action. `docs/architecture.md:34` has every change detected.
* Without a run id `select_silver` picks a run per symbol
  (`silver_paths.py:162`), so that a quality report may accept SPX500 of one run
  and NDX100 of another; `docs/data-contracts.md:18`: "Multiple live runs for
  the same date require explicit selection."
* `decide_download_gate` is called for dry runs only (`multiday_dry_run_report.py:253`),
  and cost estimates guard no real download, against `docs/operations.md:40`.
  Preflight and download differ: `COST_ESTIMATE_UNAVAILABLE` blocks the
  preflight only; a missing `--max-download-records` passes the preflight where
  the package supports a limit and is refused by the child;
  `ESTIMATE_API_ERROR` passes the preflight, the gate would block it.
* Exit code 0, and "data layer in good shape" in the summary, follow a failed
  download with the default flags, a truncated sample and a guard that stopped
  the run, since these statuses are in none of the lists (`pipeline_orchestrator.py:859-866`);
  `docs/operations.md:28` speaks of propagated failures.
* One date whose window exceeds 26 hours raises through the whole run, without a
  summary (`databento_download_plan.py:150`).
* The dry run ignores `--force` and dates without Silver.
* Children are not tracked: an interrupt leaves it to the terminal's own signal
  whether they end; `docs/operations.md:28`: "Child processes have timeouts and
  are tracked for termination on interruption."

**Fairness.** `WF(Progress)` for a day: every child has a timeout (1800 s for
the download, the stage timeout for a tool), and the loop itself never waits.
`ProcessOneDate` (the operator) and `Abort` are not fair. `WF(RunStep)` for a
demo run: it is one sequential program without waiting. `WF(LoggerStep)` for
the logger: it sleeps for bounded times, its calls into the terminal return, and
`safe_replace` gives up after six attempts. `WF(SupervisorStep)` and `WF(Tick)`
for a supervised run: every wait in it has a timeout, and time passes; loggers
owe nothing, not even to `kill()`, and no fault is counted on to end a wait. `WF(CompactionStep)` for a compaction, which
is sequential. Crashes, signals, interference and inspections are not fair.
`lineage`, `gold` and `multiday` state no liveness and assume no fairness.

## 4. Proofs

`DayPipelineProofs`, `DemoRunProofs`, `CaptureProofs`, `SupervisorProofs`,
`CompactionProofs`, `LineageProofs`, `GoldProofs` and `MultiDayProofs`, checked by
TLAPS for every value of the constants that satisfies `DayAssumption` (an acyclic
graph in stage order, partitioned tools among the write-once ones, those among the
`--force` ones), `DemoAssumption` (an ordered graph), and `FilterAssumption`
with `CaptureAssumption` (integer times, a positive heartbeat and buffer size,
rows numbered from 1), `SupervisorAssumption` (a natural restart budget) and
`CompactionAssumption` (finitely many ordered names, a positive chunk size);
`SemanticsAssumption`, `RunsAssumption` and `LineageAssumption` for the lineage;
`AlignmentAssumption` and
`GoldAssumption` (a tolerance of whole milliseconds, positive buckets and
windows, thresholds between 0 and 100 percent, a diagnostic size the report knows and
no model is fed); `MultiDayAssumption` (at least one
date).

* `DayInv` is inductive. The safety invariants alone are not: to know that a
  reused stage stands on reused ones one must know that `intact` is closed
  under predecessors (`Verdicts`), that stages ahead of the cursor are
  undecided and, when `present`, still present (`Ahead`), that those behind are
  decided (`Behind`), and that a present stage is not run again without
  `--rebuild-existing` (`PresentIsNotRerun`). `DayReuse`, `DayComplete`,
  `DayTruncation` follow from it, `DayKeepsPresent` is an action property from
  the same invariant, `DayImplementsLedger` maps each step to a ledger step or
  a stutter.
* `DemoInv` is inductive: the loop's position, what is undecided, and
  `ChangesAreCaught`: a change under an action that was not undone is still there when
  the stage looks again, whatever else is changed and put back meanwhile, or the stage
  has failed. `DemoLineage`, `DemoManifest`, `DemoConsumption`,
  `DemoPublication` and `DemoImplementsLedger` follow.

* `CaptureInv` is inductive. `EveryRowOnce` alone is not: one must know which
  variables of a flush are alive in which phase (`LocalsEnd`), that numbers are
  given once (`NumbersAreUnique`), that a row still to be written has been
  published at most as often as signals came, since only a signal separates
  publication from its note (`CopiesAreNoted`), and that a row held nowhere has
  been published (`NoRowDropped`). For the end of the logger one
  needs besides that a flush that returned left the buffer empty (`FlushedIsEmpty`):
  `RowsAreKept` and `ExitSavesRows` follow. `RowsAreCurrent` needs only the filter.

* `SupervisorInv` is inductive. `OneLogger` rests on loggers being started in
  order and each start being counted (`StartedInOrder`), and on the one before
  being ended or killed whenever the next can start (`LeftDisposed`).
  `PassIsEarned` needs to know in which phases there is a reason and what it
  says about the clock (`ReasonGiven`).
* `CompactionInv` is inductive: as many rows as parts means that no chunk came
  out short (`CountIsComplete`), nothing is deleted before that is known
  (`WrittenFirst`), in an empty directory chunks are disjoint because the names
  of a listing differ (`OnlyOwnChunks`, `NamesDiffer`), and a deleted name does
  not come back (`TriedIsGone`).

* `LineageInv` is inductive: what a candidate holds was fresh under its offset
  since the last new start, an archive was made after its run began and its
  parts agree, and a row's window lies in its run. `EarnedInv`, inductive
  on top of it, carries where an offset comes from through every document: the ticks
  a candidate rests on are rows of the run that logs, so the shared documents, the
  archives made from them and the Silver made from those each name an offset that
  some run earned, and a record made after its run began names one of its own
  (`SilverOffsetsAreEarned`).
* `IInv` of GoldProofs is inductive: reports, trades and features of a run are the
  functions of the data it started from, and every exported row is a row of some
  earlier horizon. `SettledRowsAreKept` rests on lemmas that say what a bar, a
  predecessor and a trailing window at an earlier bucket cannot notice of later
  data once there is an overlap. `BuilderFollowsReport` rests on `ValidIsPriced`: a
  trade that ingestion calls valid has a price and a size.
* `MultiDayInv` is inductive: `per_day` is a prefix that ends at the date in
  progress (`PerDayIsPrefix`), reports follow it (`ReportsFollow`), requests stay
  within what the plan allowed when the run began (`AskedWithinPlan`), exit codes
  are given after the summary (`EndsAreKept`), and the latest dry-run report is
  sound for the files it saw (`ToldIsSound`).

Beyond the invariants of the runs:

* **Ranks.** `StoppedLoggerAdvances`, `DayAdvances`, `RunGoesOneWay`,
  `CompactionGoesOneWay`, `DemoGoesOneWay` and `MultiDayAdvances` prove the half of
  termination that is a safety property: every step lowers a natural number with a
  stated bound. What fairness adds, that a step is taken, stays with TLC.
* **Operators that choose or count.** `CheckInputs` takes a set of trust verdicts that agrees
  with the verdicts on the predecessors. `TrustVerdictIsUnique` proves that there is
  exactly one, so that the step is neither stuck nor decides anything by its choice. `TicksAddUp`
  sums over the symbols, and `WindowsAreFull` takes the last bars of a window;
  `TicksAreAccounted` and `WindowsAreRight` prove them for any number of either.
  These go by induction over data, which works here in first-order form: a
  least counterexample by the well-foundedness of `<` on the naturals, since
  the induction theorems that take an operator cannot be used.
* **Abstract specifications.** `LoggerImplementsJournal` maps each step of the
  logger to a step of the journal or a stutter. It needs, besides `CaptureInv`, that
  rows are added only where fewer than `flush_max_rows` are held (`RowsFit`), that a
  flush that returned left nothing (`FlushedIsEmpty`), and that what was replaced into
  place is in a part file before it is noted (`CurIsPublished`). `DayRoundIsSafe`
  and `LoggerIsExact` carry what the two abstract specifications promise to the code.
* `UsableRawSurvives` (raw data that can be used are as the invocation found them
  throughout) is in no configuration.
  Neither are `StopAdvances`, `CompactionAdvances`, the `RunAdvances` of `DemoRun` and
  `MultiDay`, and `WindowsAreFull`. Each was model-checked on the instance of its
  component's run before it was proved.

Types are proved where an inductive invariant contains them; no run spends a
property on them.

Only model-checked: the liveness properties (`InvocationEnds`, `RunEnds`,
`StopIsObeyed`, `SupervisorEnds`, `CompactionEnds`), which need fairness and
`ENABLED`. Every safety property of every passing run is a theorem.

## 5. Plan

1. `StageLedger`, `StageGraph`, `DayPipeline` with proofs. Done.
2. `DemoRun` with proofs. Done.
3. `Capture`, `TickFilter`, `ParquetWriter` with proofs, and `RowJournal`. Done.
4. `Supervisor`, `Compaction` with proofs. Done.
5. `TimestampSemantics`, `RunRecords`, `Normalization`, `Lineage` with proofs. Done.
6. `Alignment`, `GoldFeatures` with proofs. Done.
7. `DownloadGate`, `MultiDay` with proofs. Done.

Left to prove: that a multi-day run implements `StageLedger` date by date, with
`DayPipeline` in the place of `StagesEnd`; an abstract specification of what the
supervisor promises of its loggers, and of what a compaction promises of rows, each
implemented by its module.

## 6. Not modelled

Floating-point statistics and report contents (EDA, correlation, confidence
intervals), configuration parsing, machine probes, synthetic generators and
argument parsing beyond the options named above: they hold no state the other
parts depend on, or their only effect on other parts, a PASS or FAIL and a file,
is already a choice in `DayPipeline`. The child registry of `subprocess_guard.py`
has no caller in the program.

Hazards seen and not covered: two orchestrators on one date, or two compactions
of one partition, at a time (nothing locks either; the operator is expected to
run one); Bronze listed while it is compacted; a tick dropped when the session is
lost between its time stamp and its symbol data (`ingestion/main.py:237`); the
Gold presence test that asks `any()` of generators (`stage_dependencies.py:134`);
health files and part files of an earlier run taken for the running logger's
(`supervisor.py:473`, `621`), which `Supervisor` allows as choices; children
recorded by name in the registry (`subprocess_guard.py:94`).
