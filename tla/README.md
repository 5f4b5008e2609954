# Verification of TimeCodeSecurity

TLA+ models of the concurrent and failure-prone parts of TimeCodeSecurity, TLC configurations that
check them on small instances, and TLAPS proofs about each of them for all parameters. Paths are
relative to `src/`; line numbers are those of the commit the models were written from.
`PROJECT.json` maps every definition to the lines it stands for and lists components, runs,
mutants, hazards, findings and theorems.

Contents: [System](#1-the-system) · [Plan](#2-plan) · [Modules](#3-the-modules) ·
[Runs](#4-runs-bounds-and-results) · [Fairness](#5-fairness) · [Proofs](#6-proofs) ·
[Findings](#7-findings) · [Not modelled](#8-not-modelled)

## 1. The system

TimeCodeSecurity scans source trees for security flaws. The analyzers (`ast_scanner.py`,
`cross_file_engine.py`, `rule_engine.py`, `js_scanner.py`, `secret_scanner.py`, ...) are large,
sequential and made of tables and heuristics. Around them stand the components below, in which
processes, threads, callbacks, timers, files and databases meet. They are what is modelled.

| component | state | operations | meets | what makes it correct |
|---|---|---|---|---|
| Webhook delivery service (`webhook_adapter.py`) | admission flag, shutdown event, bounded queue, worker threads | `deliver`, `enqueue`, `_worker_loop`, `shutdown` | pipeline calls `deliver`; workers call the client and the sink | every submission it admits or refuses gets one result, is sent at most once, nothing is admitted or stranded after shutdown, workers stop |
| Durable delivery audit (`durable_delivery_sink.py`) | in-memory results, `delivery_audit_logs` | `record` | called by workers, `deliver` and `shutdown` | the trail never says what the service did not do; a database error changes nothing else |
| Delivery audit repository (`sqlite_delivery_repository.py`, ...) | the same rows | create, list with offset, statistics | routes read while the sink writes | tenant isolation; statistics over one window; pages without gaps |
| Webhook HTTP client (`webhook_client.py`) | locals of one `send` | DNS, connect, TLS, POST, retry | SSRF guard, sockets, clock | repeats a POST only when that is invited, reports the last attempt, ends near its deadline |
| Notification pipeline (`event_bus.py`, `event_publisher.py`, `notification_policy.py`, `notification_service.py`, ...) | subscribers, destination registry | subscribe, unsubscribe, publish, handle_domain_event | scan routes publish; service calls repository and adapters | one failing handler harms no other; no intent for a destination that was removed; re-publication is idempotent in the inbox |
| Notification repository and routes (`sqlite_notification_repository.py`, ...) | notification rows | create, mark_read, mark_all_read | concurrent sessions | one row per dedupe key and tenant, `is_read` iff `read_at`, honest counts |
| Parallel parser (`tcs/parallel_scanner.py`) | slices, process pool, deadlines, governor | submit, collect, second look, shrink, finish | OS kills workers; `TaintTracker` falls back to a serial parse | no file is skipped for queueing, stuck workers cost bounded time, no orphan workers, the run ends |
| Parallel analyzer (`tcs/parallel_analyzer.py`) | the same pool pattern | analysis slices | merges findings | as above |
| Editor incremental scanning (`vscode-extension/src`) | buffer, pending ranges, timer, in-flight flag, scan generation, staged file, finding cache | typing, save, command, close, timer, scan end | scanner processes (`cli.py`) | diagnostics agree with the text unless a scan is owed; no edit is stranded; the user's file is untouched |
| Remediation orchestrator (`remediation/*`, `verification_engine.py`) | files, patches, backups | group, patch, verify, write, roll back | editors change the files meanwhile | a file is replaced only by a verified patch of the text it held |
| OSV client (`osv_client.py`) | memory and disk cache | query, chunk, retry, save, load | network, other runs that use the same cache file | a failure is never cached as "no vulnerabilities"; every package gets an answer |
| Scan command (`cli.py`, `sarif_exporter.py`) | staged findings, live index, report files, a stack of activations | engine stages, `atomic_write_text`, `_flush_partial`, `_scan_failure` | signals, exceptions, kills | reports are whole, agree with the exit status, and keep what was found |
| Application accounts and scans (`app.py`, `db_auth.py`) | users, workspaces, counters, sessions, licences | login, scan, activate | concurrent requests | no lost update, one workspace per user, one user per licence |
| Queued AI scan task (`infrastructure/celery_worker.py`) | a job row | run, retry | Celery | a retry repeats nothing that was done |
| Suppressions and line selection (`suppression_resolver.py`, `diff_scan.py`, `staged_scanner.py`) | none | pure functions | — | agree with their set-based definitions |
| SSRF guard (`ssrf_guard.py`) | none | classify, resolve, pin | client | its outcome is an input of `WebhookClient` |
| Analyzers, other commands, GUI, formatting of reports | none that is shared | — | — | outside the reach of this method |

**What interacts.** A scan makes `event_publisher` publish up to four events on the bus. The
notification service evaluates each against the policy, stores an inbox row and calls
`WebhookDeliveryAdapter.deliver`, which validates and enqueues under `_lock`. A worker takes the
task, calls `WebhookClient.send`, and records the result through the durable sink.
`shutdown()` closes admission, drains and aborts, sets the event, posts sentinels and joins. The
editor extension is a separate program that spawns the CLI for each scan and talks to it through
files and its output. The parser's pool serves every project scan. Runs of the CLI share the OSV
cache file, and runs of the remediation share the project and the names of temporary files.

**What is hard.** Threads that race `shutdown()` for the same queue slots; sentinels dropped by a
full queue; socket timeouts that do not add up to the deadline; a retried POST; a process pool
whose workers are stuck, die, or are still busy with what was given up; scans of a buffer that
changes, closes or is saved while they run, and which share a staged file; inserts that race on a
unique index; check-then-write on files and rows. `PROJECT.json` lists each under `hazards` at the
line where it bites, with the properties that would catch it going wrong, or why none does yet.

## 2. Plan

Most important behaviour first; (done) marks what exists.

1. (done) `DeliveryContract`, `WebhookDelivery`: the only component with real threads and a promise
   to outsiders. Abstract specification, refinement, liveness, and proofs for all parameters.
2. (done) `WebhookClient`: what happens inside the service's "send" step.
3. (done) `EditorScan`: callbacks, timers and processes around one document.
4. (done) `ParsePool`: deadlines, a shrinking and dying process pool.
5. (done) `NotificationStore` and `Notifications`: the table under concurrent sessions, composed
   with scans, accounts, registries and both channels in several server processes. Delivery itself
   stands behind `WebhookDelivery`'s contract and is one step here.
6. (done) `Remediation`: overlapping runs, people who edit, and every early exit of a file's
   transaction.
7. (done) `OsvCache`: runs that share a cache file, chunks, retries, short answers, torn files.
8. (done) `ScanRun`: the scan command with its signal handler, failure path and reports.
9. Left: `AccountRaces` (workspaces, counters, licence: three check-then-write races, listed under
   hazards), `LineSelection` (suppressions and diff lines against reference definitions), the parallel
   analyzer (the parser's pool pattern over again) and the delivery repository (reads only).

Every invariant and action property that a passing run checks is the conclusion of a theorem (section 6);
liveness is left to TLC. No module that is proved about declares a RECURSIVE operator.

## 3. The modules

| module | lines of code | role |
|---|---|---|
| `DeliveryContract` | — | abstract: what the delivery service promises |
| `WebhookDelivery` | `webhook_adapter.py` 142-495, `durable_delivery_sink.py` 55-95 | queue, workers, shutdown, sink; refinement mapping |
| `MCWebhookDelivery` | | model values |
| `WebhookDeliveryProofs` | | inductive invariant and theorems |
| `WebhookClient` | `webhook_client.py` 165-483 | one call of `send` |
| `EditorScan` | `incremental.ts`, `extension.ts`, `diagnostics.ts`, `scannerRunner.ts`, parts of `cli.py` | one document in the editor |
| `MCEditorScan` | | model values and the two initial texts |
| `ParsePool` | `tcs/parallel_scanner.py` 260-500 | one call of `parse_files_parallel` |
| `ScanRun` | `cli.py` scan command, `sarif_exporter.py` 20-45 | one scan and the ways it can end |
| `OsvCache` | `osv_client.py`, parts of `version_matcher.py` | runs of the scanner that share the cache file |
| `NotificationStore` | `sqlite_notification_repository.py`, `notification_routes.py` | the table, creates and routes as sessions |
| `Notifications` | `notification_service.py`, `event_publisher.py`, parts of `app.py` | extends the store: accounts, scans, registries, both channels |
| `Remediation` | `remediation/orchestrator.py` | runs over one project |
| `MCScanRun`, `MCOsvCache`, `MCNotifications`, `MCRemediation` | | model values |
| `WebhookClientProofs`, `EditorScanProofs`, `ParsePoolProofs`, `ScanRunProofs`, `OsvCacheProofs`, `NotificationsProofs`, `RemediationProofs` | | inductive invariants and theorems |

Operators with a comment `Mutant:` are not part of a specification. Each is a plausible bug in the
definition below it; substituting it must violate the property that `PROJECT.json` names.

### WebhookDelivery and DeliveryContract

A submission is one call of `deliver()` for one (intent, destination) pair. An action is a stretch
of one thread with at most one access to shared state, or one critical section of `_lock`:

| action | code |
|---|---|
| `Deliver` = `RaiseUnrecorded`, `RejectInvalid` or `Enqueue` | `deliver()`: argument, tenant and payload checks, then `enqueue()` under `_lock`. A refusal records its result and raises; a `TypeError`, the `ValueError` of a URL whose port is none, or an unexpected error of the formatter leaves without a result |
| `GetTask`, `GetSentinel`, `GetTimesOut`, `CheckEvent` | `queue.get(timeout=0.2)` and its three outcomes; `GetTask` includes the call of `client.send` |
| `SendEnds`, `WorkerPersists` | send returns or raises; the result goes to memory, then to the database in a transaction that may fail |
| `BeginShutdown` | first critical section of `shutdown()`; a second caller goes to the joins |
| `DrainOne`, `AbortRecords`, `AbortPersists`, `DrainDone` | the `get_nowait` loop |
| `SetEvent`, `PostSentinel`, `PostDone`, `JoinEnds` | the rest of `shutdown()`; a full queue drops a sentinel |
| `ProcessEnds` | workers are daemon threads |

Choices. `_accepting_submissions` and `_shutdown_initiated` are written in the same critical section
and are one variable. A wait on the empty queue ends in the model by its timeout only; a put that
wakes it is the same as a get made later. Joins may end at any time (their deadline). The status a
client returns is one value, since no step here distinguishes them. `sends` and `results` are
history: they count what was handed to the client and recorded.

`DeliveryContract` has no queue or threads: `open`, `up` and the `fate` of each submission (new,
accepted, refused, underway, settled, dropped). `WebhookDelivery!taskFate` is the refinement mapping:
what the service has in its queue or its threads' hands is "accepted"; it is "underway" while a
worker sends it, "settled" once a result of a send is recorded, "dropped" once an abort is.

### WebhookClient

One call, so no interleaving: what is hard is time and the many ways out of the loop. Time is in
half seconds and passes only in blocking calls, each of which takes any duration its timeout allows.
`CheckBeforeDns`, `Validate` (SSRF guard and resolver), `StartAttempt` (loop head: deadline, per-attempt
timeout), `TcpConnect`, `Handshake` with the deadline check behind it, `Exchange` (one blocking
operation of request, response head or body), `Sleep`. `Evaluate` has one branch per class of status
code; `MayRetry` is the condition that the three retrying handlers share. `outcomes` is history.

Modelled as data: certificates, signatures, headers, byte limits. An exchange has at least two
operations, because the request must be written before anything is read.

### EditorScan

The extension host is one thread, so each listener, timer callback and continuation of an `await` is
one step. `resolveCliPath` returns without suspending; starting a scan, staging the buffer and
spawning the process is one step.

| action | code |
|---|---|
| `EditLine`, `InsertLine`, `DeleteLine` | the change listener: `rangeFromContentChange`, `recordChange`, arming the timer |
| `Save`, `ManualScan` | save listener (reset, full scan), command and scan on activation |
| `Close`, `Reopen` | `textDocuments` loses and regains the document; no listener is registered for it |
| `TimerFires` | the debounce callback: queue behind a scan in flight, or `Fire` |
| `OpenTarget`, `ReadTarget` | the scanner process: `_collect_files` checks the path, later reads it |
| `EndScan` | `scanFile` returns: `cleanupStagedFile`, generation check, `updateDiagnostics`, `scanCompleted` |

Abstractions. What the scanner finds in a text is a constant, `Analysis`: any function of the whole
text, so that an edit of a source, a sanitizer or an import may change the findings of any other line.
`--lines` cuts the result down to findings whose own line it covers (`cli.py:574`). A set of merged
ranges is the set of lines it covers. `lost` and `owes` are history: the lines no successful scan has
vouched for since an edit out of whose reach they are moved them or changed what the scanner says of
them (`Elsewhere`), or since their scan failed, was superseded or read another text. They say exactly
when a wrong diagnostic is excused, so that `WrongIsAccountedFor` catches any other way to be wrong.
That a diagnostic stays wrong after an edit elsewhere, until a full scan, is what the code does and a
listed hazard.

### ParsePool

`Govern`, `Shrink`, `SliceInProcess`, `Submit`, `SubmitRaises`, `Await`, `Collect`, `SecondLook`,
`Finish` follow the loop over slices and `_parse_slice`; `StartParse`, `EndParse` and `WorkerDies` are the
executor: FIFO, no cancellation, a dead worker breaks the pool and fails every unfinished future. A
parse's duration is chosen when it starts and may be infinite. Time passes in the parent's waits and
never past an instant at which a worker can act, so workers are as prompt as they can be; `slow` is
history and tells whether some parse exceeded `PER_FILE_TIMEOUT_S`, which the properties about
well-behaved inputs need. The second look at the files whose deadline passed goes file by file, and
workers go on meanwhile, so a parse may end between one look and the next. The parent's own parses
(in-process slices and files a dead worker left) have no deadline; the model lets them hang ("hung").
Neither has `shutdown(wait=True)`, between pools ("shrink") and at the end ("finish"): it waits for
every parse a worker has begun, those of files long skipped included.

### ScanRun

A Python signal handler runs on top of whatever the main thread is doing and does not return to it,
because it ends in SystemExit. So the state is a stack `frames`, each frame with its role, its step, its
document and its place inside `atomic_write_text`. The roles are "scan", "handler", and `_scan_failure`
twice: "inner" when `_scan` calls it for an `OSError` or `ValueError` of the analysis, "failure" when `main`
does for anything else, an exception of the inner one included.

| action | code |
|---|---|
| `Analyze`, `Merge`, `CrossScan`, `Filter` | the engine stages, with `_PARTIAL["findings"]` set behind each |
| `PrintReport`, `BuildSarif`, `OpenTemp`, `WriteText`, `FlushText`, `ReplaceTarget` | what every report goes through; a short text stays in Python's buffer until the flush |
| `Return` | `_scan`, `_scan_failure` or the handler ends |
| `Signal`, `EnterFlush`, `AlreadyFlushed`, `Collect`, `IndexUnreadable` | the handler and `_flush_partial` |
| `StageRaises`, `ScanRaises`, `FailureRaises`, `WriteFails` | exceptions, by where they are caught: in `_scan`, in `main`, nowhere, in the `try` around the SARIF file |
| `CrossFails` | the cross-file scan turns any exception into SystemExit(1), which no `except Exception` catches (status "fatal") |
| `FlushSwallowed` | an exception of the handler that the analysis takes for its own and catches |
| `Kill` | SIGKILL: nothing is unwound |

`Unwind` is what leaving the stack does: open files are closed, innermost first, and closing flushes.
An inode is what a name refers to when it is opened, so that a file truncated, renamed or reopened
under somebody is represented. `BuildSarif` includes `bound_sarif_document`: a report made from `found`
lists a subset `shown` of it, at most `MaxResults`, with the urgent findings first (`Bounded`); how many more
the byte budget takes is a choice of the model, and that its loop ends is taken for granted. Prints to
stderr, and the handler before it has set its flag, are taken not to raise. A document is two blocks, the second only if it has findings: a short
text written over a longer one leaves the tail. `reentered` is history.

What the model makes visible: the normal path never sets `_PARTIAL["written"]`, so a signal behind the
last report replaces it by a partial one (`PartialKeepsFindings` says nothing is lost); an exception
behind the printed JSON makes `_scan_failure` print a second document; one inside `_scan_failure` ends in
a traceback (status "crash") unless `_scan` called it: then `main` tries once more. A signal between `handle.write` and the flush is followed by a second
writer of the same temporary name; when the process then unwinds, the interrupted buffer is flushed
into the published partial report. The docstring (`sarif_exporter.py:28`) promises that "a crash or kill
mid-write must never leave a 0-byte or half-written JSON/SARIF artefact"; `TornOnlyByReentry` excuses
exactly this case. The JavaScript pass only adds findings and is left out.

### OsvCache

| action | code |
|---|---|
| `Start` | `__init__` with `_load_disk_cache`; `query_packages` is called |
| `LookUp` | answers from memory, hydrates cached stubs, answers offline |
| `NextChunk`, `NoAttempt`, `Fetched`, `Refused`, `Unreachable` | the batch loop: a 200 response, a 4xx, anything that is retried |
| `Finish`, `Truncate`, `WriteCache`, `SaveFails` | `_save_disk_cache` if something changed: `write_text` truncates, then writes |
| `Publish`, `Stop` | the service gets a new advisory; a run ends, or is killed anywhere |

`conf` is the configuration of a run: `max_retries` and whether it is offline, independently, as
`OSVClient` takes them. An answer is "clean", "stub" (an advisory whose affected ranges could not be fetched) or "full".
`Silent` is what `version_matcher` makes of it: it reports nothing for an empty list from the network or
the cache, and nothing for an advisory without ranges. `vouched` is history: what a response has called
clean. `NoSilentClean` excuses stubs, because the code does pass them over although the matcher's
docstring (`version_matcher.py:567`) reserves an empty list for "provably unaffected". A vouched entry
never expires, so one response may hide an advisory published later for as long as the file lives.

### NotificationStore and Notifications

A session of the store reads a row once and decides on what it read: `Look`, `Insert`, `Requery` are
`create` with its look-up, its unique constraint and the fallback to the winner's row; `Patch`, `Decide`,
`Refresh` are PATCH read; `FindUnread`, `MarkAll` are mark-all-read. An insert may be committed and the call
fail nevertheless (`session.refresh`). `raced` is history: rows that another session wrote after this one
had read them.

`Notifications` makes the creating sessions the server processes. `SaveUrl` and `JoinOrg` change accounts;
`Capture` is the scan route reading the user's organization and URL before the scan, with the backfill that
gives a user with a URL and no organization the personal workspace; `Register` is
`register_destination` after it; `Publish`, `InApp`, `InAppDone`, `PostAlert` are the subscriber, whose two
channels swallow each other's errors. Each process has its own registry. What the route calls the
effective organization falls back to the user's id (`notification_routes.py:142`); here it is the input
of a request. A destination is registered and never removed, neither when the URL is cleared nor when
its user leaves, so `UrlOfAMember` speaks of URLs a member had set at some time. `MaxRequests` bounds
saved settings, joins and the routes together.

### Remediation

One record per run: the texts it analysed, what is to do, what it is at, its four lists. `PatchSucceeds`,
`PatchFails`, `Patched`, `RoundtripFails`, `RoundtripPasses` are the patching of one file; what the patch
engine and the verification decide is a choice. `Guarded`, `Located`, `Stale`, `Fresh`, `OpenTmp`, `WriteTmp`,
`ReplaceFile`, `WriteFails` are the write-back; a file that cannot be read for the stale check counts as stale
whatever it holds. The temporary name is a function of the file alone, so two
runs share it; `fd` follows the file a run has open through renames. People edit between any two steps.
`raced` and `overlapped` are history. Two details the translation shows: the path is resolved before
the symlink test, so for paths inside the project that guard does not fire (`Guarded` allows it
nevertheless, with the guards beside it); and a file its
patches leave unchanged is in neither list ("same").

## 4. Runs, bounds and results

| run | checks | bounds and why they suffice |
|---|---|---|
| `webhook_delivery` | safety, action properties, liveness, refinement | 2 submissions, 2 workers, 2 shutdown callers, 1 slot: both workers and the drain compete for the slot, the queue overflows, and only one of two sentinels fits. Nothing in the code compares more than two of anything, and the safety part is proved for all values |
| `webhook_client` | retries, reports, overrun, termination | the code's constants in half seconds (deadline 10 s, connect 3 s, read 5 s, backoff 1 s), Retry-After 1 or 2 s, two attempts as configured; `MaxOps` 3, `Oversleep` 1 s, a resolver slower than the deadline |
| `webhook_client_deadline` | violation: `EndsByDeadline` | an instant resolver and exact sleeps, so that only socket operations can overrun |
| `editor_scan` | scheduler and diagnostics | 2 lines that say "check" or "sink", where a sink is a finding unless a check stands before it; 3 edits, 1 user scan, failures allowed; `Pad` 0, so that one of two lines can be out of an edit's reach, as the code's padding of 2 leaves lines in a long document. Three edits give: one being scanned, one queued behind it, one more after it. With one user scan two full scans never overlap |
| `editor_scan_file` | violation: `SavedFileKept` | 4 lines, the code's padding |
| `editor_scan_save` | violation: `SaveDecides` | 4 lines, the code's padding, no failures |
| `parse_pool` | deadlines, pool, termination | 9 files in slices of 4 (two checks of the governor, a short last slice), 3 workers (so that both shrinking and giving up occur), limit 2, factors 1 and 2 (of the three memory levels, 1, 2 and 3), durations 1, 2, 4 and infinite |
| `parse_pool_queued` | violation: `QueuedNeverTimesOut` | as above |
| `scan_run` | reports, exit status, partial findings | two signals (the second meets the handler of the first), two exceptions, any options; two sinks, one of them sanitized elsewhere, one audit and one cross-file finding; filters that drop nothing, some, all; a SARIF file of at most two results, so that of three one must go, and two urgent findings |
| `osv_cache` | answers and cache | two runs that overlap and start again without limit, two packages in chunks of one, `max_retries` 0 or 2, online or offline in every combination |
| `notifications` | alerts, replies, tenants | two processes, two organizations, a member without URL and a user with a URL and no organization, one URL, two scan ids (two scans, or one retried on either process), two route sessions; `MaxScans` 2, `MaxRequests` 3: a wrong destination takes two changes of an account, a raced reply two requests |
| `remediation` | files, edits, report | two runs that may be killed and restarted (`MaxStarts` 2), files with one and two findings, one edit of each |

The largest runs have 2.7 million (`osv_cache`), 2.6 million (`notifications`), 1.9 million (`remediation`)
and 0.9 million (`editor_scan`) distinct states and take about a minute each.

Deadlock checking is off where the system may stop: the process ended, `send` returned, the bounded
edits used up, the parse done. Every passing run explores its whole state space; no state constraint
is used. Bounds are guards (`MaxEdits`, `MaxScans`, `MaxOps`, ...) and named.

What the passing runs show:

- `ExactlyOneResult`, `SentOnceOrAborted`: no interleaving of callers, workers and two shutdowns
  loses a submission that `deliver()` admitted or refused, gives it two results, or sends it after
  aborting it. One that `deliver()` leaves with another exception has no result, and leaves nothing behind.
- `NoTaskAfterEvent`, `NoLateAdmission`: closing admission under the lock before the drain is enough;
  no task is in the queue once workers may exit.
- `AuditFaithful`: a row repeats the recorded result, whichever inserts fail.
- `WorkersFinishTheirTask`, `WorkersStop`, `AdmittedIsResolved`: an exception in send does not cost the
  worker; the timeout path makes up for sentinels that a full queue drops.
- `ImplementsContract`: the above is all a caller can observe.
- `RepeatOnlyIfInvited`, `ReportsLastAttempt`, `EndsInBoundedTime`, `Returned`: a POST is repeated only
  after a timeout, 429 or 5xx, the result is the last attempt's, and the overrun of the deadline has a
  bound that the property states.
- `OneIncrementalScan`, `PendingWillFire`, `EditsAreScanned`: the scheduler's flags never strand an edit.
- `WrongIsAccountedFor`: no late result undoes a newer one; a diagnostic is wrong only in a line that a
  scan owes, that one failed to vouch for, or that an edit elsewhere has changed the findings of.
- `NoneSkippedForWaiting`, `SliceIsBounded`: queueing is not charged to a file as long as all parses keep
  their limit; stuck workers cost a slice a bounded time.
- `EveryFileDecided`, `DecidedOnce`: what a run returns has an entry for every file, each decided once,
  whichever workers die or get stuck and whatever parse ends after its file was given up.
- `RunEnds`: a run ends although parses are slow or stuck, but for two ways: the parent is in a parse of
  its own that never ends, or a shutdown of the pool waits for a worker in one.
- `TornOnlyByReentry`, `StatusIsHonest`, `PartialKeepsFindings`: whatever ends a scan, its reports are whole
  but for one window, are what the exit status says when `_scan` returned it, and are made from every
  finding so far, less what the upload limits of the SARIF file cut.
- `NoSilentClean`, `EveryPackageAnswered`: no refused or failed request, torn file or overlapping run makes
  a package look clean. What a 200 response says is believed, an entry it lacks included (`osv_client.py:401`),
  and a stub is passed over; both are listed hazards, which the property bounds and does not catch. Only
  an online run with `max_retries` 0 leaves a package without an answer, one it has not cached.
- `EachAlertOnce`, `ReplyIsCurrentOrRaced`, `UrlOfAMember`: one row per alert whatever races, neither
  channel takes an alert from the other, replies are wrong only after a race, and an organization's
  alerts go to its members' URLs only.
- `WholeUnlessOverlapped`, `EditLostOnlyInWindow`, `ReportIsTrue`: a file is torn only if two runs replace
  it at once, an edit is lost only between the stale check and `os.replace`, and the report is true.

## 5. Fairness

- `WebhookDelivery`: weak fairness of each worker and of each closer's steps after its first. A
  runnable thread is scheduled; `get(timeout=0.2)` returns; `send` ends because `WebhookClient` does
  (`Returned`, itself checked). Nothing makes anyone submit, shut down, or end the process, and every
  liveness property allows for the process ending.
- `WebhookClient`: weak fairness of the next step. Sockets have timeouts, the resolver has its own.
- `EditorScan`: weak fairness of the timer callback and of scanner processes, which `timeoutMs` ends.
  None of the user's actions.
- `ParsePool`: weak fairness of the parent and of workers that can act. A stuck parse never ends, so
  `RunEnds` names the two places where one stops the run; no fairness makes a worker die.
- `ScanRun`, `OsvCache`, `Notifications` and `Remediation` state safety only and assume no fairness: their
  processes may be killed at any step, and what they promise is what has been left behind then.

## 6. Proofs

Each proof module has an invariant `IInv`, one lemma per action that preserves it, `InductiveInvariant`
(`Spec => []IInv`), and theorems that read the properties off it.

### WebhookDeliveryProofs

It holds for any set of submissions, any number of closers, any non-empty finite
set of workers and any positive capacity (`TasksAssumption`, `ThreadsAssumption`, `CapAssumption`: the
sentinel is not a task, and the service is built with at least one worker and, since a `Queue` of size
0 would be unbounded, at least one slot; its defaults and its callers do so).

| theorem | states |
|---|---|
| `InductiveInvariant` | `Spec => []IInv` |
| `TypeCorrect` | `Spec => []TypeOK`, the capacity bound included |
| `ExactlyOne` | `Spec => []ExactlyOneResult`: one result for what was admitted or refused and is in no hands, none for the rest |
| `SendsMatchResults` | `Spec => []SentOnceOrAborted` |
| `NoneAfterEvent` | `Spec => []NoTaskAfterEvent` |
| `AuditRepeatsResult` | `Spec => []AuditFaithful` |
| `AdmissionStaysClosed` | `Spec => NoLateAdmission` |
| `WorkersAreDone` | `Spec => WorkersFinishTheirTask` |
| `KeepsContract` | `Spec` implies the contract's initial condition and `[][ContractNext]` under the mapping |
| `StopInvariant` | `Spec => []StopInv`: the order of `shutdown()`'s phases |
| `StoppedIsSettled` | once the event is set, an admitted submission without a result is in a worker's hands; once all workers have exited, every admitted submission has its one result |

The argument. `ExactlyOneResult` is not inductive: from a state in which a task is both queued and in
a worker's hands, two results follow. `IInv` adds that a task is in one place at a time and that what
has been recorded and sent is fixed by the place:

- `QueueInv`: a queued task is in one slot, admitted, untouched, and in nobody's hands;
- `WorkerInv`: a worker has a task exactly while it sends or persists, no two have the same, and its
  result is recorded exactly in "persist";
- `CloserInv`: one closer at most is between its first critical section and its joins, admission is
  closed while one is, and its item has no result until the abort is recorded;
- `ResultInv`: at most one result and one send, consistent with each other and with the audit row;
- `NothingLost`: an admitted task without a result is queued, in a worker's hands or the closer's;
- `DrainedInv`: from the end of the drain on, no task is queued.

There is one lemma per action (`RefuseStep`, `AdmitStep`, `GetTaskStep`, ... ) with one step per conjunct,
over lemmas on the primitive steps (`Recorded`, `Persisted`, `Dequeued`, `Enqueued`, `HeadTaken`). The
properties follow from `IInv` alone. `KeepsContract` has one lemma per thread kind: a step that gives
one submission a new fate is the contract's step of that name (`OneFate`), any other is a stutter
(`NoFate`); `IInv` supplies that a task a closer aborts is in no worker's hands and that admission is
closed.

`StoppedIsSettled` is what `AdmittedIsResolved` says short of fairness: should workers exit, they leave
nothing behind. It needs that a worker exits, and a sentinel is posted, only after the drain. `StopInv`
says so by way of the event, which lies between the two: the closer that drains has not set it, and the
one that posts has. `IInv` supplies that there is one such closer.

### The other modules

| module | holds for any | theorems |
|---|---|---|
| `WebhookClientProofs` | deadline, timeouts, backoff, attempts, operations, oversleep | `TypeCorrect`, `RepeatsAreInvited`, `LastAttemptReported`, `BoundedTime`, `StepsRunOut` |
| `EditorScanProofs` | line texts, analysis, document length, padding, edits, scans | `TypeCorrect`, `OneScanAtATime`, `PendingIsTakenUp`, `WrongDiagnosticsKnown`, `SettledIsRight`, `SavedFileSafe` |
| `ParsePoolProofs` | files, slice size, two or more workers, limit, factors, durations, positive slack | `NoWaitingSkips`, `SlicesBounded`, `PlacesInvariant`, `TypeCorrect`, `NoFileForgotten`, `NobodyWaitsInVain`, `RunStopsWhere`, `ResultsAreFinal` |
| `ScanRunProofs` | findings, urgent ones, filters, positive limit of results, signals, exceptions | `TypeCorrect`, `ReportIsWhole`, `FindingsKept`, `HonestStatus` |
| `OsvCacheProofs` | runs, finite set of packages, chunk size, retries | `TypeCorrect`, `CleanIsVouched`, `AllAnswered` |
| `NotificationsProofs` | organizations, users, processes, sessions, event kinds, bounds | `TypeCorrect`, `TenantsApart`, `AlertsHandledOnce`, `RepliesKnown`, `NotificationsStayHome` |
| `RemediationProofs` | runs, files, findings, edits, restarts | `TypeCorrect`, `WholeFiles`, `EditsLostInWindow`, `TrueReport` |

The assumptions are those the modules name; they say that sets meant to be different are, that bounds
are numbers, and what the code's defaults grant (at least two workers and a positive slack in the
parser, a positive chunk size in the OSV client).

- `WebhookClientProofs`. `OutcomesInv` fixes how many outcomes there are in each phase and that all but
  the last invited a retry. `ClockInv` bounds the clock by what is left of the deadline; within an
  exchange, operation n may end at `Deadline + n * limit`, which is the overrun. `StepsRunOut`: every step
  decreases `StepsLeft` (what is left of the attempt, plus `MaxOps + 5` for each attempt not begun), so a
  call takes at most `MostSteps` steps whatever it is answered; `OpenInv` adds that an exchange that goes
  on has an operation left, without which it would be stuck there.
- `EditorScanProofs`. Diagnostics change through the latest scan alone. `CurrentInv`: every line that scan
  owes reads as it did when the scan began, unless it is dirty and pending; every line it has ceased
  to owe is lost. `ScansInv` (numbers are distinct), `SavedInv` (a clean document is the saved one).
  `SettledIsRight`: when nothing is pending and no scan is running, the diagnostics are those of the
  text, line by line but for lost ones. `SavedFileSafe` assumes `~MayFail` and shows by `CopyInv` (each
  unsaved buffer is scanned through a copy) that a copy which could not be written is the only way to
  the first finding of section 7.
- `ParsePoolProofs`. `FifoInv`: as long as no parse is slow, a running parse ends within one limit per
  round of the pool up to its own, and the head of the queue starts by the end of the rounds before
  it. When time passes the pool is full of files in front of the head, so by the pigeonhole principle
  (`Foremost`) one of them is a whole round ahead, and the head has at least the time that one has. A
  deadline that would pass contradicts it (`NeverLate`); that needs the slack to be positive.
  The other theorems rest on a second invariant, `JInv`, of where each file is: the queue holds the
  queued files once each (`QueueInv`), no more files run than there are workers (`WorkersInv`), and
  the files before the slice are decided, those of the slice submitted and decided in order, those
  after it untouched (`FilesInv`). The last gives `NoFileForgotten`; the parent decides as it collects,
  so it cannot be read off the end state alone. `NobodyWaitsInVain`: while a future is unfinished a
  worker runs or can start one, and the parent waits for submitted files only. `RunStopsWhere`: a state
  in which nothing moves is the end of the run, or the parent is in a parse of its own that took longer
  than the limit (after a worker died or the governor gave up the pool), or a shutdown waits for a worker
  in a parse that never ends. `ResultsAreFinal`: a decided file keeps its verdict, and one that left the
  pool is not submitted again.
- `ScanRunProofs`. `BufferInv`: unless `reentered`, only the top frame has text to flush, and the file it
  has open is the temporary one and not the report, so unwinding cannot touch the report. `KeptInv`:
  the results grow only until there is a report of them, so a later report cannot have less. `HonestInv`
  knows the roles of the stack (`RolesOK`), follows the scan's own frame (`ScanFrame`, and `ScanOnTop` while
  nothing runs on it, an exception swallowed included), counts what has been printed (`Printed`), and
  follows the handler of an only signal (`HandlerOK`), which may share the file of a write it
  interrupted and still leaves a report of this run.
- `OsvCacheProofs`. `VouchedInv`: what file, memory, batch or answer call clean is vouched for or not
  published. `AnsweredInv`: each wanted package is answered, pending or in the batch, or the run may ask
  for none it has not cached.
- `NotificationsProofs`. `CreatorOK` and `ReaderOK` say what each step of a session still knows of rows it
  read earlier; `SessionStep` shows once that a step of one session preserves what all others know,
  because rows only grow and marks are recorded in `raced`. `JobOK`, `DestOK` and `AccountInv` follow a
  URL from the account to the registry to the post. `NotificationsStayHome` is tenant isolation of the
  table as an action property; `SeenInv` (the rows a route holds are its organization's) carries what
  the query's filter established to the later step that writes.
- `RemediationProofs`. `Local` relates the lists of one run; `AloneInv` and `TmpInv` say that a run which
  does not overlap another has the temporary file to itself; `FixedInv` and `EditInv` say what text it
  is about to put in place.

Only model-checked: what holds under fairness (`AdmittedIsResolved`, `WorkersStop`, the liveness part of
`ImplementsContract`, `Returned`, `EditsAreScanned`, `RunEnds`). Each needs that the fair action is enabled,
and the prover has no rule for ENABLED. What there is to say of them without it is proved:
`StoppedIsSettled` for the first two, `StepsRunOut` for `Returned`, `PendingIsTakenUp` and `SettledIsRight` for
`EditsAreScanned`, `NoFileForgotten`, `NobodyWaitsInVain` and `RunStopsWhere` for `RunEnds`.

## 7. Findings

- `editor_scan_file` (bug): if the staged copy of an unsaved buffer cannot be written,
  `stageScanTarget` falls back to the saved file, and `cleanupStagedFile` (`scannerRunner.ts:188`), which
  looks at `options.content` only, then unlinks the saved file.
- `webhook_client_deadline`: `send` "enforces monotonic deadline", but gives each socket operation
  the remaining time anew (`webhook_client.py:313`).
- `editor_scan_save`: the "authoritative" full scan of a save is superseded by an edit made while it
  runs (`extension.ts:181`), and the lines out of the edit's reach keep their old diagnostics.
- `parse_pool_queued`: "a merely queued file never" misses its deadline, says `_parse_slice`; behind
  workers that are stuck in files given up earlier it does (`parallel_scanner.py:447`).

Disagreements that a property excuses by name rather than a run of its own refutes:

- "Anything unhandled is an internal error: emit the fallback artefacts and exit 2 instead of dying on a
  traceback with an empty report", says `main` (`cli.py:1947`). A cross-file scan that fails raises
  SystemExit(1) (`cli.py:1100`, `1137`): no report, and the status of a scan that found something
  (`ScanRun`, status "fatal", of which `StatusIsHonest` says nothing).
- "Nothing is in flight at this point", says the comment before the pool is given up
  (`parallel_scanner.py:339`). The futures of skipped files are, and `shutdown(wait=True)` waits for them, for
  ever if one is stuck; the shutdown at the end of a run waits the same way (`ParsePool`, the second way out
  in `RunEnds`).
- Submissions that `deliver()` leaves with an exception its docstring (`webhook_adapter.py:406-411`) does not
  list, and without a result (`WebhookDelivery`, "raised").
- Packages a short 200 response has no entry for (`OsvCache`, `vouched`), the torn report of a re-entered
  write (`ScanRun`, `reentered`), advisories that stay stubs (`OsvCache`, "stub"), and the shared temporary
  name of overlapping remediations (`Remediation`, `overlapped`). Section 3 describes each.

## 8. Not modelled

- Within the modelled components: formatting, canonical URLs, signatures, certificates and byte
  limits; the sequential parse of small inputs, `read_and_parse_paths` and name collisions among
  modules in the merged result; deactivation of the extension, the `scanOnSave` switch, changes of the
  file by other programs, text the scanner cannot parse, and applying a quick fix; listing and counting
  of notifications and `unsubscribe`, which nothing calls; what patch engine and verification decide;
  the CLI's other commands.
- Left of the plan (section 2): accounts, line selection, parallel analyzer, delivery repository.
- Out of reach: the analyzers (syntax trees and rule tables, no protocol), the SSRF guard's address
  tables, GUI and formatting of reports (input and output), Celery (its own broker does the retry).

The components above are a small part of the repository's text. Most of it is `ast_scanner.py` alone
(28,036 lines), the other analyzers, rule tables and their tests, and third-party sources kept as
benchmark input under `benchmark_gates_data/`; they have no state shared between steps or actors that a
state machine could say something about.
