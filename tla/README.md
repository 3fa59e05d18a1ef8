# Rúnir: a verification project

Rúnir is a memory service for AI assistants: a TypeScript HTTP server over
SurrealDB. Clients post conversation turns; the service extracts facts, decides
per fact whether it is new, a rewording, or a replacement of something it knows,
answers recall queries, and maintains what it stored in the background. This
directory models the parts of it that keep state under concurrency and failure,
in TLA+, checks them with TLC and proves their main invariants with TLAPS.

Paths below are relative to the repository's root.

## 1. The system

| Part | State | Operations | Hard behaviour |
|---|---|---|---|
| Lease lock `src/lifecycle/semion/lock.ts` | one row per `user::scope` key with holder and expiry | acquireLock, extendLock, releaseLock | a TTL lease: holders outlive it, heartbeats are lost or late, answers are lost, processes die |
| Memory store `src/storage/surreal/memory-crud-store.ts`, written through `src/storage/writes/write-arbitrator.ts` | memories with active flag, `supersedes`, `superseded_by`, `lineage_root_id` | create, merge-update, supersede, skip; forget, restore, hard delete; lineage | candidates are read, judged by a model for seconds, then written; the cycle guard reads one hop per query |
| Consolidation run `src/lifecycle/semion/consolidation.ts`, `decay-pass.ts` | dedup watermark, snapshot of the scope | dedup sweep, archive, backlog replay, stored-memory staleness, decay, promotion, continuity, janitor, gaps | works from a snapshot while others write; budgets; errors caught step by step |
| Staleness backlog and scheduler `staleness-pass.ts`, `consolidation.ts`, `lock.ts` | `staleness_backlog` entries, `consolidation_state`, in-flight flags | write entry, replay, mark replayed / failed; hourly tick and startup catch-up | replays of one entry by two paths, failures that look like success |
| Source-turn queue `src/capture/source-turn-spool.ts` | journal file, resident maps, in-flight writes | commitCapture, drain, forget, seen queries | torn appends, crash and replay, writes outside the serial queue |
| Capture pipeline `src/app/routes/hooks/index.ts`, `src/storage/surreal/session-turn-store.ts`, `source-turn-link-store.ts` | per-turn locks, `session_turn` rows, extraction markers | POST /hooks/capture, drain write, forgetSourceSession, forgetSourceUser | retried requests, changed content under one id, erase during capture and drain |
| Sessions and continuity `runir-session-store.ts`, `session-watermark-store.ts`, `session-janitor.ts`, `continuity-build.ts`, `continuity-gaps.ts` and their stores | session rows, watermarks, build cursor, versioned project state, gaps | resolve/close session, idle close, build with compare-and-swap, detect and reconcile gaps | read-modify-write races, cursors over ties, sticky statuses |
| Guarded transactions `phase2-store.ts`, `memory-crud-store.ts`, `lock.ts`, with the usefulness feedback that leads to them `usefulness-feedback.ts`, `usefulness-accrual.ts` | noema rows and their evidence, promotion markers, counters of usefulness, processing lineages | promoteSemioteToNoema, rating a recall, lineage-carrying merge and supersede | snapshots re-checked inside one transaction, in-doubt commits read back |
| Write decision `src/storage/writes/*` | none (recent-write cache) | resolveDecision, resolveJudgeDecision, guards | a long priority list of rules |
| Caches `overlay-store.ts`, `active-hexis-cache.ts`, `access-tracker.ts` | LRU maps, in-flight map, pending counts | put/evict, resolve, flush | capacity limits per tenant and in total, stale joins |
| Entity graph, recall, extraction, synthesis, archive, hexis, identity, shell, plugins | see `PROJECT.json` | | mostly pure, numeric, or text |

How they interact. A capture request locks its turns, extracts facts and sends
each through the arbitrator into the memory store; its turns go to the queue, and
a drain writes them to `session_turn`. A consolidation run takes the lease of a
`user::scope` and works on the same memory table that captures and users write
to; only runs and staleness passes respect the lease, captures and users never
do. A staleness pass that finds the lease taken leaves a backlog entry, which a
later run, or the startup of the process, replays. The session-end hook writes a
watermark; five of them and 24 hours make a user eligible for a run, which the
scheduler starts for each scope in turn. The run of scope `user` also closes idle
sessions, reports those that ended with work and without a handoff, and promotes
memories to noemas; a feedback request promotes them too.

What makes each part correct:

* *lock*: two callers work under one key only after a full TTL without renewal;
  nobody's live lease is removed or lengthened by another; an orphaned lease is
  eventually cleared.
* *memory store*: supersedes never form a cycle; a superseded fact keeps a
  surviving version; a memory and its successor are in one lineage; erased means
  erased.
* *dedup*: no pair of active memories slips below the watermark uncompared; a
  survivor carries the values of what it replaces; a swept row is fed to the
  staleness pass, unless the cap, a thrown feed or the end of its run leaves it out.
* *source queue*: an accepted turn is not lost and is eventually written; a
  marker is true; a forgotten turn does not come back; facts are extracted once.
* *backlog*: every entry is eventually settled, no two threads replay it at once,
  a run replays nothing twice; users are served no more often than they should.
* *sessions and continuity*: a close is never undone by an older request; a
  session has one watermark and one open gap, and ended work is reported; no
  evidence is skipped by the cursor.
* *guarded transactions*: what was checked is what was written; the answer about a
  lost transaction is true when it is given; evidence counts what supports.

`PROJECT.json` lists every component with its status and every hazard with its
line.

## 2. The modules

| Module | Models | Builds on |
|---|---|---|
| `KeyedLease` | what callers of the lock are promised: per key the callers at work and the one who is protected | |
| `AtomicPromotion` | what a promotion amounts to: one step that takes a useful memory into the supports of its claim | |
| `ConsolidationLock` | the lease table, three kinds of callers, heartbeats in flight, time | implements `KeyedLease` |
| `SupersedeStore` | memory rows with their pointers; captures, one consolidation run, a user | |
| `DedupSweep` | the sweep, its watermark, the staleness feed, decay and promotion; writers beside it | |
| `SourceTurnSpool` | the journalled queue: journal, maps, drain, faults | |
| `SourceCapture` | capture requests, the drain's writes, an erase, crashes | extends `SourceTurnSpool` |
| `ContinuityBuild` | the continuity builder of one project: cursor, fetch, compare-and-swap; captures, users and overlapping runs beside it | |
| `StalenessBacklog` | the backlog, passes, the startup replay, the scheduler and the runs it starts, forced runs | instantiates and implements `KeyedLease` |
| `SessionLifecycle` | the row of a session, its watermark, requests, session ends and the idle janitor | |
| `ContinuityGaps` | the missing-handoff gaps of that session: detection, upsert, reconciliation, the user's decision | extends and implements `SessionLifecycle` |
| `NoemaPromotion` | ratings of memories and their promotion by runs and requests: reads, guarded transaction, lost answer, read-back | implements `AtomicPromotion` |
| `MC*` | instances for TLC | the module they name |
| `*Proofs` | theorems and their proofs | the module they name |

Reading an action next to the code: one action per stretch that no other actor
can interrupt, that is, up to the next `await` that reaches the database, the
file or a model. A statement sent to SurrealDB is atomic, a `BEGIN … COMMIT`
batch commits as a whole or not at all, and an answer may be lost after the
statement was executed.

**`ConsolidationLock`.** `acquireLock` is `RequestLock` (the holder UUID is
drawn), `DeleteExpired` and `CreateLease` / `Contended` /
`CreateUnacknowledged`: the query holds two statements and others may come
between them. `SendHeartbeat` puts an un-awaited `extendLock` in flight;
`ExtendLease` executes it, perhaps after its run has ended. `ReleaseLock` is the
`finally` block, `Abandon` a crash. Time is relative: `left` is the time a row
has left, `Tick` takes one from all. `grace` is history: the ticks since the run
last had a reason to believe in its lease.

**`SupersedeStore`.** A memory is its position in creation order. `FindCandidate`
reads what the judge will see, `Skip`, `MergeUpdate`, `DecideSupersede` are the
outcomes; `Witness`, `Hop`*, `PassGuard`, `CommitCapture` / `CommitMaintenance`
are `supersedeMemory`: both rows' witnesses, the cycle guard at one query per hop,
and the transaction whose guards compare the rows with their witnesses. The run
is `StartSweep`, `DedupPair`, `ReplayEntry`, `StoredStaleness`, `Verdict`,
`EndRun`. Similarity, judge and model answers are free choices. Timestamps that
tie are left out (ids are creation order); one run at a time is assumed, which
the lock gives as long as its heartbeat arrives.

**`DedupSweep`.** `StartSweep` takes the snapshot and the candidates newer than
the watermark; `TakeCandidate`, `KeepBoth`, `Merge`, `MergeThrows`,
`FinishCandidate`, `BudgetExhausted` are the two loops; `AdvanceWatermark`,
`FeedStaleness` (the newest `Limit` of the swept rows) or `FeedThrows` (swallowed:
the run goes on), and `FinishRun` (decay and promotion) follow. `RunFails` is an
exception outside the loops' own `try`, or a crash. `Create`, `MergeUpdate` and
`SetStatus` are the writes of captures and users, of backlog replays and of the
staleness pass. `compared`, `fed` and `missed` (behind the watermark and never to be
fed) are history: they hold for the present version of a row and are withdrawn when
it is written. Rows without text, which the feed filters out, do not occur.

**`SourceTurnSpool`, `SourceCapture`.** The journal appears as `disk`, the state
`initialize()` would rebuild from it, and the resident maps as `mem`; the
methods run one at a time, so each is one step. A failed append leaves nothing,
or, when truncation fails too, a prefix of its lines, and the process is `stuck`
until it restarts. A capture is `Arrive`, `JoinLock`*, `Look`, `ReadRows`,
`Reserve`, `Extracted` / `NoExtraction`, `CommitRequest` and, on any failure, the
`finally` block's second commit. The drain is `DrainStarts`, per entry `Register`
and `Upsert…`, then `DrainEnds`. An erase is `StartErase`, `Bury`, `FindRows`,
`Bury`, `DeleteRows`. `factsOf` and `erased` are history.

**`ContinuityBuild`.** One build is `ReadCursor`, `Fetch` or `SkipNoEvidence`,
`ReadPrior`, then `Commit`, `CommitPrior` (the model call failed) or `CasLost`,
then `WriteCursor`. The model call lies between `ReadPrior` and the commit and
changes nothing itself. `Capture`, `Withdraw` and `Restore` are the writes
beside it; times tie, and a capture may commit behind the cursor. The committed
state is the set of memories put before a synthesis and carried forward since,
because the model's wording cannot be predicted; the version is replaced by
`moved`, whether it has changed since a build read it. `CommitUnacknowledged` is
a write whose answer was lost. A second run starts beside a first only when the
first one's lease has lapsed, which counts as a failure. `unseen` is history: the
memories no build can be blamed for.

**`StalenessBacklog`.** A thread is at a place (`at`), works under a `key`, holds an
`entry` and a list of more (`todo`). `runStalenessPass` is `StartPass` and then
`WriteEntry` (the lease was taken) or `EndPass`; `StartFails` is one whose
`acquireLock` throws, as a forced run's may. The startup is `StartProcess`,
`ListPending`, per entry `BootSkips` or `BootTakes`, `CoreReturns`,
`BootReplayed`, `BootDone`, with `BootThrows` and `BootFailed` for its `catch`;
then the catch-up, the same pass the timer runs: `BeginPass`, `GetEligibleUsers`,
`RunForUser`, per scope `StartRun` / `SkipRun` / `RunAcquireFails`, and `StampRun`.
A run is `ListBacklog`, per entry `TakeEntry`, `CoreReturns`, `MarkReplayed` or
`CoreThrows`, `MarkFailed`, then `CompleteRun` or `RunThrows`. Locks are those of
`KeyedLease`, which `ConsolidationLock` is shown to implement; the backlog with its
crashes (`Die`) is shown to use them as `KeyedLease` says. A lease row that
outlives its holder is an `orphan`. `Crash` ends all threads and leaves the tables.
A lease that lapses and is revived by a late heartbeat is one that did not lapse.
`overlapped` is history: who is not sure to be alone under the key.

**`SessionLifecycle`.** `resolveRunirSession` is two queries: `ReadRow`, and
`WriteRow`, an UPDATE with a monotone guard (`Stamped`) if a row was read and an
UPSERT of the whole content (`Created`) if not. A request is `Call` and `Open`; a
session end goes on with `SkipKnown`, `SkipUnreadable` or `HasNews`, the two
queries of `createWatermark` (`DeleteMarks`, `CreateMark`), `BeginClose` and
`Close`. The janitor is `FindIdle` and `CloseIdle`. `BreakOff` is a query that
throws or a process that ends. `RunGoesOn` stands for the rest of a run, the gap
detector; that `ContinuityGaps` is such a rest is a theorem (`ComposedSession`).

**`ContinuityGaps`.** After the janitor a run detects: `ListEnded` by the time of
the last close, `Evaluate` (work, handoff), `FindExistingGap`, `CreateGap` or
`UpdateGap`, `ListOpenGaps` and, gap by gap, `SupersedeGap`. A gap is named by the
close it is about (`gen`). A project without a continuity state row (`built`) is
passed over (`NotEvaluated`) until a build commits one (`FirstBuild`), and only then
does `EndedWorkIsReported` speak. The user's part is `CaptureWork`, `ChangeHandoff`,
`Decide`.

**`NoemaPromotion`.** A run promotes every active memory (`StartRun`); a request
rates those of a recall from counters it read before (`StartRequest`, `PatchItem`,
`AccrueItem`) and, except on the capture path, promotes them. One promotion is
`ReadMetadata`, `ReadRow`, `ReadTarget`, `ReadSupport`* and one transaction, whose
`Guards` compare every row with what was read (`same` holds the rows still as they
were read). `Commit` and `GuardFails` are its two ends; with `AnswerLost` it stays
in doubt, may `Land` later or `Drop`, and `ReadBack`* ends in an `answer`.
Counters are reduced to what `shouldPromoteToNoema` makes of them (`grade`). `ran` and
`mine` are history: whether the transaction was applied before its rows were read
back, and which rows it was the last to write. The two read-back queries of the
source are one. `AtomicPromotion` is the same without actors, reads and guards: the
commit, or the late landing, of a transaction is its `Promote`, a patch its `Rate`.

## 3. The runs

| Run | Question | Bounds | Result |
|---|---|---|---|
| `lock` | is the lease exclusive, never stolen, recoverable, and a `KeyedLease`? | 1 key, 3 callers (two renewing), 4 tokens, TTL 2 and 1 | holds |
| `supersede` | does the hop-by-hop guard keep `supersedes` acyclic? | 3 memories, 1 capture, 1 run, backlog {1}, erasures | holds |
| `captures` | lineage, finality of erasure and survivors under two captures | 4 memories, 2 captures, all user requests, failing guard reads | holds |
| `dedup` | watermark, feed and value guard of the sweep, with failures and writers | 3 memories, 5 timestamps, 1 failure, budget 1, feed of 1 row | holds |
| `source` | journal, erase, markers, locks, loss, repetition and progress of the capture pipeline | 2 turns, 2 contents, 2 requests, 1 erase, 1 fault | holds |
| `changed_turn` | does the drain remove only what it wrote? | the same | **violated** |
| `build` | does the cursor skip evidence, does a build undo another's, is all evidence folded at last? | 4 memories, 3 timestamps, batches of 2, 1 text-less memory, 2 builds, 1 edit, 2 failures | holds |
| `backlog` | is an entry in one pair of hands, never replayed twice by a run, settled at last; are users served only when eligible? | 1 user, 2 scopes, 1 entry, 1 pass thread with 2 passes, 1 forced run, both triggers, 2 faults, 1 session makes eligible | holds |
| `sessions` | is a close kept, is the watermark kept, under stale reads and breaks? | 2 callers with 3 requests of all kinds, 1 run, clock to 3, 1 break | holds |
| `close_clobbered` | does a stale resolve keep a newer close? | 2 callers with 2 requests, clock to 2 | **violated** |
| `gaps` | one open gap per session; is ended work reported? | 2 overlapping runs, 1 caller with 2 session ends, clock to 3, 1 edit, 1 failure | holds |
| `promotion` | does a promotion write what it read, is the answer about a lost one true, do the rows change as if each promotion were one step, is all promoted? | 2 memories of one claim, 1 run, 1 request, 1 lost answer or failed read, 1 edit | holds |

Why these bounds. *lock*: theft needs a slow holder, its successor and a third
who sees both; four tokens leave one for a heartbeat in flight after its run;
TTLs of 2 and 1 let one lease lapse while another lives. *supersede*: a cycle of
supersedes needs two memories, a chain the guard walks needs three; `captures`
needs four so that two superseding captures can create a row each. *dedup*: a
watermark error needs a candidate below, one at, and one above the first unswept
timestamp; a budget of one candidate ends every sweep early; a feed of one row lets
the cap cut off the older of two that one sweep leaves. *source*: the lock
order needs two turns and two requests; the fault may be any of a failed append
(truncated or torn), a failed query or a crash. *build*: a cohort that straddles
the limit needs a full batch of 2 and a third memory, the tail needs an earlier
time below it, and a fourth memory arrives behind; two failures allow an overlap
and a lost answer in one behaviour. *backlog*: two faults let a lease lapse (or an
acquire or a release fail) and the process crash; two scopes let one thread work on a key
beside another's; five kinds of threads can meet at one entry. *sessions*: two
callers and a janitor are the writers that can overlap, three requests let a third
find what the two left. *gaps*: a session that ends twice has two generations; two
runs detect at once; the clock reaches an idle close of a reopened session.
*promotion*: two memories of one claim share a noema, so the second promotion meets
the first one's row, a request promotes beside the run, and a lost transaction can
land after either. Its request rates once, so that a rating based on counters that
another request has since changed is possible in the model and in the proofs but
not in this instance.

The proofs of section 4 lift most of these bounds for the safety properties.

**What the violations show**, each against a sentence of the repository
(quoted in `PROJECT.json`):

* `changed_turn`: the drain reads its window at the start and removes by id at the
  end; content committed in between is removed unwritten.
* `close_clobbered`: two requests read no row; one creates it and closes it, the
  other's UPSERT replaces the closed row by an active one without a
  `last_closed_at`. The comment says a stale resolve must never do that; the guard
  is only in the UPDATE.

**Observations without a run**, each seen in a counterexample of a variant of these
models or read off an action.

Of the store: the guard follows `supersedes`, which holds one predecessor; a row
that replaces two memories forgets the first. A sweep supersedes 1 by 2, a backlog
entry whose replacement is 1 supersedes 2 by 1, and neither is active any more:
`SupersededHasSurvivor` holds only of captures. The sweep passes the survivor of its
snapshot as the replacement; if that was hard-deleted meanwhile, the transaction
inserts it anew, where `src/README.md:392` calls the delete unrecoverable. The
dedup watermark is written before the rows are fed to the staleness pass, and what
lies behind it is not looked at again. The feed takes the newest 25
(`consolidation.ts:405`), an exception of it is swallowed (`:426`), and a run may die
before it; the rows left out are never fed. The "exactly-once boundary" of the
comment (`:389`) is at most once; it keeps its word, that unswept rows are fed by
whichever run sweeps them, up to these three losses, which is what `SweptRowsAreFed`
says. `forgetSourceUser` deletes all
rows of the user but tombstones only the turns it listed; the next drain recreates
a turn captured in between. With sweeps, `LineageIntact` fails: the sweep
passes no `lineageRootId` (`consolidation.ts:283`), so a chain of replacements
splits into several lineages. With a failing guard read and a run, the guard's
"fail open" (`dag-guard.ts:60`) admits a cycle. With `Late = TRUE`, that is,
timestamps drawn before their write commits, `NoPairSkipped` and `SweptRowsAreFed`
fail. Without
`FitsBudget`, `EveryPairCompared` fails: a promotion pass gives many rows one
timestamp, and if they exceed a run's budget the watermark never moves. The value
guard compares the snapshot's texts, so a survivor rewritten since may lack a
value (`SurvivorCarriesValues` excludes it in so many words).

Of the builder: whether a batch was full is decided after rows without text have
left it (`continuity-build.ts:246`, `:466`), so a full batch with one of them
moves the cursor onto a timestamp whose other rows the LIMIT cut off, and these
are skipped for good (`CutOff` excludes them). A cohort of one timestamp as large
as a batch, or a batch full of text-less rows, stops the cursor for ever
(`FitsBatch`). Memories that appear behind the cursor, by a `createdAt` of the past
or by a restore, are never folded; a merge keeps `createdAt`, so its new text is no
new evidence. A run considers the first five projects by `enrolled_at`
(`continuity-build.ts:555`); a sixth is never built.

Of the backlog: the startup works from a list it read once and does not look at an
entry again, so it may replay one a run has replayed, and its late `failed`
overwrites `replayed`; an `acquireLock` that throws there marks `failed` an entry
that was never tried; `failed` is final. A model that gives no answer counts as a
core that returned: the entry becomes `replayed` unchecked. `runStalenessPass`, the
only writer of entries, has no caller in the product code.

Of sessions: two session ends that interleave leave two watermark rows, where
`session-watermark-store.ts:44` speaks of replacing the one. A gap dismissed between
`findExistingGap` and the UPDATE is open again, as is one dismissed between the list
and `setGapStatus` superseded and later reopened, although
`continuity-gap-store.ts:305` and `domain/memory/continuity.ts:160` call the decision
sticky.

Of promotions: `rolled_back` is true when it is said; a transaction that lands later
makes it false afterwards (`phase2-store.ts:2230`). No product code reads
`noemaPromotionOutcome`. A hard-deleted support blocks its noema for ever, because a
guard names its row. A promotion never checks `active`: a memory forgotten after it
was listed is promoted. The counters of a rating are read before and written after
other ratings, so a correction can be lost (`hooks/index.ts:1074`). One guard
conflict throws and ends the whole run as failed (`consolidation.ts:464`).

**Fairness.** `ConsolidationLock`: time passes, sent statements finish, a run
ends, and (strong fairness) callers ask again and do not die every single time
before their query is executed; the hourly tick and the session hooks are why
they ask again. `DedupSweep`: `RunStep`, because the scheduler starts a run every
hour; captures and users may stop. Failures are bounded by `MaxFails`, as no
property can hold if every run fails. `SourceCapture`: `DrainStep`, because the
drain's timer fires and its promises settle; requests need not go on. `ContinuityBuild`: a step of some build, because an hourly
run recurs and its queries and model call settle or time out; failures and lapsed
leases are bounded by `MaxFails`, withdrawals and captures out of order by
`MaxEdits`. `StalenessBacklog`: every thread that has begun goes on, a dead process is
started again, the interval fires, orphaned leases expire, a day passes and the user
keeps talking; nothing says that anybody calls `/hooks/maintenance` or starts a
pass, and passes and faults are bounded, so `BacklogIsSettled` speaks of the time
after they stop. `ContinuityGaps`: some run takes a step, since runs of the scope
keep coming; requests, edits and the clock may stop. `NoemaPromotion`: each run goes
on and a next one comes; requests may stop anywhere.

`CHECK_DEADLOCK FALSE` where the system may rest: `SourceCapture` with all
arrivals, erases and faults used up and the queue empty; `SessionLifecycle` and
`ContinuityGaps` when the clock has stopped and requests and edits are used up;
`StalenessBacklog` when the bounds are used up and no user is eligible.

## 4. The proofs

All theorems hold for every value of the constants that satisfies the named
`ASSUME`s of the module. They are invariants (`Spec => []Inv`), action properties
(`Spec => [][A]_vars`) and four refinements (`Spec => Abstract!Spec`):

| Detailed | Abstract | Theorem |
|---|---|---|
| `ConsolidationLock` | `KeyedLease` | `Implementation` |
| `StalenessBacklog` | `KeyedLease` | `LeasesComposed` |
| `ContinuityGaps` | `SessionLifecycle` | `ComposedSession` |
| `NoemaPromotion` | `AtomicPromotion` | `AtomicTheorem` |

The first two meet in one interface: the lock gives what the backlog relies on.
By the third, what is proved of the session alone, `CloseTheorem` and
`WatermarkTheorem`, holds beside the gap detector too.

* `ConsolidationLockProofs`: `TypeCorrect`; `MutualExclusion` (any number of keys,
  callers and tokens, any TTL); `NoTheft`; `Implementation`, the refinement of
  `KeyedLease`. The inductive invariant `LeaseInv` says that tokens of callers,
  rows and statements in flight are matched: one token belongs to one caller
  (`TokensDistinct`), a row or a heartbeat under a caller's token is that caller's
  own (`RowsOfCallers`, `BeatsOfCallers`), a caller inside with grace left holds the
  row of its key (`GraceIsBacked`), and that row has exactly its grace left
  (`GraceIsExact`). The refinement follows, since two protected callers would
  hold the same row.
* `SupersedeProofs`: `TypeCorrect`; `NoSupersedesCycle`, for any number of memories and
  captures, from `~ReadsFail` and one run; `SurvivorWithoutStaleness`, the survivor
  property where no staleness pass or backlog takes part; `LineageKept` and
  `HardDeleteFinal`, from `Maintainers = {}`, that is, of captures and users;
  `ErasedReturns`. The difficulty of the second is that the walk is stale when it ends.
  A capture's replacement is a fresh id nothing points to, so it cannot close a cycle,
  and the pointer of an old row changes only by the run's own supersede. The invariant
  `GuardInv` therefore states that the rows the walk has visited exclude the replacement
  and refer, even now, only to one another, to the row the walk is at, or to none; when
  the walk has passed they are closed under `supersedes`, so the pointer the commit adds
  cannot close a cycle. The survivor follows from `UpwardInv`: without staleness,
  `superseded_by` leads upwards in creation order. Lineages and erasures need the
  hypothesis: a sweep passes no lineage root and may insert an erased survivor anew
  (section 3). `ErasedReturns` says how far that goes with any number of runs: a memory
  erased comes back only as the replacement a run is just committing. `LineageInv` says
  that a row and its successor have one root and that a capture's plan carries the root
  of the row it will supersede, even if others were written since; `WitnessInv` that a
  plan whose witness still stands names a present row, so that no supersede revives the
  row it retires.
* `DedupProofs`: `TypeCorrect`; `NoPairLost` for `Late = FALSE` and any number of
  memories, budget and failures; `SweptRowsFed` under the same hypothesis, for any cap;
  `FedIsBehind`; `SurvivorKeepsValues` (what is merged
  away leaves its values in an active survivor). The invariant relates each candidate of
  the snapshot to its state in the loop: what is no longer in `todo`, was not failed and
  still equals its snapshot was compared with every unchanged row; everything below the
  first unswept timestamp is swept; the clock is ahead of every timestamp, so a row
  written later is above any watermark of this run. So an active row the watermark
  passes is, at that moment, a candidate as in the snapshot and not merged away, that
  is, among the rows about to be fed; the feed, its exception and the end of the run
  each put it into `fed` or `missed`.
* `SourceCaptureProofs`: `TypeCorrect`; `ResidentCorrect` (the maps are the
  replayed journal); `MarkersCorrect` (a marker's facts were written);
  `BuriedCorrect` (erased under a tombstone stays erased); `AcceptedKept` (an
  accepted turn is kept). The strengthenings are layered: `JournalOK` adds that
  forgotten and pending ids are known and that nothing forgotten is pending or
  marked; `RequestsOK` ties a request in `marking` to facts already written;
  `ErasedOK` adds that a write in flight under a tombstone has no row yet or is of an
  id the erase will delete, and that a buried id has neither row nor write;
  `AcceptedOK` adds that a written entry has its row unless the turn was erased. `StepEffects` classifies every step by its effect on journal and maps, so
  that each invariant is proved per effect and not per action.
  `LocksNeverCycle` and `ExtractedOnce` are about the chains of turns requests queue
  in. A request joins its chains in ascending order, so it is at the head of all it
  has joined but perhaps the highest (`LocksOK`); whoever is at the head of the
  highest chain in use can therefore go on, and a set of requests that wait for
  one another has none such. From its look at the markers to its own a request is
  alone at the head of its chains, so no other can extract its turns meanwhile, and
  a marker it found missing was not written since.

* `ContinuityBuildProofs`: `TypeCorrect`; `EvidenceKept`, for any number of
  memories, overlapping builds and failures and any batch limit;
  `BuildsAccumulate`. `NoEvidenceBurned` is not inductive, as the cursor is written
  from what a build fetched long before. `BuildInv` adds one conjunct per step of
  a build: at its fetch, what lies up to the cursor it read is folded (`FetchOK`);
  until its commit, what lies up to its new cursor is folded or in its batch
  (`BatchOK`); before its cursor write, all of that is folded (`StampOK`); and a
  version that has not moved belongs to the state the build read (`PriorOK`), so
  its compare-and-swap drops nothing. `BatchComplete` is the lemma about the tie
  rule: up to the time a bounded batch lets the cursor move to, it is complete.

* `StalenessBacklogProofs`: `TypeCorrect`; `ExclusiveTheorem`, `OnceTheorem`,
  `PacedTheorem`, for any number of users, scopes, entries, passes, forced runs,
  lapses and crashes. None of the properties is inductive. `Leases` says that a
  thread is in `working` of a key exactly while it is between `acquireLock` and
  `releaseLock` under it, and that one that is not `overlapped` is there alone;
  `Hands` that what a thread holds belongs to that key; together two threads with one
  entry are in one set, so one of them is overlapped, and nobody marks an entry that
  a run alone under its key still holds. `Flight` says that only one trigger is in a
  pass and that the users it has yet to serve are eligible, since only that pass
  stamps, and only the user it is serving. The lemmas `Entered`, `Left` and `Stays` show
  `Leases` kept per effect on the leases, not per action. `LeasesComposed` reads the
  same effects as steps of `KeyedLease`: what a thread takes was free, what it
  releases it held, a lapse withdraws protection and a crash is a `Die` of all.

* `SessionProofs`: `CloseTheorem`, for any number of requests, runs and clock
  readings; `WatermarkTheorem`, for any number of session ends. The invariant says
  that a row a resolve has read is still there, so the write of a resolve that read
  one is the guarded UPDATE. `OneGapTheorem`, for any number of overlapping runs, edits
  and failures: `OneOpenGap` only speaks of moments at which every run has
  reconciled, so it says nothing about the steps between. `OneLeft` does: at any
  moment one gap at most is open, or some run has yet to list the open ones, or one
  holds a list of all the others and will supersede them, or a run was cut off
  before it could. `ComposedSession` maps every step of the detector to a
  step of a run that leaves the row, the watermark and the requests alone.

* `NoemaPromotionProofs`: `TypeCorrect`; `EvidenceTheorem`, `PromotionTheorem`,
  `AnswerTheorem`, for any number of memories, claims, runs, requests, lost answers
  and edits. `Shape` says where a promotion is when it has a source, supports and a
  transaction in doubt. `Fresh` says what a promotion knows of a row that is still as
  it was read: the source is useful, the supports exist, the noema's supports are
  among its own; since the guards admit exactly such rows, the transaction writes what
  was checked, also when it lands late. `Told` ties the outcomes the rows read back
  allow to what happened: a row the transaction wrote last proves it ran, and after it
  ran some unread row of the two it writes is changed; hence an answer is never
  guessed. `AtomicTheorem` needs `Backed` beside these: the set of supports a
  promotion has put together is its source with those the noema had when it was read.
  If the noema is still as it was read, that is what `Promote` writes; if not, a guard
  fails and nothing is written.

Only model-checked: liveness (`OrphanedKeyRecovers`, `EveryPairCompared`,
`AcceptedIsStored`, `EvidenceIsFolded`, `BacklogIsSettled`,
`EndedWorkIsReported`, `EveryPromotableIsPromoted`), which is out of the prover's reach.
Every safety property of a passing run is a theorem, under the hypotheses named
above.
What a recursive definition computes for every input could not be proved
either; the modules with proofs declare none.

## 5. What is left out

Of the modelled parts: rows with a processing lineage and the guarded writes that
carry one (`lock.ts:997`, `mergeMemoryWithProcessingLineage`), which follow the
pattern of `NoemaPromotion`; links between facts and turns, key fingerprints
and retention, also the retention jobs of the scheduler's tick; the queue's window
limits and the order of its entries, which hide that 1,000 permanently failing
entries at its head stop the drain; the lookback window and the caps of the gap
detector and its two rolling kinds of gaps; counters and posteriors of usefulness;
embeddings and similarity, so that rows without embedding do not occur; all text.
Two consolidation runs that overlap after a lapsed lease are in `ContinuityBuild` and
`ContinuityGaps`; in `NoemaPromotion` a run and a request stand for them, which take
the same steps.

Of the rest: recall and ranking are numeric and read-only; extraction, synthesis,
compaction and archive produce text from model answers; identity, policies and
configuration are stateless; plugins and the command line are clients of the HTTP
service. `PROJECT.json` gives the reason per component.

## 6. Plan

1. `BoundedCaches`: capacity, recency and freshness of the overlay registry, the
   active-hexis cache with its in-flight map, and the access tracker's flush.
2. The guarded writes of `lock.ts` and of lineage-carrying rows, with
   `NoemaPromotion`'s guard, transaction and read-back as their common part.
3. `WriteDecision`: the rules of the arbitrator as operators against a reference
   definition over bounded inputs.
4. `EntityMerge`; fusion and selection of the recall pipeline as pure operators.
5. Enrolment and a run's cap over several projects, beside `ContinuityBuild`.
6. An abstract build that folds a batch in one step, for `ContinuityBuild` to
   implement as `NoemaPromotion` does `AtomicPromotion`; what the hypotheses of
   `LineageKept` and `SurvivorWithoutStaleness` leave out, as far as it is true.
