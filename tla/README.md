# A TLA+ model of Chess Move Trainer

Chess Move Trainer keeps a chess player's games, an opening catalogue, a
repertoire of preferred moves and Stockfish analyses in one SQLite database.
A FastAPI service answers the browser; command-line programs import games and
openings, set up preferred moves, and launch the analyses. They are separate
processes on one Windows machine that meet in the database file, in a few
directories of files and in a named mutex or a file lock.

This directory models the parts in which the order of events matters. Every
definition stands for lines of the code under `src/`; `PROJECT.json` says which
(`map`), lists what is hard to test (`hazards`), the model-checking runs, wrong
versions of the code that each property catches (`mutants`), and the proved
theorems.

Paths below are relative to `src/src/chess_move_trainer/database/` unless they
begin with `backend/` or `frontend/`.

Contents: 1 the system, 2 the modules, 3 the runs, 4 assumptions and fairness,
5 proofs, 6 disagreements, 7 what is not modelled, 8 plan.

## 1. The system and its components

| Component | State | Operations | Hard behaviour | Correct means |
|---|---|---|---|---|
| **Analysis queue** `stockfish/queue_service.py`, `queue_helpers.py` | one row per position: quality, state, stamps, claim token | enqueue, claim, release, delete, fail, complete | a stale claim is taken over while its holder still works; a request is promoted while it is worked on | a row has one owner; late tickets change nothing; no request is lost |
| **Requests and results** `analysis/requests.py`, `repository.py` | results and their lines | request, publish | results of several writers in any order; one rule written twice | results only get better; a completed request counts as satisfied |
| **Observation** `analysis/observation.py`, `reading.py` | none | read | three reads without a transaction | no vanishing requests, no worsening answers |
| **Engine mutex** `stockfish/mutex.py` | handle and flags per object; the kernel's mutex | acquire, release | owners that die, the abandoned state | one owner; a reported recovery is real |
| **Worker launches** `stockfish/worker.py` | one launch: claim, exclusions, verdict, engine | run, recovery polling | KeyboardInterrupt anywhere, in a `finally` too, deaths, storage errors, engines that outlive their kill, waiting for stale claims | rows are not left running unnoticed, launches end, requests are settled |
| **Bulk launches** `stockfish/bulk.py`, `targets.py`, `target_*.py` | cursor, page, what was shown | run, iterate, initial preset | paging while results and games change | one engine at a time; nothing eligible is skipped for good |
| **Stockfish engine process** `stockfish/engine_runner.py` … | child process, reader thread, output queue | start, analyze, close | reader threads that outlive a process, processes that outlive their kill, timeouts, exits | a result is of its own search but for a late reader's line; failed processes are replaced |
| **Engine benchmark** `stockfish/benchmark*.py` | specification, attempts, checkpoint | run, resume | interrupts and crashes between two files | what was measured is not measured again or lost |
| **Preferred moves** `preferred_moves/` | periods of moves | put, delete, timeline, infer, set up | cutting and joining half-open periods; set-up beside imports; requests that fail | an amendment changes its own days; set-up is one step; answers are true |
| **Positions** `positions/` | derived positions | look up, insight | reads without a transaction | numbers that fit each other |
| **Games** `games/` | month files, games, occurrences | acquire, import, search, read | half-written months, two imports, pages over changing tables | a stored game is the game imported; no page skips a game |
| **Openings** `openings/` | source files, catalogue | acquire, publish, recognize, browse | swap of files with rollback; replacement under readers | catalogue of one commit; recognition is exact |
| **Database lifecycle** `lifecycle.py`, `publication.py` | the database file | set-up, update | failures half-way, a clean-up that fails, a test of existence before the use | a half-made database is removed unless a fault prevents it; only who made it removes it, or a creation under way |
| **Evaluation queue and service** `backend/app/features/evaluation/` | a FIFO table; sessions with threads and engines | request, drain | failure after publication, sessions that die, a read before the write | rows, results and engines in step; items are settled |
| **Batch analysis** `backend/app/features/analysis/` | batch, breaker, registry, engines | run_batch, drain, force | two levels of interrupts, registry races | the record is true; engines end |
| **HTTP routers** `backend/app/features/*/router.py` | none | handlers | errors mapped to answers | an answer says what happened |
| **Analysis polling** `frontend/src/features/analysis/analysisState.ts` | observation, timer, calls | observe, poll, request | late and superseded answers | what is shown is of the position shown; polling settles |
| **Repertoire builder** `frontend/src/features/repertoire-builder/preferredMoveWorkflowState.ts`, `preferredMoveState.ts`, `frontend/src/features/position-context/positionContextState.ts` | panel, context, reads, mutation | save, remove, retry | abandoned and overtaken mutations, stale reads, a context that fails | what is announced is stored |
| Capability proofs, command line, display | – | measure, print, render | – | not modelled |

How they meet: a browser request goes through `analysis/requests.py`, which
reuses a live queue row or a satisfying result, or enqueues. A *worker launch*
takes the mutex, claims the oldest row, analyzes, and in one transaction
publishes the result and ends the row. A *bulk launch* takes the same mutex and
publishes past the queue. The browser polls an observation of queue and result.
The earlier service has a queue and an operator of its own, kept apart by a
file lock. Imports and updates write games and openings while all of these read.

Nearly every write to the database is a `BEGIN IMMEDIATE` transaction; the import of
a game begins a deferred one (`games/persistence_repository.py`), which takes the
write lock with its first write, after it has compared the game with what is stored.
Either way writes are serialized and a failed transaction is rolled back. So a
transaction is one action of a model unless what happens within it matters
(`GameImport`, `PreferredMoveSetup`, `PreferredMoveRequests`); what interleaves is the order of transactions, reads
outside of transactions, files, time, deaths and interrupts.

## 2. The modules

Each module says in its first comment what it stands for; this section adds how
state and actions correspond to the code. Definitions whose comment begins with
*Slip:* are the wrong versions that `mutants` puts in place of the definition
they precede. They are no part of any specification.

### The queue and the launches

**`AnalysisResults`, `AnalysisQueue`.** A row is a record of its columns.
*Stamps are ages*: the code only compares a stamp with the present or another
stamp, so `requestedAge` and `claimedAge` count ticks since the stamp, and `Tick`
ages every row. `claimedAge` stops at `StaleAfter` (two minutes in the code),
beyond which nothing tells ages apart; `requestedAge` stops at the bound
`Horizon`, beyond which the order of two requests is left open, which allows
more than the code does. A *result* is a quality and whether configuration and
engine versions are those written now. A *ticket* (`claim[c]`) is the
`QueueClaim` a caller holds; it may be used any number of times and long after
the row has moved on. The token of a new claim is any that is neither in the
table, which `_fresh_token` checks, nor on a ticket in use, which uuid4
guarantees. `Request` is the whole of `AnalysisRequestRepository._request`;
`Complete` publishes and settles in one step, and changes nothing if the ticket
does not own the row or outranks it. `ApiSpec` adds `delete`, which nothing in
the program calls; `Spec` has what the program does.

**`AnalysisService`.** Positions are wanted at a quality, worked on at a quality,
and keep a result: no rows, tokens, ages or takeovers. The mapping, at the end of
`AnalysisQueue`, takes a row's quality to `wanted` and the quality of the
ticket that owns it to `active`.

**`DatabaseMutex`.** `instance` and `recovered` are the object's fields, `owner`
and `abandoned` the kernel's. `acquire` is two steps (`CreateMutexW`,
`WaitForSingleObject` with timeout 0). The kernel half is external: an object
goes away with its last handle, and with it the abandoned state, so the death
of an owner is reported only if a third process had the object open.

**`StockfishLaunches`** composes the two with worker and bulk launches; `pc` is
the place in `run`. Claim loop, exclusions, the recovery of a launch told of an
abandoned mutex (deadline of the one young running row, sleeps of `PollTicks`,
the limit of polls), engine work, and all mishaps: a storage error at each queue
call or in the wait, KeyboardInterrupt in the loop, during work just before or
after a commit, in the failure handler, a second one in the handler of the first,
and one in the `finally` block, of which each statement may be skipped by it
(`InterruptFinally`, `BulkInterrupted`); one between the commit of a claim and its
assignment (`ClaimLost`); the death of the process anywhere. An engine is told to
end and is gone when the wait is over, or the waits of half a second for terminate
and for kill both time out and are passed over (`EngineEnds`); an interrupt in the
closing leaves it too (`EngineIsLeft`). `survivors` counts the engines that were let go
of in these ways: the mutex is released all the same. Bulk publications and requests
of both qualities go on meanwhile.

**`BulkTargets`** is the iterator of a bulk launch: frequent positions page by
page behind a cursor of count and identifier, then the positions of opening
routes that were not shown, and the initial preset. Each launch has its limit, or
none. Imports and corrections raise and lower counts, and publications make positions
ineligible, between two pages. `rose` and `fell` note which counts changed during the
iteration, `failed` which analyses the launch did not get.

**`AnalysisObservation`** reads queue row, result header and lines in three
statements. A result is named by its publication, so that header and lines of
different publications differ.

### Engines

**`StockfishEngine`** is the engine of the database commands: one child process at a
time, the pipe between, a reader thread per process, calls with time limits. What
`_terminate_process` leaves of a process p is `Gone(p, late, left)`: its pipes are
closed, the child has ended unless the kill did not take (`left`; it is cut off and
ends when it ends), and its reader has ended unless it outlives the 0.2 s of its join
(`late`). `Engines` has a part where all readers are in time (`exact`) and one where
they need not be (`straying`); what bounds the child in the latter are constants, so
that the theorem is about every child. What holds in both is that no process is worked
with but the one held and that at most one line of each replaced process, the one its
late reader had in hand, is taken for its replacement's (`StraysAreFew`); that a
result is of its own request alone holds in `exact` only, kills that do not take
included.
`StockfishBenchmark` runs jobs in blocks of one engine each and writes attempts,
checkpoint and summary one after the other. The shuffled order of the jobs is any:
what is left to do is a set, of which the next job is taken.

**`ManagedEngine`** is the engine of the earlier service (`PythonChessProcess`,
`ManagedStockfish`): its two locks, the watchdog, `close` and `force_terminate`,
each statement a step. **`BatchAnalysis`** is `run_batch`: coordinator, worker
threads with an engine each, the registry, the circuit breaker, attempts, the
two levels of interrupts and the record that is written at the end.

**`EvaluationSessions`** has the FIFO `evaluation_queue` and the sessions that
drain it with several threads under `AnalysisRunLock`, requests that read before
they write, deaths and the requeueing of running rows. An engine that `force_terminate`
cannot end is `lost`: in no registry any more, passed by when the engines are closed,
and there until its process goes.

### Preferred moves

**`PreferredMoveSchedule`.** Days are numbers; `Forever` stands for the `None` that
ends an indefinite period. `Normalized` is `normalize_periods`, `Overlay` is
`_overlay`, `Timeline` is `_materialize_timeline`. **`PreferredMoves`** has the
amendments as whole transactions (`TableSpec`); the checks that would roll them back
are guards (`Amendable`), and that they never fail is `NeverRefused`.
**`PreferredMoveCalendar`** is what the table is to its user: a calendar per
position, in which a range is marked.

**`PreferredMoveRequests`** goes through the requests of the HTTP handlers step by
step (validation, lock, read, write, commit, read-back, answer), any of which may
fail; it extends `PreferredMoves`, whose table it is about. **`PreferredMoveInference`** is `infer_preferred_moves` as functions of how
often which move was played on which day. **`PreferredMoveSetup`** has two runs of
the set-up, with that inference, beside imports and amendments. Both implement
`TableSpec`.

### Games, openings, reads

**`GameLedger`** has set-up, update and schema creation: months, the files they
are saved in by temporary file and rename, the database. `create_schema` is called by
set-up and, in another process, by `schema create`; it tests whether the file exists,
opens it, creates the schema and, if it fails, removes the file or puts a blank one
back, each a step (`Test`, `Open`, `Create`, `Undo`), so that a call may remove what
another has completed since its test. Only reading the file's schema and taking its
snapshot are one step (`Open`). Set-up's clean-up may fail or be interrupted (`CleanUp`);
`left` notes why a half-made database stayed, `early` which creations were under way when
the database was completed, `taken` that a complete one was taken away meanwhile. One
set-up or update runs at a time. **`GameImport`** is the
import itself, two at a time: comparison before the transaction, positions by
get-or-create through a memory of ids, occurrences. **`GameSearch`** and
**`PositionInsight`** are reads of several SELECTs with their filters, orders and
pages. **`OpeningFiles`** stages, validates and swaps the source files with
rollback, which may fail and say so, or be interrupted like anything else, which says
nothing of the rollback (`RestoreFails`); **`OpeningCatalogue`** replaces the catalogue and has its readers.
**`Reads`** puts the three that read side by side for the theorems. An order is given
by what it compares: the sequence in which each entry comes before the later ones. The
labels of openings have their places among the ECO codes and among the names
(`EcoOf`, `NameOf`), from which the sort by either and the filter by a range of codes
follow; a text searched for is the set of labels that contain it (`Texts`).

### The browser

**`AnalysisPolling`** is `useAnalysisState`: state, effect, timer, calls under way,
the merge of answers. **`PreferredMoveWorkflow`** is the panel that saves and
removes a move, with its two read hooks: the position context, which may be had or
fail, and the preferred move. The Retry beside a failed context is an event like any
other. `abandoned` notes that a mutation was given up, lost its answer, or was
overtaken by such a Retry. The server of both is abstract.

### Compositions, proofs and instances

Components that interact are composed in a module of their own
(`StockfishLaunches`, `AnalysisObservation`, `EvaluationSessions`,
`PreferredMoveSetup`). `Engines`, `GameLibrary`, `Database`, `Reads` and
`RepertoireBuilder` only put components side by side: a variable `part` says whose
behaviour it is and the others stand still, as do the parts of the `MC…` modules.
That loses nothing: the components joined so share no state in the code, or are
readers that nobody notices. The compositions take their components' constants as
they are, so that a theorem about a composition is about every value of them; the
`MC…` modules and the cfg files give the small instances. `MCPreferredMoves` extends
`PreferredMoveRequests` and instantiates set-up and inference; in its part `table` the
table of the requests is changed by whole amendments. `MCBatchAnalysis` extends
`BatchAnalysis` and `BulkTargets`, whose names therefore differ (`TargetSpec`, `results`, `at`).

`AnalysisQueueProofs`, `StockfishLaunchesProofs`, `BrowserProofs` (observation,
polling, the panel that saves moves), `EnginesProofs` (the managed engine, the
engine of the database commands, the benchmark), `BatchAnalysisProofs`,
`ServiceProofs` (evaluation sessions, and the reads: insights, searches, the opening
catalogue), `PreferredMoveProofs` and
`DatabaseProofs` (mutex, imports, ledger, opening files) hold the theorems.

## 3. The runs

A property of a run is a conjunction of named parts where several answer one
question; the comment above each says which code each part is about, and the
parts are defined in the component's module. Each has several mutants, about one
for each of its parts.

| Run | Instance | Shows | Distinct states |
|---|---|---|---|
| `queue` | 2 positions, 2 callers, 4 tokens, stale after 2 ticks | safety of the queue under every order of calls, requests, publications and late tickets; it implements `AnalysisService` | 127 250 |
| `workers` | 2 workers, or 1 worker and 1 bulk launch; 2 positions with 1 fault or interrupt, 1 position with 1 fault and 2 interrupts | ownership through deaths, orphans only by faults or pairs of interrupts, the engine held is under the mutex, drained means drained, recovery reaches its boundary | 1 483 258 |
| `launches_end` | 1 worker relaunched on 2 positions, or 2 workers on 1; fairness | a launch ends under an endless stream of requests; every request is settled | 298 530 |
| `reads` | 2 observers; 3 games with 3 writes; a search with 2 writes; 4 games and every filter; 5 catalogues and 4 games to look up | observations, insights, searches and answers from the catalogue say what was true | 846 885 |
| `torn_observation` | 1 reader, 1 position | **violation**: header and lines of two results | – |
| `evaluation` | 2 sessions of 2 slots, 2 positions, 1 client, the batch, 2 faults; fairness | rows, work in flight, results and engines in step; every accepted item is settled | 248 024 |
| `batch` | 3 positions, 2 threads, 2 interrupts, 1 fault; targets of 4 positions and 2 games, limit 2 or none; fairness | the record is true, stops are heeded, targets are complete, both end | 673 678 |
| `engines` | 2 threads at one managed engine; 2 processes of the other; benchmarks of two jobs run twice; fairness | engines are closed, results are of their own search (`exact`) or but for few lines (`straying`), benchmarks resume, calls return | 601 152 |
| `games` | 3 months in 2 versions, 2 faults; a schema creation beside set-up and update in the first month; 2 imports of 2 games, 1 fault; fairness | the ledger is sound, nothing is lost, imports are faithful, updates catch up | 836 252 |
| `database` | 4 processes at the mutex; 3 files, 3 commits, 3 faults; fairness | belief is ownership, files are recovered | 6 921 |
| `preferred_moves` | 2 positions, 3 days, 2 moves; 2 set-ups, 2 imports, 1 amendment; 3 requests; 8 observations; fairness | schedules are exact, the calendar is implemented by amendments, requests and set-up, inference is right | 108 852 |
| `browser` | 3 views, 2 and 3 events; fairness | panels show what is so, keep their word and come to rest, a failing context among it | 1 151 648 |

Deadlock is checked but in `reads`, `engines`, `preferred_moves` and `browser`, whose
instances come to an end by themselves: everybody has done what the bounds let
them do.

What is hard to test, and why a property is worth its run, is listed hazard by
hazard in `PROJECT.json`. The ones that take most steps to go wrong:

* a worker given up for dead finishes after another took its row
  (`RowsAreOwned`, `TicketsAreGuarded`, `WorkIsAccountedFor`); a request for `tool` quality
  arrives while `browser` work runs (`RequestsAreKept`, `ImplementsService`);
* a set-up waits for the lock while games are imported, and must still infer from
  all of them (`SetupIsOneStep`);
* an evaluation result is published and then its item cannot be completed; a
  session dies with items in hand (`ItemsAreAccountedFor`, `EveryItemHasItsTurn`);
* a batch is interrupted twice while threads start engines (`BatchIsTruthful`);
* an update of opening files fails, and so does its rollback (`FilesAreRecovered`,
  `RerunRepairs`);
* an import resolves a position, rolls back and goes on with its memory
  (`ImportIsFaithful`);
* a poll is answered after the user moved on and came back (`PanelsAreTrue`).

### Bounds, and why they are enough

Two positions are the least with an order and with two tokens to confuse; rows
interact in no other way. Two callers, workers, sessions or threads are an owner
and a successor; a third would succeed the second as the second did the first.
Stale times and polls of 2 ticks give a poll that ends at the boundary or past it;
the theorem `RecoveriesReachBoundary` has every other. `Horizon` 1 tells two ages of
requests apart, 0 leaves their order open. One fault or interrupt anywhere, and two
where the handler of the first may fail in its turn (`evaluation`, `games`, the
interrupts of `workers` on one position, and three in `database`, where fetch, swap and
rollback may each fail). `schema create` runs beside a set-up or an update (`race`) where
the clock stands at the first month, and alone where there are three months (`ledger`): what is
raced for is the file, whatever it holds. Three commits of three
files, one of which does not change, give a mixed directory that differs from
every commit; three days and windows of two give a period that is cut at either end
and windows that overlap, adjoin and are apart; pos2 has at most one period in the
part that asks for every amendment (`OneRow`), because rows of two positions do not
meet. Whether set-up runs end is asked with one game, whether requests are answered
of one of each kind: what ends them does not depend on the data. Two runs of a
benchmark are one that is stopped and one that resumes. Batches stop at two
failures instead of five, so that two threads can trip the breaker together. A bulk
launch meets one import, or two of the same game while the other is not there.

Symmetry is used for tokens, callers, workers and readers, never in a run that
checks liveness.

## 4. Assumptions and fairness

Assumptions about what is outside of `src/`:

* SQLite serializes write transactions, rolls back one whose process dies, and lets
  a SELECT outside of a transaction see what is committed at its moment.
* The kernel's mutex is as described for `DatabaseMutex`; a file lock is freed when
  its owner dies; `os.replace` is atomic.
* A child process whose kill did not take ends at some time of its own, or never; the
  closing of its pipes returns meanwhile, and it does not touch its successor's. That
  every kill takes is assumed nowhere but in the instance of the part `straying`
  (`StrayingKills`), for its size.
* One set-up or update runs at a time, beside any `schema create` of another process.
  The code does not keep two of them apart, and the ledger says nothing of two.
* React runs the renderings and effects of an event before the next event; an
  aborted read is not heard of again, though the server may act on an aborted call.
* Of the benchmark's writes, a transient error is met when the file is opened and
  leaves nothing; a permanent failure or a crash during an append leaves nothing, the
  line, or a part of it.

Fairness, and nothing else, is assumed of the schedulers:

* Launches: `WF(WorkerStep(w))` (an operating system runs a started process, SQLite
  answers within its lock timeout, the engine within its limits), `WF(Tick)` (time
  passes), and `WF(WorkerOpen(w))` only for `ServedRequestsSettle`: somebody, such as
  Task Scheduler, keeps starting launches.
* `EvaluationSessions`: `SF(Start(s))`, since a start is refused while another holds the
  lock and is tried again, and `WF` of requeueing, draining, of each thread's work and
  of the end of a batch. `BatchAnalysis`: `WF(Coordinate)`, `WF(Analyse(t))`; the watchdog
  ends each analysis.
* `ManagedEngine` `WF(Step(c))`; `StockfishEngine` and `StockfishBenchmark` `WF(Work)`: each wait
  has a time limit, and the child owes nothing.
* `GameLedger` and `OpeningFiles`: `WF` of the steps of a command and of starting an
  update again, while nobody kills it. `BulkTargets` `WF(Iterate)`.
  `PreferredMoveSetup` `WF(Works(r))` for a run that was started, `PreferredMoveRequests`
  `WF(Serve(r))`; `AnalysisPolling` and `PreferredMoveWorkflow` `WF(Network)`: a call that is
  not given up is answered or fails. No user is obliged to click.
* Deaths, errors and interrupts have no fairness and are bounded: a launch that is
  killed for ever settles nothing. `WorkFails` is part of `WorkerStep`, so fairness does
  not exclude that every analysis fails; a failed request counts as settled, since
  `queue.fail` deletes it.

## 5. What is proved

For all sets of positions, callers, tokens, processes, sessions, slots and
clients, all stale and poll intervals, all numbers of days, faults and interrupts.
The assumptions are the named ASSUMEs of the modules, which TLC evaluates too.
`PROJECT.json` lists the theorems; those named below are the invariants that make
them work.

* **AnalysisQueueProofs.** `QueueInv` is `TypeOK`, `TokensIdentifyRows`, `TicketsDiffer` and
  `ClaimNeverOutranksRow`. One owner per row alone is not inductive: if two tickets shared a
  token, one claim would make both owners; `TicketsDiffer` excludes that. A step that is
  not a claim is *quiet*: it issues no token and lowers no running row's quality
  (`QuietSteps`). All of it is about `ApiSpec`, `delete` included, but for the survival of
  promotions and the refinement, which are about `Spec`. `RowsAreOwned`, `TicketsAreGuarded` and `RequestsAreKept` follow.
  `QueueImplementsService` is the refinement: every step of the queue is one of
  `AnalysisService` or a stutter of it. One owner per row (`WorkOfOwner`) is what makes
  the mapping's choice of a ticket a function of the state; `ClaimNeverOutranksRow` is
  why a completion is a `Finish` and never the error.
* **StockfishLaunchesProofs.** Steps of launches are steps of the queue's specification
  and of the mutex's or leave them alone (`LaunchesImplementQueue`), so both invariants
  carry over. `LInv` adds where a process is when it has what of the mutex (`Held`), so
  that at most one is inside (`OneInside`), that engines and tickets are only inside
  (`EnginesInside`, `Tickets`) and that `WorkStaysOwned`. Engines held exclude each other
  by the mutex; those let go of are counted: a step that leaves one costs a fault or an
  interrupt (`Costs`), so they are no more than these (`LeftInv`, `EnginesAreAlone`).
  `OrphansNeedFaults` is a count as well, and not inductive alone: one interrupt leaves a
  launch with a ticket in its finally block (*pending*), and the second leaves the row.
  Every step loses no row or pays for it (`Pays`), with a fault for a row or with one
  interrupt to become pending and one to lose it; so `Due`, twice the orphans and one for
  a launch that is pending, stays at most twice the faults and the interrupts.
  `CleanInv` and `RecoveryInv` (the polls that are left, times the poll interval, cover what
  is left of the deadline) give `CleanLaunchDrains` and `RecoveryReachesBoundary`.
* **DatabaseProofs.** Four components, each with an invariant of its own.
  *Mutex*: `MutexInv` adds to belief and ownership that the abandoned
  state stems from a death no acquisition has followed. `MutexIsKept` follows.
  *Imports*: `IInv` says what the open transaction holds of the game in hand
  (`Transaction`), that an importer remembers only ids the table has, or that its own
  transaction is about to give it (`Remembered`), and why a comparison that is out of
  date does no harm: the other import has written the game (`Decided`).
  `ImportIsFaithful` follows. *Ledger*: `LedgerInv` tells of a half-made database that
  set-up is at it or a fault left it (`Halves`), whose the file is and which creations
  were under way when it was completed (`Owned`), of a month what the database may hold
  of it (`Filed`), which months an update has yet to save (`Ahead`) and where each answer
  went (`Answers`); from it `LedgerIsSound` and `NothingIsLost`. That a creation takes away
  only what was completed after its own test is proved with the history `early`.
  *Opening files*: `FilesInv` says what of a commit is staged (`Fetched`), where the
  directory stands between the prior files and the staged ones (`Swapped`), and that
  files of two commits stem from faults (`MixedNeedsFaults`): from a crash, from a
  rollback that said it failed, or from the second fault that interrupted a rollback
  (`MixedIsExplained`). `FilesAreRecovered` follows.
* **BrowserProofs.** *Observation*: `OInv` says what each answer under way rests on: a
  history of rest for "not requested", a result at least as good as the header
  remembered. The queue's own steps enter through the lemmas of AnalysisQueueProofs.
  *Polling*: `PollingInv` says that at most one read is listened to, of the position on
  the board, and no worse than what is shown (`ReadsInv`), that the panel waits exactly
  while a request is its own (`RequestsInv`), and that it knows what there is to know
  unless a request was given up (`RestInv`). *Saving*: `SavingInv` follows a mutation
  from its call to the read that confirms it (`MutationInv`, `Confirming`), listens to
  one read at most (`GetsInv`), and has what is shown be what the server holds unless a
  call was given up, lost its answer, or was overtaken by a Retry beside a failed
  context (`ConfirmInv`). The context itself may fail at any time.
  `PanelsAreTrue` and `PanelsKeepTheirWord` follow.
* **EnginesProofs.** *Managed engine*: `IInv`: who holds which lock at which statement,
  that `_closed` is set before the process is asked to go, that an exited process stays
  so. *Engine of the commands*: `ResultInv` follows the lines from the child through
  pipe, reader and queue as one stream. If readers are in time, the stream is of
  the child held (`Fresh`), the answer that is awaited comes last in it, and nothing is
  left between two calls (`Flow`); so what was gathered is of the request (`Gathered`).
  If they are not, the stream may have strange lines in it, one at most of each process
  that was replaced, since its reader looks the queue up for the line in hand and meets
  the end of its pipe behind it (`Few`). `ResultsAreOwn` follows. *Benchmark*: `BenchmarkInv` is of the files (`DiskInv`) and of a
  run's memory (`MemoryInv`). `StoreInv`: the attempts of a
  job in the file are numbered, and none follows a success; `ArtifactsInv` and `StatusInv`: what the other
  files say is of a prefix of it. `MemoryInv` says at each statement which records the
  run holds that are not yet in the files (`BeginInv`, `NoteInv`, `JobInv`, `CloseInv`,
  `FinishInv`, `OpenInv`); that its counters agree with its records is counting, from
  the library's theorems on finite sets. `BenchmarkResumes` follows.
* **BatchAnalysisProofs.** *The batch*: `BInv` is an account the program does not keep: each position
  that was handed out is in one slot, published, listed as failed, or dropped by a
  forced stop (`InOneSlot`, `Accounted`); the place of the coordinator bounds what may still
  run (`Stopping`, `Tripped`, `Phases`); counters and the record agree with it.
  *Bulk targets*: a finite set in an order is a sequence (`OrderExists`), so a page is what
  is next behind its cursor, and an empty one means that nothing is (`PageIs`).
  `TargetInv` relates every position the games hold to the cursor: one the cursor has
  passed was shown or is in hand, unless it rose (`Covered`), and one that was shown has
  been passed, unless it fell (`Seen`). Neither is inductive for the counts alone: an
  import changes them, and what holds of the cursor afterwards holds because
  a target that did not rise stays behind what it was behind (`BeforeFalls`). What is
  shown is offered (`Treated`), the routes bring the rest (`RoutesApart`), and the mixture
  of the initial preset counts (`Mixture`). `TargetsStayRight` and
  `RepeatsOnlyByFalling` follow, for any limit.
* **ServiceProofs.** *Evaluation*: `SInv`: the file lock tells where each session is
  (`Locked`, `Idle`), so the rows that run are those in the hands of the one that drains
  (`InHands`), and finished rows have results (`Results`).
  *Insights*: `InsightInv` says at each statement of what has been read that its numbers
  fit, whatever the games were (`ReadingFits`), that it is what the tables hold while
  nothing is written (`ReadingTrue`), and that rest which can be seen was noted. That
  the numbers fit is counting: the rows of a position are the disjoint union of those
  that leave it by each move and those that end in it, so occurrences add up (`Fits`), and
  games, which are counted once however often they return, do not exceed them.
  `InsightsStayHonest` follows.
  *Searches*: a search whose SELECTs see different moments is about no one database.
  The proof gives it one, `Sight`: the tables as it will have read them if nothing more
  is written; a write changes what is not yet read and leaves the rest. A page is told
  by ranks: a game is on page n if its place among the games that match is in the range
  of that page. `SearchInv` says that each game that matched when the walk began was
  given, or its rank in what is in sight is beyond the pages so far (`Coming` in
  `WalkGrown`). A write that takes no game out can only raise ranks, so what is to come
  stays to come (`ComingGrows`), provided that all in sight really match (`Hits(Sight, query)
  \subseteq Now`): this is where the restriction to the filters of one table comes from.
  While nothing is written, what was given are the first ranks, each once
  (`WalkUndisturbed`). `SearchesStayHonest` follows.
  *The catalogue*: `CatInv` says that the tables are those of one publication, that what a
  reader read first is of one publication too, and of the present one while nothing was
  replaced; an answer is made of these two (`CatAnswerFits`). What is left is about one
  publication. A line is replayed by a recursive function, whose recursion is derived from
  its definition (`AlongIs`); a position that is looked up is named by the routes that end
  in it (`LookupIs`), a game by the last of its positions in which a route ends, by the
  route it went rather than one it transposed to (`CurrentIs`, `ReplayIs`). A game
  counts as deepest for one entry, so the numbers of the entries add up as a disjoint union of
  games (`DeepestCounts`). A page is, once more, a range of places in an order
  (`PlaceIs`, `SoonerIs`, `PagesAreRight`). `CatalogueAssumption` asks that sources and games
  are finite, that routes are playable, that labels are numbered by code and then by
  name, and that pages have room. `CataloguesStayRight` follows.
* **PreferredMoveProofs** goes from one amendment to the requests, for any number of
  days, moves, positions and requests (`ScheduleAssumption`: the last day is a number and
  `None` is no move; `RequestAssumption`: a request asks for a period of a position, a
  GET for a window that ends, a DELETE for no preference).
  *One amendment* leaves periods (`FragmentsArePeriods`), that share no day if they did
  not before (`FragmentsDisjoint`), and shows on each day what it should
  (`FragmentsCover`). *Sorting*: rows that share no day have exactly one order by their
  first days. *Joining*: `normalize_periods` is a fold. From the definition of the fold
  its recursion is derived (`FoldExists`), and then an invariant of the loop: after each
  period what was joined is in order, has no neighbours left to join, and shows on every
  day what the periods so far say. The result is `Normal`, and a normal schedule is left
  as it is (`NormalizedIsNormal`, `NormalIsNormalized`); two normal schedules that show the
  same days are the same (`SameDays`). *The timeline* is a fold too; its invariant
  (`Made`) says that what has been made is exact up to the cursor (`TimelineIsExact`).
  *The table*: `SoundTable`, every position's rows are those of a normal schedule, is
  inductive under amendments and set-up and gives `TableStaysSound`. What is shown then
  changes as in the calendar (`TableKeepsTheCalendar`). *The requests*: `RInv` says that
  what a transaction has computed is the amendment of the table as it still is
  (`WritesAmendments`), because the lock has one holder (`OneWriter`); with `RepliesFit` it
  gives `AnswersAreTrue` and `AmendmentsAreSerial`. `SInv` adds what is needed for the
  answers to GET and for the checks within a transaction: positions with rows are known,
  also to the transaction (`KnownPositions`), the schedules noted since a request was
  sent contain the present one (`MomentsSeen`), and a success tells the overlay of
  some normal schedule (`AnswersTellResults`). `SchedulesStayTrue` follows, and that every
  step is an amendment of `TableSpec` or nothing (`RequestsAreAmendments`), so that the
  requests implement the calendar as well (`RequestsKeepTheCalendar`).

**Only model-checked:**

* liveness (`LaunchTerminates`, `ServedRequestsSettle`, `EveryItemHasItsTurn`, `BothEnd`,
  `EverythingReturns`, `TailCatchesUp`, `RerunRepairs`, `EverybodyIsAnswered`,
  `PanelsSettle`), which is out of the prover's reach;
* `InferenceIsRight`, which counts games in windows of days, and `SetupIsOneStep`, which
  rests on it. What set-up writes for any accepted moves is proved to be a sound
  schedule (`InferredRows`), which is what the table needs of it;
* that the queue of evaluations keeps its order.

What a walk through the pages of a search holds, `NoGameSkipped`, is said of queries
that filter by at most one of opening, analysis coverage and preferred coverage. With
two of them it does not hold: the tables are read by different SELECTs
(`search_repository.py:91–100`), so a search may count a game that matched at no single
moment; the search for the next page does not, and the game that moved up into the
place before that page is never given, although it matched throughout.

## 6. Disagreements between the code and what it says

One is shown by a run. `analysis/reading.py:52` promises "one complete current
result". Header and lines are read by two statements without a transaction
(`reading.py:87–120`), so a publication between them gives the old header with the
new lines; both have as many lines and pass the validation that follows
(`torn_observation`).

The others were met while modelling. Each is stated as a definition in the module
named, that no run checks because it does not hold; added to the run named as an
INVARIANT or PROPERTY, through the instance of that module, it is violated. Of two, a
run checks the form with an exemption, and it is the form without that is violated.

| Definition | Module, run | The code |
|---|---|---|
| `AnalyzeNeverRedoes` | EvaluationSessions, `evaluation` with two clients | `service.py:212` (evaluation) decides on a state read before the enqueueing transaction: a position evaluated in between is queued again, which line 217 means to refuse. No result is lost. |
| `ForceTerminatesEngines` | BatchAnalysis, `batch` | The forced stop terminates a snapshot of the registry (`runner.py:124`); an engine that a thread is just launching runs its whole analysis, until the final close. |
| `ForceTerminatesAtOnce` | ManagedEngine, `engines` | `close()` sets `_closed` before it waits; `force_terminate` called meanwhile finds it set and returns while the process runs on (`engine.py:255`). |
| `FailureIsReported` | GameImport, `games` | `persistence_import.py:144` builds an ImportFailure it does not import, so a game that cannot be persisted ends the import with NameError; `test_import_service.py:226` expects a result. |
| `BulkCompletes` | GameImport, `games` | `persistence_import.py:96` uses `chain` and `_BulkImportAbort` without importing them: the bulk import, and set-up with it, fails with the first game that normalizes. |
| `SuccessMeansImported` | GameLedger, `games` | An update imports only the months it has just published (`lifecycle.py:203`); a saved month whose import failed while a later one was saved is never imported. |
| `MalformedIsProtocolError` | StockfishEngine, `engines` | `engine_parsing.py:167` raises StockfishProtocolError without importing it: NameError, which is no StockfishError. |
| `ResultIsOwn` | StockfishEngine, `engines` in the part `straying` with the requests `narrow` and `wide` | `engine_runner.py:237` looks the queue up for every line, so a reader that outlives its join puts a line of the old process before the new search. |
| `OneEngine` | StockfishLaunches, `workers` | "One sequential engine process at a time" (`worker.py:70`): an engine that outlives its kill is passed over (`engine_runner.py:304–313`) and the mutex released, so the next launch starts a second one beside it. |
| `CatalogueIsOneCommit` | OpeningFiles, `database` with two updaters | Nothing keeps two updates apart (`lifecycle.py:284`): the catalogue may be of the files of two commits. |
| `PublishedIsBrowsed` | OpeningCatalogue, `reads` | An opening with an empty name is accepted and published, and `catalogue.py:281` then refuses every page. |
| `HealthyDatabaseIsServed` | GameSearch, `reads` | An import between two SELECTs of a search gives an occurrence of a game it does not know, reported as malformed (`search_repository.py:226`): 503 for a sound database. |
| `ResumesItsOwn` | StockfishBenchmark, `engines` | A success that is appended and not yet in the checkpoint makes every later run refuse the directory (`benchmark_records.py:279`). |
| `MutationSettles` without `WaitsInVain` | PreferredMoveWorkflow, `browser` | Retry beside a context error bumps the refresh token; the one key the effect waits for (`preferredMoveWorkflowState.ts:230`) is never reached and the buttons stay disabled. |
| `AcknowledgedIsNotDoubted` with a Retry not counted as `abandoned` | PreferredMoveWorkflow, `browser` | `runMutation` computes the token from an old render (line 337); an earlier read is taken for the confirmation and a removal that succeeded is reported as failed. |
| `QuietIsTrue` | PreferredMoveWorkflow, `browser` | `resetPositionState` (line 200) gives the mutation up and does not read again for the same source position: the panel shows the old move without an error. |

A remark: `test_mutex.py:101-113` assumes that the death of an owner is always
reported to the next acquirer; by the kernel's semantics it is only if another
handle was open. The worker's recovery depends on that report; without it the row
of the dead launch waits for a launch after its stale time, and
`ServedRequestsSettle` holds either way.

Another: `create_schema` tests for the file before it opens it and takes it away if
anything fails after that (`schema.py:51`, `74–79`), so two creations at once, one of
which fails, may remove the complete database of the other. `OnlyOwnIsRemoved` says that
this is all that can be removed so: what was completed after the test.

## 7. Not modelled

* **Capability proofs** time queries on a throw-away database; the **command line** and
  the **display** of the frontend parse, print and render. None has state that two
  actors share.
* The **capacity benchmark** of the backend, and what a benchmark measures and prints.
* **Chess**: legality, canonicalization of a FEN, replay of a PGN (python-chess) are
  given as tables of positions and moves. The content of analysis lines is reduced to
  whether they are whole and of which search.
* **Normalization** of one downloaded game, the parsing of one PGN row, formatting and
  parsing of stamps, schema checks at the opening of a connection, malformed rows:
  functions of one value without state.
* **Inspection and statistics** of the database only read and print; the **health**
  handler and the opening pages' handler pass a value on.
* The **session of moves** in the Repertoire Builder (which view is shown, what the
  browser stores of it) is a free choice of the next view.

## 8. Plan

What a further step would add, in this order: set-up and inference as theorems, on the
lemmas about schedules; the stored session of the Repertoire Builder as a module; the
engine of `StockfishLaunches` replaced by an instance of `StockfishEngine`, which needs
smaller bounds for both.
