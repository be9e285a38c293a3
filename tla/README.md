# A verification of OmniMarket Sentinel

OmniMarket Sentinel (`src/src/market_sentinel`) is a trading platform whose first
concern is safety: research and strategies propose orders, a risk engine bounds
them, a paper broker executes them by default, and a live order goes to a real
broker only through a chain of confirmations, reconciliations and a kill switch,
all of them rows of one append-only SQLite event log. This directory keeps TLA+
models of the parts where the order of events decides whether that chain holds,
the TLC configurations that explore them, and TLAPS proofs about the event store, the
live-order protocol, the scheduler, the paper broker, the backtest, the dashboard's
publication and the research worker.

## 1. Inventory

### Components

| Component | State | Operations | What makes it correct |
|---|---|---|---|
| `storage/events.py`, `db.py` event store | tables `events` and `event_sequence` | `append`, `append_many`, `append_many_if_heads`, `stream`, `stream_all` | a batch is all or nothing; its expected heads hold when it commits; numbers have no gaps |
| `execution/safety.py` durable authority | rows of approval, consumption, report, kill-switch and interlock aggregates | issue, persist report, clear, claim, acknowledge, unknown | single flight; one call per confirmation; no claim under a kill switch; a clear erases nothing it has not seen |
| `execution/approval.py` | confirmations (rows) | `create`, `verify` | a confirmation binds one intent, decision and broker, expires, and is used once |
| `execution/reconcile.py` | none in memory; reports and kill-switch rows | `read_and_compare`, `is_current_healthy`, `safety_fence`, `clear_kill_switch` | an unhealthy comparison stops trading; a healthy one is current and of the right broker |
| `execution/live.py` | the call under way | `submit_confirmed` | gates before and after capture agree; every outcome is acknowledged or unknown |
| `execution/state_machine.py` | order status and timestamps | `transition` | terminal statuses are final; `UNKNOWN` is left by reconciliation only |
| `execution/paper.py` paper broker | orders, fills, activities, snapshots, clients by id, ledger, counters, lock | submit, cancel, snapshots, reconcile unknown, rehydrate | an operation is durable and visible, or neither; fills respect price, liquidity, cash and position; replay rebuilds the same state |
| `portfolio/ledger.py` | cash, reservations, positions, fill ids | `apply_fill`, `mark`, `from_state`, `snapshot` | a fill counts once; cash and positions never go negative; a refused fill changes nothing |
| `risk/` | none | `create_intent`, `assess` | every limit is checked; a decision is bound to the portfolio it judged |
| `operations/scheduler.py` | run and exclusion aggregates | `run_due` | a run executes at most once and never late; jobs of one key do not overlap |
| `backtest/` | engine state of one run | `run`, fill model, promotion gates | no look-ahead; fills share liquidity; promotion needs every gate |
| `brokers/` | none (HTTP clients) | submit, query, positions, preflight | spot only, limit only; malformed replies are errors |
| `operations/dashboard.py` | published file, its lock, an unnamed or temporary file | project, export | only whole files are published, in one step, and in the directory the caller named |
| `operations/fixture_pipeline.py`, `audit.py` | none of their own | demonstration run, audit export | sequential use of the others |
| `research/tauric.py` | worker process, pipe, scratch directory, recorder of tool calls | run, answer, time out, terminate, kill, accept evidence | an answer that begins late or stays partial is not used; no evidence from after the cutoff; no worker is left |
| `strategies/`, `data/`, `domain/`, `config.py`, `security.py`, `cli.py` | none that outlives a call | scoring, validation, parsing, wiring | pure functions |

### How they interact

Everything that must survive a crash goes through the event store. The three roles of
`safety.py` (approval, reconciliation, live) read aggregates, decide, and append a batch
under `append_many_if_heads`, which commits only while the aggregates it read still end
with the same event. The scheduler claims its runs in the same way. The paper broker
appends its own session log unfenced, with event ids that make a second append of the
same event fail. The backtest engine drives the same fill rules and the same ledger as
the paper broker and asks the risk engine for each entry. The dashboard and the research
worker meet the rest only through the file system and a pipe. The live service reads the
risk decision, the reconciler's report, the kill switch and the confirmation before it
claims, calls `broker.submit` once, queries once when the answer is ambiguous, and
appends what it learned. Fills reach the portfolio ledger outside that protocol.

### What is hard here

* **Interleavings.** Several threads or processes share one log; every decision is
  taken on rows read before the append that it leads to.
* **Crashes** between a durable claim, an external effect and the durable result.
* **An unreliable provider.** A submission may be accepted and its answer lost, or be
  accepted after the program has given up on it.
* **Time.** Decisions, reports and confirmations expire at different instants and are
  read at different instants.
* **In-place mutation with rollback** in the paper broker, and replay of its log.
* **Two processes and a pipe** in the research worker: an answer written in parts, waits
  with limits, and signals that may be ignored.
* **A file system that others change** between any two calls of an export.
* **Rounding at limits**: sizes are rounded to a step, prices by an impact, and limits are
  compared at equality by two routines that must agree.

`PROJECT.json` lists each hazard at its line, with the properties aimed at it.

## 2. Modules

| Module | Models | Used by |
|---|---|---|
| `EventLog` | what a conditional append promises: one atomic step | refined by `EventStore` |
| `EventStore` | `append_many_if_heads`, statement by statement | `MCEventStore`, `EventStoreProofs` |
| `EventStoreProofs` | theorems about `EventStore`, the refinement among them | |
| `LiveSubmission` | what the live-order protocol promises: one submission at a time, never while stopped | refined by `LiveSafety` |
| `LiveSafety` | approval, reconciliation, live service and their roles | `MCLiveSafety`, `LiveSafetyProofs` |
| `LiveSafetyProofs` | theorems about `LiveSafety`: single flight, the refinement, authorised calls, orders, windows, agreement of the replays | |
| `Scheduler` | `Scheduler.run_due` | `MCScheduler`, `SchedulerProofs` |
| `SchedulerProofs` | theorems about `Scheduler` | |
| `Units` | the scale of prices, quantities and rates | the paper modules, `RiskEngine` |
| `FillModel` | the fill rules of `backtest/engine.py` | `PaperKernel`, `Backtest` |
| `PortfolioLedger` | the ledger's cash, positions, marks and fill ids | `PaperKernel`, `Backtest` |
| `OrderLifecycle` | the edges of `OrderStateMachine`: what an order's log promises | refined by `PaperBroker` |
| `PaperKernel` | the five `_execute_..._kernel` functions and the fill loop | `PaperReplay` |
| `PaperReplay` | checkpoints and the replay of a session log | `PaperBroker` |
| `PaperBroker` | the broker objects, their journal, the log, crash and rehydration | `MCPaperBroker`, `PaperInvariant` |
| `Folding` | nothing: facts about `FoldLeft` for any step, as paths from place to place | `PaperInvariant` |
| `PaperInvariant` | nothing more: the inductive invariant of `PaperBroker` and the relations that its parts are stated with | `PaperProofs` |
| `PaperProofs` | theorems about `PaperBroker` | |
| `RiskEngine` | `create_intent` and `assess` | `Backtest` |
| `Backtest` | the loop of `BacktestEngine.run` | `MCBacktest`, `BacktestProofs` |
| `BacktestProofs` | theorems about `Backtest` and `RiskEngine` | |
| `Publication` | what `export_dashboard` promises: one step of a whole file | refined by `Dashboard` |
| `Dashboard` | `export_dashboard`, step by step, on POSIX and on Windows | `DashboardProofs` |
| `DashboardProofs` | theorems about `Dashboard`, the refinement among them | |
| `Research` | one analysis: parent, worker, pipe, recorder and evidence | `MCResearch`, `ResearchProofs` |
| `ResearchProofs` | theorems about `Research` | |

### EventStore and EventLog

A writer enters `append_many_if_heads` (`Call`), takes SQLite's write lock by updating
the counter row (`LockCounter`), compares the heads (`CheckHeads`), reserves its numbers
(`Reserve`), inserts (`Insert`) and commits or rolls back. The lock is what makes the
later statements of one writer exclude those of another; readers see committed rows
only. `EventLog` says the same in one step, and `AtomicAppend` states that the one
implements the other (checked, and proved for any number of writers). All later modules
take a batch to be one step, which is what this refinement justifies.

### LiveSafety and LiveSubmission

The durable state is one set of rows per aggregate (`issued`, `consumed`, `reports`,
`kills`, `interlocks`), each row with the ledger sequence it got, which also stands for
its event id. Every call under way is a record per thread (`sub`, `rec`, `clr`) with a
program counter; a crash resets the record and leaves the rows. Reads and the append
they lead to are separate actions wherever the code has no fence between them; reads
that one fence covers together are one action, and the comment at the action says so.

The provider is external. `CallBroker` has every outcome that the code can meet: an
acknowledged order; no answer with the order accepted, still in transit, or lost.
`LateAccept` turns a request in transit into an order at any later time.

`Compare` does not compute balances; whether a readable and recent snapshot agrees
with the ledger is a free choice, so each property holds whatever the comparison says.
The freshness of the risk decision, the intent and the quote is one window, since all
are checked by the same kind of comparison at the same places.

`LiveSubmission` is the promise to an observer of the store and the broker: a
confirmation starts at most one submission, only while none is open and trading is not
stopped; an open submission is acknowledged or given up, and giving up stops trading.

### Scheduler

`call[w]` is one call of `run_due`. Rows of a run's aggregate and of the exclusion
aggregate it shares with other runs of its key are sequences; as rows are only
appended, a length stands for the id of the head. `BeginSkip` is nondeterministic: the
calendar and the clock may refuse a run at any time, and a clock failure skips a run
whether or not it is due, as the code does.

### The paper broker

`PaperBroker` is the state machine, the other paper modules are operators on its state.
A broker object is a record per element of `Brokers`: its `_PaperState` (`s`) and, while
an operation holds the lock, the journal it captured and the rows it is about to append.
An operation is two steps. The first (`Submit`, `MarketEvent`, `Settle`,
`ResolveUnknown`, `ReconcileFills`) is capture, kernel and `_commit` up to `record_many`:
it changes the state in place and ends *staged*, or *raised* when the kernel or a limit
refuses part of the way. The second appends the group (`Commit`), or rolls back (`Abort`),
or does both (`CommitLost`: the transaction is durable and `record_many` raises all the
same). `RolledBack` undoes key by key what `Capture` has recorded, as `_StateJournal`
does, and not by restoring a copy, so that a key the capture forgets would show.
`reconcile_unknown` is two operations, since it gives up the lock in between: the calls
that have passed its check are the set `asked`.

The session log is a sequence of groups, each the rows of one operation and its
checkpoint. `IdsFree` is the primary key of the store: a broker whose count is behind
the log finds its next event ids taken. `Crash` forgets the object; `Rehydrate` replays
the log (`PaperReplay`) and requires the head the caller had `saved` to be the log's.

Kernels are written with the state they start from and the state they reach as
parameters, in the order of the code: `SubmitKernel`, `MarketKernel` (`Sweep` over the
orders of one instrument, `Observe`, `Mark`), `ResolutionKernel`, `EvidenceKernel`. An
attempt to fill goes through the gates in the order of `_process_order`: expiry, stop
trigger (latched for a later bar when stop-limit), latency, reference price, price with
impact, limit and bracket, liquidity, cash for the fee too, lot step, minimum notional.

Left out: average prices and profit and loss (nothing decides on them); the digests of
the checkpoint chain, for which the position in the log stands; limits of a session on
fills, instruments and events (those on orders, on fills of an order and on rows of a
group are modelled); bars beyond the newest of a window of 64; several fills in one
answer; an exception raised in the middle of `apply_fill`; and the process-local mode,
which is the durable one without the log. One instant stands for a snapshot's
`source_at` and `observed_at`, and one for all snapshots of a cohort. Decimals become
integers: prices in ticks, rates and cash in `Scale`-ths (`Units`), so that rounding to
the lot step and of the impact price is exact and visible.

### RiskEngine and Backtest

`RiskEngine` is two pure operators on one snapshot: `SizingReason` and `SizedQuantity`
(`create_intent`) choose the largest quantity that every limit admits, rounded down to
the lot step; `OrderReasons` and `AccountReasons` (`assess`) collect every objection to
an order. The code writes the same limits twice, once as a division and once as a
comparison, and `SizedIsAdmissible` says that the two agree.

One step of `Backtest` is one turn of the engine's loop. `Managed` composes its parts in
the order of the code: an entry that is half filled when its stop is hit is given up
(`GiveUpEntry`), the pending order is filled (`Fill`), the ledger is marked, a protective
exit is submitted (`SubmitExit`), a session that ends is closed out (`CloseOut`); then a
signal may become an entry (`Enter`) or nothing more happens (`Hold`). The bar of the turn
and whether the next bar is of the same day are free choices, so the run covers every
market made of the given bars. Bars are one instant apart, so that latency is a number of
bars; metadata of the strategy (`MaxHolding`, `Closeout`) are constants of a run.
`approval` and `dayOpen` are history variables: what was last approved, and the equity at
the last close of the day before.

### Dashboard and Publication

A call of `export_dashboard` is a record per exporter with a program counter and its file.
Between two steps of it, other programs may move the parent directory and put another in
its place (`path` is the directory that the parent path denotes now, `Dirs` are
identities), write to or remove the destination, or take over the temporary name. On POSIX
the file has no name until `linkat` puts it into the directory that is held open, and
that fails when the name exists; on Windows handles pin the directories and a rename
replaces. An exporter may fail at every system call and die at every step. `Publication`
promises the readers of the destination that a file appears in one step, whole, that
nothing of it is taken back, that a POSIX export replaces nothing, and that a success means
a file in the directory the path denotes at the last look of the call, with which its return
is one step here. The model assumes that the exporters on Windows run in one session, as the
name of the mutex is local to it, and that nobody removes the lock file on POSIX.

### Research

The parent (`_run_process`) polls a pipe for a limited time, receives one answer, joins
the worker, terminates it, kills it, and closes the pipe and the process in a `finally`
block. The worker runs an external graph: its tools start and return in any order, with
repeated or missing ids, its callbacks may raise or be forgotten, and it may swallow the
error of any of them; it may never end, and die at any point. A result is written to the
pipe in two chunks, because it may exceed the pipe's buffer; `recv` has no limit of its
own, so a worker that dies between the chunks is met as end of file, the rest of an answer
that began in time may come at any later time, and a worker that stops there is not met
(see Fairness). What cannot be read as a message raises at once. The removal of the scratch
directory may fail while a worker that survived its kill still runs. SIGTERM may be ignored; SIGKILL may not. The recorder
(`_ToolTraceRecorder`) refuses to export a trace once any callback was out of order, and
the parent accepts of the trace only tool output that was asked up to the cutoff and
reaches no further (`Admitted`); of an indicator it reads the dated lines alone, so text
beside them is outside `NoLookAhead`. One interrupt of the parent is modelled, at any wait;
an interrupt during the start of the process or inside the `finally` block, and a second
one, are not.

## 3. Runs

| Run | Bounds | What it shows |
|---|---|---|
| `event_store` | 2 writers, 2 aggregates, 3 event ids, batches of up to 2 | the locking order of the append makes it atomic and gap free |
| `live_races` | 2 submitters, 1 reconciler, 1 operator, 2 confirmations, 2 reports, crashes, no clock | single flight, one call per confirmation, clears that erase nothing, agreement of the two replays, orders accounted for, the refinement |
| `live_windows` | 1 submitter, 2 brokers, 2 ticks, 1 fill, 2 reports, crashes | the windows of the gates still overlap at the claim; the broker is the confirmed one, and it is this broker that reported healthy after every activation |
| `scheduler` | 2 workers, 3 runs of 2 keys, 4 instants, failures and deaths | at most once, no overlap, never late; an exclusion is released unless its worker is lost |
| `paper_orders` | 1 broker, 1 instrument, 2 orders of 6 kinds, 5 instants, 5 operations, 2 bars | fills keep to the order, the bar and the books; rollback of any operation cannot fail |
| `paper_unknown` | 2 instruments, 3 orders, 3 instants, 5 operations, 5 answers, failing and lying appends | unknown orders, their fills and their return keep indexes, books, capacity and replay |
| `paper_recovery` | 2 brokers on one session, 2 orders, 2 instants, 3 operations each, crashes and failing appends | memory is what recovery computes; every order lives the life of `OrderLifecycle` |
| `paper_invented` | 3 orders, 2 instants, 4 operations | violated, see Findings |
| `backtest` | 7 bars of 4 shapes, 4 signals, fees, impact, partial fills, closeout | books, approvals and exits stay consistent, sizing and assessment agree, no look-ahead |
| `backtest_daily` | 9 bars of 3 shapes, 1 signal | violated, see Findings |
| `research` | 2 tool runs with 2 ids, 6 outputs, one interrupt | only whole answers that began before the time limit and admitted evidence count; every analysis ends with its worker gone |
| `dashboard` | 2 exporters, 2 directories, 2 changes by other programs, both platforms | whole files, one step of publication, every export ends and cleans up |

Why the bounds are enough. Two submitters with two confirmations contain every race of
two claims, two reports contain "one unhealthy, one healthy" in both orders and a clear
between them. The bound on reports also bounds the clears, since a clear needs an
active switch. A third submitter would only repeat what the second can do, and the
theorems below cover any number of them. In `live_windows` time and the ledger move
while a single submission passes its gates; its two brokers are what a clear by one
broker's report and a claim for another need, and an unhealthy report between its reads and
its claim is the activation that `ReconciledSinceActivation` is about (`ReconciledHolds`
proves it for racing submitters and ambiguous orders too). `Tick` in `live_races` is left out
(`MaxTime = 0`) so that the thread interleavings fit: those properties read no clock.
In `scheduler` two runs share a key and are due one instant apart, within the lateness of one
another, so that one worker may hold the exclusion the other wants, and both may race for
one run; the theorems cover any number of workers. In the paper runs the
bounds are `MaxTime` instants, `MaxOps` committed operations per broker, and intents and
bars chosen so that the gates meet at equality: 48 of cash pays for 4 at the fill price but
not for the fee, one bar's volume gives half of what an order wants, a stop-limit triggers
on one bar and may fill on the next, and `MaxGroup = 8` in `paper_unknown` admits two orders
and not a third while two are unknown. Five operations contain submit, submit, unknown,
answer, market; three per broker contain a commit by one broker between two of the other,
with a crash and a rehydration. `paper_recovery` is symmetric in its two brokers.

The four bars of `backtest` fill an entry, fill it in part and reach every stop, reach
the targets, or fill nothing; seven of them (`MaxBars`) hold an entry in two parts, its
stop, a partial exit and a second entry. Its limits are small enough to bind: the risk
per trade decides the size for one signal, at equality, and the gross share for another.
In `research` two tool runs are enough for a pending one beside a returned one, for two
of one id and for two orders of start and end; the outputs are of each kind, on either
side of the cutoff. In `dashboard` two changes move the parent away and back, or move it
and touch the destination there.

`CHECK_DEADLOCK FALSE` is given where the bounds (reports, confirmations, runs, clock,
operations, bars) let the system come to its end, or the one call modelled returns
(`research`, `dashboard`).

**Fairness.** Three runs assume some. `scheduler`: weak fairness of a worker's steps,
that is, a thread inside `run_due` keeps being scheduled and `job.run` returns; nothing
makes a worker begin. Failures are allowed, so `ExclusionReleased` excepts a call whose
own worker has died or lost its store: the code has no recovery for the exclusion such a
worker leaves taken. `research`: weak fairness of the parent, whose waits all have
limits; of the delivery of SIGKILL, which the kernel guarantees; and of the second half
of a write that the worker has begun, because `recv` waits for it without a limit: a
worker that is stopped in the middle of a write blocks the parent, which the code does
not defend against. Nothing is assumed of the graph. `dashboard`: weak fairness of each
exporter's own steps; a lock that is free is granted, as each of the finitely many calls
takes it once. No liveness is claimed of the live protocol, where an unresolved
submission waits for a human, nor of the paper broker, whose operations are calls that
nobody has to make.

**Mutants.** Each property has, in `PROJECT.json`, at least one changed definition that
breaks it, the kind of slip a maintainer could make: a head left out of a fence, a lookup
forgotten, an expiry not compared. The mutated operators stand beside the original.

## 4. Proofs

`LiveSafetyProofs` proves, for any number of threads, confirmations, intents, brokers and reports, any windows, and with crashes:

* `TypeCorrect`: `Spec => []TypeOK`
* `SingleFlightHolds`: at most one submission is unresolved
* `OneCallHolds`: at most one broker call per confirmation
* `ReconciledHolds`: a healthy report of the claim's broker lies between every
  activation and every later claim, and is the last report at the claim
* `ReleaseCovered`: the kill switch is released only by a clear that covers every
  activation while nothing is unresolved
* `SubmissionImplemented`: `Spec => ImplementsSubmission`, the refinement
* `CallsAuthorised`: every broker call is for what was confirmed and claimed
* `OrdersAccountedHolds`: every order goes back to a durable start
* `WindowsHold`: every claim lies within its windows, about one state of the ledger
* `ReplaysAlwaysAgree`: the two pairs of replay loops agree and no row is malformed

With these every property of the live runs is proved. The assumptions are those of the
constants (`NamesAssumption`, `WindowsAssumption`, `CrashAssumption`).

None of these is inductive. A claim appends on the strength of rows read earlier, so the
invariant must say what a thread in the middle of its call may still believe. `IInv`
does: rows are numbered below `nextSeq` (`RowsNumbered`), what a thread holds as a head
was one (`HeadsSeen`), a start has its consumption (`ClaimsConsume`), an unresolved
start is the last interlock row (`OpenIsLast`), a thread past its claim and before its
resolution holds the open start and there is one such thread at most (`HoldersOpen`,
`OneHolder`), and, the heart of it, *if the heads a claim or a clear captured are still
the heads, then what it concluded from the rows still holds* (`ClaimReady`,
`ClearReady`, `ClearsSupported`). As heads only grow, the fence at the append makes the
premise true exactly when it is needed. The preservation proof has one step per action
and under it one per part of the invariant the action can disturb.

The later theorems add to `IInv` what they need. `CallsBacked` says where the arguments
of a call come from, which gives the refinement: a claim maps to `Start`, the
resolutions to `Acknowledge` and `GiveUp`, an unhealthy report to `Stop`, a clear to
`Resume`, and every read to a stutter. `WindowsInv` follows the ledger through a call:
no decision is about a ledger still to come (`PortfoliosPast`), the report of a fence
agreed with a ledger at least as new as any decision of its confirmation
(`FencedLedger`), and the second pass over the gates closes the two onto one.
`RowsWellFormed` says that starts and resolutions alternate, from which the last row
alone tells whether anything is unresolved.

`EventStoreProofs` proves, for any writers, aggregates, event ids and batch bound, and
with writers that die (assuming `NoEventAssumption`, `NoWriterAssumption`,
`BoundAssumption`):

* `TypeCorrect`
* `NumberingHolds`: the committed rows are numbered without gap or repetition
* `AppendIsAtomic`: `Spec => AtomicAppend`, the statements implement the one-step append

The invariant says that only the holder of the lock is past it (`LockHeld`) and that,
once the holder has compared the heads, they are still those it compared and its numbers
are those that follow the counter (`HeadsKept`). So the commit maps to `AppendBatch`, a
rollback after a failed comparison to `Refuse`, and every other statement to a stutter.

`SchedulerProofs` proves, for any workers, runs and keys, with failures and dying workers
(assuming `RunsAssumption`, `NothingAssumption`, `FailureAssumption`):

* `TypeCorrect`
* `ExecutedAtMostOnceHolds`, `MutualExclusionHolds`, `ExclusionsPairHold`, `NeverRunLateHolds`

Its invariant turns on the parity of an exclusion aggregate. A claim rests on a head of
even number (`ClaimsFree`) and appends an odd row; a worker past its claim owns the last
row of its key, which is odd (`HoldersLast`), so nobody else's claim can commit until it
has appended the even one, and there is one such worker per key (`OneHolder`).
`Executions` ties the count of executions to the rows of the run, and `DueKept` says that
a run some worker may still execute has been due.

`BacktestProofs` proves, for every set of well-formed bars, every signal, policy, cost model
and latency (assuming `ScaleAssumption`, `StepAssumption`, `FillModelAssumption`,
`LedgerAssumption`, `PolicyAssumption`, `BarsAssumption`, `SignalsAssumption`,
`AssetAssumption`):

* `BooksReconcileHolds`: the account of the open trade and the ledger agree, and cash is
  never negative. It has the hypothesis `FeeIsShare` (a fee rate of at most one), since the
  code does not bound `fee_bps`: beyond 10000 basis points a sale may cost money
* `WithinApprovalHolds`: all the fills of an entry together stay within its approval
* `ExitsCoverHolds`: a hit level leaves an exit order for the whole position
* `SizedIsAdmissibleHolds`: what the sizer proposes is refused only for the account's state
* `NoLookAheadHolds`

The invariant `Sound` of the engine has three parts: the types; `Books`, the equations
between ledger and trade; and `Orderly`, that a sale is of all that is held. A turn is a
composition of five operators, so each has a lemma of its own on the state it takes and
the state it returns, and `ManagedKeeps` composes them. Within one instrument the sum
over positions in the ledger is its one summand (`SumOfOne`), which spares an induction.
`Within` adds that what an entry has bought and what it still asks for make up the
approval, whose bounds on exposure and risk come from the sizer (`SizedIsAdmitted`), by
arithmetic on floors.

`DashboardProofs` proves, for any exporters and directories and any number of changes
(assuming `NamesAssumption`, `ChangesAssumption`): `TypeCorrect`, `OnlyWholeFilesHolds`,
`OwnersAreAloneHolds` and `PublicationImplemented`. Its invariant says that two holders
of the lock are on POSIX and in two directories (`LocksApart`), that on Windows the
parent is pinned while the handles are held (`ParentPinned`), and what has become of a
file at each point of its call (`Progress`).

`ResearchProofs` proves, for any tools, ids and outputs (assuming `CallIdsAssumption`,
`OutputsAssumption`, `DayAssumption`):

* `TypeCorrect`, `NoWorkerLeftHolds` and `ResultBeginsInTimeHolds`: after the wait for an
  answer has timed out there is no result (`TooLate` is kept by every step)
* `TraceIsWholeHolds`: the exported trace tells of every tool whose content the graph saw
* `NoLookAheadHolds`: behind a packet there is no content with a day after the cutoff

The invariant of the control says that the tail of a result follows its head in
the pipe (`HeadFirst`), that a kill is sent before it is waited for (`KillSent`), and
that no signal is sent while a result may still be accepted (`SignalsLate`). That of the
trace says that the runs are told apart by the order of their starts and a broken one is
remembered (`StartsApart`), that nothing is called after the export (`TraceLast`), and that
the packet is what the trace makes of it (`PacketSaid`). That the completed runs can be
put in their order at all is a lemma about finite sets (`Sortable`: the rank of a run is
the number of runs up to it).

`PaperProofs` proves, for any orders, instruments, bars, evidence and brokers, any cost
model and starting cash, with crashes and failing appends (assuming the named assumptions
of the paper modules, which say what a validated intent, bar and fill is):

* `MemoryIsTheLog`: what a broker has in memory, also after a rollback, is what recovery
  computes from the rows it has counted, and recovery refuses none of them;
* `RollbackSucceeds`: a rollback takes back exactly the fills that the ledger has gained;
* `IndexesAgree` and `NextCohortFits`, what the five kernels owe each other;
* `BooksAgree`: cash, positions, fill ids and the filled part of every order are what the
  fills make of the starting cash, and the ledger is one that a recovery takes back;
* `BudgetIsShared`: in every committed group, what the orders of an instrument take of a bar
  and what each of them reports as left over come out of one budget, in the order of the rows;
* `LifecycleImplemented`: the log implements `OrderLifecycle`, under the mapping that reads
  the status of an order off its last transition row;
* `FillsKeepTerms`: every fill row of the log, of a sweep or of an authoritative answer, keeps
  to the price limits, the bracket, the size, the dates and the stop of the order that an
  earlier group submitted;
* `TypeCorrect`.

They all follow from one invariant, `IInv` of `PaperInvariant` (`Invariance`). Memory and log cannot be compared
by induction on steps alone: a rolled back broker has to be where the log of *its* count
leads, while another broker may have gone on. So the invariant says of the log that every
prefix is recovered without an error to a state that is good (typed, indexed, fitting,
`SoundLog`), and of each broker that it is down, or holds what a prefix is recovered to, or
is on top of it (`OnTop`): the rollback of what it holds is what the prefix is recovered to,
and the staged rows, replayed from there, give what it holds (`Ready`). For this every kernel
is shown to keep a good state good, to touch only what the capture names (`Frame`, which is
what makes `RolledBack` the inverse: `RollsBack`), and to be repeated by its replay from the
rows alone (`SubmitAgain`, `ResolveAgain`, `MarketAgain`, `ReconcileAgain`).

For the books, the invariant also says that what a prefix is recovered to is `Solvent`, and
every kernel is shown to leave solvent books solvent (`Pays`): a fill adds to the books, the
ledger and its order what it takes (`FillBalances`, `FillAccounted`), and everything else
leaves all three alone (`NothingWorth`). The attempt found that cash is not bounded by zero
without a condition: a buy is only filled when the cash covers its cost and fee, but no
kernel weighs the fee of a sale (`engine.py:170`, `paper.py:1733`), and one that costs more
than it brings takes cash below zero. `tests/execution/test_paper.py:576` asks for
affordability of buys only. `BooksBalance` and the theorem say so.

For the liquidity, the invariant says of every committed group what its rows tell when they
are read beside the states before and after it (`Explains`, a part of `SoundLog`). A sweep of
the orders is a path of turns (`SweepPath`), and each turn draws what it takes from what the
turns before it have left (`Draws`, `TurnDraws`); a sweep looks at the orders of one
instrument, and two sweeps of a group are of different instruments, so the budget of an input
is that of the group's rows for its instrument (`Rationed`, `RationedNext`, `RationsShare`).
Groups of the other kernels take nothing from a bar (`NothingObserved`).

For the refinement, `Explains` also says that the rows of a group tell of every order how it
came from its status before the group to the one after (`Story`), and that this is one edge
or none (`Moved`). For the groups of a market event that rests on a working order having one
turn in the sweep of its instrument (`SweepCarries`), so that no group moves an order twice;
and on the orders of a session never being in a status that only an order before its
submission has (`Orderly`), which one edge after the other keeps (`EdgeLives`). Then the last
transition row of an order tells the status that recovery from the log gives it (`LogTells`,
`LogIsLife`), an append is a step of the abstract specification and every other step a
stutter of it (`GroupLives`, `LogGrows`, `StepLives`).

For the terms of the fills, `Explains` says what the rows of a group tell beside the books
before and after it (`Bears`): each fill is of an order that was there before the group, was
open, keeps to its terms, and where the order waits for a stop its trigger was passed before
the group or earlier in it (`Lawful`); a fill of the market is dated later than the last
snapshot of its instrument before the group (`Fresh`); an order stays the order that it is, and has a
trigger passed only with a row for it, dated no later than the snapshot after the group
(`Remains`); and a new order comes with the row that
submits it (`Enters`). A sweep is therefore read as a chain of turns at an instant (`Conducted`,
`Acts`), of which each is shown what rows stand before it. Along the log this becomes an
invariant of its own (`Vouched`): every order that recovery knows at a prefix has its
submission in it, and its stop, if that was triggered, in a later group, at an instant no
later than the last snapshot of its instrument. So the fill of a stop limit order, which
comes with a newer snapshot, is later than its trigger (`FillsOrdered`).

The kernels are folds over data. `Folding` shows that a fold over a sequence is the end of a
path from place to place, and that what holds at the first place and is passed on holds at
the last (`Path`, `UpTo`): each fold of the model instantiates it with its step. So the
induction is one over numbers, which a set and the least element of its complement give;
that every set of numbers has a least element comes from the library's well-foundedness of
the subsets of a finite set (`Smallest`).

Type invariants that are proved are not run again as invariants by TLC, except that of the
paper broker.

Only model-checked: the liveness of the scheduler, the research worker and the dashboard,
which TLAPS cannot prove here. Every safety property of a passing run is a theorem.

## 5. Findings

* `paper_invented`. The tests say that a status-only resolution of an unknown order cannot
  invent a fill. `reconcile_unknown` checks the status under the lock, releases it, and
  resolves under a second acquisition; when another resolution has made the order
  acknowledged in between, `FILLED` is an allowed edge and the order is filled without a
  fill.
* `backtest_daily`. The design document lists a maximum daily loss of 2%. The snapshot's
  `daily_pnl` is equity minus the starting cash of the whole run, whatever the day, so after
  an earlier gain an entry is approved on a day that has lost more than the limit, and after
  an earlier loss one is refused on a day without any.
* Without a run: `README.md` says every ambiguous response becomes unknown.
  `record_unknown` (`safety.py:623`) is fenced on the kill-switch head as well as the
  interlock's, so an unhealthy report persisted in between makes it fail, once and for all
  (`UNKNOWN_PERSISTENCE_FAILED`); the submission stays started. Trading stays blocked,
  which is safe, but not the state the document describes. `UnknownConflict` is the step.
* Without a run: the design document asks for a broker reconciliation between an unknown
  outcome and any retry. The code orders reports by when they were persisted
  (`safety.py:397`); the snapshot in one may have been read before the unknown submission
  began, and it supports the clear and the next claim while it is under 60 seconds old.
* Without a run: `submit` asks that a newer snapshot be processed by `on_snapshot` first. For
  an instrument that has a retained snapshot but neither an active order nor a position
  `on_snapshot` refuses it (`paper.py:1355`), and the retained one regresses: no further
  order on the instrument is possible in the session.
* Without a run: after a crash between the commit of an operation and the saving of the
  new head by its caller, no head that anybody holds opens the session (`HeadAccepted`).
  The docstring asks for an externally protected head and is silent on this window.
* Without a run: the design document lists an unsupported capability among the causes
  that activate the kill switch; `live.py` refuses the order and activates nothing.

## 6. Not modelled, and the plan

Not modelled at all: HTTP clients, credential handling and redaction, parsing and
configuration, indicator arithmetic and statistics, rendering. They hold no protocol
state. Of modelled components, these parts are left out: the arithmetic of
`Reconciler.compare` (a free choice between healthy and not), metrics, promotion gates and
`run_robustness` of the backtest, the projection of the dashboard's status, the parsing of
tool output, and what the section on the paper broker lists.

Six hazards are part of the models without a property of their own, because what the
code does about them is what it promises: the clock read outside its handler before the
ambiguous query (`live.py:381`), a kill switch activated between the commit of a claim
and its broker call, which the code does not look at again (`live.py:203`), a skip for
an unavailable clock before a run is known to be due (`scheduler.py:107`), and a crash
before the caller has saved the head of its session (`paper.py:1278`), an activation
that makes `record_unknown` fail, so that an ambiguous order stays started (`safety.py:623`),
and a report that rests on a snapshot from before the order it clears (`safety.py:397`).

In order:

1. The comparison of `Reconciler.compare` as an operator against a reference definition,
   and the promotion gates.
2. The caller's side of a paper session (`cli.py`, `fixture_pipeline.py`): saving and passing
   the head.
