------------------------------ MODULE Scheduler ------------------------------
(***************************************************************************)
(* operations/scheduler.py: Scheduler.run_due, called by several threads   *)
(* or processes that share one audit ledger.  A due run has an aggregate   *)
(* of its own, whose first row claims it for good, and shares with the     *)
(* other runs of its strategy and instrument an exclusion aggregate, whose *)
(* rows start and release the right to run.  A batch is one step           *)
(* (EventLog.tla); as rows are only appended, the length of an aggregate   *)
(* stands for the event id of its head.                                    *)
(***************************************************************************)
EXTENDS Naturals, Sequences

CONSTANTS Workers,     \* concurrent calls of run_due
          Runs,        \* ScheduledJob identities, one per due instant
          Keys,        \* (strategy_id, instrument_id) pairs
          KeyOf,       \* the key of a run
          DueAt,       \* due_at of a run
          MaxLateness, \* max_lateness_seconds, in clock ticks
          Nothing,     \* the run of an idle worker
          MayFail,     \* whether a worker may die or its store fail
          MaxTime      \* bound: ticks of the clock

ASSUME RunsAssumption == KeyOf \in [Runs -> Keys] /\ DueAt \in [Runs -> Nat]
ASSUME NothingAssumption == Nothing \notin Runs
ASSUME FailureAssumption == MayFail \in BOOLEAN

VARIABLES clock,
          runRows,   \* runRows[r]: kinds of the rows of r's aggregate
          exclusion, \* exclusion[k]: rows of k's exclusion aggregate
          call,      \* call[w]: the run_due call of worker w
          executed   \* history: how often job.run was called for a run

vars == <<clock, runRows, exclusion, call, executed>>
durable == <<runRows, exclusion>>

ExclusionRow == [kind : {"started", "released"}, run : Runs]
IdleCall == [pc |-> "idle", run |-> Nothing, head |-> 0]

At(w, label) == call[w].pc = label
Goto(w, label) == call' = [call EXCEPT ![w].pc = label]
RunOf(w) == call[w].run
KeyFor(w) == KeyOf[RunOf(w)]

Leave(w) == /\ call' = [call EXCEPT ![w] = IdleCall]
            /\ UNCHANGED <<clock, durable, executed>>

\* _exclusion_state, for a well-formed aggregate: rows start and release in turn.
ExclusionActive(k) == exclusion[k] # <<>> /\ exclusion[k][Len(exclusion[k])].kind = "started"
WellFormed(k) == \A n \in 1..Len(exclusion[k]) :
                    exclusion[k][n].kind = (IF n % 2 = 1 THEN "started" ELSE "released")

\* _due_rejection is None: not too late, and the exchange is open (the calendar
\* may also say closed, or fail, at any time).
NotTooLate(r) == clock <= DueAt[r] + MaxLateness

-----------------------------------------------------------------------------
Init == /\ clock = 0
        /\ runRows = [r \in Runs |-> <<>>]
        /\ exclusion = [k \in Keys |-> <<>>]
        /\ call = [w \in Workers |-> IdleCall]
        /\ executed = [r \in Runs |-> 0]

Tick == /\ clock < MaxTime
        /\ clock' = clock + 1
        /\ UNCHANGED <<durable, call, executed>>

Begin(w, r, label) ==
    /\ call[w].pc \in {"idle", "lost"}
    /\ call' = [call EXCEPT ![w] = [pc |-> label, run |-> r, head |-> 0]]
    /\ UNCHANGED <<clock, durable, executed>>

\* The run is due and acceptable.
BeginDue(w) == \E r \in Runs : DueAt[r] <= clock /\ NotTooLate(r) /\ Begin(w, r, "due")

\* The clock failed, whether the run is due or not; or the run is due and is too
\* late, the exchange is closed or its calendar failed.
BeginSkip(w) == \E r \in Runs : Begin(w, r, "skipping")

\* _claim_skip: two rows, fenced on a run nobody has claimed.
CommitSkip(w) ==
    /\ At(w, "skipping")
    /\ runRows[RunOf(w)] = <<>>
    /\ runRows' = [runRows EXCEPT ![RunOf(w)] = <<"skipped", "unhealthy">>]
    /\ call' = [call EXCEPT ![w] = IdleCall]
    /\ UNCHANGED <<clock, exclusion, executed>>

ReadExclusion(w) ==
    /\ At(w, "due")
    /\ ~ ExclusionActive(KeyFor(w))
    /\ WellFormed(KeyFor(w))
    /\ call' = [call EXCEPT ![w].pc = "claiming", ![w].head = Len(exclusion[KeyFor(w)])]
    /\ UNCHANGED <<clock, durable, executed>>

\* Two rows, fenced on a run nobody has claimed and the exclusion head just read.
\* Mutants of ClaimHolds: one of the two heads is not fenced.
ClaimUnfencedRun(w) == Len(exclusion[KeyFor(w)]) = call[w].head
ClaimUnfencedExclusion(w) == runRows[RunOf(w)] = <<>>
ClaimHolds(w) == /\ runRows[RunOf(w)] = <<>>
                 /\ Len(exclusion[KeyFor(w)]) = call[w].head
CommitStart(w) ==
    /\ At(w, "claiming")
    /\ ClaimHolds(w)
    /\ runRows' = [runRows EXCEPT ![RunOf(w)] = <<"started">>]
    /\ exclusion' = [exclusion EXCEPT ![KeyFor(w)] =
                        Append(@, [kind |-> "started", run |-> RunOf(w)])]
    /\ call' = [call EXCEPT ![w].pc = "started", ![w].head = @ + 1]
    /\ UNCHANGED <<clock, executed>>

\* The second look at the clock and the calendar, and the entry into job.run.
\* Mutant of Run: no second look.
RunAtOnce(w) ==
    /\ At(w, "started")
    /\ executed' = [executed EXCEPT ![RunOf(w)] = @ + 1]
    /\ Goto(w, "running")
    /\ UNCHANGED <<clock, durable>>
Run(w) ==
    /\ At(w, "started")
    /\ NotTooLate(RunOf(w))
    /\ executed' = [executed EXCEPT ![RunOf(w)] = @ + 1]
    /\ Goto(w, "running")
    /\ UNCHANGED <<clock, durable>>

\* The clock failed, or the run is now too late or the exchange not open.
\* Mutant of SkipStarted: it returns without a terminal batch.
SkipSilently(w) == At(w, "started") /\ Leave(w)
SkipStarted(w) == /\ At(w, "started")
                  /\ Goto(w, "skippingStarted")
                  /\ UNCHANGED <<clock, durable, executed>>

\* job.run returns or raises; a clock that fails now is reported as a failure.
Return(w, label) == /\ At(w, "running")
                    /\ Goto(w, label)
                    /\ UNCHANGED <<clock, durable, executed>>
Complete(w) == Return(w, "completed")
Fail(w) == Return(w, "failed")

\* _terminal: three rows, fenced on the two rows of this very claim.
Terminating == {"skippingStarted", "completed", "failed"}
TerminalRows(label) == CASE label = "completed"       -> <<"ended", "healthy">>
                         [] label = "failed"          -> <<"ended", "unhealthy">>
                         [] label = "skippingStarted" -> <<"skipped", "unhealthy">>
TerminalHolds(w) == /\ runRows[RunOf(w)] = <<"started">>
                    /\ Len(exclusion[KeyFor(w)]) = call[w].head
CommitTerminal(w) ==
    /\ call[w].pc \in Terminating
    /\ TerminalHolds(w)
    /\ runRows' = [runRows EXCEPT ![RunOf(w)] = @ \o TerminalRows(call[w].pc)]
    /\ exclusion' = [exclusion EXCEPT ![KeyFor(w)] =
                        Append(@, [kind |-> "released", run |-> RunOf(w)])]
    /\ call' = [call EXCEPT ![w] = IdleCall]
    /\ UNCHANGED <<clock, executed>>

\* ALREADY_RUNNING, and an aggregate the replay does not accept.
Excluded(w) == /\ At(w, "due")
               /\ ExclusionActive(KeyFor(w)) \/ ~ WellFormed(KeyFor(w))
               /\ Leave(w)

\* EventHeadConflict: the call returns and nothing is written.
Conflict(w) == /\ \/ At(w, "skipping") /\ runRows[RunOf(w)] # <<>>
                  \/ At(w, "claiming") /\ ~ ClaimHolds(w)
                  \/ call[w].pc \in Terminating /\ ~ TerminalHolds(w)
               /\ Leave(w)

\* The worker dies, or its id factory or its store fails; the caller may call again.
Die(w) == /\ MayFail
          /\ call[w].pc \notin {"idle", "lost"}
          /\ call' = [call EXCEPT ![w].pc = "lost", ![w].head = 0]
          /\ UNCHANGED <<clock, durable, executed>>

Step(w) == \/ CommitSkip(w) \/ ReadExclusion(w) \/ CommitStart(w) \/ Run(w)
           \/ SkipStarted(w) \/ Complete(w) \/ Fail(w) \/ CommitTerminal(w)
           \/ Excluded(w) \/ Conflict(w)
Next == \/ Tick
        \/ \E w \in Workers : BeginDue(w) \/ BeginSkip(w) \/ Step(w) \/ Die(w)

Spec == Init /\ [][Next]_vars

\* A call under way goes on: its thread is scheduled, and job.run returns.
FairSpec == Spec /\ \A w \in Workers : WF_vars(Step(w))

-----------------------------------------------------------------------------
(* Properties *)

ActiveCall == [pc : {"due", "skipping", "claiming", "started", "running", "lost"}
                    \cup Terminating,
               run : Runs, head : Nat]
RunKinds == {"started", "skipped", "ended", "healthy", "unhealthy"}
TypeOK ==
    /\ clock \in Nat
    /\ runRows \in [Runs -> Seq(RunKinds)]
    /\ exclusion \in [Keys -> Seq(ExclusionRow)]
    /\ call \in [Workers -> {IdleCall} \cup ActiveCall]
    /\ executed \in [Runs -> Nat]

(***************************************************************************)
(* "Claim one exact due instant durably and never execute it more than     *)
(* once" (run_due), whichever workers compete for it and die; and a run    *)
(* whose skip was recorded without a start is never executed.              *)
(***************************************************************************)
ExecutedAtMostOnce == \A r \in Runs : /\ executed[r] <= 1
                                      /\ executed[r] = 1 => runRows[r][1] = "started"

(***************************************************************************)
(* Two jobs of one strategy and instrument never run at the same time,     *)
(* even when their due instants, and so their run aggregates, differ.      *)
(***************************************************************************)
MutualExclusion ==
    \A v, w \in Workers :
        (At(v, "running") /\ At(w, "running") /\ KeyFor(v) = KeyFor(w)) => v = w

(***************************************************************************)
(* A job that waited between its claim and its start is not run late: the  *)
(* lateness limit holds at the second look at the clock, not the first.    *)
(***************************************************************************)
NeverRunLate ==
    [][\A r \in Runs : executed'[r] # executed[r] => DueAt[r] <= clock /\ NotTooLate(r)]_vars

(***************************************************************************)
(* Starts and releases of an exclusion alternate and a release names the   *)
(* run that started it, so _exclusion_state accepts every aggregate the    *)
(* scheduler writes: one it did not accept would block its key for good.   *)
(***************************************************************************)
ExclusionsPair ==
    \A k \in Keys :
        /\ WellFormed(k)
        /\ \A n \in 1..Len(exclusion[k]) :
              n % 2 = 0 => exclusion[k][n].run = exclusion[k][n - 1].run

Past == {"started", "running"} \cup Terminating
Holds(w) == call[w].pc \in Past
(***************************************************************************)
(* The exclusion a call has taken is released, unless its worker dies or   *)
(* its store fails: no other call can move the heads of a run under way    *)
(* and make its terminal batch conflict, and no way out of run_due leaves  *)
(* the key taken.                                                          *)
(***************************************************************************)
ExclusionReleased ==
    \A w \in Workers, k \in Keys :
        Holds(w) /\ KeyFor(w) = k ~> ~ ExclusionActive(k) \/ At(w, "lost")
=============================================================================
