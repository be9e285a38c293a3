--------------------------- MODULE SchedulerProofs ---------------------------
(***************************************************************************)
(* Theorems about Scheduler, for every number of workers, runs and keys,   *)
(* any due instants and lateness limit, and with workers that die at any   *)
(* point.                                                                  *)
(***************************************************************************)
EXTENDS Scheduler, SequenceTheorems, TLAPS

-----------------------------------------------------------------------------
(* The inductive invariant *)

\* The head a claim rests on is that of a free exclusion.
ClaimsFree == \A w \in Workers : At(w, "claiming") => call[w].head % 2 = 0

\* What a worker past its claim has written is still the end of both aggregates.
HoldersLast ==
    \A w \in Workers : Holds(w) =>
        /\ runRows[RunOf(w)] = <<"started">>
        /\ Len(exclusion[KeyFor(w)]) = call[w].head
        /\ call[w].head % 2 = 1
        /\ exclusion[KeyFor(w)][call[w].head].run = RunOf(w)

OneHolder == \A v, w \in Workers : Holds(v) /\ Holds(w) /\ KeyFor(v) = KeyFor(w) => v = w

\* Only the worker that holds a run executes it, once.
Executions ==
    /\ \A r \in Runs : /\ executed[r] <= 1
                       /\ executed[r] = 1 => runRows[r] # <<>> /\ runRows[r][1] = "started"
    /\ \A w \in Workers : At(w, "started") => executed[RunOf(w)] = 0

\* A run that may still be executed was due.
DueKept == \A w \in Workers :
              call[w].pc \in {"due", "claiming", "started"} => DueAt[RunOf(w)] <= clock

IInv == /\ ClaimsFree /\ HoldersLast /\ OneHolder /\ ExclusionsPair /\ Executions /\ DueKept

-----------------------------------------------------------------------------
(***************************************************************************)
(* Odd and even numbers take turns.                                        *)
(***************************************************************************)
LEMMA Parity ==
  ASSUME NEW n \in Nat
  PROVE  /\ n % 2 = 0 <=> (n + 1) % 2 = 1
         /\ n % 2 = 1 <=> (n + 1) % 2 = 0
OBVIOUS

(***************************************************************************)
(* A row of the right kind, and a release of the right run, keep starts    *)
(* and releases in pairs.                                                  *)
(***************************************************************************)
Paired(rows) ==
    \A n \in 1..Len(rows) :
        /\ rows[n].kind = (IF n % 2 = 1 THEN "started" ELSE "released")
        /\ n % 2 = 0 => rows[n].run = rows[n - 1].run

\* A row that continues the alternation of starts and releases keeps it.
LEMMA AppendPairs ==
  ASSUME NEW rows \in Seq(ExclusionRow), NEW x \in ExclusionRow, Paired(rows),
         x.kind = (IF (Len(rows) + 1) % 2 = 1 THEN "started" ELSE "released"),
         (Len(rows) + 1) % 2 = 0 => x.run = rows[Len(rows)].run
  PROVE  Paired(Append(rows, x))
<1> DEFINE h == Len(rows)  more == Append(rows, x)
<1>1. /\ h \in Nat /\ Len(more) = h + 1
      /\ \A n \in 1..h : more[n] = rows[n]
      /\ more[h + 1] = x
  BY AppendProperties, LenProperties
<1> SUFFICES ASSUME NEW n \in 1..(h + 1)
             PROVE  /\ more[n].kind = (IF n % 2 = 1 THEN "started" ELSE "released")
                    /\ n % 2 = 0 => more[n].run = more[n - 1].run
  BY <1>1 DEF Paired
<1> HIDE DEF h, more
<1>2. CASE n = h + 1
  <2>1. (h + 1) % 2 = 0 => h \in 1..h
    <3>1. CASE h = 0
      BY <3>1
    <3>2. CASE h # 0
      BY <3>2, <1>1
    <3> QED
      BY <3>1, <3>2
  <2>2. (h + 1) - 1 = h
    BY <1>1
  <2> QED
    BY <1>1, <1>2, <2>1, <2>2 DEF h
<1>3. CASE n # h + 1
  <2>1. n \in 1..h
    BY <1>1, <1>3
  <2>2. n % 2 = 0 => n - 1 \in 1..h
    <3>1. CASE n = 1
      BY <3>1
    <3>2. CASE n # 1
      BY <3>2, <2>1, <1>1
    <3> QED
      BY <3>1, <3>2
  <2> QED
    BY <1>1, <2>1, <2>2 DEF Paired, h
<1> QED
  BY <1>2, <1>3

\* ExclusionsPair says that the rows of every key are paired.
LEMMA PairsAre == ExclusionsPair <=> \A k \in Keys : Paired(exclusion[k])
BY DEF ExclusionsPair, WellFormed, Paired

-----------------------------------------------------------------------------
(***************************************************************************)
(* What the steps of a call make of its record.                            *)
(***************************************************************************)
LEMMA CallUpdates ==
  ASSUME NEW c \in {IdleCall} \cup ActiveCall, c.pc # "idle", NEW h \in Nat,
         NEW p \in {"due", "skipping", "claiming", "started", "running", "lost"}
                  \cup Terminating
  PROVE  /\ c \in ActiveCall
         /\ [c EXCEPT !.pc = p] \in ActiveCall
         /\ [c EXCEPT !.pc = p, !.head = h] \in ActiveCall
<1>1. c \in ActiveCall
  BY DEF IdleCall
<1> QED
  BY <1>1 DEF ActiveCall

\* What ends a run is a sequence of run rows.
LEMMA TerminalRowsType ==
  ASSUME NEW p \in Terminating
  PROVE  TerminalRows(p) \in Seq(RunKinds)
<1> DEFINE Kinds == {<<"ended", "healthy">>, <<"ended", "unhealthy">>, <<"skipped", "unhealthy">>}
<1>1. TerminalRows(p) \in Kinds
  BY DEF Terminating, TerminalRows
<1>2. \A a, b \in RunKinds : <<a, b>> \in Seq(RunKinds)
  OBVIOUS
<1> QED
  BY <1>1, <1>2 DEF RunKinds

\* The initial state is typed.
LEMMA TypeInit == Init => TypeOK
<1>1. Init => /\ clock \in Nat /\ call \in [Workers -> {IdleCall}]
              /\ executed \in [Runs -> Nat]
  BY DEF Init
<1>2. Init => /\ runRows \in [Runs -> Seq(RunKinds)]
              /\ exclusion \in [Keys -> Seq(ExclusionRow)]
  BY DEF Init
<1> QED
  BY <1>1, <1>2 DEF TypeOK

\* Every step keeps the types.
LEMMA TypeStep == TypeOK /\ [Next]_vars => TypeOK'
<1> SUFFICES ASSUME TypeOK, [Next]_vars
             PROVE  TypeOK'
  OBVIOUS
<1> USE DEF TypeOK
<1>1. CASE Tick
  BY <1>1 DEF Tick, durable
<1>2. ASSUME NEW w \in Workers, BeginDue(w) \/ BeginSkip(w)
      PROVE  TypeOK'
  <2>1. PICK r \in Runs, label \in {"due", "skipping"} : Begin(w, r, label)
    BY <1>2 DEF BeginDue, BeginSkip
  <2>2. [pc |-> label, run |-> r, head |-> 0] \in ActiveCall
    BY DEF ActiveCall
  <2> QED
    BY <2>1, <2>2 DEF Begin, durable
<1>3. ASSUME NEW w \in Workers, Leave(w)
      PROVE  TypeOK'
  BY <1>3 DEF Leave, durable
<1>4. ASSUME NEW w \in Workers, CommitSkip(w)
      PROVE  TypeOK'
  <2>1. <<"skipped", "unhealthy">> \in Seq(RunKinds)
    BY DEF RunKinds
  <2> QED
    BY <2>1, <1>4 DEF CommitSkip
<1>5. ASSUME NEW w \in Workers, ReadExclusion(w)
      PROVE  TypeOK'
  <2>0. call[w] \in ActiveCall
    BY <1>5, CallUpdates DEF ReadExclusion, At
  <2>1. Len(exclusion[KeyFor(w)]) \in Nat
    BY <2>0, RunsAssumption, LenProperties DEF ActiveCall, KeyFor, RunOf
  <2>2. [call[w] EXCEPT !.pc = "claiming", !.head = Len(exclusion[KeyFor(w)])] \in ActiveCall
    BY <2>0, <2>1, <1>5, CallUpdates DEF ReadExclusion, At
  <2> QED
    BY <2>2, <1>5 DEF ReadExclusion, durable
<1>6. ASSUME NEW w \in Workers, CommitStart(w)
      PROVE  TypeOK'
  <2>1. call[w] \in ActiveCall
    BY <1>6, CallUpdates DEF CommitStart, At
  <2>0. call[w].head + 1 \in Nat
    BY <2>1 DEF ActiveCall
  <2>2. [call[w] EXCEPT !.pc = "started", !.head = @ + 1] \in ActiveCall
    BY <2>1, <2>0, <1>6, CallUpdates DEF ActiveCall, CommitStart, At
  <2>3. <<"started">> \in Seq(RunKinds) /\ RunOf(w) \in Runs /\ KeyFor(w) \in Keys
    BY <2>1, RunsAssumption DEF RunKinds, ActiveCall, RunOf, KeyFor
  <2>4. [kind |-> "started", run |-> RunOf(w)] \in ExclusionRow
    BY <2>3 DEF ExclusionRow
  <2> QED
    BY <2>2, <2>3, <2>4, <1>6 DEF CommitStart
<1>7. ASSUME NEW w \in Workers, Run(w)
      PROVE  TypeOK'
  <2>1. [call[w] EXCEPT !.pc = "running"] \in ActiveCall
    BY <1>7, CallUpdates DEF Run, At
  <2>0. RunOf(w) \in Runs
    BY <1>7, CallUpdates DEF Run, At, ActiveCall, RunOf
  <2>2. executed[RunOf(w)] + 1 \in Nat
    BY <2>0
  <2> QED
    BY <2>1, <2>2, <1>7 DEF Run, Goto, durable
<1>8. ASSUME NEW w \in Workers, SkipStarted(w) \/ Complete(w) \/ Fail(w)
      PROVE  TypeOK'
  <2>1. PICK label \in Terminating : Goto(w, label) /\ UNCHANGED <<clock, durable, executed>>
    BY <1>8 DEF SkipStarted, Complete, Fail, Return, Terminating
  <2>2. [call[w] EXCEPT !.pc = label] \in ActiveCall
    BY <1>8, CallUpdates DEF SkipStarted, Complete, Fail, Return, At
  <2> QED
    BY <2>1, <2>2 DEF Goto, durable
<1>9. ASSUME NEW w \in Workers, CommitTerminal(w)
      PROVE  TypeOK'
  <2>1. call[w] \in ActiveCall /\ call[w].pc \in Terminating
    BY <1>9, CallUpdates DEF CommitTerminal, Terminating
  <2>2. RunOf(w) \in Runs /\ KeyFor(w) \in Keys
    BY <2>1, RunsAssumption DEF ActiveCall, RunOf, KeyFor
  <2>3. [kind |-> "released", run |-> RunOf(w)] \in ExclusionRow
    BY <2>2 DEF ExclusionRow
  <2>4. runRows[RunOf(w)] \o TerminalRows(call[w].pc) \in Seq(RunKinds)
    BY <2>1, <2>2, TerminalRowsType, ConcatProperties
  <2> QED
    BY <2>2, <2>3, <2>4, <1>9 DEF CommitTerminal
<1>10. CASE UNCHANGED vars
  BY <1>10 DEF vars
<1>11. ASSUME NEW w \in Workers, Die(w)
       PROVE  TypeOK'
  <2>1. [call[w] EXCEPT !.pc = "lost", !.head = 0] \in ActiveCall
    BY <1>11, CallUpdates DEF Die
  <2> QED
    BY <2>1, <1>11 DEF Die, durable
<1> QED
  BY <1>1, <1>2, <1>3, <1>4, <1>5, <1>6, <1>7, <1>8, <1>9, <1>10, <1>11
  DEF Next, Step, Excluded, Conflict

(***************************************************************************)
(* Every variable keeps its type: a call past its first check knows its    *)
(* run, so every row it writes is well typed.                              *)
(***************************************************************************)
THEOREM TypeCorrect == Spec => []TypeOK
<1> QED
  BY TypeInit, TypeStep, PTL DEF Spec

-----------------------------------------------------------------------------
(***************************************************************************)
(* A step that only moves one call on, and neither into nor over a claim,  *)
(* keeps the invariant.                                                    *)
(***************************************************************************)
LEMMA CallMoves ==
  ASSUME TypeOK, IInv, NEW w \in Workers, NEW c \in {IdleCall} \cup ActiveCall,
         call' = [call EXCEPT ![w] = c], UNCHANGED <<clock, durable, executed>>,
         c.pc # "started",
         c.pc \in Past => Holds(w) /\ c.run = RunOf(w) /\ c.head = call[w].head,
         c.pc = "claiming" => c.head % 2 = 0,
         c.pc \in {"due", "claiming"} => DueAt[c.run] <= clock
  PROVE  IInv'
<1> USE DEF TypeOK, durable, At, RunOf, KeyFor
<1>1. /\ call'[w] = c
      /\ \A v \in Workers : v # w => call'[v] = call[v]
  OBVIOUS
<1>2. ClaimsFree'
  BY <1>1 DEF IInv, ClaimsFree
<1>3. HoldersLast'
  BY <1>1 DEF IInv, HoldersLast, Holds
<1>4. OneHolder'
  BY <1>1 DEF IInv, OneHolder, Holds
<1>5. ExclusionsPair'
  BY DEF IInv, ExclusionsPair, WellFormed
<1>6. Executions'
  BY <1>1 DEF IInv, Executions
<1>7. DueKept'
  BY <1>1 DEF IInv, DueKept
<1> QED
  BY <1>2, <1>3, <1>4, <1>5, <1>6, <1>7 DEF IInv

\* The inductive invariant holds at first.
LEMMA InvInit == Init => IInv
BY RunsAssumption DEF Init, IInv, ClaimsFree, HoldersLast, OneHolder, Holds, Past, Terminating,
   ExclusionsPair, WellFormed, Executions, DueKept, At, IdleCall

\* Time passing keeps the inductive invariant.
LEMMA TickKeeps == TypeOK /\ IInv /\ Tick => IInv'
<1> SUFFICES ASSUME TypeOK, IInv, Tick
             PROVE  IInv'
  OBVIOUS
<1> USE DEF Tick, durable, At, RunOf, KeyFor
<1>1. DueKept'
  <2> SUFFICES ASSUME NEW w \in Workers, call[w].pc \in {"due", "claiming", "started"}
               PROVE  DueAt[call[w].run] <= clock + 1
    BY DEF DueKept
  <2>1. call[w] \in ActiveCall
    BY DEF TypeOK, IdleCall
  <2>2. DueAt[call[w].run] \in Nat /\ clock \in Nat
    BY <2>1, RunsAssumption DEF ActiveCall, TypeOK
  <2>3. DueAt[call[w].run] <= clock
    BY DEF IInv, DueKept
  <2> QED
    BY <2>2, <2>3
<1> QED
  BY <1>1 DEF IInv, ClaimsFree, HoldersLast, OneHolder, Holds, ExclusionsPair, WellFormed,
              Executions

(***************************************************************************)
(* A skip claims a run for good, and no call holds that run.               *)
(***************************************************************************)
LEMMA SkipKeeps ==
  ASSUME TypeOK, IInv, NEW w \in Workers, CommitSkip(w)
  PROVE  IInv'
<1> USE DEF TypeOK, At, RunOf, KeyFor, CommitSkip
<1>1. /\ call'[w] = IdleCall
      /\ \A v \in Workers : v # w => call'[v] = call[v]
  OBVIOUS
<1>2. /\ runRows[RunOf(w)] = <<>>
      /\ \A r \in Runs : r # RunOf(w) => runRows'[r] = runRows[r]
  OBVIOUS
<1>3. ClaimsFree' /\ DueKept'
  BY <1>1 DEF IInv, ClaimsFree, DueKept, IdleCall
<1>4. HoldersLast'
  <2> SUFFICES ASSUME NEW v \in Workers, Holds(v)'
               PROVE  /\ runRows'[RunOf(v)'] = <<"started">>
                      /\ Len(exclusion'[KeyFor(v)']) = call'[v].head
                      /\ call'[v].head % 2 = 1
                      /\ exclusion'[KeyFor(v)'][call'[v].head].run = RunOf(v)'
    BY DEF HoldersLast
  <2>1. v # w /\ Holds(v) /\ call'[v] = call[v]
    BY <1>1 DEF Holds, Past, Terminating, IdleCall
  <2>2. RunOf(v) \in Runs
    <3>1. call[v] \in ActiveCall
      BY <2>1, CallUpdates DEF Holds, Past, Terminating
    <3> QED
      BY <3>1 DEF ActiveCall
  <2>3. runRows[RunOf(v)] = <<"started">>
    BY <2>1 DEF IInv, HoldersLast
  <2>4. RunOf(v) # RunOf(w)
    <3>1. Len(<<"started">>) # Len(<<>>)
      OBVIOUS
    <3> QED
      BY <3>1, <2>3, <1>2
  <2> QED
    BY <2>1, <2>2, <2>3, <2>4, <1>2 DEF IInv, HoldersLast
<1>5. OneHolder'
  BY <1>1 DEF IInv, OneHolder, Holds, Past, Terminating, IdleCall
<1>6. ExclusionsPair'
  BY DEF IInv, ExclusionsPair, WellFormed
<1>7. Executions'
  <2>1. executed[RunOf(w)] # 1
    BY <1>2, CallUpdates DEF IInv, Executions, ActiveCall
  <2> QED
    BY <2>1, <1>1, <1>2 DEF IInv, Executions, IdleCall
<1> QED
  BY <1>3, <1>4, <1>5, <1>6, <1>7 DEF IInv

(***************************************************************************)
(* A start rests on a head of even number, every holder on one of odd      *)
(* number: whoever starts finds no holder of its key, nor of its run.      *)
(***************************************************************************)
LEMMA StartKeeps ==
  ASSUME TypeOK, IInv, NEW w \in Workers, CommitStart(w)
  PROVE  IInv'
<1> USE DEF TypeOK, At, RunOf, KeyFor
<1> DEFINE r == RunOf(w)  k == KeyFor(w)  h == call[w].head
           row == [kind |-> "started", run |-> r]
<1>1. call[w] \in ActiveCall
  BY CallUpdates DEF CommitStart
<1>2. r \in Runs /\ k \in Keys /\ h \in Nat /\ row \in ExclusionRow
  BY <1>1, RunsAssumption DEF ActiveCall, ExclusionRow
<1>3. /\ runRows[r] = <<>> /\ Len(exclusion[k]) = h /\ h % 2 = 0
      /\ DueAt[r] <= clock
  BY DEF CommitStart, ClaimHolds, IInv, ClaimsFree, DueKept
<1>4. /\ call'[w].pc = "started" /\ call'[w].run = r /\ call'[w].head = h + 1
      /\ \A v \in Workers : v # w => call'[v] = call[v]
  BY <1>1 DEF CommitStart, ActiveCall
<1>5. /\ runRows'[r] = <<"started">>
      /\ \A q \in Runs : q # r => runRows'[q] = runRows[q]
  BY <1>2 DEF CommitStart
<1>6. /\ exclusion'[k] = Append(exclusion[k], row)
      /\ \A j \in Keys : j # k => exclusion'[j] = exclusion[j]
  BY <1>2 DEF CommitStart
<1>7. /\ Len(exclusion'[k]) = h + 1
      /\ exclusion'[k][h + 1] = row
      /\ \A n \in 1..h : exclusion'[k][n] = exclusion[k][n]
  <2>1. exclusion[k] \in Seq(ExclusionRow) /\ Len(exclusion[k]) = h
    BY <1>2, <1>3
  <2> HIDE DEF row, k, h
  <2> QED
    BY <2>1, <1>2, <1>6, AppendProperties
<1>8. (h + 1) % 2 = 1
  BY <1>2, <1>3, Parity
<1>9. \A v \in Workers : Holds(v) =>
         /\ KeyFor(v) \in Keys /\ KeyFor(v) # k
         /\ RunOf(v) \in Runs /\ RunOf(v) # r
  <2> SUFFICES ASSUME NEW v \in Workers, Holds(v)
               PROVE  /\ KeyFor(v) \in Keys /\ KeyFor(v) # k
                      /\ RunOf(v) \in Runs /\ RunOf(v) # r
    OBVIOUS
  <2>1. call[v] \in ActiveCall
    BY CallUpdates DEF Holds, Past, Terminating
  <2>2. Len(exclusion[KeyFor(v)]) % 2 = 1
    BY DEF IInv, HoldersLast
  <2>3. KeyFor(v) # k
    <3>1. ASSUME KeyFor(v) = k
          PROVE  h % 2 = 1
      BY <3>1, <2>2, <1>3, Zenon
    <3>2. h % 2 # 1
      BY <1>3
    <3> QED
      BY <3>1, <3>2, Zenon
  <2>4. RunOf(v) \in Runs /\ KeyFor(v) \in Keys
    BY <2>1, RunsAssumption DEF ActiveCall
  <2> QED
    BY <2>3, <2>4
<1>10. \A v \in Workers : v # w => (Holds(v)' <=> Holds(v))
  BY <1>4 DEF Holds
<1>11. ClaimsFree'
  BY <1>4 DEF IInv, ClaimsFree
<1>12. HoldersLast'
  <2> SUFFICES ASSUME NEW v \in Workers, Holds(v)'
               PROVE  /\ runRows'[RunOf(v)'] = <<"started">>
                      /\ Len(exclusion'[KeyFor(v)']) = call'[v].head
                      /\ call'[v].head % 2 = 1
                      /\ exclusion'[KeyFor(v)'][call'[v].head].run = RunOf(v)'
    BY DEF HoldersLast
  <2>1. CASE v = w
    BY <2>1, <1>4, <1>5, <1>7, <1>8
  <2>2. CASE v # w
    <3>1. Holds(v) /\ call'[v] = call[v]
      BY <2>2, <1>4, <1>10
    <3>2. /\ runRows[RunOf(v)] = <<"started">>
          /\ Len(exclusion[KeyFor(v)]) = call[v].head
          /\ call[v].head % 2 = 1
          /\ exclusion[KeyFor(v)][call[v].head].run = RunOf(v)
      BY <3>1 DEF IInv, HoldersLast
    <3>3. /\ runRows'[RunOf(v)] = runRows[RunOf(v)]
          /\ exclusion'[KeyFor(v)] = exclusion[KeyFor(v)]
      BY <3>1, <1>5, <1>6, <1>9
    <3> QED
      BY <3>1, <3>2, <3>3
  <2> QED
    BY <2>1, <2>2
<1>13. OneHolder'
  BY <1>4, <1>9, <1>10 DEF IInv, OneHolder
<1>14. ExclusionsPair'
  <2>1. \A j \in Keys : Paired(exclusion[j])
    BY PairsAre DEF IInv
  <2>2. Paired(exclusion'[k])
    <3>1. exclusion[k] \in Seq(ExclusionRow) /\ Paired(exclusion[k])
      BY <2>1, <1>2
    <3>2. (Len(exclusion[k]) + 1) % 2 = 1
      BY <1>3, <1>8, Zenon
    <3>3. row.kind = (IF (Len(exclusion[k]) + 1) % 2 = 1 THEN "started" ELSE "released")
      BY <3>2
    <3>4. (Len(exclusion[k]) + 1) % 2 # 0
      <4>1. 1 # 0
        OBVIOUS
      <4> QED
        BY <3>2, <4>1, Zenon
    <3> HIDE DEF row
    <3>5. Paired(Append(exclusion[k], row))
      BY <1>2, <3>1, <3>3, <3>4, AppendPairs
    <3> QED
      BY <3>5, <1>6
  <2>3. \A j \in Keys : Paired(exclusion'[j])
    BY <2>1, <2>2, <1>6
  <2> QED
    BY <2>3 DEF ExclusionsPair, WellFormed, Paired
<1>15. Executions'
  <2>1. executed' = executed
    BY DEF CommitStart
  <2>2. executed[r] \in Nat /\ executed[r] <= 1 /\ executed[r] # 1
    BY <1>2, <1>3 DEF IInv, Executions
  <2>0. \A n \in Nat : n <= 1 /\ n # 1 => n = 0
    OBVIOUS
  <2>3. executed[r] = 0
    BY <2>0, <2>2, Zenon
  <2>4. ASSUME NEW q \in Runs
        PROVE  /\ executed[q] <= 1
               /\ executed[q] = 1 => runRows'[q] # <<>> /\ runRows'[q][1] = "started"
    BY <2>2, <1>5 DEF IInv, Executions
  <2>5. ASSUME NEW v \in Workers, call'[v].pc = "started"
        PROVE  executed[call'[v].run] = 0
    <3>1. CASE v = w
      BY <3>1, <2>3, <1>4
    <3>2. CASE v # w
      BY <3>2, <2>5, <1>4 DEF IInv, Executions
    <3> QED
      BY <3>1, <3>2
  <2> QED
    BY <2>1, <2>4, <2>5 DEF Executions
<1>16. DueKept'
  BY <1>3, <1>4 DEF IInv, DueKept, CommitStart
<1> QED
  BY <1>11, <1>12, <1>13, <1>14, <1>15, <1>16 DEF IInv

\* Every step of a worker keeps the inductive invariant.
LEMMA RunKeeps ==
  ASSUME TypeOK, IInv, NEW w \in Workers, Run(w)
  PROVE  IInv'
<1> USE DEF TypeOK, At, RunOf, KeyFor, Run, Goto, durable
<1>1. call[w] \in ActiveCall
  BY CallUpdates
<1>2. /\ call'[w].pc = "running" /\ call'[w].run = RunOf(w) /\ call'[w].head = call[w].head
      /\ \A v \in Workers : v # w => call'[v] = call[v]
  BY <1>1 DEF ActiveCall
<1>3. Holds(w) /\ \A v \in Workers : Holds(v)' <=> Holds(v)
  BY <1>2 DEF Holds, Past
<1>4. RunOf(w) \in Runs /\ executed[RunOf(w)] = 0 /\ runRows[RunOf(w)] = <<"started">>
  BY <1>1, <1>3 DEF ActiveCall, IInv, Executions, HoldersLast
<1>5. ClaimsFree' /\ DueKept'
  BY <1>2 DEF IInv, ClaimsFree, DueKept
<1>6. HoldersLast'
  <2> SUFFICES ASSUME NEW v \in Workers, Holds(v)'
               PROVE  /\ runRows'[RunOf(v)'] = <<"started">>
                      /\ Len(exclusion'[KeyFor(v)']) = call'[v].head
                      /\ call'[v].head % 2 = 1
                      /\ exclusion'[KeyFor(v)'][call'[v].head].run = RunOf(v)'
    BY DEF HoldersLast
  <2>1. /\ runRows[RunOf(v)] = <<"started">>
        /\ Len(exclusion[KeyFor(v)]) = call[v].head
        /\ call[v].head % 2 = 1
        /\ exclusion[KeyFor(v)][call[v].head].run = RunOf(v)
    BY <1>3 DEF IInv, HoldersLast
  <2>2. call'[v].run = call[v].run /\ call'[v].head = call[v].head
    BY <1>2
  <2> QED
    BY <2>1, <2>2
<1>7. OneHolder'
  <2>1. \A v \in Workers : call'[v].run = call[v].run
    BY <1>2
  <2> QED
    BY <2>1, <1>3 DEF IInv, OneHolder
<1>8. ExclusionsPair'
  BY DEF IInv, ExclusionsPair, WellFormed
<1>9. Executions'
  <2>1. \A q \in Runs : executed'[q] = IF q = RunOf(w) THEN 1 ELSE executed[q]
    BY <1>4
  <2>2. <<"started">> # <<>> /\ <<"started">>[1] = "started"
    OBVIOUS
  <2>3. \A q \in Runs : /\ executed'[q] <= 1
                        /\ executed'[q] = 1 => runRows'[q] # <<>> /\ runRows'[q][1] = "started"
    BY <2>1, <2>2, <1>4 DEF IInv, Executions
  <2>4. \A v \in Workers : call'[v].pc = "started" => executed'[call'[v].run] = 0
    <3> SUFFICES ASSUME NEW v \in Workers, call'[v].pc = "started"
                 PROVE  executed'[call'[v].run] = 0
      OBVIOUS
    <3>1. v # w /\ call'[v] = call[v] /\ call[v] \in ActiveCall /\ Holds(v)
      BY <1>2, CallUpdates DEF Holds, Past, IdleCall
    <3>2. call[v].run # RunOf(w)
      BY <3>1, <1>3 DEF IInv, OneHolder
    <3> QED
      BY <3>1, <3>2, <2>1 DEF ActiveCall, IInv, Executions
  <2> QED
    BY <2>3, <2>4 DEF Executions
<1> QED
  BY <1>5, <1>6, <1>7, <1>8, <1>9 DEF IInv

(***************************************************************************)
(* A terminal batch ends what its worker alone held, and the row it        *)
(* releases the exclusion with names the run of the last start.            *)
(***************************************************************************)
LEMMA TerminalKeeps ==
  ASSUME TypeOK, IInv, NEW w \in Workers, CommitTerminal(w)
  PROVE  IInv'
<1> USE DEF TypeOK, At, RunOf, KeyFor
<1> DEFINE r == RunOf(w)  k == KeyFor(w)  h == call[w].head
           row == [kind |-> "released", run |-> r]
           rows == TerminalRows(call[w].pc)
<1>1. call[w] \in ActiveCall /\ Holds(w) /\ call[w].pc \in Terminating
  BY CallUpdates DEF CommitTerminal, Holds, Past, Terminating
<1>2. r \in Runs /\ k \in Keys /\ h \in Nat /\ row \in ExclusionRow /\ rows \in Seq(RunKinds)
  BY <1>1, RunsAssumption, TerminalRowsType DEF ActiveCall, ExclusionRow
<1>3. /\ runRows[r] = <<"started">> /\ Len(exclusion[k]) = h
      /\ h % 2 = 1 /\ exclusion[k][h].run = r
  BY <1>1 DEF IInv, HoldersLast
<1>4. /\ call'[w] = IdleCall
      /\ \A v \in Workers : v # w => call'[v] = call[v]
  BY DEF CommitTerminal
<1>5. /\ runRows'[r] = <<"started">> \o rows
      /\ \A q \in Runs : q # r => runRows'[q] = runRows[q]
  BY <1>2, <1>3 DEF CommitTerminal
<1>6. /\ exclusion'[k] = Append(exclusion[k], row)
      /\ \A j \in Keys : j # k => exclusion'[j] = exclusion[j]
  BY <1>2 DEF CommitTerminal
<1>7. UNCHANGED <<clock, executed>>
  BY DEF CommitTerminal
<1>8. \A v \in Workers : Holds(v)' => v # w /\ Holds(v) /\ call'[v] = call[v]
  BY <1>4 DEF Holds, Past, Terminating, IdleCall
<1>9. ASSUME NEW v \in Workers, Holds(v)'
      PROVE  /\ RunOf(v) \in Runs /\ RunOf(v) # r
             /\ KeyFor(v) \in Keys /\ KeyFor(v) # k
  <2>1. v # w /\ Holds(v) /\ call[v] \in ActiveCall
    BY <1>8, <1>9, CallUpdates DEF Holds, Past, Terminating
  <2>2. KeyFor(v) # k
    BY <1>1, <2>1 DEF IInv, OneHolder
  <2> QED
    BY <2>1, <2>2, RunsAssumption DEF ActiveCall
<1>10. ClaimsFree' /\ DueKept'
  <2>1. ClaimsFree'
    <3> SUFFICES ASSUME NEW v \in Workers, call'[v].pc = "claiming"
                 PROVE  call'[v].head % 2 = 0
      BY DEF ClaimsFree
    <3>1. v # w
      BY <1>4 DEF IdleCall
    <3>2. call'[v] = call[v]
      BY <1>4, <3>1
    <3>3. call[v].pc = "claiming" => call[v].head % 2 = 0
      BY DEF IInv, ClaimsFree
    <3> QED
      BY ONLY <3>2, <3>3, call'[v].pc = "claiming"
  <2>2. DueKept'
    <3>1. ASSUME NEW v \in Workers, call'[v].pc \in {"due", "claiming", "started"}
          PROVE  v # w /\ call'[v] = call[v]
      BY <1>4, <3>1 DEF IdleCall
    <3>2. \A v \in Workers :
             call[v].pc \in {"due", "claiming", "started"} => DueAt[RunOf(v)] <= clock
      BY DEF IInv, DueKept
    <3> QED
      BY <1>7, <3>1, <3>2 DEF DueKept
  <2> QED
    BY <2>1, <2>2
<1>11. HoldersLast'
  <2> SUFFICES ASSUME NEW v \in Workers, Holds(v)'
               PROVE  /\ runRows'[RunOf(v)'] = <<"started">>
                      /\ Len(exclusion'[KeyFor(v)']) = call'[v].head
                      /\ call'[v].head % 2 = 1
                      /\ exclusion'[KeyFor(v)'][call'[v].head].run = RunOf(v)'
    BY DEF HoldersLast
  <2>1. Holds(v) /\ call'[v] = call[v]
    BY <1>8
  <2>2. /\ runRows'[RunOf(v)] = runRows[RunOf(v)]
        /\ exclusion'[KeyFor(v)] = exclusion[KeyFor(v)]
    <3>1. /\ RunOf(v) \in Runs /\ RunOf(v) # r
          /\ KeyFor(v) \in Keys /\ KeyFor(v) # k
      BY <1>9
    <3> QED
      BY <3>1, <1>5, <1>6
  <2> QED
    BY <2>1, <2>2 DEF IInv, HoldersLast
<1>12. OneHolder'
  BY <1>8 DEF IInv, OneHolder
<1>13. ExclusionsPair'
  <2>1. \A j \in Keys : Paired(exclusion[j])
    BY PairsAre DEF IInv
  <2>2. Paired(exclusion'[k])
    <3>1. exclusion[k] \in Seq(ExclusionRow) /\ Paired(exclusion[k])
      BY <2>1, <1>2
    <3>2. (Len(exclusion[k]) + 1) % 2 = 0
      <4>1. (h + 1) % 2 = 0
        BY <1>2, <1>3, Parity
      <4> QED
        BY <4>1, <1>3, Zenon
    <3>3. (Len(exclusion[k]) + 1) % 2 # 1
      <4>1. 0 # 1
        OBVIOUS
      <4> QED
        BY <3>2, <4>1, Zenon
    <3>4. row.kind = (IF (Len(exclusion[k]) + 1) % 2 = 1 THEN "started" ELSE "released")
      BY <3>3
    <3>5. row.run = exclusion[k][Len(exclusion[k])].run
      BY <1>3
    <3> HIDE DEF row
    <3>6. Paired(Append(exclusion[k], row))
      BY <1>2, <3>1, <3>4, <3>5, AppendPairs
    <3> QED
      BY <3>6, <1>6
  <2>3. \A j \in Keys : Paired(exclusion'[j])
    BY <2>1, <2>2, <1>6
  <2> QED
    BY <2>3 DEF ExclusionsPair, WellFormed, Paired
<1>14. Executions'
  <2>1. runRows'[r] # <<>> /\ runRows'[r][1] = "started"
    <3>1. <<"started">> \in Seq(RunKinds) /\ Len(<<"started">>) = 1
      BY DEF RunKinds
    <3>2. /\ Len(<<"started">> \o rows) = 1 + Len(rows)
          /\ \A i \in 1..(1 + Len(rows)) :
                (<<"started">> \o rows)[i] = IF i <= 1 THEN <<"started">>[i] ELSE rows[i - 1]
      BY <3>1, <1>2, ConcatProperties
    <3>3. Len(rows) \in Nat
      BY <1>2, LenProperties
    <3> HIDE DEF rows
    <3>4. (<<"started">> \o rows)[1] = "started" /\ Len(<<"started">> \o rows) # 0
      BY <3>2, <3>3
    <3>5. Len(<<>>) = 0
      OBVIOUS
    <3> QED
      BY <3>4, <3>5, <1>5
  <2>2. ASSUME NEW q \in Runs
        PROVE  /\ executed[q] <= 1
               /\ executed[q] = 1 => runRows'[q] # <<>> /\ runRows'[q][1] = "started"
    BY <2>1, <1>5 DEF IInv, Executions
  <2>3. ASSUME NEW v \in Workers, call'[v].pc = "started"
        PROVE  executed[call'[v].run] = 0
    <3>1. v # w /\ call'[v] = call[v]
      BY <2>3, <1>4 DEF IdleCall
    <3> QED
      BY <2>3, <3>1 DEF IInv, Executions
  <2> QED
    BY <2>2, <2>3, <1>7 DEF Executions
<1> QED
  BY <1>10, <1>11, <1>12, <1>13, <1>14 DEF IInv

-----------------------------------------------------------------------------
(***************************************************************************)
(* Every step keeps the invariant.                                         *)
(***************************************************************************)
LEMMA InvStep == TypeOK /\ IInv /\ [Next]_vars => IInv'
<1> SUFFICES ASSUME TypeOK, IInv, [Next]_vars
             PROVE  IInv'
  OBVIOUS
<1>1. CASE Tick
  BY <1>1, TickKeeps
<1>2. ASSUME NEW w \in Workers, BeginDue(w) \/ BeginSkip(w)
      PROVE  IInv'
  <2>1. PICK r \in Runs, label \in {"due", "skipping"} :
           Begin(w, r, label) /\ (label = "due" => DueAt[r] <= clock)
    BY <1>2 DEF BeginDue, BeginSkip
  <2> DEFINE c == [pc |-> label, run |-> r, head |-> 0]
  <2>2. c \in ActiveCall /\ c.pc \notin Past \cup {"started", "claiming"} /\ c.run = r
    BY DEF ActiveCall, Past, Terminating
  <2>3. c.pc = "due" => DueAt[c.run] <= clock
    BY <2>1
  <2>4. call' = [call EXCEPT ![w] = c] /\ UNCHANGED <<clock, durable, executed>>
    BY <2>1 DEF Begin, durable
  <2> HIDE DEF c
  <2> QED
    BY <2>2, <2>3, <2>4, CallMoves
<1>3. ASSUME NEW w \in Workers, Leave(w)
      PROVE  IInv'
  <2>1. IdleCall.pc \notin Past \cup {"started", "claiming", "due"}
    BY DEF IdleCall, Past, Terminating
  <2>2. call' = [call EXCEPT ![w] = IdleCall] /\ UNCHANGED <<clock, durable, executed>>
    BY <1>3 DEF Leave
  <2> QED
    BY <2>1, <2>2, CallMoves
<1>8. ASSUME NEW w \in Workers, Die(w)
      PROVE  IInv'
  <2> DEFINE c == [call[w] EXCEPT !.pc = "lost", !.head = 0]
  <2>1. call[w] \in ActiveCall
    BY <1>8, CallUpdates DEF Die, TypeOK
  <2>2. c \in ActiveCall /\ c.pc = "lost"
    BY <2>1 DEF ActiveCall
  <2>3. call' = [call EXCEPT ![w] = c] /\ UNCHANGED <<clock, durable, executed>>
    BY <1>8 DEF Die, durable
  <2> HIDE DEF c
  <2>4. c.pc \notin Past \cup {"started", "claiming", "due"}
    BY <2>2 DEF Past, Terminating
  <2> QED
    BY <2>2, <2>3, <2>4, CallMoves
<1>4. ASSUME NEW w \in Workers, ReadExclusion(w)
      PROVE  IInv'
  <2> DEFINE k == KeyFor(w)  h == Len(exclusion[k])
             c == [call[w] EXCEPT !.pc = "claiming", !.head = h]
  <2>1. call[w] \in ActiveCall /\ call[w].pc = "due"
    BY <1>4, CallUpdates DEF ReadExclusion, At, TypeOK
  <2>2. k \in Keys /\ exclusion[k] \in Seq(ExclusionRow)
    BY <2>1, RunsAssumption DEF ActiveCall, KeyFor, RunOf, TypeOK
  <2>3. h \in Nat
    BY <2>2, LenProperties
  <2>4. h % 2 = 0
    <3>1. CASE h = 0
      BY <3>1
    <3>2. CASE h # 0
      <4>1. h \in 1..h /\ exclusion[k] # <<>>
        BY <3>2, <2>2, <2>3
      <4>2. exclusion[k][h].kind # "started"
        BY <4>1, <1>4 DEF ReadExclusion, ExclusionActive
      <4>3. exclusion[k][h].kind = (IF h % 2 = 1 THEN "started" ELSE "released")
        BY <4>1, <1>4 DEF ReadExclusion, WellFormed
      <4>4. h % 2 # 1
        BY <4>2, <4>3
      <4> HIDE DEF h
      <4> QED
        BY <4>4, <2>3
    <3> QED
      BY <3>1, <3>2
  <2>5. c \in ActiveCall /\ c.pc = "claiming" /\ c.head = h /\ c.run = RunOf(w)
    BY <2>1, <2>3, CallUpdates DEF ActiveCall, RunOf
  <2>6. DueAt[c.run] <= clock
    BY <2>1, <2>5 DEF IInv, DueKept
  <2>7. call' = [call EXCEPT ![w] = c] /\ UNCHANGED <<clock, durable, executed>>
    BY <1>4 DEF ReadExclusion, durable
  <2> HIDE DEF c, h
  <2>8. c.pc # "started" /\ c.pc \notin Past
    BY <2>5 DEF Past, Terminating
  <2> QED
    BY <2>4, <2>5, <2>6, <2>7, <2>8, CallMoves
<1>5. ASSUME NEW w \in Workers, SkipStarted(w) \/ Complete(w) \/ Fail(w)
      PROVE  IInv'
  <2>1. PICK label \in Terminating : Goto(w, label) /\ UNCHANGED <<clock, durable, executed>>
    BY <1>5 DEF SkipStarted, Complete, Fail, Return, Terminating
  <2>2. call[w] \in ActiveCall /\ Holds(w)
    BY <1>5, CallUpdates
    DEF SkipStarted, Complete, Fail, Return, At, Holds, Past, TypeOK
  <2> DEFINE c == [call[w] EXCEPT !.pc = label]
  <2>3. c \in ActiveCall /\ c.pc = label /\ c.run = RunOf(w) /\ c.head = call[w].head
    BY <2>2, CallUpdates DEF ActiveCall, RunOf, Holds, Past, Terminating
  <2>4. label \notin {"started", "claiming", "due"}
    BY DEF Terminating
  <2>5. call' = [call EXCEPT ![w] = c]
    BY <2>1 DEF Goto
  <2> HIDE DEF c
  <2> QED
    BY <2>1, <2>2, <2>3, <2>4, <2>5, CallMoves
<1>6. CASE UNCHANGED vars
  BY <1>6 DEF vars, durable, At, RunOf, KeyFor, IInv, ClaimsFree, HoldersLast, OneHolder, Holds,
              ExclusionsPair, WellFormed, Executions, DueKept
<1>7. ASSUME NEW w \in Workers, CommitSkip(w) \/ CommitStart(w) \/ Run(w) \/ CommitTerminal(w)
      PROVE  IInv'
  <2>1. CASE CommitSkip(w)
    BY <2>1, SkipKeeps
  <2>2. CASE CommitStart(w)
    BY <2>2, StartKeeps
  <2>3. CASE Run(w)
    BY <2>3, RunKeeps
  <2>4. CASE CommitTerminal(w)
    BY <2>4, TerminalKeeps
  <2> QED
    BY <1>7, <2>1, <2>2, <2>3, <2>4
<1> QED
  BY <1>1, <1>2, <1>3, <1>4, <1>5, <1>6, <1>7, <1>8 DEF Next, Step, Excluded, Conflict

(***************************************************************************)
(* The inductive invariant holds.                                          *)
(***************************************************************************)
THEOREM InvariantHolds == Spec => [](TypeOK /\ IInv)
<1> QED
  BY TypeInit, TypeStep, InvInit, InvStep, PTL DEF Spec

(***************************************************************************)
(* However many workers compete for a run and die, job.run is called for   *)
(* it at most once, and only after its start is in the log.                *)
(***************************************************************************)
THEOREM ExecutedAtMostOnceHolds == Spec => []ExecutedAtMostOnce
<1>1. IInv => ExecutedAtMostOnce
  BY DEF IInv, Executions, ExecutedAtMostOnce
<1> QED
  BY <1>1, InvariantHolds, PTL

(***************************************************************************)
(* Jobs of one strategy and instrument never overlap.                      *)
(***************************************************************************)
THEOREM MutualExclusionHolds == Spec => []MutualExclusion
<1>1. IInv => MutualExclusion
  BY DEF IInv, OneHolder, Holds, Past, MutualExclusion, At
<1> QED
  BY <1>1, InvariantHolds, PTL

(***************************************************************************)
(* The scheduler accepts every exclusion aggregate that it writes: none is *)
(* blocked for good by its own rows.                                       *)
(***************************************************************************)
THEOREM ExclusionsPairHold == Spec => []ExclusionsPair
<1>1. IInv => ExclusionsPair
  BY DEF IInv
<1> QED
  BY <1>1, InvariantHolds, PTL

(***************************************************************************)
(* A job is called no earlier than due and no later than the limit allows. *)
(***************************************************************************)
THEOREM NeverRunLateHolds == Spec => NeverRunLate
<1> DEFINE InTime == \A r \in Runs : executed'[r] # executed[r] =>
                        DueAt[r] <= clock /\ NotTooLate(r)
<1>1. TypeOK /\ IInv /\ [Next]_vars => [InTime]_vars
  <2> SUFFICES ASSUME TypeOK, IInv, Next, NEW r \in Runs, executed'[r] # executed[r]
               PROVE  DueAt[r] <= clock /\ NotTooLate(r)
    OBVIOUS
  <2>1. PICK w \in Workers : Run(w)
    BY DEF Next, Tick, Step, BeginDue, BeginSkip, Begin, CommitSkip, ReadExclusion, CommitStart,
           SkipStarted, Complete, Fail, Return, CommitTerminal, Excluded, Conflict, Die, Leave
  <2>2. r = RunOf(w)
    BY <2>1 DEF Run, TypeOK
  <2> QED
    BY <2>1, <2>2 DEF Run, At, RunOf, IInv, DueKept
<1> QED
  BY <1>1, InvariantHolds, PTL DEF Spec, NeverRunLate
=============================================================================
