----------------------------- MODULE PaperReplay -----------------------------
(***************************************************************************)
(* PaperBroker.rehydrate_durable and the _replay_ functions of             *)
(* execution/paper.py: each committed group of rows is classified, turned  *)
(* back into the input of a kernel, run again, and refused unless the      *)
(* kernel yields the same rows and the checkpoint that closed the group.   *)
(*                                                                         *)
(* A log is a sequence of groups [rows, checkpoint].  The digests of the   *)
(* code chain a checkpoint to all that precedes it; here its place in the  *)
(* log does.                                                               *)
(***************************************************************************)
EXTENDS PaperKernel

Kinds(rows) == {rows[n].kind : n \in DOMAIN rows}

\* _operation_kind and _replay_operation_kind
OperationKind(rows) ==
    LET Has(kinds) == Kinds(rows) \cap kinds # {}
    IN IF Has({"submitted"}) THEN "SUBMIT"
       ELSE IF Has({"observed", "duplicate_snapshot"}) THEN "MARKET"
       ELSE IF Has({"duplicate", "duplicate_conflict"}) THEN "IDEMPOTENCY"
       ELSE IF Has({"fill"}) THEN "RECONCILIATION"
       ELSE "RESOLUTION"

\* _checkpoint_payload and _next_state_digest: what a checkpoint says of the state
\* it closes, the statuses of the orders not included.
Checkpoint(s, kind, at) ==
    [kind |-> kind, at |-> at, events |-> s.events, ops |-> s.ops, fillSeq |-> s.fillSeq,
     orders |-> Cardinality(DOMAIN s.orders), known |-> Cardinality(s.known),
     seen |-> s.seen, latest |-> s.latest, lastKey |-> s.lastKey,
     ledger |-> s.ledger, fills |-> [n \in DOMAIN s.fills |-> s.fills[n].id]]

\* The counters _commit moves before it appends: one row more than the
\* activities, for the checkpoint.
Counted(s, rows) == [s EXCEPT !.events = @ + Len(rows) + 1, !.ops = @ + 1]

\* _validate_state_limits, which looks at the index of active orders too.
WithinLimits(s, rows) ==
    /\ Len(rows) <= MaxGroup
    /\ Cardinality(DOMAIN s.orders) <= MaxSessionOrders
    /\ \A i \in Instruments : \A o \in s.active[i] :
          /\ o \in DOMAIN s.orders
          /\ s.orders[o].intent.instrument = i
          /\ Lifecycle!Executable(s.orders[o].status)
    /\ MapThenSumSet(LAMBDA i : Cardinality(s.active[i]) + Cardinality(s.unknown[i]),
                     Instruments) <= Cardinality(DOMAIN s.orders)

-----------------------------------------------------------------------------
(* _reduce_activity_group *)

SubmitAgain(s, rows) ==
    LET in == rows[2].intent
        seen == IF rows[1].kind = "submission" THEN rows[1].seen ELSE s.seen[in.instrument]
    IN SubmitKernel(s, rows[2].order, in, seen)

ResolveAgain(s, rows) ==
    LET row == Last(rows)
    IN ResolutionKernel(s, row.order, row.to, row.at, Len(rows) = 2)

\* The evidence is rebuilt from the rows: the fills, and their sum on the record.
ReconcileAgain(s, rows) ==
    LET fills == [n \in 1..(Len(rows) - 1) |-> rows[n + 1].fill]
        o == rows[1].order
        Sum(q, f) == q + f.quantity
    IN EvidenceKernel(s, [order |-> o, status |-> rows[1].to, at |-> rows[1].at,
                          filled |-> FoldLeft(Sum, s.orders[o].filled, fills),
                          fills |-> fills])

\* The rows that tell an input of the cohort; no instrument twice.
InputRows(rows) == {n \in DOMAIN rows : rows[n].kind \in {"observed", "duplicate_snapshot"}}
ToldTwice(rows) == \E m, n \in InputRows(rows) :
                      m # n /\ rows[m].instrument = rows[n].instrument

\* The inputs, by instrument.
CohortOf(rows) ==
    LET About(i) == rows[CHOOSE n \in InputRows(rows) : rows[n].instrument = i]
        Input(x) == [instrument |-> x.instrument, duplicate |-> x.kind # "observed",
                     bar |-> IF x.kind = "observed" THEN x.bar ELSE NoBar]
        ids == InOrder({rows[n].instrument : n \in InputRows(rows)})
    IN [n \in DOMAIN ids |-> Input(About(ids[n]))]

\* A new bar comes after the last one of its instrument; a duplicate is that one.
InputRefused(s, input, at) ==
    LET seen == s.seen[input.instrument]
    IN seen = Unseen \/ IF input.duplicate THEN seen.at # at ELSE at <= seen.at

\* The global order of events: by instant, then instrument.
KeyRegresses(s, inputs, at) ==
    \E n \in DOMAIN inputs :
        /\ IsNew(inputs[n])
        /\ \/ at < s.lastKey.at
           \/ at = s.lastKey.at /\ inputs[n].instrument <= s.lastKey.instrument

CohortRefused(s, inputs, at) ==
    \/ {inputs[n].instrument : n \in DOMAIN inputs} # Relevant(s)
    \/ \E n \in DOMAIN inputs : InputRefused(s, inputs[n], at)
    \/ KeyRegresses(s, inputs, at)

MarketAgain(s, rows) ==
    LET inputs == CohortOf(rows)
        at == Last(rows).at
    IN IF ToldTwice(rows) \/ inputs = <<>> \/ CohortRefused(s, inputs, at) THEN Raised(s)
       ELSE MarketKernel(s, inputs, at)

Again(s, rows) ==
    CASE OperationKind(rows) = "SUBMIT" -> SubmitAgain(s, rows)
      [] OperationKind(rows) = "MARKET" -> MarketAgain(s, rows)
      [] OperationKind(rows) = "IDEMPOTENCY" ->
             IdempotencyKernel(s, rows[1].order, rows[1].intent)
      [] OperationKind(rows) = "RECONCILIATION" -> ReconcileAgain(s, rows)
      [] OperationKind(rows) = "RESOLUTION" -> ResolveAgain(s, rows)

\* next is the state after the group, counted.
Closes(next, group) ==
    /\ WithinLimits(next, group.rows)
    /\ Checkpoint(next, OperationKind(group.rows), Last(group.rows).at) = group.checkpoint

Accepted(acc, again, group) ==
    LET next == Counted(again.s, group.rows)
    IN IF /\ acc.ok /\ again.ok
          /\ again.rows = group.rows
          /\ acc.at <= group.rows[1].at
          /\ Closes(next, group)
       THEN [ok |-> TRUE, s |-> next, at |-> Last(group.rows).at]
       ELSE [acc EXCEPT !.ok = FALSE]

ReplayGroup(acc, group) == Accepted(acc, Again(acc.s, group.rows), group)

Replay(log) == FoldLeft(ReplayGroup, [ok |-> TRUE, s |-> BlankState, at |-> 0], log)
=============================================================================
