----------------------------- MODULE LiveSafety -----------------------------
(***************************************************************************)
(* The live-order safety protocol: ApprovalService (execution/approval.py),*)
(* Reconciler (execution/reconcile.py), LiveOrderService                   *)
(* (execution/live.py) and the three roles of execution/safety.py through  *)
(* which they write the durable event ledger.                              *)
(*                                                                         *)
(* Everything that survives a crash is a set of rows per aggregate; a row  *)
(* carries the sequence the ledger gave it, which here also stands for its *)
(* event id.  A batch is one step (EventLog.tla).  What a call holds in    *)
(* memory between two reads or writes of the ledger is the record of the   *)
(* thread that runs it, and a crash loses it.                              *)
(***************************************************************************)
EXTENDS Naturals, FiniteSets

CONSTANTS Confirmations,   \* confirmation ids: nonces, never issued twice
          Intents,         \* client intent ids
          Brokers,         \* broker names
          Unavailable,     \* the name in a report on an unreadable provider
          Submitters,      \* threads inside submit_confirmed
          Reconcilers,     \* threads inside read_and_compare
          Operators,       \* threads inside clear_kill_switch
          Nobody,          \* placeholder for an empty field of a thread
          ReconMaxAge,     \* RECONCILIATION_MAX_AGE, in clock ticks
          RiskTTL,         \* lifetime of a risk decision
          ConfirmLifetime, \* DEFAULT_CONFIRMATION_LIFETIME, the longest allowed
          MayCrash,        \* whether a submitting process may die or its store fail
          MaxTime,         \* bound: ticks of the clock
          MaxReports,      \* bound: reconciliation reports
          MaxLedger        \* bound: fills applied to the ledger

ASSUME NamesAssumption == Unavailable \notin Brokers
ASSUME WindowsAssumption ==
    ReconMaxAge \in Nat /\ RiskTTL \in Nat /\ ConfirmLifetime \in Nat
ASSUME CrashAssumption == MayCrash \in BOOLEAN

VARIABLES
    clock,       \* the injected Clock
    ledger,      \* version of the PortfolioLedger, standing for its hashes
    nextSeq,     \* event_sequence.next_sequence
    issued,      \* confirmation.issued rows
    consumed,    \* live.confirmation_consumed rows
    reports,     \* aggregate live-reconciliation
    kills,       \* aggregate live-kill-switch
    interlocks,  \* aggregate live-submission-interlock
    sub,         \* sub[w]: one submit_confirmed call
    rec,         \* rec[r]: one read_and_compare call
    clr,         \* clr[o]: one clear_kill_switch call
    calls,       \* history: how often broker.submit was called for a confirmation
    accepted,    \* intents that became orders at the provider
    transit      \* requests the provider may still accept

durable == <<nextSeq, issued, consumed, reports, kills, interlocks>>
provider == <<calls, accepted, transit>>
vars == <<clock, ledger, durable, sub, rec, clr, provider>>

Seqs == Nat \ {0}
IssuedRow == [seq : Seqs, conf : Confirmations, intent : Intents, broker : Brokers,
              at : Nat, expires : Nat, decided : Nat, portfolio : Nat]
ConsumedRow == [seq : Seqs, conf : Confirmations]
\* seen is a history field: nextSeq when the provider was read.
ReportRow == [seq : Seqs, healthy : BOOLEAN, broker : Brokers \cup {Unavailable},
              ledger : Nat, at : Nat, seen : Nat]
\* An activation has no marker; a clear carries activation_sequence.
KillRow == [seq : Seqs, kind : {"activated", "cleared"}, marker : Nat]
\* at is occurred_at of a start, which no code reads of a resolution.
InterlockRow == [seq : Seqs, kind : {"started", "acknowledged", "unknown"},
                 conf : Confirmations, intent : Intents, broker : Brokers, at : Nat]

\* A call of submit_confirmed before and after its claim is durable.
BeforeClaim == {"entered", "admitted", "fenced", "claiming"}
AfterClaim == {"claimed", "querying", "acknowledging", "committingAck", "unknown",
               "committingUnknown"}

IdleSub == [pc |-> "idle", conf |-> Nobody, intent |-> Nobody, broker |-> Nobody,
            report |-> 0, kill |-> 0, lock |-> 0, at |-> 0]
IdleRec == [pc |-> "idle", broker |-> Nobody, observed |-> 0, seen |-> 0,
            at |-> 0, ledger |-> 0, healthy |-> FALSE]
IdleClr == [pc |-> "idle", report |-> 0, kill |-> 0, lock |-> 0, marker |-> 0]

SubCall == {IdleSub} \cup
    [pc : BeforeClaim \cup AfterClaim, conf : Confirmations, intent : Intents,
     broker : Brokers, report : Nat, kill : Nat, lock : Nat, at : Nat]
RecCall == {IdleRec} \cup
    [pc : {"observed", "compared"}, broker : Brokers \cup {Unavailable},
     observed : Nat, seen : Nat, at : Nat, ledger : Nat, healthy : BOOLEAN]
ClrCall == {IdleClr} \cup
    [pc : {"clearing"}, report : Nat, kill : Nat, lock : Nat, marker : Nat]

-----------------------------------------------------------------------------
(* Reading an aggregate *)

\* h is the sequence of the last row, 0 when there is none.
HeadIs(rows, h) ==
    \/ h = 0 /\ rows = {}
    \/ \E x \in rows : x.seq = h /\ \A y \in rows : y.seq <= h

\* The row a replay loop has seen just before x.
Before(rows, x) == {y \in rows : /\ y.seq < x.seq
                                 /\ \A z \in rows : z.seq < x.seq => z.seq <= y.seq}

Activations == {k \in kills : k.kind = "activated"}
LatestActivation(s) ==
    {a \in Activations : a.seq < s /\ \A b \in Activations : b.seq < s => b.seq <= a.seq}
Ends(rows, kind) == \E x \in rows : x.kind = kind /\ \A y \in rows : y.seq <= x.seq

\* reconcile.py:_kill_rows_active.  A clear that does not name the latest
\* activation is malformed and keeps the switch active for good.
KillRowMalformed(k) ==
    /\ k.kind = "cleared"
    /\ ~ \E a \in LatestActivation(k.seq) : a.seq = k.marker
\* Mutant of KillRowsActive: no clear is ever seen.
KillRowsEverActive == Activations # {}
KillRowsActive == \/ \E k \in kills : KillRowMalformed(k)
                  \/ Ends(kills, "activated")

\* safety.py:_kill_active also wants a healthy report between the two.
ClearUnsupported(k) ==
    /\ k.kind = "cleared"
    /\ ~ \E a \in LatestActivation(k.seq), r \in reports :
           r.healthy /\ a.seq = k.marker /\ a.seq < r.seq /\ r.seq < k.seq
\* Mutant of KillActive: a healthy report ends an activation by itself.
KillActiveUntilHealthy ==
    /\ Ends(kills, "activated")
    /\ \A r \in reports : r.healthy => \E a \in Activations : r.seq <= a.seq
KillActive == \/ \E k \in kills : ClearUnsupported(k)
              \/ Ends(kills, "activated")

\* reconcile.py:_interlock_rows_active, which pairs rows by submission id.
Resolved(x) == x.kind # "started"
InterlockMalformed(x) ==
    IF Resolved(x)
    THEN \/ ~ \E s \in interlocks : ~ Resolved(s) /\ s.conf = x.conf /\ s.seq < x.seq
         \/ \E y \in interlocks : Resolved(y) /\ y.conf = x.conf /\ y.seq < x.seq
    ELSE \E s \in interlocks : ~ Resolved(s) /\ s.conf = x.conf /\ s.seq < x.seq
Unresolved == {s \in interlocks : /\ ~ Resolved(s)
                                  /\ ~ \E y \in interlocks : Resolved(y) /\ y.conf = s.conf}
InterlockRowsActive == (\E x \in interlocks : InterlockMalformed(x)) \/ Unresolved # {}

\* safety.py:_interlock_active, which wants starts and resolutions to alternate.
OutOfTurn(x) ==
    LET prior == Before(interlocks, x)
    IN IF Resolved(x) THEN ~ \E p \in prior : ~ Resolved(p) /\ p.conf = x.conf
                      ELSE \E p \in prior : ~ Resolved(p)
InterlockActive == \/ \E x \in interlocks : OutOfTurn(x)
                   \/ Ends(interlocks, "started")

-----------------------------------------------------------------------------
(* Gates *)

\* approval.py:_validate_risk, live.py:_require_risk and _require_snapshot: one
\* freshness window stands for those of the decision, the intent and the quote.
RiskCurrent(row) == row.decided <= clock /\ clock < row.decided + RiskTTL
\* live.py:_require_risk: the decision is also about the ledger as it is.
RiskRequired(row) == RiskCurrent(row) /\ row.portfolio = ledger

\* ApprovalService.verify: the fingerprint binds the confirmation to one intent,
\* one risk decision (hence its portfolio) and one broker.
\* Mutants of Verified: the expiry is forgotten; the broker is not bound.
VerifiedForGood(c, i, b) ==
    \E row \in issued : /\ row.conf = c /\ row.intent = i /\ row.broker = b
                        /\ row.at <= clock
                        /\ RiskCurrent(row)
VerifiedAnyBroker(c, i, b) ==
    \E row \in issued : /\ row.conf = c /\ row.intent = i
                        /\ row.at <= clock /\ clock < row.expires
                        /\ RiskCurrent(row)
Verified(c, i, b) ==
    \E row \in issued : /\ row.conf = c /\ row.intent = i /\ row.broker = b
                        /\ row.at <= clock /\ clock < row.expires
                        /\ RiskCurrent(row)

RecentAt(r, instant) == r.at <= instant /\ instant - r.at <= ReconMaxAge
Recent(r) == RecentAt(r, clock)

\* Reconciler.is_current_healthy, for the report with sequence s.
CurrentHealthy(s, b) ==
    \E r \in reports : /\ r.seq = s /\ HeadIs(reports, s)
                       /\ r.healthy /\ r.broker = b /\ r.ledger = ledger
                       /\ Recent(r)

Blocked == KillRowsActive \/ InterlockRowsActive

-----------------------------------------------------------------------------
Init ==
    /\ clock = 0 /\ ledger = 0 /\ nextSeq = 0
    /\ issued = {} /\ consumed = {} /\ reports = {} /\ kills = {} /\ interlocks = {}
    /\ sub = [w \in Submitters |-> IdleSub]
    /\ rec = [r \in Reconcilers |-> IdleRec]
    /\ clr = [o \in Operators |-> IdleClr]
    /\ calls = [c \in Confirmations |-> 0] /\ accepted = {} /\ transit = {}

(* Environment *)

Tick == /\ clock < MaxTime
        /\ clock' = clock + 1
        /\ UNCHANGED <<ledger, durable, sub, rec, clr, provider>>

\* PortfolioLedger.apply_fill, called outside this protocol.
LedgerMoves == /\ ledger < MaxLedger
               /\ ledger' = ledger + 1
               /\ UNCHANGED <<clock, durable, sub, rec, clr, provider>>

\* The provider takes a request whose response the program has given up on.
LateAccept(i) == /\ i \in transit
                 /\ accepted' = accepted \cup {i}
                 /\ transit' = transit \ {i}
                 /\ UNCHANGED <<clock, ledger, durable, sub, rec, clr, calls>>

-----------------------------------------------------------------------------
(* ApprovalService.create *)

\* The append is fenced on an empty aggregate: c has no row yet.
Issue(c) ==
    /\ \A row \in issued : row.conf # c
    /\ \E i \in Intents, b \in Brokers, d \in 0..clock, p \in 0..ledger,
          lifetime \in 1..ConfirmLifetime :
          LET row == [seq |-> nextSeq + 1, conf |-> c, intent |-> i, broker |-> b,
                      at |-> clock, expires |-> clock + lifetime,
                      decided |-> d, portfolio |-> p]
          IN RiskCurrent(row) /\ issued' = issued \cup {row}
    /\ nextSeq' = nextSeq + 1
    /\ UNCHANGED <<clock, ledger, consumed, reports, kills, interlocks,
                   sub, rec, clr, provider>>

-----------------------------------------------------------------------------
(* LiveOrderService.submit_confirmed *)

SubAt(w, label) == sub[w].pc = label
SubGoto(w, label) == sub' = [sub EXCEPT ![w].pc = label]

Leave(w) == /\ sub' = [sub EXCEPT ![w] = IdleSub]
            /\ UNCHANGED <<clock, ledger, durable, rec, clr, provider>>

\* A LiveOrderError before the claim is durable, whichever gate raises it.
Refuse(w) == sub[w].pc \in BeforeClaim /\ Leave(w)

\* The process dies, or the store fails under record_unknown, after the claim.
Crash(w) == /\ MayCrash
            /\ sub[w].pc \in AfterClaim
            /\ Leave(w)

\* The first gates: risk, reconciliation and kill switch.  The preflight and
\* capability gates can only refuse, which leaves no trace.
Enter(w) ==
    /\ SubAt(w, "idle")
    /\ \E row \in issued, i \in Intents, b \in Brokers, r \in reports :
          /\ RiskRequired(row)
          /\ CurrentHealthy(r.seq, b)
          /\ ~ Blocked
          /\ sub' = [sub EXCEPT ![w] = [pc |-> "entered", conf |-> row.conf, intent |-> i,
                        broker |-> b, report |-> r.seq, kill |-> 0, lock |-> 0, at |-> 0]]
    /\ UNCHANGED <<clock, ledger, durable, rec, clr, provider>>

\* ApprovalService.verify and the age of the quote.
Admit(w) ==
    /\ SubAt(w, "entered")
    /\ Verified(sub[w].conf, sub[w].intent, sub[w].broker)
    /\ SubGoto(w, "admitted")
    /\ UNCHANGED <<clock, ledger, durable, rec, clr, provider>>

\* Reconciler.safety_fence: the exact heads under which the claim must commit.
CaptureFence(w) ==
    /\ SubAt(w, "admitted")
    /\ CurrentHealthy(sub[w].report, sub[w].broker)
    /\ ~ Blocked
    /\ \E k \in 0..nextSeq, l \in 0..nextSeq :
          /\ HeadIs(kills, k)
          /\ HeadIs(interlocks, l)
          /\ sub' = [sub EXCEPT ![w] = [@ EXCEPT !.pc = "fenced", !.kill = k, !.lock = l]]
    /\ UNCHANGED <<clock, ledger, durable, rec, clr, provider>>

\* Mutants of FenceHolds: aggregates left out of the fence.
FenceWithoutLock(w) == HeadIs(reports, sub[w].report) /\ HeadIs(kills, sub[w].kill)
FenceOfLock(w) == HeadIs(interlocks, sub[w].lock)
FenceHolds(w) == /\ HeadIs(reports, sub[w].report)
                 /\ HeadIs(kills, sub[w].kill)
                 /\ HeadIs(interlocks, sub[w].lock)
\* Mutant of Unused: the consumption is not looked up.
UnusedUnchecked(c) == TRUE
Unused(c) == \A row \in consumed : row.conf # c

\* The second pass over the gates at claim_instant, and the reads and checks of
\* _LiveRole.claim_and_start.  With the heads as fenced the rows are as fenced,
\* so its four reads may be one.
Claim(w) ==
    /\ SubAt(w, "fenced")
    /\ \A row \in issued : row.conf = sub[w].conf => RiskRequired(row)
    /\ Verified(sub[w].conf, sub[w].intent, sub[w].broker)
    /\ Unused(sub[w].conf)
    /\ FenceHolds(w)
    /\ \E r \in reports : /\ r.seq = sub[w].report /\ r.healthy
                          /\ r.broker = sub[w].broker /\ Recent(r)
    /\ ~ KillActive
    /\ ~ InterlockActive
    /\ sub' = [sub EXCEPT ![w] = [@ EXCEPT !.pc = "claiming", !.at = clock]]
    /\ UNCHANGED <<clock, ledger, durable, rec, clr, provider>>

\* The four rows of the claim, appended while the four heads still hold: audit,
\* consumption, audit, interlock.
CommitClaim(w) ==
    /\ SubAt(w, "claiming")
    /\ FenceHolds(w)
    /\ Unused(sub[w].conf)
    /\ consumed' = consumed \cup {[seq |-> nextSeq + 2, conf |-> sub[w].conf]}
    /\ interlocks' = interlocks \cup
          {[seq |-> nextSeq + 4, kind |-> "started", conf |-> sub[w].conf,
            intent |-> sub[w].intent, broker |-> sub[w].broker, at |-> sub[w].at]}
    /\ nextSeq' = nextSeq + 4
    /\ SubGoto(w, "claimed")
    /\ UNCHANGED <<clock, ledger, issued, reports, kills, rec, clr, provider>>

\* broker.submit.  The response may be a valid acknowledgement, or anything else
\* (an exception, a malformed or terminal order), whatever the provider did.
CallBroker(w) ==
    /\ SubAt(w, "claimed")
    /\ LET i == sub[w].intent
       IN /\ calls' = [calls EXCEPT ![sub[w].conf] = @ + 1]
          /\ \/ /\ accepted' = accepted \cup {i}
                /\ SubGoto(w, "acknowledging")
                /\ UNCHANGED transit
             \/ /\ \/ accepted' = accepted \cup {i} /\ UNCHANGED transit
                   \/ transit' = transit \cup {i} /\ UNCHANGED accepted
                   \/ UNCHANGED <<accepted, transit>>
                /\ SubGoto(w, "querying")
    /\ UNCHANGED <<clock, ledger, durable, rec, clr>>

\* _query_ambiguous: one look-up by client intent id, which may itself fail.
\* Mutant of QueryAmbiguous: an order that is not found counts as submitted.
QueryTrusting(w) ==
    /\ SubAt(w, "querying")
    /\ SubGoto(w, "acknowledging")
    /\ UNCHANGED <<clock, ledger, durable, rec, clr, provider>>
QueryAmbiguous(w) ==
    /\ SubAt(w, "querying")
    /\ \/ sub[w].intent \in accepted /\ SubGoto(w, "acknowledging")
       \/ SubGoto(w, "unknown")
    /\ UNCHANGED <<clock, ledger, durable, rec, clr, provider>>

\* The interlock is active and its last row is this submission's start.
Holds(w) ==
    /\ InterlockActive
    /\ \E x \in interlocks : /\ HeadIs(interlocks, x.seq)
                             /\ x.conf = sub[w].conf /\ x.intent = sub[w].intent

\* _LiveRole.record_acknowledgement, up to its append.
ReadForAck(w) ==
    /\ SubAt(w, "acknowledging")
    /\ \E l \in 0..nextSeq :
          /\ HeadIs(interlocks, l)
          /\ sub' = [sub EXCEPT ![w] =
                [@ EXCEPT !.pc = IF Holds(w) THEN "committingAck" ELSE "unknown", !.lock = l]]
    /\ UNCHANGED <<clock, ledger, durable, rec, clr, provider>>

\* Two rows, fenced on the interlock head.
CommitAck(w) ==
    /\ SubAt(w, "committingAck")
    /\ HeadIs(interlocks, sub[w].lock)
    /\ interlocks' = interlocks \cup
          {[seq |-> nextSeq + 2, kind |-> "acknowledged", conf |-> sub[w].conf,
            intent |-> sub[w].intent, broker |-> sub[w].broker, at |-> 0]}
    /\ nextSeq' = nextSeq + 2
    /\ sub' = [sub EXCEPT ![w] = IdleSub]
    /\ UNCHANGED <<clock, ledger, issued, consumed, reports, kills, rec, clr, provider>>

\* A conflict or a store error turns the acknowledgement into an unknown.
AckFails(w) ==
    /\ SubAt(w, "committingAck")
    /\ SubGoto(w, "unknown")
    /\ UNCHANGED <<clock, ledger, durable, rec, clr, provider>>

\* _LiveRole.record_unknown, up to its append.
ReadForUnknown(w) ==
    /\ SubAt(w, "unknown")
    /\ Holds(w)
    /\ \E l \in 0..nextSeq, k \in 0..nextSeq :
          /\ HeadIs(interlocks, l)
          /\ HeadIs(kills, k)
          /\ sub' = [sub EXCEPT ![w] =
                [@ EXCEPT !.pc = "committingUnknown", !.lock = l, !.kill = k]]
    /\ UNCHANGED <<clock, ledger, durable, rec, clr, provider>>

UnknownFenceHolds(w) == HeadIs(interlocks, sub[w].lock) /\ HeadIs(kills, sub[w].kill)

\* Three rows, fenced on the interlock and the kill-switch heads.
CommitUnknown(w) ==
    /\ SubAt(w, "committingUnknown")
    /\ UnknownFenceHolds(w)
    /\ interlocks' = interlocks \cup
          {[seq |-> nextSeq + 2, kind |-> "unknown", conf |-> sub[w].conf,
            intent |-> sub[w].intent, broker |-> sub[w].broker, at |-> 0]}
    /\ kills' = kills \cup {[seq |-> nextSeq + 3, kind |-> "activated", marker |-> 0]}
    /\ nextSeq' = nextSeq + 3
    /\ sub' = [sub EXCEPT ![w] = IdleSub]
    /\ UNCHANGED <<clock, ledger, issued, consumed, reports, rec, clr, provider>>

\* EventHeadConflict: UNKNOWN_PERSISTENCE_FAILED, and the call is over.
UnknownConflict(w) == SubAt(w, "committingUnknown") /\ ~ UnknownFenceHolds(w) /\ Leave(w)

-----------------------------------------------------------------------------
(* Reconciler.read_and_compare *)

RecAt(r, label) == rec[r].pc = label

\* source(): the provider answers for one broker, or the read raises.
Observe(r) ==
    /\ RecAt(r, "idle")
    /\ Cardinality(reports) < MaxReports
    /\ \E b \in Brokers \cup {Unavailable} :
          rec' = [rec EXCEPT ![r] = [IdleRec EXCEPT !.pc = "observed", !.broker = b,
                                        !.observed = clock, !.seen = nextSeq]]
    /\ UNCHANGED <<clock, ledger, durable, sub, clr, provider>>

\* compare(): a stale or unreadable snapshot is unhealthy; whether a readable one
\* agrees with the ledger is not determined here.
Compare(r) ==
    /\ RecAt(r, "observed")
    /\ \E healthy \in BOOLEAN :
          /\ healthy => /\ rec[r].broker # Unavailable
                        /\ clock - rec[r].observed <= ReconMaxAge
          /\ rec' = [rec EXCEPT ![r] = [@ EXCEPT !.pc = "compared", !.at = clock,
                                                  !.ledger = ledger, !.healthy = healthy]]
    /\ UNCHANGED <<clock, ledger, durable, sub, clr, provider>>

\* _ReconciliationRole.persist_report: unfenced; an unhealthy report activates
\* the kill switch in the same batch.
PersistReport(r) ==
    /\ RecAt(r, "compared")
    /\ reports' = reports \cup
          {[seq |-> nextSeq + 1, healthy |-> rec[r].healthy, broker |-> rec[r].broker,
            ledger |-> rec[r].ledger, at |-> rec[r].at, seen |-> rec[r].seen]}
    /\ IF rec[r].healthy
       THEN nextSeq' = nextSeq + 1 /\ UNCHANGED kills
       ELSE /\ nextSeq' = nextSeq + 2
            /\ kills' = kills \cup {[seq |-> nextSeq + 2, kind |-> "activated", marker |-> 0]}
    /\ rec' = [rec EXCEPT ![r] = IdleRec]
    /\ UNCHANGED <<clock, ledger, issued, consumed, interlocks, sub, clr, provider>>

ReconcilerDies(r) ==
    /\ ~ RecAt(r, "idle")
    /\ rec' = [rec EXCEPT ![r] = IdleRec]
    /\ UNCHANGED <<clock, ledger, durable, sub, clr, provider>>

-----------------------------------------------------------------------------
(* Reconciler.clear_kill_switch *)

\* _ReconciliationRole.clear_kill_switch, up to its append.  Its instant was read
\* before the rows were, so it may lie behind the clock; as all three heads are
\* fenced, its three reads may be one.
ReadForClear(o) ==
    /\ clr[o].pc = "idle"
    /\ ~ InterlockActive
    /\ KillActive
    /\ \E h \in reports, a \in LatestActivation(nextSeq + 1), l \in 0..nextSeq,
          k \in 0..nextSeq, instant \in 0..clock :
          /\ HeadIs(reports, h.seq)
          /\ h.healthy /\ a.seq < h.seq /\ RecentAt(h, instant)
          /\ HeadIs(interlocks, l)
          /\ HeadIs(kills, k)
          /\ clr' = [clr EXCEPT ![o] = [pc |-> "clearing", report |-> h.seq, kill |-> k,
                                        lock |-> l, marker |-> a.seq]]
    /\ UNCHANGED <<clock, ledger, durable, sub, rec, provider>>

ClearFenceHolds(o) == /\ HeadIs(reports, clr[o].report)
                      /\ HeadIs(kills, clr[o].kill)
                      /\ HeadIs(interlocks, clr[o].lock)

\* One row, fenced on all three heads.
CommitClear(o) ==
    /\ clr[o].pc = "clearing"
    /\ ClearFenceHolds(o)
    /\ kills' = kills \cup {[seq |-> nextSeq + 1, kind |-> "cleared",
                             marker |-> clr[o].marker]}
    /\ nextSeq' = nextSeq + 1
    /\ clr' = [clr EXCEPT ![o] = IdleClr]
    /\ UNCHANGED <<clock, ledger, issued, consumed, reports, interlocks,
                   sub, rec, provider>>

\* KillSwitchError, or the death of the process.
ClearFails(o) ==
    /\ clr[o].pc = "clearing"
    /\ clr' = [clr EXCEPT ![o] = IdleClr]
    /\ UNCHANGED <<clock, ledger, durable, sub, rec, provider>>

-----------------------------------------------------------------------------
Submit(w) == \/ Enter(w) \/ Admit(w) \/ CaptureFence(w) \/ Claim(w) \/ CommitClaim(w)
             \/ CallBroker(w) \/ QueryAmbiguous(w)
             \/ ReadForAck(w) \/ CommitAck(w) \/ AckFails(w)
             \/ ReadForUnknown(w) \/ CommitUnknown(w) \/ UnknownConflict(w)
             \/ Refuse(w) \/ Crash(w)
Reconcile(r) == Observe(r) \/ Compare(r) \/ PersistReport(r) \/ ReconcilerDies(r)
Clear(o) == ReadForClear(o) \/ CommitClear(o) \/ ClearFails(o)

Next == \/ Tick \/ LedgerMoves
        \/ \E i \in Intents : LateAccept(i)
        \/ \E c \in Confirmations : Issue(c)
        \/ \E w \in Submitters : Submit(w)
        \/ \E r \in Reconcilers : Reconcile(r)
        \/ \E o \in Operators : Clear(o)

Spec == Init /\ [][Next]_vars

\* What an observer of the store and the broker sees (LiveSubmission.tla).
Submission == INSTANCE LiveSubmission WITH
    confirmed <- {row.conf : row \in issued},
    used      <- {row.conf : row \in consumed},
    open      <- {s.conf : s \in Unresolved},
    called    <- {c \in Confirmations : calls[c] > 0},
    stopped   <- KillActive

-----------------------------------------------------------------------------
(* Properties *)

TypeOK ==
    /\ clock \in Nat /\ ledger \in Nat /\ nextSeq \in Nat
    /\ issued \subseteq IssuedRow
    /\ consumed \subseteq ConsumedRow
    /\ reports \subseteq ReportRow
    /\ kills \subseteq KillRow
    /\ interlocks \subseteq InterlockRow
    /\ sub \in [Submitters -> SubCall]
    /\ rec \in [Reconcilers -> RecCall]
    /\ clr \in [Operators -> ClrCall]
    /\ calls \in [Confirmations -> Nat]
    /\ accepted \subseteq Intents /\ transit \subseteq Intents

(***************************************************************************)
(* At most one live submission is unresolved, whichever threads and        *)
(* processes run submit_confirmed concurrently and wherever they die: the  *)
(* claim of safety.py:claim_and_start is fenced on the interlock head.     *)
(***************************************************************************)
SingleFlight == \A s, t \in Unresolved : s = t

(***************************************************************************)
(* A broker is called at most once per confirmation, across threads and    *)
(* restarts (README: the local confirmation must be unused).               *)
(***************************************************************************)
OneCallPerConfirmation == \A c \in Confirmations : calls[c] <= 1

(***************************************************************************)
(* Every broker call is for the intent and broker of one confirmation, the *)
(* pair that was confirmed and the pair that was claimed, and the start of *)
(* that claim is still the unresolved one in the store.                    *)
(***************************************************************************)
AuthorisedCall ==
    [][\A c \in Confirmations : calls'[c] # calls[c] =>
          \E row \in issued, s \in Unresolved :
             /\ row.conf = c /\ s.conf = c
             /\ row.intent = s.intent /\ row.broker = s.broker]_vars

(***************************************************************************)
(* Between any activation of the kill switch and any later claim lies a    *)
(* healthy report for the broker the claim is about, and it is still the   *)
(* last report when the claim commits.  This spans three actors, the       *)
(* reconciler, the operator who clears and the submitter, and a clear may  *)
(* have been supported by the report on another broker.                    *)
(***************************************************************************)
ReconciledSinceActivation ==
    \A s \in interlocks, k \in Activations :
        (~ Resolved(s) /\ k.seq < s.seq) =>
            \E r \in reports : /\ r.healthy /\ r.broker = s.broker
                               /\ k.seq < r.seq /\ r.seq < s.seq
                               /\ \A q \in reports : q.seq < s.seq => q.seq <= r.seq

(***************************************************************************)
(* At the instant a claim bears, its confirmation and risk decision were   *)
(* unexpired, the last report was current, and both are about one state of *)
(* the ledger: the two are read at different moments, while fills arrive   *)
(* and the clock runs, and only the second pass over the gates sees that.  *)
(***************************************************************************)
ClaimWithinWindows ==
    \A s \in interlocks : s.kind = "started" =>
        \E row \in issued, r \in reports :
            /\ row.conf = s.conf
            /\ row.at <= s.at /\ s.at < row.expires
            /\ row.decided <= s.at /\ s.at < row.decided + RiskTTL
            /\ r.seq < s.seq /\ \A q \in reports : q.seq < s.seq => q.seq <= r.seq
            /\ RecentAt(r, s.at)
            /\ r.ledger = row.portfolio

(***************************************************************************)
(* The kill switch is released only by a clear that no unresolved          *)
(* submission and no activation newer than the last, healthy, report can   *)
(* slip past (test_racing_unhealthy_event_cannot_be_erased_by_clear).      *)
(***************************************************************************)
ReleasedOnlyByCoveringClear ==
    [][(KillActive /\ ~ KillActive') =>
          /\ Unresolved = {}
          /\ \E r \in reports : /\ r.healthy /\ HeadIs(reports, r.seq)
                                 /\ \A a \in Activations : a.seq < r.seq]_vars

(***************************************************************************)
(* safety.py and reconcile.py replay the same two aggregates with two      *)
(* different loops.  They agree in every reachable state, and no row the   *)
(* roles write is one that either loop takes for malformed: a malformed    *)
(* row would block live trading for good, since rows are never deleted.    *)
(***************************************************************************)
ReplaysAgree == /\ KillActive <=> KillRowsActive
                /\ InterlockActive <=> InterlockRowsActive
                /\ \A k \in kills : ~ KillRowMalformed(k) /\ ~ ClearUnsupported(k)
                /\ \A x \in interlocks : ~ InterlockMalformed(x) /\ ~ OutOfTurn(x)

(***************************************************************************)
(* No order exists at the provider, or can still come to exist there,      *)
(* without a durable start of its submission; and an acknowledgement is    *)
(* recorded only for an order that exists.                                 *)
(***************************************************************************)
OrdersAreAccounted ==
    /\ \A i \in accepted \cup transit :
          \E s \in interlocks : s.kind = "started" /\ s.intent = i
    /\ \A x \in interlocks : x.kind = "acknowledged" => x.intent \in accepted

(***************************************************************************)
(* The threads, heads and rows implement LiveSubmission: whatever the      *)
(* interleaving and wherever a process dies, a claim commits only for an   *)
(* unused confirmation, with no submission open and the kill switch        *)
(* inactive at that instant, although all of this was read before.         *)
(***************************************************************************)
ImplementsSubmission == Submission!Spec
=============================================================================
