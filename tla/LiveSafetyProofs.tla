-------------------------- MODULE LiveSafetyProofs --------------------------
(***************************************************************************)
(* Theorems about LiveSafety, for every number of threads, confirmations,  *)
(* intents and brokers, every window and every bound.                      *)
(***************************************************************************)
EXTENDS LiveSafety, TLAPS

-----------------------------------------------------------------------------
(* The inductive invariant *)

\* The ledger numbers its rows, and no call holds a head it has not seen.
Numbered(rows) == /\ \A x \in rows : x.seq <= nextSeq
                  /\ \A x, y \in rows : x.seq = y.seq => x = y
RowsNumbered == Numbered(reports) /\ Numbered(kills) /\ Numbered(interlocks)
HeadsSeen ==
    /\ \A w \in Submitters : /\ sub[w].report <= nextSeq /\ sub[w].kill <= nextSeq
                             /\ sub[w].lock <= nextSeq
    /\ \A o \in Operators : /\ clr[o].report <= nextSeq /\ clr[o].kill <= nextSeq
                            /\ clr[o].lock <= nextSeq

\* A start, a resolution and a broker call each go back to one consumption.
ClaimsConsume ==
    /\ \A x \in interlocks : ~ Unused(x.conf)
    /\ \A c \in Confirmations : calls[c] <= 1 /\ (calls[c] = 1 => ~ Unused(c))

\* Nothing follows an unresolved start.
OpenIsLast == \A s \in Unresolved : \A y \in interlocks : y.seq <= s.seq

\* A call past its claim holds the unresolved start, alone.
Holder(w) == sub[w].pc \in AfterClaim
HoldersOpen == \A w \in Submitters : Holder(w) =>
                  /\ \E s \in Unresolved : /\ s.conf = sub[w].conf /\ s.intent = sub[w].intent
                                           /\ s.broker = sub[w].broker
                  /\ calls[sub[w].conf] = IF SubAt(w, "claimed") THEN 0 ELSE 1
OneHolder == \A v, w \in Submitters : Holder(v) /\ Holder(w) => v = w

\* What a claim and a clear have read still holds while their heads do.
ClaimReady ==
    \A w \in Submitters : SubAt(w, "claiming") /\ FenceHolds(w) =>
        /\ Unresolved = {}
        /\ ~ KillActive
        /\ \E r \in reports : r.seq = sub[w].report /\ r.healthy /\ r.broker = sub[w].broker
ClearReady ==
    \A o \in Operators : clr[o].pc = "clearing" /\ ClearFenceHolds(o) =>
        /\ Unresolved = {}
        /\ KillActive
        /\ \A k \in kills : ~ ClearUnsupported(k)
        /\ \E r \in reports : r.seq = clr[o].report /\ r.healthy
        /\ \E a \in Activations : a.seq = clr[o].marker
        /\ \A a \in Activations : a.seq <= clr[o].marker /\ a.seq < clr[o].report

\* No clear is malformed.
ClearsSupported == \A k \in kills : ~ ClearUnsupported(k)

IInv == /\ RowsNumbered /\ HeadsSeen /\ ClaimsConsume /\ OpenIsLast
        /\ HoldersOpen /\ OneHolder /\ ClaimReady /\ ClearsSupported /\ ClearReady
        /\ ReconciledSinceActivation

-----------------------------------------------------------------------------
(***************************************************************************)
(* What the updates of a call under way make of its record.                *)
(***************************************************************************)
LEMMA SubUpdates ==
  ASSUME NEW c \in SubCall, c.pc # "idle",
         NEW p \in BeforeClaim \cup AfterClaim, NEW k \in Nat, NEW l \in Nat
  PROVE  /\ [c EXCEPT !.pc = p] \in SubCall
         /\ [c EXCEPT !.pc = p, !.at = k] \in SubCall
         /\ [c EXCEPT !.pc = p, !.lock = l] \in SubCall
         /\ [c EXCEPT !.pc = p, !.kill = k, !.lock = l] \in SubCall
         /\ [c EXCEPT !.pc = p, !.lock = l, !.kill = k] \in SubCall
<1> DEFINE Active == [pc : BeforeClaim \cup AfterClaim, conf : Confirmations,
                      intent : Intents, broker : Brokers, report : Nat, kill : Nat,
                      lock : Nat, at : Nat]
<1>1. c \in Active
  BY DEF SubCall, IdleSub
<1>2. SubCall = {IdleSub} \cup Active
  BY DEF SubCall
<1> QED
  BY <1>1, <1>2

\* A reconciler that has compared is still one of the calls.
LEMMA RecUpdates ==
  ASSUME NEW c \in RecCall, c.pc # "idle", NEW t \in Nat, NEW v \in Nat,
         NEW healthy \in BOOLEAN
  PROVE  [c EXCEPT !.pc = "compared", !.at = t, !.ledger = v, !.healthy = healthy]
           \in RecCall
<1> DEFINE Active == [pc : {"observed", "compared"}, broker : Brokers \cup {Unavailable},
                      observed : Nat, seen : Nat, at : Nat, ledger : Nat,
                      healthy : BOOLEAN]
<1>1. c \in Active
  BY DEF RecCall, IdleRec
<1>2. RecCall = {IdleRec} \cup Active
  BY DEF RecCall
<1> QED
  BY <1>1, <1>2

(***************************************************************************)
(* Every variable keeps its type; in particular a call past its first gate *)
(* knows its confirmation, intent and broker, so every row it writes is    *)
(* well typed.                                                             *)
(***************************************************************************)
LEMMA TypeInit == Init => TypeOK
BY DEF Init, TypeOK, SubCall, RecCall, ClrCall

\* Every step keeps the types.
LEMMA TypeStep == TypeOK /\ [Next]_vars => TypeOK'
<1> SUFFICES ASSUME TypeOK, [Next]_vars
             PROVE  TypeOK'
  OBVIOUS
<1> USE DEF TypeOK, durable, provider
<1>1. CASE Tick
  BY <1>1 DEF Tick
<1>2. CASE LedgerMoves
  BY <1>2 DEF LedgerMoves
<1>3. CASE \E i \in Intents : LateAccept(i)
  BY <1>3 DEF LateAccept
<1>4. ASSUME NEW c \in Confirmations, Issue(c)
      PROVE  TypeOK'
  BY <1>4, WindowsAssumption DEF Issue, IssuedRow, Seqs
<1>5. ASSUME NEW w \in Submitters, Submit(w)
      PROVE  TypeOK'
  <2> DEFINE Labels == BeforeClaim \cup AfterClaim
  <2>1. sub[w] \in SubCall /\ IdleSub \in SubCall
    BY DEF SubCall
  <2>2. /\ {"entered", "admitted", "fenced", "claiming", "claimed", "querying", "acknowledging",
           "committingAck", "unknown", "committingUnknown"} \subseteq Labels
        /\ "idle" \notin Labels
    BY DEF BeforeClaim, AfterClaim
  <2>3. sub[w].pc # "idle" =>
           sub[w] \in [pc : Labels, conf : Confirmations, intent : Intents, broker : Brokers,
                       report : Nat, kill : Nat, lock : Nat, at : Nat]
    BY <2>1 DEF SubCall, IdleSub
  <2> HIDE DEF Labels
  <2> USE DEF SubAt, SubGoto, Leave
  <2>4. ASSUME NEW c \in SubCall, sub' = [sub EXCEPT ![w] = c],
               UNCHANGED <<clock, ledger, durable, rec, clr, provider>>
        PROVE  TypeOK'
    BY <2>4
  <2>5. ASSUME NEW p \in Labels, sub[w].pc # "idle"
        PROVE  [sub[w] EXCEPT !.pc = p] \in SubCall
    BY <2>5, <2>1, SubUpdates, Zenon DEF Labels
  <2>6. CASE Enter(w)
    BY <2>6, <2>2 DEF Enter, CurrentHealthy, SubCall, IssuedRow, ReportRow, Seqs, Labels
  <2>7. CASE Admit(w)
    BY <2>7, <2>2, <2>4, <2>5 DEF Admit
  <2>8. CASE CaptureFence(w)
    <3>1. PICK k \in 0..nextSeq, l \in 0..nextSeq :
             sub' = [sub EXCEPT ![w] = [@ EXCEPT !.pc = "fenced", !.kill = k, !.lock = l]]
      BY <2>8 DEF CaptureFence
    <3>2. sub[w].pc # "idle" /\ k \in Nat /\ l \in Nat
      BY <2>8 DEF CaptureFence
    <3>3. [sub[w] EXCEPT !.pc = "fenced", !.kill = k, !.lock = l] \in SubCall
      BY <2>1, <2>2, <3>2, SubUpdates DEF Labels
    <3> QED
      BY <2>8, <2>4, <3>1, <3>3 DEF CaptureFence
  <2>9. CASE Claim(w)
    <3>1. sub[w].pc # "idle"
      BY <2>9 DEF Claim
    <3>2. [sub[w] EXCEPT !.pc = "claiming", !.at = clock] \in SubCall
      BY <2>1, <2>2, <3>1, SubUpdates DEF Labels
    <3> QED
      BY <2>9, <2>4, <3>2 DEF Claim
  <2>10. CASE CommitClaim(w)
    BY <2>10, <2>2, <2>3, <2>5 DEF CommitClaim, ConsumedRow, InterlockRow, Seqs
  <2>11. CASE CallBroker(w)
    <3>1. sub[w].intent \in Intents /\ sub[w].conf \in Confirmations /\ sub[w].pc # "idle"
      BY <2>11, <2>2, <2>3 DEF CallBroker
    <3>2. accepted' \subseteq Intents /\ transit' \subseteq Intents
      BY <2>11, <3>1 DEF CallBroker
    <3>4. calls' \in [Confirmations -> Nat]
      <4>1. calls' = [calls EXCEPT ![sub[w].conf] = calls[sub[w].conf] + 1]
        BY <2>11 DEF CallBroker
      <4>2. calls[sub[w].conf] + 1 \in Nat
        BY <3>1
      <4> QED
        BY <4>1, <4>2
    <3>3. sub' \in [Submitters -> SubCall]
      BY <2>11, <2>2, <2>5, <3>1 DEF CallBroker
    <3> QED
      BY <2>11, <3>2, <3>3, <3>4 DEF CallBroker
  <2>12. CASE QueryAmbiguous(w)
    BY <2>12, <2>2, <2>4, <2>5 DEF QueryAmbiguous
  <2>13. CASE ReadForAck(w)
    <3> DEFINE p == IF Holds(w) THEN "committingAck" ELSE "unknown"
    <3>1. PICK l \in 0..nextSeq : sub' = [sub EXCEPT ![w] = [@ EXCEPT !.pc = p, !.lock = l]]
      BY <2>13 DEF ReadForAck
    <3>2. sub[w].pc # "idle" /\ p \in Labels /\ l \in Nat
      BY <2>13, <2>2 DEF ReadForAck
    <3> HIDE DEF p
    <3>3. [sub[w] EXCEPT !.pc = p, !.lock = l] \in SubCall
      BY <2>1, <3>2, SubUpdates DEF Labels
    <3> QED
      BY <2>13, <2>4, <3>1, <3>3 DEF ReadForAck
  <2>14. CASE CommitAck(w)
    BY <2>14, <2>1, <2>3 DEF CommitAck, InterlockRow, Seqs
  <2>15. CASE AckFails(w)
    BY <2>15, <2>2, <2>4, <2>5 DEF AckFails
  <2>16. CASE ReadForUnknown(w)
    <3>1. PICK l \in 0..nextSeq, k \in 0..nextSeq :
             sub' = [sub EXCEPT ![w] =
                       [@ EXCEPT !.pc = "committingUnknown", !.lock = l, !.kill = k]]
      BY <2>16 DEF ReadForUnknown
    <3>2. sub[w].pc # "idle" /\ k \in Nat /\ l \in Nat
      BY <2>16 DEF ReadForUnknown
    <3>3. [sub[w] EXCEPT !.pc = "committingUnknown", !.lock = l, !.kill = k] \in SubCall
      BY <2>1, <2>2, <3>2, SubUpdates DEF Labels
    <3> QED
      BY <2>16, <2>4, <3>1, <3>3 DEF ReadForUnknown
  <2>17. CASE CommitUnknown(w)
    BY <2>17, <2>1, <2>3 DEF CommitUnknown, InterlockRow, KillRow, Seqs
  <2>18. CASE UnknownConflict(w) \/ Refuse(w) \/ Crash(w)
    BY <2>18, <2>1, <2>4 DEF UnknownConflict, Refuse, Crash
  <2> QED
    BY <1>5, <2>6, <2>7, <2>8, <2>9, <2>10, <2>11, <2>12, <2>13, <2>14, <2>15, <2>16,
       <2>17, <2>18 DEF Submit
<1>6. ASSUME NEW r \in Reconcilers, Reconcile(r)
      PROVE  TypeOK'
  <2>1. rec[r] \in RecCall /\ IdleRec \in RecCall
    BY DEF RecCall
  <2> USE DEF RecAt
  <2>2. CASE Observe(r)
    <3>1. PICK b \in Brokers \cup {Unavailable} :
             rec' = [rec EXCEPT ![r] = [IdleRec EXCEPT !.pc = "observed", !.broker = b,
                                          !.observed = clock, !.seen = nextSeq]]
      BY <2>2 DEF Observe
    <3>2. [IdleRec EXCEPT !.pc = "observed", !.broker = b, !.observed = clock,
                          !.seen = nextSeq] \in RecCall
      BY DEF RecCall, IdleRec
    <3> QED
      BY <2>2, <3>1, <3>2 DEF Observe
  <2>3. CASE Compare(r)
    <3>1. PICK healthy \in BOOLEAN :
             rec' = [rec EXCEPT ![r] = [@ EXCEPT !.pc = "compared", !.at = clock,
                                               !.ledger = ledger, !.healthy = healthy]]
      BY <2>3 DEF Compare
    <3>2. rec[r].pc # "idle"
      BY <2>3 DEF Compare
    <3>3. [rec[r] EXCEPT !.pc = "compared", !.at = clock, !.ledger = ledger,
                         !.healthy = healthy] \in RecCall
      BY <2>1, <3>2, RecUpdates
    <3> QED
      BY <2>3, <3>1, <3>3 DEF Compare
  <2>4. CASE PersistReport(r)
    BY <2>4, <2>1 DEF PersistReport, RecCall, IdleRec, ReportRow, KillRow, Seqs
  <2>5. CASE ReconcilerDies(r)
    BY <2>5, <2>1 DEF ReconcilerDies
  <2> QED
    BY <1>6, <2>2, <2>3, <2>4, <2>5 DEF Reconcile
<1>7. ASSUME NEW o \in Operators, Clear(o)
      PROVE  TypeOK'
  <2>1. CASE ReadForClear(o)
    BY <2>1 DEF ReadForClear, LatestActivation, Activations, ClrCall, KillRow, ReportRow, Seqs
  <2>2. CASE CommitClear(o)
    BY <2>2 DEF CommitClear, ClrCall, IdleClr, KillRow, Seqs
  <2>3. CASE ClearFails(o)
    BY <2>3 DEF ClearFails, ClrCall
  <2> QED
    BY <1>7, <2>1, <2>2, <2>3 DEF Clear
<1>8. CASE UNCHANGED vars
  BY <1>8 DEF vars
<1> QED
  BY <1>1, <1>2, <1>3, <1>4, <1>5, <1>6, <1>7, <1>8 DEF Next

(* Every reachable state of the durable authority and of the service's calls is well-typed: no
   handler writes a row, a claim or a call that the store could not have held. *)
THEOREM TypeCorrect == Spec => []TypeOK
BY TypeInit, TypeStep, PTL DEF Spec

-----------------------------------------------------------------------------
(* How appending a row changes an aggregate *)

\* A newer row moves the head past every head that was read before.
LEMMA AppendMovesHead ==
  ASSUME NEW rows, NEW x, NEW n \in Nat, NEW h \in Nat, x.seq \in Nat, h <= n, n < x.seq,
         \A y \in rows : y.seq \in Nat
  PROVE  ~ HeadIs(rows \cup {x}, h)
BY DEF HeadIs

\* A row with the next number keeps the numbers apart and below the bound.
LEMMA AppendNumbers ==
  ASSUME NEW rows, NEW x, NEW n \in Nat, NEW m \in Nat, x.seq \in Nat,
         n < x.seq, x.seq <= m, \A y \in rows : y.seq \in Nat,
         \A y \in rows : y.seq <= n, \A y, z \in rows : y.seq = z.seq => y = z
  PROVE  /\ \A y \in rows \cup {x} : y.seq <= m
         /\ \A y, z \in rows \cup {x} : y.seq = z.seq => y = z
<1>1. \A y \in rows : y.seq <= m /\ y.seq # x.seq
  OBVIOUS
<1> QED
  BY <1>1

-----------------------------------------------------------------------------
(* Steps that leave the ledger and the broker alone *)

\* They keep every conjunct about rows; what is left is about the calls.
LEMMA QuietRows ==
  ASSUME IInv, UNCHANGED <<durable, calls>>
  PROVE  /\ RowsNumbered' /\ ClaimsConsume' /\ OpenIsLast' /\ ClearsSupported'
         /\ ReconciledSinceActivation'
         /\ Unresolved' = Unresolved /\ KillActive' = KillActive
<1> USE DEF durable, IInv
<1>1. RowsNumbered' /\ ClaimsConsume'
  BY DEF RowsNumbered, Numbered, ClaimsConsume, Unused
<1>2. Unresolved' = Unresolved
  BY DEF Unresolved, Resolved
<1>3. OpenIsLast'
  BY <1>2 DEF OpenIsLast
<1>4. ClearsSupported' /\ KillActive' = KillActive
  BY DEF ClearsSupported, ClearUnsupported, LatestActivation, Activations, KillActive, Ends
<1>5. ReconciledSinceActivation'
  BY DEF ReconciledSinceActivation, Activations, Resolved
<1> QED
  BY <1>1, <1>2, <1>3, <1>4, <1>5

\* A step of a submitter that writes nothing keeps the invariant, if it claims no more than it knows.
LEMMA QuietSub ==
  ASSUME IInv, TypeOK, UNCHANGED <<durable, calls, clr>>,
         NEW w \in Submitters, NEW c, sub' = [sub EXCEPT ![w] = c],
         c.report <= nextSeq /\ c.kill <= nextSeq /\ c.lock <= nextSeq,
         c.pc \in AfterClaim =>
            /\ Holder(w)
            /\ c.conf = sub[w].conf /\ c.intent = sub[w].intent /\ c.broker = sub[w].broker
            /\ c.pc = "claimed" <=> sub[w].pc = "claimed",
         c.pc = "claiming" =>
            /\ Unresolved = {} /\ ~ KillActive
            /\ \E r \in reports : r.seq = c.report /\ r.healthy /\ r.broker = c.broker
  PROVE  IInv'
<1>0. sub'[w] = c /\ \A v \in Submitters : v # w => sub'[v] = sub[v]
  BY DEF TypeOK
<1>1. HeadsSeen'
  BY <1>0 DEF IInv, HeadsSeen, durable
<1>2. HoldersOpen' /\ OneHolder'
  BY <1>0, QuietRows DEF IInv, HoldersOpen, OneHolder, Holder, SubAt
<1>3. ClaimReady'
  BY <1>0, QuietRows DEF IInv, ClaimReady, SubAt, FenceHolds, HeadIs, durable
<1>4. ClearReady'
  <2>1. \A o \in Operators : ClearFenceHolds(o)' = ClearFenceHolds(o)
    BY DEF ClearFenceHolds, HeadIs, durable
  <2>2. Activations' = Activations /\ ClearsSupported'
    BY QuietRows DEF Activations, durable
  <2> QED
    BY <2>1, <2>2, QuietRows DEF IInv, ClearReady, ClearsSupported, durable
<1> QED
  BY <1>1, <1>2, <1>3, <1>4, QuietRows DEF IInv

-----------------------------------------------------------------------------
(* Steps that append *)

\* Rows are numbered.
LEMMA RowSeqs ==
  ASSUME TypeOK
  PROVE  /\ nextSeq \in Nat
         /\ \A x \in reports \cup kills \cup interlocks : x.seq \in Nat
BY DEF TypeOK, ReportRow, KillRow, InterlockRow, Seqs

\* The heads that calls remember are numbers.
LEMMA HeadSeqs ==
  ASSUME TypeOK
  PROVE  /\ \A w \in Submitters : sub[w].report \in Nat /\ sub[w].kill \in Nat
                                  /\ sub[w].lock \in Nat
         /\ \A o \in Operators : clr[o].report \in Nat /\ clr[o].kill \in Nat
                                 /\ clr[o].lock \in Nat
BY DEF TypeOK, SubCall, ClrCall, IdleSub, IdleClr

\* An append to a fenced aggregate defeats every claim and every clear that has
\* read it before.
LEMMA AppendDefeatsFences ==
  ASSUME IInv, TypeOK, NEW x, x.seq \in Nat, nextSeq < x.seq,
         \/ reports' = reports \cup {x}
         \/ kills' = kills \cup {x}
         \/ interlocks' = interlocks \cup {x}
  PROVE  /\ \A w \in Submitters : sub'[w] = sub[w] => ~ FenceHolds(w)'
         /\ \A o \in Operators : clr'[o] = clr[o] => ~ ClearFenceHolds(o)'
<1> USE RowSeqs, HeadSeqs, AppendMovesHead DEF IInv, HeadsSeen, FenceHolds, ClearFenceHolds
<1>1. CASE reports' = reports \cup {x}
  <2>1. \A h \in Nat : h <= nextSeq => ~ HeadIs(reports', h)
    BY <1>1
  <2> QED
    BY <2>1
<1>2. CASE kills' = kills \cup {x}
  <2>1. \A h \in Nat : h <= nextSeq => ~ HeadIs(kills', h)
    BY <1>2
  <2> QED
    BY <2>1
<1>3. CASE interlocks' = interlocks \cup {x}
  <2>1. \A h \in Nat : h <= nextSeq => ~ HeadIs(interlocks', h)
    BY <1>3
  <2> QED
    BY <2>1
<1> QED
  BY <1>1, <1>2, <1>3

\* With every clear supported, the switch is off only if the last row is a clear,
\* and a healthy report lies between every activation and that clear.
LEMMA InactiveIsCovered ==
  ASSUME TypeOK, RowsNumbered, ~ KillActive, NEW h \in Nat, HeadIs(kills, h), NEW k \in Activations
  PROVE  \E r \in reports : r.healthy /\ k.seq < r.seq /\ r.seq < h
<1>1. PICK x \in kills : x.seq = h /\ \A y \in kills : y.seq <= h
  BY DEF HeadIs, Activations
<1>2. x.kind = "cleared" /\ ~ ClearUnsupported(x)
  BY <1>1 DEF KillActive, Ends, TypeOK, KillRow
<1>3. PICK a \in LatestActivation(x.seq), r \in reports :
         r.healthy /\ a.seq < r.seq /\ r.seq < x.seq
  BY <1>2 DEF ClearUnsupported
<1>4. k \in kills /\ k.seq < x.seq
  <2>1. k \in kills /\ k.kind = "activated"
    BY DEF Activations
  <2>2. k.seq # x.seq
    BY <1>2, <2>1 DEF RowsNumbered, Numbered
  <2> QED
    BY <1>1, <2>1, <2>2, RowSeqs
<1>5. k.seq <= a.seq
  BY <1>3, <1>4 DEF LatestActivation
<1> QED
  BY <1>1, <1>3, <1>4, <1>5, RowSeqs DEF LatestActivation, Activations

\* Committing a claim keeps the invariant.
LEMMA CommitClaimKeeps ==
  ASSUME IInv, TypeOK, NEW w \in Submitters, CommitClaim(w)
  PROVE  IInv'
<1> DEFINE x == [seq |-> nextSeq + 4, kind |-> "started", conf |-> sub[w].conf,
                 intent |-> sub[w].intent, broker |-> sub[w].broker, at |-> sub[w].at]
           row == [seq |-> nextSeq + 2, conf |-> sub[w].conf]
<1>1. /\ SubAt(w, "claiming") /\ FenceHolds(w) /\ Unused(sub[w].conf)
      /\ interlocks' = interlocks \cup {x} /\ consumed' = consumed \cup {row}
      /\ nextSeq' = nextSeq + 4 /\ sub' = [sub EXCEPT ![w].pc = "claimed"]
      /\ UNCHANGED <<reports, kills, calls, clr>>
  BY DEF CommitClaim, SubGoto, provider
<1>2. /\ Unresolved = {} /\ ~ KillActive
      /\ \E r \in reports : r.seq = sub[w].report /\ r.healthy /\ r.broker = sub[w].broker
  BY <1>1 DEF IInv, ClaimReady
<1>3. sub[w].conf \in Confirmations /\ x.seq = nextSeq + 4 /\ x.seq \in Nat
  BY <1>1, RowSeqs DEF TypeOK, SubAt, SubCall, IdleSub
<1>4. /\ sub'[w] = [sub[w] EXCEPT !.pc = "claimed"]
      /\ sub'[w].pc = "claimed" /\ sub'[w].conf = sub[w].conf
      /\ sub'[w].intent = sub[w].intent /\ sub'[w].broker = sub[w].broker
      /\ \A v \in Submitters : v # w => sub'[v] = sub[v]
  BY <1>1 DEF TypeOK, SubCall, IdleSub
<1>5. x.kind = "started" /\ x.conf = sub[w].conf /\ x.intent = sub[w].intent
      /\ x.broker = sub[w].broker /\ row.conf = sub[w].conf
  OBVIOUS
<1> HIDE DEF x, row
<1>6. RowsNumbered'
  <2>1. Numbered(interlocks)'
    BY <1>1, <1>3, RowSeqs, AppendNumbers DEF IInv, RowsNumbered, Numbered
  <2>2. Numbered(reports)' /\ Numbered(kills)'
    BY <1>1, RowSeqs DEF IInv, RowsNumbered, Numbered
  <2> QED
    BY <2>1, <2>2 DEF RowsNumbered
<1>7. HeadsSeen'
  <2>1. sub'[w].report = sub[w].report /\ sub'[w].kill = sub[w].kill
        /\ sub'[w].lock = sub[w].lock
    BY <1>4, <1>1 DEF TypeOK, SubCall, IdleSub
  <2> QED
    BY <1>1, <1>4, <2>1, RowSeqs, HeadSeqs DEF IInv, HeadsSeen
<1>8. \A c : Unused(c)' <=> (Unused(c) /\ c # sub[w].conf)
  BY <1>1, <1>5 DEF Unused
<1>9. ClaimsConsume'
  BY <1>1, <1>5, <1>8 DEF IInv, ClaimsConsume
<1>10. Unresolved' = {x}
  <2>1. \A y \in interlocks : y.conf # sub[w].conf
    BY <1>1 DEF IInv, ClaimsConsume
  <2>2. ASSUME NEW s \in interlocks
        PROVE  s \notin Unresolved'
    BY <1>1, <1>2 DEF Unresolved
  <2>3. x \in Unresolved'
    BY <1>1, <1>5, <2>1 DEF Unresolved, Resolved
  <2> QED
    BY <1>1, <2>2, <2>3 DEF Unresolved
<1>11. OpenIsLast'
  BY <1>1, <1>3, <1>10, RowSeqs DEF OpenIsLast, IInv, RowsNumbered, Numbered
<1>12. \A v \in Submitters : v # w => ~ Holder(v)'
  BY <1>2, <1>4 DEF IInv, HoldersOpen, Holder
<1>13. HoldersOpen' /\ OneHolder'
  <2>1. calls[sub[w].conf] = 0
    BY <1>1, <1>3 DEF IInv, ClaimsConsume, TypeOK
  <2> QED
    BY <1>1, <1>4, <1>5, <1>10, <1>12, <2>1 DEF HoldersOpen, OneHolder, SubAt
<1>14. ClaimReady' /\ ClearReady'
  <2>1. /\ \A v \in Submitters : v # w => ~ FenceHolds(v)'
        /\ \A o \in Operators : ~ ClearFenceHolds(o)'
    BY <1>1, <1>3, <1>4, RowSeqs, AppendDefeatsFences
  <2>2. ~ SubAt(w, "claiming")'
    BY <1>4 DEF SubAt
  <2> QED
    BY <2>1, <2>2 DEF ClaimReady, ClearReady
<1>15. ClearsSupported'
  BY <1>1 DEF IInv, ClearsSupported, ClearUnsupported, LatestActivation, Activations
<1>16. ReconciledSinceActivation'
  <2>1. PICK r \in reports : r.seq = sub[w].report /\ r.healthy /\ r.broker = sub[w].broker
    BY <1>2
  <2>2. \A q \in reports : q.seq <= r.seq /\ q.seq < x.seq
    BY <1>1, <1>3, <2>1, RowSeqs DEF FenceHolds, HeadIs, IInv, RowsNumbered, Numbered
  <2>3. ASSUME NEW k \in Activations
        PROVE  k.seq < r.seq
    <3>1. PICK q \in reports : q.healthy /\ k.seq < q.seq
      BY <1>1, <1>2, HeadSeqs, InactiveIsCovered DEF FenceHolds, IInv
    <3> QED
      BY <2>2, <3>1, RowSeqs DEF Activations
  <2>4. Activations' = Activations /\ interlocks' = interlocks \cup {x} /\ reports' = reports
    BY <1>1 DEF Activations
  <2>5. ASSUME NEW s \in interlocks', NEW k \in Activations', ~ Resolved(s), k.seq < s.seq
        PROVE  \E q \in reports' : /\ q.healthy /\ q.broker = s.broker
                                   /\ k.seq < q.seq /\ q.seq < s.seq
                                   /\ \A p \in reports' : p.seq < s.seq => p.seq <= q.seq
    <3>1. CASE s = x
      BY <3>1, <1>5, <2>1, <2>2, <2>3, <2>4, <2>5
    <3>2. CASE s \in interlocks
      BY <3>2, <2>4, <2>5 DEF IInv, ReconciledSinceActivation
    <3> QED
      BY <3>1, <3>2, <2>4
  <2> QED
    BY <2>5 DEF ReconciledSinceActivation, Resolved
<1> QED
  BY <1>6, <1>7, <1>9, <1>11, <1>13, <1>14, <1>15, <1>16 DEF IInv

\* The resolution of the open submission, by acknowledgement or as unknown.
LEMMA ResolutionKeeps ==
  ASSUME IInv, TypeOK, NEW w \in Submitters, CommitAck(w) \/ CommitUnknown(w)
  PROVE  IInv' /\ Unresolved' = {}
<1>a. PICK kind \in {"acknowledged", "unknown"} :
         interlocks' = interlocks \cup
            {[seq |-> nextSeq + 2, kind |-> kind, conf |-> sub[w].conf,
              intent |-> sub[w].intent, broker |-> sub[w].broker, at |-> 0]}
  BY DEF CommitAck, CommitUnknown
<1>b. PICK x : x = [seq |-> nextSeq + 2, kind |-> kind, conf |-> sub[w].conf,
                    intent |-> sub[w].intent, broker |-> sub[w].broker, at |-> 0]
  OBVIOUS
<1>c. /\ x.kind \in {"acknowledged", "unknown"} /\ x.conf = sub[w].conf
      /\ x.seq = nextSeq + 2 /\ interlocks' = interlocks \cup {x}
  BY <1>a, <1>b
<1>d. /\ Holder(w) /\ ~ SubAt(w, "claimed")
      /\ nextSeq' \in {nextSeq + 2, nextSeq + 3} /\ sub' = [sub EXCEPT ![w] = IdleSub]
      /\ UNCHANGED <<consumed, reports, calls, clr>>
      /\ \/ UNCHANGED kills
         \/ /\ nextSeq' = nextSeq + 3
            /\ kills' = kills \cup {[seq |-> nextSeq + 3, kind |-> "activated", marker |-> 0]}
  BY DEF CommitAck, CommitUnknown, Holder, SubAt, AfterClaim, provider
<1> USE <1>c, <1>d
<1>1. /\ sub'[w] = IdleSub /\ sub'[w].pc = "idle" /\ ~ Holder(w)' /\ ~ SubAt(w, "claiming")'
      /\ \A v \in Submitters : v # w => sub'[v] = sub[v]
  BY DEF TypeOK, IdleSub, Holder, AfterClaim, SubAt
<1>2. x.seq \in Nat /\ nextSeq' \in Nat
  BY RowSeqs
<1>3. PICK t \in Unresolved : t.conf = sub[w].conf
  BY DEF IInv, HoldersOpen
<1>4. \A s \in Unresolved : s = t
  BY <1>3, RowSeqs DEF IInv, OpenIsLast, RowsNumbered, Numbered, Unresolved
<1>5. Unresolved' = {}
  <2>1. ASSUME NEW s \in interlocks, ~ Resolved(s)
        PROVE  s \notin Unresolved'
    BY <1>3, <1>4, <2>1 DEF Unresolved, Resolved
  <2> QED
    BY <2>1 DEF Unresolved, Resolved
<1> DEFINE act == [seq |-> nextSeq + 3, kind |-> "activated", marker |-> 0]
<1>7. act.seq = nextSeq + 3 /\ act.kind = "activated"
  OBVIOUS
<1> HIDE DEF act
<1>8. RowsNumbered'
  <2>1. Numbered(interlocks)'
    BY <1>2, RowSeqs, AppendNumbers DEF IInv, RowsNumbered, Numbered
  <2>2. Numbered(reports)'
    BY <1>2, RowSeqs DEF IInv, RowsNumbered, Numbered
  <2>3. Numbered(kills)'
    <3>1. CASE UNCHANGED kills
      BY <3>1, <1>2, RowSeqs DEF IInv, RowsNumbered, Numbered
    <3>2. CASE kills' = kills \cup {act} /\ nextSeq' = nextSeq + 3
      BY <3>2, <1>2, <1>7, RowSeqs, AppendNumbers DEF IInv, RowsNumbered, Numbered
    <3> QED
      BY <3>1, <3>2 DEF act
  <2> QED
    BY <2>1, <2>2, <2>3 DEF RowsNumbered
<1>9. HeadsSeen'
  <2>1. sub'[w].report = 0 /\ sub'[w].kill = 0 /\ sub'[w].lock = 0
    BY <1>1 DEF IdleSub
  <2> QED
    BY <1>1, <1>2, <2>1, RowSeqs, HeadSeqs DEF IInv, HeadsSeen
<1>10. ClaimsConsume'
  BY <1>3 DEF IInv, ClaimsConsume, Unused, Unresolved
<1>11. OpenIsLast'
  BY <1>5 DEF OpenIsLast
<1>12. HoldersOpen' /\ OneHolder'
  BY <1>1 DEF IInv, HoldersOpen, OneHolder, Holder
<1>13. ClaimReady' /\ ClearReady'
  <2>1. /\ \A v \in Submitters : v # w => ~ FenceHolds(v)'
        /\ \A o \in Operators : ~ ClearFenceHolds(o)'
    BY <1>1, <1>2, RowSeqs, AppendDefeatsFences
  <2> QED
    BY <1>1, <2>1 DEF ClaimReady, ClearReady
<1>14. kills \subseteq kills' /\ \A k \in kills' \ kills : k.seq = nextSeq + 3 /\ k.kind = "activated"
  BY <1>7 DEF act
<1>15. ClearsSupported'
  <2>1. ASSUME NEW k \in kills
        PROVE  LatestActivation(k.seq)' = LatestActivation(k.seq)
    BY <1>14, RowSeqs DEF LatestActivation, Activations, IInv, RowsNumbered, Numbered
  <2> QED
    BY <1>14, <2>1 DEF IInv, ClearsSupported, ClearUnsupported
<1>16. ReconciledSinceActivation'
  BY <1>14, RowSeqs DEF IInv, ReconciledSinceActivation, Activations, Resolved, RowsNumbered,
     Numbered
<1> QED
  BY <1>5, <1>8, <1>9, <1>10, <1>11, <1>12, <1>13, <1>15, <1>16 DEF IInv

\* Persisting a reconciliation report keeps the invariant and resolves nothing.
LEMMA PersistReportKeeps ==
  ASSUME IInv, TypeOK, NEW r \in Reconcilers, PersistReport(r)
  PROVE  IInv' /\ Unresolved' = Unresolved
<1> DEFINE x == [seq |-> nextSeq + 1, healthy |-> rec[r].healthy, broker |-> rec[r].broker,
                 ledger |-> rec[r].ledger, at |-> rec[r].at, seen |-> rec[r].seen]
           act == [seq |-> nextSeq + 2, kind |-> "activated", marker |-> 0]
<1>1. /\ reports' = reports \cup {x}
      /\ UNCHANGED <<interlocks, consumed, sub, clr, calls>>
      /\ \/ nextSeq' = nextSeq + 1 /\ UNCHANGED kills
         \/ nextSeq' = nextSeq + 2 /\ kills' = kills \cup {act}
  BY DEF PersistReport, provider
<1>2. x.seq = nextSeq + 1 /\ act.seq = nextSeq + 2 /\ act.kind = "activated"
  OBVIOUS
<1> HIDE DEF x, act
<1>3. x.seq \in Nat /\ act.seq \in Nat /\ nextSeq' \in Nat
  BY <1>1, <1>2, RowSeqs
<1>4. RowsNumbered'
  <2>1. Numbered(interlocks)' /\ (UNCHANGED kills => Numbered(kills)')
    BY <1>1, RowSeqs DEF IInv, RowsNumbered, Numbered
  <2>2. Numbered(reports)'
    BY <1>1, <1>2, <1>3, RowSeqs, AppendNumbers DEF IInv, RowsNumbered, Numbered
  <2>3. CASE nextSeq' = nextSeq + 2 /\ kills' = kills \cup {act}
    BY <2>1, <2>2, <2>3, <1>2, <1>3, RowSeqs, AppendNumbers DEF IInv, RowsNumbered, Numbered
  <2> QED
    BY <1>1, <2>1, <2>2, <2>3 DEF RowsNumbered
<1>5. HeadsSeen'
  BY <1>1, <1>3, RowSeqs, HeadSeqs DEF IInv, HeadsSeen
<1>6. Unresolved' = Unresolved
  BY <1>1 DEF Unresolved
<1>7. ClaimsConsume' /\ OpenIsLast' /\ HoldersOpen' /\ OneHolder'
  BY <1>1, <1>6
     DEF IInv, ClaimsConsume, OpenIsLast, HoldersOpen, OneHolder, Holder, Unused, SubAt
<1>8. ClaimReady' /\ ClearReady'
  <2>1. /\ \A v \in Submitters : ~ FenceHolds(v)'
        /\ \A o \in Operators : ~ ClearFenceHolds(o)'
    BY <1>1, <1>2, <1>3, RowSeqs, AppendDefeatsFences
  <2> QED
    BY <2>1 DEF ClaimReady, ClearReady
<1>9. kills \subseteq kills' /\ reports \subseteq reports'
      /\ \A k \in kills' \ kills : k.seq = nextSeq + 2 /\ k.kind = "activated"
  BY <1>1, <1>2
<1>10. ClearsSupported'
  <2>1. ASSUME NEW k \in kills
        PROVE  LatestActivation(k.seq)' = LatestActivation(k.seq)
    BY <1>9, RowSeqs DEF LatestActivation, Activations, IInv, RowsNumbered, Numbered
  <2> QED
    BY <1>9, <2>1 DEF IInv, ClearsSupported, ClearUnsupported
<1>11. ReconciledSinceActivation'
  <2>1. ASSUME NEW s \in interlocks', NEW k \in Activations', ~ Resolved(s), k.seq < s.seq
        PROVE  \E q \in reports' : /\ q.healthy /\ q.broker = s.broker
                                   /\ k.seq < q.seq /\ q.seq < s.seq
                                   /\ \A p \in reports' : p.seq < s.seq => p.seq <= q.seq
    <3>1. s \in interlocks /\ s.seq <= nextSeq
      BY <1>1 DEF IInv, RowsNumbered, Numbered
    <3>2. k \in Activations
      BY <1>9, <2>1, <3>1, RowSeqs DEF Activations
    <3>3. PICK q \in reports : /\ q.healthy /\ q.broker = s.broker
                               /\ k.seq < q.seq /\ q.seq < s.seq
                               /\ \A p \in reports : p.seq < s.seq => p.seq <= q.seq
      BY <2>1, <3>1, <3>2 DEF IInv, ReconciledSinceActivation
    <3>4. \A p \in reports' : p.seq < s.seq => p \in reports
      BY <1>1, <1>2, <3>1, RowSeqs
    <3> QED
      BY <1>1, <3>3, <3>4
  <2> QED
    BY <2>1 DEF ReconciledSinceActivation, Resolved
<1> QED
  BY <1>4, <1>5, <1>6, <1>7, <1>8, <1>10, <1>11 DEF IInv

\* Committing a clearance of the kill switch keeps the invariant and resolves nothing.
LEMMA CommitClearKeeps ==
  ASSUME IInv, TypeOK, NEW o \in Operators, CommitClear(o)
  PROVE  IInv' /\ Unresolved' = Unresolved
<1>0. PICK x : x = [seq |-> nextSeq + 1, kind |-> "cleared", marker |-> clr[o].marker]
  OBVIOUS
<1>1. /\ clr[o].pc = "clearing" /\ ClearFenceHolds(o)
      /\ kills' = kills \cup {x} /\ nextSeq' = nextSeq + 1
      /\ clr' = [clr EXCEPT ![o] = IdleClr]
      /\ UNCHANGED <<reports, interlocks, consumed, sub, calls>>
  BY <1>0 DEF CommitClear, ClearFenceHolds, provider
<1>2. x.seq = nextSeq + 1 /\ x.kind = "cleared" /\ x.marker = clr[o].marker
  BY <1>0
<1>3. x.seq \in Nat /\ nextSeq' \in Nat
  BY <1>1, <1>2, RowSeqs
<1>4. /\ clr'[o] = IdleClr /\ clr'[o].pc = "idle" /\ clr'[o].report = 0
      /\ clr'[o].kill = 0 /\ clr'[o].lock = 0
      /\ \A q \in Operators : q # o => clr'[q] = clr[q]
  BY <1>1 DEF TypeOK, IdleClr
<1>5. RowsNumbered'
  <2>1. Numbered(interlocks)' /\ Numbered(reports)'
    BY <1>1, RowSeqs DEF IInv, RowsNumbered, Numbered
  <2>2. Numbered(kills)'
    BY <1>1, <1>2, <1>3, RowSeqs, AppendNumbers DEF IInv, RowsNumbered, Numbered
  <2> QED
    BY <2>1, <2>2 DEF RowsNumbered
<1>6. HeadsSeen'
  BY <1>1, <1>3, <1>4, RowSeqs, HeadSeqs DEF IInv, HeadsSeen
<1>7. Unresolved' = Unresolved
  BY <1>1 DEF Unresolved
<1>8. ClaimsConsume' /\ OpenIsLast' /\ HoldersOpen' /\ OneHolder'
  BY <1>1, <1>7
     DEF IInv, ClaimsConsume, OpenIsLast, HoldersOpen, OneHolder, Holder, Unused, SubAt
<1>9. ClaimReady' /\ ClearReady'
  <2>1. /\ \A v \in Submitters : ~ FenceHolds(v)'
        /\ \A q \in Operators : q # o => ~ ClearFenceHolds(q)'
    BY <1>1, <1>2, <1>3, <1>4, RowSeqs, AppendDefeatsFences
  <2> QED
    BY <1>4, <2>1 DEF ClaimReady, ClearReady
<1>10. Activations' = Activations
  BY <1>1, <1>2 DEF Activations
<1>11. ClearsSupported'
  <2>1. ASSUME NEW k \in kills
        PROVE  ~ ClearUnsupported(k)'
    BY <1>1, <1>10 DEF IInv, ClearsSupported, ClearUnsupported, LatestActivation
  <2>2. ~ ClearUnsupported(x)'
    <3>1. /\ \E r \in reports : r.seq = clr[o].report /\ r.healthy
          /\ \E a \in Activations : a.seq = clr[o].marker
          /\ \A a \in Activations : a.seq <= clr[o].marker /\ a.seq < clr[o].report
      BY <1>1 DEF IInv, ClearReady
    <3>2. PICK r \in reports, a \in Activations :
             /\ r.seq = clr[o].report /\ r.healthy /\ a.seq = clr[o].marker
             /\ \A b \in Activations : b.seq <= a.seq /\ b.seq < r.seq
      BY <3>1
    <3>3. a.seq < r.seq /\ r.seq < x.seq /\ a.seq < x.seq
      BY <1>2, <3>2, RowSeqs DEF IInv, RowsNumbered, Numbered, Activations
    <3>4. a \in LatestActivation(x.seq)'
      BY <1>10, <3>2, <3>3 DEF LatestActivation
    <3> QED
      BY <1>1, <1>2, <3>2, <3>3, <3>4 DEF ClearUnsupported
  <2> QED
    BY <1>1, <2>1, <2>2 DEF ClearsSupported
<1>12. ReconciledSinceActivation'
  BY <1>1, <1>10 DEF IInv, ReconciledSinceActivation, Resolved
<1> QED
  BY <1>5, <1>6, <1>7, <1>8, <1>9, <1>11, <1>12 DEF IInv

\* Issuing a confirmation keeps the invariant and resolves nothing.
LEMMA IssueKeeps ==
  ASSUME IInv, TypeOK, NEW c \in Confirmations, Issue(c)
  PROVE  IInv' /\ Unresolved' = Unresolved
<1>1. nextSeq' = nextSeq + 1
      /\ UNCHANGED <<reports, kills, interlocks, consumed, sub, clr, calls>>
  BY DEF Issue, provider
<1>2. Unresolved' = Unresolved /\ KillActive' = KillActive
  BY <1>1 DEF Unresolved, KillActive, ClearUnsupported, LatestActivation, Activations, Ends
<1>3. RowsNumbered' /\ HeadsSeen'
  BY <1>1, RowSeqs, HeadSeqs DEF IInv, RowsNumbered, Numbered, HeadsSeen
<1>4. ClaimsConsume' /\ OpenIsLast' /\ HoldersOpen' /\ OneHolder'
  BY <1>1, <1>2
     DEF IInv, ClaimsConsume, OpenIsLast, HoldersOpen, OneHolder, Holder, Unused, SubAt
<1>5. ClaimReady'
  BY <1>1, <1>2 DEF IInv, ClaimReady, SubAt, FenceHolds, HeadIs
<1>6. ClearsSupported' /\ ReconciledSinceActivation'
  BY <1>1 DEF IInv, ClearsSupported, ClearUnsupported, LatestActivation, Activations,
              ReconciledSinceActivation, Resolved
<1>7. ClearReady'
  <2>1. \A o \in Operators : ClearFenceHolds(o)' = ClearFenceHolds(o)
    BY <1>1 DEF ClearFenceHolds, HeadIs
  <2>2. Activations' = Activations
    BY <1>1 DEF Activations
  <2> QED
    BY <1>1, <1>2, <1>6, <2>1, <2>2 DEF IInv, ClearReady, ClearsSupported
<1> QED
  BY <1>2, <1>3, <1>4, <1>5, <1>6, <1>7 DEF IInv

\* Calling the broker keeps the invariant: the claim stays unresolved until it is answered.
LEMMA CallBrokerKeeps ==
  ASSUME IInv, TypeOK, NEW w \in Submitters, CallBroker(w)
  PROVE  IInv' /\ Unresolved' = Unresolved
<1>1. PICK p \in {"acknowledging", "querying"} : sub' = [sub EXCEPT ![w].pc = p]
  BY DEF CallBroker, SubGoto
<1>2. /\ SubAt(w, "claimed") /\ calls' = [calls EXCEPT ![sub[w].conf] = @ + 1]
      /\ UNCHANGED <<durable, clr>>
  BY DEF CallBroker
<1>3. /\ sub'[w].pc = p /\ sub'[w].conf = sub[w].conf /\ sub'[w].intent = sub[w].intent
      /\ sub'[w].broker = sub[w].broker /\ sub'[w].report = sub[w].report
      /\ sub'[w].kill = sub[w].kill /\ sub'[w].lock = sub[w].lock
      /\ \A v \in Submitters : v # w => sub'[v] = sub[v]
  BY <1>1 DEF TypeOK, SubCall, IdleSub
<1>4. Holder(w) /\ Holder(w)' /\ ~ SubAt(w, "claimed")' /\ ~ SubAt(w, "claiming")'
  BY <1>1, <1>2, <1>3 DEF Holder, AfterClaim, SubAt
<1>5. sub[w].conf \in Confirmations /\ calls[sub[w].conf] = 0 /\ ~ Unused(sub[w].conf)
  BY <1>2, <1>4
     DEF IInv, HoldersOpen, ClaimsConsume, TypeOK, SubCall, IdleSub, SubAt, Unresolved
<1>6. calls'[sub[w].conf] = 1
      /\ \A c \in Confirmations : c # sub[w].conf => calls'[c] = calls[c]
  BY <1>2, <1>5 DEF TypeOK
<1>7. Unresolved' = Unresolved /\ KillActive' = KillActive
  BY <1>2 DEF durable, Unresolved, Resolved, KillActive, ClearUnsupported, LatestActivation,
              Activations, Ends
<1>8. RowsNumbered' /\ HeadsSeen'
  BY <1>2, <1>3 DEF IInv, RowsNumbered, Numbered, HeadsSeen, durable
<1>9. ClaimsConsume'
  BY <1>2, <1>5, <1>6 DEF IInv, ClaimsConsume, Unused, durable
<1>10. OpenIsLast' /\ ClearsSupported' /\ ReconciledSinceActivation'
  BY <1>2, <1>7 DEF IInv, OpenIsLast, ClearsSupported, ClearUnsupported, LatestActivation,
                    Activations, ReconciledSinceActivation, Resolved, durable
<1>11. OneHolder' /\ HoldersOpen'
  <2>1. \A v \in Submitters : v # w => ~ Holder(v)'
    BY <1>3, <1>4 DEF IInv, OneHolder, Holder
  <2> QED
    BY <1>3, <1>4, <1>6, <1>7, <2>1 DEF IInv, HoldersOpen, OneHolder
<1>12. ClaimReady'
  BY <1>2, <1>3, <1>4, <1>7 DEF IInv, ClaimReady, SubAt, FenceHolds, HeadIs, durable
<1>13. ClearReady'
  <2>1. \A o \in Operators : ClearFenceHolds(o)' = ClearFenceHolds(o)
    BY <1>2 DEF ClearFenceHolds, HeadIs, durable
  <2>2. Activations' = Activations
    BY <1>2 DEF Activations, durable
  <2> QED
    BY <1>2, <1>7, <1>10, <2>1, <2>2 DEF IInv, ClearReady, ClearsSupported, durable
<1> QED
  BY <1>7, <1>8, <1>9, <1>10, <1>11, <1>12, <1>13 DEF IInv

\* A step of a reader, and any step that leaves rows, calls and readers alone.
LEMMA QuietClr ==
  ASSUME IInv, TypeOK, UNCHANGED <<durable, calls, sub>>,
         \/ UNCHANGED clr
         \/ \E o \in Operators : ReadForClear(o) \/ ClearFails(o)
  PROVE  IInv'
<1>1. ClaimReady' /\ HoldersOpen' /\ OneHolder'
  BY QuietRows DEF IInv, ClaimReady, SubAt, FenceHolds, HeadIs, HoldersOpen, OneHolder,
                   Holder, durable
<1>2. /\ \A h : /\ HeadIs(reports, h)' = HeadIs(reports, h)
                /\ HeadIs(kills, h)' = HeadIs(kills, h)
                /\ HeadIs(interlocks, h)' = HeadIs(interlocks, h)
      /\ Activations' = Activations /\ nextSeq' = nextSeq /\ reports' = reports
      /\ \A k \in kills' : ~ ClearUnsupported(k)'
  BY QuietRows DEF HeadIs, Activations, durable, ClearsSupported
<1>3. CASE UNCHANGED clr
  <2>1. HeadsSeen'
    BY <1>3 DEF IInv, HeadsSeen, durable
  <2>2. ClearReady'
    BY <1>2, <1>3, QuietRows DEF IInv, ClearReady, ClearFenceHolds
  <2> QED
    BY <1>1, <2>1, <2>2, QuietRows DEF IInv
<1>4. ASSUME NEW o \in Operators, ReadForClear(o)
      PROVE  IInv'
  <2>1. PICK h \in reports, a \in LatestActivation(nextSeq + 1), l \in 0..nextSeq,
             k \in 0..nextSeq, instant \in 0..clock :
          /\ HeadIs(reports, h.seq)
          /\ h.healthy /\ a.seq < h.seq /\ RecentAt(h, instant)
          /\ HeadIs(interlocks, l)
          /\ HeadIs(kills, k)
          /\ clr' = [clr EXCEPT ![o] = [pc |-> "clearing", report |-> h.seq, kill |-> k,
                                        lock |-> l, marker |-> a.seq]]
    BY <1>4, Zenon DEF ReadForClear
  <2>2. /\ clr'[o].pc = "clearing" /\ clr'[o].report = h.seq /\ clr'[o].kill = k
        /\ clr'[o].lock = l /\ clr'[o].marker = a.seq
        /\ \A q \in Operators : q # o => clr'[q] = clr[q]
    BY <2>1 DEF TypeOK
  <2>3. HeadsSeen'
    BY <1>2, <2>1, <2>2, RowSeqs DEF IInv, HeadsSeen, RowsNumbered, Numbered
  <2>4. Unresolved = {} /\ KillActive
    <3>1. ~ InterlockActive /\ KillActive
      BY <1>4 DEF ReadForClear
    <3>2. ASSUME NEW s \in Unresolved
          PROVE  Ends(interlocks, "started")
      BY DEF Ends, IInv, OpenIsLast, Unresolved, Resolved
    <3> QED
      BY <3>1, <3>2 DEF InterlockActive
  <2>5. a \in Activations /\ \A b \in Activations : b.seq <= a.seq /\ b.seq < h.seq
    BY <2>1, RowSeqs DEF LatestActivation, Activations, IInv, RowsNumbered, Numbered
  <2>6. Unresolved' = {} /\ KillActive'
    BY <2>4, QuietRows
  <2>7. ASSUME NEW q \in Operators, clr'[q].pc = "clearing", ClearFenceHolds(q)'
        PROVE  /\ \E r \in reports : r.seq = clr'[q].report /\ r.healthy
               /\ \E b \in Activations : b.seq = clr'[q].marker
               /\ \A b \in Activations : b.seq <= clr'[q].marker /\ b.seq < clr'[q].report
    <3>1. CASE q = o
      BY <2>1, <2>2, <2>5, <3>1
    <3>2. CASE q # o
      <4>1. clr'[q] = clr[q] /\ clr[q].pc = "clearing" /\ ClearFenceHolds(q)
        BY <1>2, <2>2, <2>7, <3>2 DEF ClearFenceHolds
      <4> QED
        BY <4>1 DEF IInv, ClearReady
    <3> QED
      BY <3>1, <3>2
  <2>8. ClearReady'
    BY <1>2, <2>6, <2>7 DEF ClearReady
  <2> QED
    BY <1>1, <2>3, <2>8, QuietRows DEF IInv
<1>5. ASSUME NEW o \in Operators, ClearFails(o)
      PROVE  IInv'
  <2>1. /\ clr'[o].pc = "idle" /\ clr'[o].report = 0 /\ clr'[o].kill = 0 /\ clr'[o].lock = 0
        /\ \A q \in Operators : q # o => clr'[q] = clr[q]
    BY <1>5 DEF ClearFails, TypeOK, IdleClr
  <2>2. HeadsSeen'
    BY <1>2, <2>1, RowSeqs DEF IInv, HeadsSeen
  <2>3. ASSUME NEW q \in Operators, clr'[q].pc = "clearing", ClearFenceHolds(q)'
        PROVE  clr'[q] = clr[q] /\ clr[q].pc = "clearing" /\ ClearFenceHolds(q)
    BY <1>2, <2>1, <2>3 DEF ClearFenceHolds
  <2>4. ClearReady'
    BY <1>2, <2>3, QuietRows DEF IInv, ClearReady
  <2> QED
    BY <1>1, <2>2, <2>4, QuietRows DEF IInv
<1> QED
  BY <1>3, <1>4, <1>5

-----------------------------------------------------------------------------
(* The invariant is inductive *)

\* The inductive invariant holds at first.
LEMMA InvariantInit == Init => IInv
<1> SUFFICES ASSUME Init
             PROVE  IInv
  OBVIOUS
<1>1. Unresolved = {} /\ Activations = {}
  BY DEF Init, Unresolved, Activations
<1>2. /\ \A w \in Submitters : sub[w].pc = "idle" /\ sub[w].report = 0 /\ sub[w].kill = 0
                              /\ sub[w].lock = 0
      /\ \A o \in Operators : clr[o].pc = "idle" /\ clr[o].report = 0 /\ clr[o].kill = 0
                             /\ clr[o].lock = 0
  BY DEF Init, IdleSub, IdleClr
<1>3. RowsNumbered /\ HeadsSeen /\ ClaimsConsume /\ OpenIsLast
  BY <1>1, <1>2 DEF Init, RowsNumbered, Numbered, HeadsSeen, ClaimsConsume, OpenIsLast
<1>4. HoldersOpen /\ OneHolder /\ ClaimReady /\ ClearReady
  BY <1>2 DEF HoldersOpen, OneHolder, Holder, AfterClaim, ClaimReady, ClearReady, SubAt
<1>5. ClearsSupported /\ ReconciledSinceActivation
  BY <1>1 DEF Init, ClearsSupported, ReconciledSinceActivation
<1> QED
  BY <1>3, <1>4, <1>5 DEF IInv

\* One step of submit_confirmed that neither appends nor calls the broker.
LEMMA QuietSubmitKeeps ==
  ASSUME IInv, TypeOK, NEW w \in Submitters,
         \/ Enter(w) \/ Admit(w) \/ CaptureFence(w) \/ Claim(w) \/ QueryAmbiguous(w)
         \/ ReadForAck(w) \/ AckFails(w) \/ ReadForUnknown(w) \/ UnknownConflict(w)
         \/ Refuse(w) \/ Crash(w)
  PROVE  IInv' /\ UNCHANGED <<durable, calls, clr>>
<1> USE DEF SubAt, SubGoto
<1>1. /\ sub[w] \in SubCall
      /\ sub[w].report <= nextSeq /\ sub[w].kill <= nextSeq /\ sub[w].lock <= nextSeq
      /\ \A k \in 0..nextSeq : k \in Nat /\ k <= nextSeq
      /\ 0 <= nextSeq
  BY RowSeqs DEF TypeOK, IInv, HeadsSeen
<1>2. ASSUME NEW c, sub' = [sub EXCEPT ![w] = c], UNCHANGED <<durable, calls, clr>>,
             c.report <= nextSeq /\ c.kill <= nextSeq /\ c.lock <= nextSeq,
             c.pc \notin AfterClaim, c.pc # "claiming"
      PROVE  IInv'
  BY <1>2, QuietSub
<1>3. ASSUME NEW c, sub' = [sub EXCEPT ![w] = c], UNCHANGED <<durable, calls, clr>>,
             c.report <= nextSeq /\ c.kill <= nextSeq /\ c.lock <= nextSeq,
             c.conf = sub[w].conf /\ c.intent = sub[w].intent /\ c.broker = sub[w].broker,
             sub[w].pc \in AfterClaim \ {"claimed"}, c.pc \in AfterClaim \ {"claimed"}
      PROVE  IInv'
  BY <1>3, QuietSub DEF Holder, AfterClaim
<1>4. CASE Leave(w)
  <2>1. /\ IdleSub.pc = "idle" /\ IdleSub.report = 0 /\ IdleSub.kill = 0 /\ IdleSub.lock = 0
        /\ sub' = [sub EXCEPT ![w] = IdleSub] /\ UNCHANGED <<durable, calls, clr>>
    BY <1>4 DEF Leave, IdleSub, provider
  <2> QED
    BY <1>1, <1>2, <2>1 DEF AfterClaim
<1>5. CASE Enter(w)
  <2>1. PICK row \in issued, i \in Intents, b \in Brokers, r \in reports :
          sub' = [sub EXCEPT ![w] = [pc |-> "entered", conf |-> row.conf, intent |-> i,
                    broker |-> b, report |-> r.seq, kill |-> 0, lock |-> 0, at |-> 0]]
    BY <1>5 DEF Enter
  <2>2. PICK c : c = [pc |-> "entered", conf |-> row.conf, intent |-> i, broker |-> b,
                      report |-> r.seq, kill |-> 0, lock |-> 0, at |-> 0]
    OBVIOUS
  <2>3. sub' = [sub EXCEPT ![w] = c] /\ UNCHANGED <<durable, calls, clr>>
    BY <1>5, <2>1, <2>2 DEF Enter, provider
  <2>4. c.report <= nextSeq /\ c.kill <= nextSeq /\ c.lock <= nextSeq
    BY <1>1, <2>2 DEF IInv, RowsNumbered, Numbered
  <2>5. c.pc \notin AfterClaim /\ c.pc # "claiming"
    BY <2>2 DEF AfterClaim
  <2> QED
    BY <1>2, <2>3, <2>4, <2>5
<1>6. CASE Admit(w)
  <2>1. PICK c : c = [sub[w] EXCEPT !.pc = "admitted"]
    OBVIOUS
  <2>2. sub' = [sub EXCEPT ![w] = c] /\ UNCHANGED <<durable, calls, clr>> /\ sub[w].pc # "idle"
    BY <1>6, <2>1 DEF Admit, provider
  <2>3. /\ c.pc = "admitted" /\ c.report = sub[w].report /\ c.kill = sub[w].kill
        /\ c.lock = sub[w].lock
    BY <1>1, <2>1, <2>2 DEF SubCall, IdleSub
  <2> QED
    BY <1>1, <1>2, <2>2, <2>3 DEF AfterClaim
<1>7. CASE CaptureFence(w)
  <2>1. PICK k \in 0..nextSeq, l \in 0..nextSeq :
          sub' = [sub EXCEPT ![w] = [@ EXCEPT !.pc = "fenced", !.kill = k, !.lock = l]]
    BY <1>7 DEF CaptureFence
  <2>2. PICK c : c = [sub[w] EXCEPT !.pc = "fenced", !.kill = k, !.lock = l]
    OBVIOUS
  <2>3. sub' = [sub EXCEPT ![w] = c] /\ UNCHANGED <<durable, calls, clr>> /\ sub[w].pc # "idle"
    BY <1>7, <2>1, <2>2 DEF CaptureFence, provider
  <2>4. c.pc = "fenced" /\ c.report = sub[w].report /\ c.kill = k /\ c.lock = l
    BY <1>1, <2>2, <2>3 DEF SubCall, IdleSub
  <2> QED
    BY <1>1, <1>2, <2>3, <2>4 DEF AfterClaim
<1>8. CASE Claim(w)
  <2>1. PICK c : c = [sub[w] EXCEPT !.pc = "claiming", !.at = clock]
    OBVIOUS
  <2>2. /\ sub[w].pc # "idle" /\ sub' = [sub EXCEPT ![w] = c]
        /\ UNCHANGED <<durable, calls, clr>>
        /\ ~ KillActive /\ ~ InterlockActive
        /\ \E r \in reports : r.seq = sub[w].report /\ r.healthy /\ r.broker = sub[w].broker
    BY <1>8, <2>1 DEF Claim, provider
  <2>3. /\ c.pc = "claiming" /\ c.report = sub[w].report /\ c.kill = sub[w].kill
        /\ c.lock = sub[w].lock /\ c.broker = sub[w].broker
    BY <1>1, <2>1, <2>2 DEF SubCall, IdleSub
  <2>4. Unresolved = {}
    BY <2>2 DEF InterlockActive, Ends, IInv, OpenIsLast, Unresolved, Resolved
  <2>5. c.pc \notin AfterClaim
    BY <2>3 DEF AfterClaim
  <2> QED
    BY <1>1, <2>2, <2>3, <2>4, <2>5, QuietSub
<1>9. ASSUME NEW p \in AfterClaim \ {"claimed"}, sub' = [sub EXCEPT ![w].pc = p],
             UNCHANGED <<durable, calls, clr>>, sub[w].pc \in AfterClaim \ {"claimed"}
      PROVE  IInv'
  <2>1. PICK c : c = [sub[w] EXCEPT !.pc = p]
    OBVIOUS
  <2>2. sub[w].pc # "idle"
    BY <1>9 DEF AfterClaim
  <2>3. /\ c.pc = p /\ c.conf = sub[w].conf /\ c.intent = sub[w].intent
        /\ c.broker = sub[w].broker /\ c.report = sub[w].report /\ c.kill = sub[w].kill
        /\ c.lock = sub[w].lock
    BY <1>1, <2>1, <2>2 DEF SubCall, IdleSub
  <2>4. sub' = [sub EXCEPT ![w] = c]
    BY <1>9, <2>1
  <2> QED
    BY <1>1, <1>3, <1>9, <2>3, <2>4
<1>10. CASE QueryAmbiguous(w)
  BY <1>9, <1>10 DEF QueryAmbiguous, provider, AfterClaim
<1>11. CASE AckFails(w)
  BY <1>9, <1>11 DEF AckFails, provider, AfterClaim
<1>12. CASE ReadForAck(w)
  <2>1. PICK p : p = IF Holds(w) THEN "committingAck" ELSE "unknown"
    OBVIOUS
  <2>2. PICK l \in 0..nextSeq : sub' = [sub EXCEPT ![w] = [@ EXCEPT !.pc = p, !.lock = l]]
    BY <1>12, <2>1 DEF ReadForAck
  <2>3. PICK c : c = [sub[w] EXCEPT !.pc = p, !.lock = l]
    OBVIOUS
  <2>4. /\ sub' = [sub EXCEPT ![w] = c] /\ sub[w].pc = "acknowledging"
        /\ UNCHANGED <<durable, calls, clr>>
    BY <1>12, <2>2, <2>3 DEF ReadForAck, provider
  <2>5. /\ c.pc = p /\ c.report = sub[w].report /\ c.kill = sub[w].kill /\ c.lock = l
        /\ c.conf = sub[w].conf /\ c.intent = sub[w].intent /\ c.broker = sub[w].broker
    BY <1>1, <2>3, <2>4 DEF SubCall, IdleSub
  <2>6. p \in AfterClaim \ {"claimed"} /\ "acknowledging" \in AfterClaim \ {"claimed"}
    BY <2>1 DEF AfterClaim
  <2> QED
    BY <1>1, <1>3, <2>4, <2>5, <2>6
<1>13. CASE ReadForUnknown(w)
  <2>1. PICK l \in 0..nextSeq, k \in 0..nextSeq :
          sub' = [sub EXCEPT ![w] = [@ EXCEPT !.pc = "committingUnknown", !.lock = l, !.kill = k]]
    BY <1>13 DEF ReadForUnknown
  <2>2. PICK c : c = [sub[w] EXCEPT !.pc = "committingUnknown", !.lock = l, !.kill = k]
    OBVIOUS
  <2>3. /\ sub' = [sub EXCEPT ![w] = c] /\ sub[w].pc = "unknown"
        /\ UNCHANGED <<durable, calls, clr>>
    BY <1>13, <2>1, <2>2 DEF ReadForUnknown, provider
  <2>4. /\ c.pc = "committingUnknown" /\ c.report = sub[w].report /\ c.kill = k /\ c.lock = l
        /\ c.conf = sub[w].conf /\ c.intent = sub[w].intent /\ c.broker = sub[w].broker
    BY <1>1, <2>2, <2>3 DEF SubCall, IdleSub
  <2>5. {"unknown", "committingUnknown"} \subseteq AfterClaim \ {"claimed"}
    BY DEF AfterClaim
  <2> QED
    BY <1>1, <1>3, <2>3, <2>4, <2>5
<1>14. CASE UnknownConflict(w) \/ Refuse(w) \/ Crash(w)
  BY <1>4, <1>14 DEF UnknownConflict, Refuse, Crash
<1>15. UNCHANGED <<durable, calls, clr>>
  BY DEF Leave, Enter, Admit, CaptureFence, Claim, QueryAmbiguous, ReadForAck, AckFails,
         ReadForUnknown, UnknownConflict, Refuse, Crash, provider
<1> QED
  BY <1>5, <1>6, <1>7, <1>8, <1>10, <1>11, <1>12, <1>13, <1>14, <1>15

\* Every step of a submission keeps the inductive invariant.
LEMMA SubmitKeeps ==
  ASSUME IInv, TypeOK, NEW w \in Submitters, Submit(w)
  PROVE  IInv'
<1>1. CASE \/ Enter(w) \/ Admit(w) \/ CaptureFence(w) \/ Claim(w) \/ QueryAmbiguous(w)
           \/ ReadForAck(w) \/ AckFails(w) \/ ReadForUnknown(w) \/ UnknownConflict(w)
           \/ Refuse(w) \/ Crash(w)
  BY <1>1, QuietSubmitKeeps
<1> QED
  BY <1>1, CommitClaimKeeps, CallBrokerKeeps, ResolutionKeeps DEF Submit

\* Every step keeps the inductive invariant.
LEMMA InvariantStep == TypeOK /\ IInv /\ [Next]_vars => IInv'
<1> SUFFICES ASSUME TypeOK, IInv, [Next]_vars
             PROVE  IInv'
  OBVIOUS
<1>1. CASE Tick \/ LedgerMoves \/ (\E i \in Intents : LateAccept(i)) \/ UNCHANGED vars
  BY <1>1, QuietClr DEF Tick, LedgerMoves, LateAccept, vars, provider
<1>2. ASSUME NEW c \in Confirmations, Issue(c)
      PROVE  IInv'
  BY <1>2, IssueKeeps
<1>3. ASSUME NEW w \in Submitters, Submit(w)
      PROVE  IInv'
  BY <1>3, SubmitKeeps
<1>4. ASSUME NEW r \in Reconcilers, Reconcile(r)
      PROVE  IInv'
  <2>1. CASE Observe(r) \/ Compare(r) \/ ReconcilerDies(r)
    BY <2>1, QuietClr DEF Observe, Compare, ReconcilerDies, provider
  <2> QED
    BY <1>4, <2>1, PersistReportKeeps DEF Reconcile
<1>5. ASSUME NEW o \in Operators, Clear(o)
      PROVE  IInv'
  <2>1. CASE ReadForClear(o) \/ ClearFails(o)
    <3>1. UNCHANGED <<durable, calls, sub>>
      BY <2>1 DEF ReadForClear, ClearFails, provider
    <3> QED
      BY <2>1, <3>1, QuietClr
  <2> QED
    BY <1>5, <2>1, CommitClearKeeps DEF Clear
<1> QED
  BY <1>1, <1>2, <1>3, <1>4, <1>5 DEF Next

(* The inductive invariant behind the safety theorems: every call that has read the store and not
   yet committed reads what the transaction will find or is refused by it. *)
THEOREM InvariantHolds == Spec => []IInv
<1>1. Init => IInv
  BY InvariantInit
<1>2. TypeOK /\ IInv /\ [Next]_vars => IInv'
  BY InvariantStep
<1> QED
  BY <1>1, <1>2, TypeCorrect, PTL DEF Spec

-----------------------------------------------------------------------------
(* What follows *)

(***************************************************************************)
(* At most one live submission is unresolved, for any number of threads    *)
(* and processes running submit_confirmed.                                 *)
(***************************************************************************)
THEOREM SingleFlightHolds == Spec => []SingleFlight
<1>1. TypeOK /\ IInv => SingleFlight
  <2> SUFFICES ASSUME TypeOK, IInv, NEW s \in Unresolved, NEW t \in Unresolved
               PROVE  s = t
    BY DEF SingleFlight
  <2>1. s \in interlocks /\ t \in interlocks
    BY DEF Unresolved
  <2>2. s.seq <= t.seq /\ t.seq <= s.seq
    BY <2>1 DEF IInv, OpenIsLast
  <2> QED
    BY <2>1, <2>2, RowSeqs DEF IInv, RowsNumbered, Numbered
<1> QED
  BY <1>1, TypeCorrect, InvariantHolds, PTL

(***************************************************************************)
(* A broker is called at most once per confirmation.                       *)
(***************************************************************************)
THEOREM OneCallHolds == Spec => []OneCallPerConfirmation
<1>1. IInv => OneCallPerConfirmation
  BY DEF IInv, ClaimsConsume, OneCallPerConfirmation
<1> QED
  BY <1>1, InvariantHolds, PTL

(***************************************************************************)
(* A healthy report for the broker of a claim lies between that claim and  *)
(* every earlier activation of the kill switch.                            *)
(***************************************************************************)
THEOREM ReconciledHolds == Spec => []ReconciledSinceActivation
<1>1. IInv => ReconciledSinceActivation
  BY DEF IInv
<1> QED
  BY <1>1, InvariantHolds, PTL

\* No append of an activation, and no step that appends no kill-switch row,
\* releases the switch.
LEMMA OnlyClearReleases ==
  ASSUME IInv, TypeOK, KillActive, ~ KillActive',
         \/ UNCHANGED kills
         \/ \E n \in Nat : /\ nextSeq < n
                           /\ kills' = kills \cup {[seq |-> n, kind |-> "activated", marker |-> 0]}
  PROVE  FALSE
<1>1. CASE UNCHANGED kills
  <2>1. Ends(kills, "activated")
    BY DEF KillActive, IInv, ClearsSupported
  <2> QED
    BY <1>1, <2>1 DEF KillActive, Ends
<1>2. ASSUME NEW n \in Nat, nextSeq < n,
             kills' = kills \cup {[seq |-> n, kind |-> "activated", marker |-> 0]}
      PROVE  FALSE
  <2>1. PICK x : x = [seq |-> n, kind |-> "activated", marker |-> 0]
    OBVIOUS
  <2>2. x \in kills' /\ x.kind = "activated" /\ x.seq = n
    BY <1>2, <2>1
  <2>3. \A y \in kills' : y.seq <= x.seq
    BY <1>2, <2>1, <2>2, RowSeqs DEF IInv, RowsNumbered, Numbered
  <2> QED
    BY <2>2, <2>3 DEF KillActive, Ends
<1> QED
  BY <1>1, <1>2

\* A step that releases it is a clear, under the three heads it was read at.
LEMMA ReleaseStep ==
  ASSUME TypeOK, IInv, [Next]_vars, KillActive, ~ KillActive'
  PROVE  /\ Unresolved = {}
         /\ \E r \in reports : /\ r.healthy /\ HeadIs(reports, r.seq)
                                /\ \A a \in Activations : a.seq < r.seq
<1>1. ASSUME NEW o \in Operators, CommitClear(o)
      PROVE  /\ Unresolved = {}
             /\ \E r \in reports : /\ r.healthy /\ HeadIs(reports, r.seq)
                                    /\ \A a \in Activations : a.seq < r.seq
  BY <1>1 DEF CommitClear, IInv, ClearReady, ClearFenceHolds
<1>2. CASE UNCHANGED kills
  BY <1>2, OnlyClearReleases
<1>3. ASSUME NEW r \in Reconcilers, PersistReport(r), ~ UNCHANGED kills
      PROVE  FALSE
  <2>1. nextSeq + 2 \in Nat /\ nextSeq < nextSeq + 2
    BY RowSeqs
  <2> QED
    BY <1>3, <2>1, OnlyClearReleases DEF PersistReport
<1>4. ASSUME NEW w \in Submitters, CommitUnknown(w)
      PROVE  FALSE
  <2>1. nextSeq + 3 \in Nat /\ nextSeq < nextSeq + 3
    BY RowSeqs
  <2> QED
    BY <1>4, <2>1, OnlyClearReleases DEF CommitUnknown
<1>5. \/ \E o \in Operators : CommitClear(o)
      \/ UNCHANGED kills
      \/ \E r \in Reconcilers : PersistReport(r)
      \/ \E w \in Submitters : CommitUnknown(w)
  BY DEF Next, Tick, LedgerMoves, LateAccept, Issue, Submit, Reconcile, Clear, Leave, Enter,
         Admit, CaptureFence, Claim, CommitClaim, CallBroker, QueryAmbiguous, ReadForAck,
         CommitAck, AckFails, ReadForUnknown, UnknownConflict, Refuse, Crash, Observe, Compare,
         ReconcilerDies, ReadForClear, ClearFails, durable, vars
<1> QED
  BY <1>1, <1>2, <1>3, <1>4, <1>5

(***************************************************************************)
(* The kill switch is released only by a clear that covers every           *)
(* activation, while no submission is unresolved.                          *)
(***************************************************************************)
THEOREM ReleaseCovered == Spec => ReleasedOnlyByCoveringClear
<1>1. TypeOK /\ IInv /\ [Next]_vars =>
        [(KillActive /\ ~ KillActive') =>
          /\ Unresolved = {}
          /\ \E r \in reports : /\ r.healthy /\ HeadIs(reports, r.seq)
                                 /\ \A a \in Activations : a.seq < r.seq]_vars
  BY ReleaseStep
<1> QED
  BY <1>1, TypeCorrect, InvariantHolds, PTL DEF Spec, ReleasedOnlyByCoveringClear

-----------------------------------------------------------------------------
(* LiveSafety implements LiveSubmission, and every broker call is for what   *)
(* was confirmed: both rest on where the arguments of a call come from.      *)

\* A call under way is about a confirmation that was issued, and from its
\* verification on, about the intent and the broker that were confirmed.
Backed(w) ==
    sub[w].pc # "idle" =>
        \E row \in issued :
            /\ row.conf = sub[w].conf
            /\ sub[w].pc # "entered" => row.intent = sub[w].intent /\ row.broker = sub[w].broker
CallsBacked == \A w \in Submitters : Backed(w)

\* At first no submission is under way.
LEMMA BackedInit == Init => CallsBacked
BY DEF Init, CallsBacked, Backed, IdleSub

\* A step of one call that keeps its arguments.
LEMMA BackedGoes ==
  ASSUME TypeOK, CallsBacked, issued \subseteq issued', NEW w \in Submitters, NEW c,
         sub' = [sub EXCEPT ![w] = c],
         c.pc # "idle" => /\ sub[w].pc \notin {"idle", "entered"}
                          /\ c.conf = sub[w].conf /\ c.intent = sub[w].intent
                          /\ c.broker = sub[w].broker
  PROVE  CallsBacked'
<1>1. sub'[w] = c /\ \A v \in Submitters : v # w => sub'[v] = sub[v]
  BY DEF TypeOK
<1> QED
  BY <1>1 DEF CallsBacked, Backed

\* Every submission goes on under the issued confirmation it was entered with.
LEMMA BackedStep == TypeOK /\ CallsBacked /\ [Next]_vars => CallsBacked'
<1> SUFFICES ASSUME TypeOK, CallsBacked, [Next]_vars
             PROVE  CallsBacked'
  OBVIOUS
<1> USE DEF SubAt, SubGoto
<1>1. CASE UNCHANGED sub /\ issued \subseteq issued'
  BY <1>1 DEF CallsBacked, Backed
<1>2. ASSUME NEW w \in Submitters, Submit(w)
      PROVE  CallsBacked'
  <2>0. sub[w] \in SubCall /\ UNCHANGED issued
    BY <1>2 DEF TypeOK, Submit, Enter, Admit, CaptureFence, Claim, CommitClaim, CallBroker,
        QueryAmbiguous, ReadForAck, CommitAck, AckFails, ReadForUnknown, CommitUnknown,
        UnknownConflict, Refuse, Crash, Leave, durable
  <2>1. CASE Enter(w)
    <3>1. PICK row \in issued, i \in Intents, b \in Brokers, r \in reports :
             sub' = [sub EXCEPT ![w] = [pc |-> "entered", conf |-> row.conf, intent |-> i,
                        broker |-> b, report |-> r.seq, kill |-> 0, lock |-> 0, at |-> 0]]
      BY <2>1 DEF Enter
    <3>2. sub'[w].pc = "entered" /\ sub'[w].conf = row.conf
          /\ \A v \in Submitters : v # w => sub'[v] = sub[v]
      BY <3>1 DEF TypeOK
    <3> QED
      BY <2>0, <3>2 DEF CallsBacked, Backed
  <2>2. CASE Admit(w)
    <3>1. /\ sub'[w].pc = "admitted" /\ sub'[w].conf = sub[w].conf
          /\ sub'[w].intent = sub[w].intent /\ sub'[w].broker = sub[w].broker
          /\ \A v \in Submitters : v # w => sub'[v] = sub[v]
      BY <2>0, <2>2 DEF Admit, TypeOK, SubCall, IdleSub
    <3>2. \E row \in issued : /\ row.conf = sub[w].conf /\ row.intent = sub[w].intent
                              /\ row.broker = sub[w].broker
      BY <2>2 DEF Admit, Verified
    <3> QED
      BY <2>0, <3>1, <3>2 DEF CallsBacked, Backed
  <2>3. CASE CommitAck(w) \/ CommitUnknown(w) \/ UnknownConflict(w) \/ Refuse(w) \/ Crash(w)
    <3>1. sub' = [sub EXCEPT ![w] = IdleSub] /\ IdleSub.pc = "idle"
      BY <2>3 DEF CommitAck, CommitUnknown, UnknownConflict, Refuse, Crash, Leave, IdleSub
    <3> QED
      BY <2>0, <3>1, BackedGoes
  <2>4. ASSUME NEW label \in {"claimed", "acknowledging", "querying", "unknown"},
               sub' = [sub EXCEPT ![w].pc = label], sub[w].pc \notin {"idle", "entered"}
        PROVE  CallsBacked'
    <3> DEFINE c == [sub[w] EXCEPT !.pc = label]
    <3>1. sub' = [sub EXCEPT ![w] = c]
      BY <2>4
    <3>2. c.conf = sub[w].conf /\ c.intent = sub[w].intent /\ c.broker = sub[w].broker
      BY <2>0 DEF SubCall, IdleSub
    <3> QED
      BY <2>0, <2>4, <3>1, <3>2, BackedGoes
  <2>5. CASE CommitClaim(w) \/ CallBroker(w) \/ QueryAmbiguous(w) \/ AckFails(w)
    BY <2>4, <2>5 DEF CommitClaim, CallBroker, QueryAmbiguous, AckFails
  <2>6. CASE CaptureFence(w)
    <3>1. PICK k \in 0..nextSeq, l \in 0..nextSeq :
             sub' = [sub EXCEPT ![w] = [@ EXCEPT !.pc = "fenced", !.kill = k, !.lock = l]]
      BY <2>6 DEF CaptureFence
    <3> DEFINE c == [sub[w] EXCEPT !.pc = "fenced", !.kill = k, !.lock = l]
    <3>2. c.conf = sub[w].conf /\ c.intent = sub[w].intent /\ c.broker = sub[w].broker
      BY <2>0 DEF SubCall, IdleSub
    <3>3. sub' = [sub EXCEPT ![w] = c] /\ sub[w].pc = "admitted"
      BY <2>6, <3>1 DEF CaptureFence
    <3> HIDE DEF c
    <3> QED
      BY <2>0, <3>2, <3>3, BackedGoes
  <2>7. CASE Claim(w)
    <3> DEFINE c == [sub[w] EXCEPT !.pc = "claiming", !.at = clock]
    <3>2. c.conf = sub[w].conf /\ c.intent = sub[w].intent /\ c.broker = sub[w].broker
      BY <2>0 DEF SubCall, IdleSub
    <3>3. sub' = [sub EXCEPT ![w] = c] /\ sub[w].pc = "fenced"
      BY <2>7 DEF Claim
    <3> HIDE DEF c
    <3> QED
      BY <2>0, <3>2, <3>3, BackedGoes
  <2>8. CASE ReadForAck(w)
    <3> DEFINE p == IF Holds(w) THEN "committingAck" ELSE "unknown"
    <3>1. PICK l \in 0..nextSeq : sub' = [sub EXCEPT ![w] = [@ EXCEPT !.pc = p, !.lock = l]]
      BY <2>8 DEF ReadForAck
    <3> HIDE DEF p
    <3> DEFINE c == [sub[w] EXCEPT !.pc = p, !.lock = l]
    <3>2. c.conf = sub[w].conf /\ c.intent = sub[w].intent /\ c.broker = sub[w].broker
      BY <2>0 DEF SubCall, IdleSub
    <3>3. sub' = [sub EXCEPT ![w] = c] /\ sub[w].pc = "acknowledging"
      BY <2>8, <3>1 DEF ReadForAck
    <3> HIDE DEF c
    <3> QED
      BY <2>0, <3>2, <3>3, BackedGoes
  <2>9. CASE ReadForUnknown(w)
    <3>1. PICK l \in 0..nextSeq, k \in 0..nextSeq :
             sub' = [sub EXCEPT ![w] =
                       [@ EXCEPT !.pc = "committingUnknown", !.lock = l, !.kill = k]]
      BY <2>9 DEF ReadForUnknown
    <3> DEFINE c == [sub[w] EXCEPT !.pc = "committingUnknown", !.lock = l, !.kill = k]
    <3>2. c.conf = sub[w].conf /\ c.intent = sub[w].intent /\ c.broker = sub[w].broker
      BY <2>0 DEF SubCall, IdleSub
    <3>3. sub' = [sub EXCEPT ![w] = c] /\ sub[w].pc = "unknown"
      BY <2>9, <3>1 DEF ReadForUnknown
    <3> HIDE DEF c
    <3> QED
      BY <2>0, <3>2, <3>3, BackedGoes
  <2> QED
    BY <1>2, <2>1, <2>2, <2>3, <2>5, <2>6, <2>7, <2>8, <2>9 DEF Submit
<1> QED
  BY <1>1, <1>2 DEF Next, Tick, LedgerMoves, LateAccept, Issue, Reconcile, Observe, Compare,
     PersistReport, ReconcilerDies, Clear, ReadForClear, CommitClear, ClearFails, durable, vars

\* So in every reachable state.
LEMMA BackedHolds == Spec => []CallsBacked
BY BackedInit, BackedStep, TypeCorrect, PTL DEF Spec

-----------------------------------------------------------------------------
(* The variables of LiveSubmission *)

Confirmed == {row.conf : row \in issued}
Used == {row.conf : row \in consumed}
Open == {s.conf : s \in Unresolved}
Called == {c \in Confirmations : calls[c] > 0}

\* With every clear supported, the last row alone decides.
LEMMA LastRowDecides == ClearsSupported => (KillActive <=> Ends(kills, "activated"))
BY DEF ClearsSupported, KillActive

\* The kill switch is a function of its rows and of the reports.
LEMMA SameSwitch ==
  ASSUME UNCHANGED <<kills, reports>>
  PROVE  KillActive' = KillActive
BY DEF KillActive, ClearUnsupported, LatestActivation, Activations, Ends

\* An activation that is appended is in force.
LEMMA ActivationStops ==
  ASSUME TypeOK, NEW n \in Nat, nextSeq < n, RowsNumbered,
         kills' = kills \cup {[seq |-> n, kind |-> "activated", marker |-> 0]}
  PROVE  KillActive'
<1>1. PICK x : x = [seq |-> n, kind |-> "activated", marker |-> 0]
  OBVIOUS
<1>2. x \in kills' /\ x.kind = "activated" /\ x.seq = n
  BY <1>1
<1>3. \A y \in kills' : y.seq <= x.seq
  BY <1>1, <1>2, RowSeqs DEF RowsNumbered, Numbered
<1> QED
  BY <1>2, <1>3 DEF KillActive, Ends

\* What the call past its claim has done and not done.
LEMMA HolderIsOpen ==
  ASSUME TypeOK, IInv, NEW w \in Submitters, Holder(w)
  PROVE  /\ sub[w].conf \in Confirmations
         /\ sub[w].conf \in Open
         /\ SubAt(w, "claimed") => sub[w].conf \notin Called
         /\ ~ SubAt(w, "claimed") => sub[w].conf \in Called
<1>1. sub[w].conf \in Confirmations
  BY DEF TypeOK, SubCall, IdleSub, Holder, AfterClaim
<1>2. \E s \in Unresolved : s.conf = sub[w].conf
  BY DEF IInv, HoldersOpen
<1>3. calls[sub[w].conf] = IF SubAt(w, "claimed") THEN 0 ELSE 1
  BY DEF IInv, HoldersOpen
<1> QED
  BY <1>1, <1>2, <1>3 DEF Open, Called

\* An open claim is the only one.
LEMMA OpenIsOne ==
  ASSUME TypeOK, IInv, NEW c \in Open
  PROVE  Open = {c}
<1>1. \A s, t \in Unresolved : s = t
  BY RowSeqs DEF IInv, OpenIsLast, RowsNumbered, Numbered, Unresolved
<1> QED
  BY <1>1 DEF Open

\* A claim commits only where none is open and the kill switch is not active.
LEMMA ClaimOpens ==
  ASSUME TypeOK, IInv, NEW w \in Submitters, CommitClaim(w)
  PROVE  Open = {} /\ Open' = {sub[w].conf} /\ ~ KillActive
<1> DEFINE x == [seq |-> nextSeq + 4, kind |-> "started", conf |-> sub[w].conf,
                 intent |-> sub[w].intent, broker |-> sub[w].broker, at |-> sub[w].at]
<1>1. /\ SubAt(w, "claiming") /\ FenceHolds(w) /\ Unused(sub[w].conf)
      /\ interlocks' = interlocks \cup {x}
  BY DEF CommitClaim
<1>2. Unresolved = {} /\ ~ KillActive
  BY <1>1 DEF IInv, ClaimReady
<1>3. x.kind = "started" /\ x.conf = sub[w].conf
  OBVIOUS
<1> HIDE DEF x
<1>4. \A y \in interlocks : y.conf # sub[w].conf
  BY <1>1 DEF IInv, ClaimsConsume
<1>5. \A s \in interlocks : s \notin Unresolved'
  BY <1>1, <1>2 DEF Unresolved
<1>6. x \in Unresolved'
  BY <1>1, <1>3, <1>4 DEF Unresolved, Resolved
<1>7. Unresolved' = {x}
  BY <1>1, <1>5, <1>6 DEF Unresolved
<1> QED
  BY <1>2, <1>3, <1>7 DEF Open

-----------------------------------------------------------------------------
(* Every step is one of LiveSubmission, or none *)

\* Every step is one of LiveSubmission, or a stutter of it.
LEMMA StepImplements ==
  TypeOK /\ IInv /\ CallsBacked /\ [Next]_vars => [Submission!Next]_(Submission!submissionVars)
<1> SUFFICES ASSUME TypeOK, IInv, CallsBacked, [Next]_vars
             PROVE  [Submission!Next]_(Submission!submissionVars)
  OBVIOUS
<1>a. IInv'
  BY InvariantStep
<1>1. CASE UNCHANGED <<durable, calls>>
  <2>1. UNCHANGED <<Confirmed, Used, Open, Called, KillActive>>
    BY <1>1, QuietRows DEF durable, Confirmed, Used, Open, Called
  <2> QED
    BY <2>1 DEF Submission!submissionVars, Confirmed, Used, Open, Called
<1>2. ASSUME NEW c \in Confirmations, Issue(c)
      PROVE  [Submission!Next]_(Submission!submissionVars)
  <2>1. c \notin Confirmed
    BY <1>2 DEF Issue, Confirmed
  <2>2. PICK row : issued' = issued \cup {row} /\ row.conf = c
    BY <1>2 DEF Issue
  <2>3. Confirmed' = Confirmed \cup {c}
    BY <2>2 DEF Confirmed
  <2>4. UNCHANGED <<Used, Open, Called, KillActive>>
    BY <1>2, SameSwitch DEF Issue, provider, Used, Open, Called, Unresolved, Resolved
  <2>5. Submission!Confirm(c)
    BY <2>1, <2>3, <2>4 DEF Submission!Confirm, Confirmed, Used, Open, Called
  <2> QED
    BY <2>5 DEF Submission!Next
<1>3. ASSUME NEW w \in Submitters, CommitClaim(w)
      PROVE  [Submission!Next]_(Submission!submissionVars)
  <2>1. sub[w].conf \in Confirmations /\ sub[w].pc = "claiming"
    BY <1>3 DEF CommitClaim, SubAt, TypeOK, SubCall, IdleSub
  <2>2. sub[w].conf \in Confirmed \ Used
    BY <1>3, <2>1 DEF CommitClaim, Unused, CallsBacked, Backed, Confirmed, Used
  <2>3. PICK row : /\ row = [seq |-> nextSeq + 2, conf |-> sub[w].conf]
                   /\ consumed' = consumed \cup {row}
    BY <1>3 DEF CommitClaim
  <2>4. Used' = Used \cup {sub[w].conf}
    BY <2>3 DEF Used
  <2>5. UNCHANGED <<Confirmed, Called, KillActive>>
    BY <1>3, SameSwitch DEF CommitClaim, provider, Confirmed, Called
  <2>6. \E c \in Confirmations : Submission!Start(c)
    BY <1>3, <2>1, <2>2, <2>4, <2>5, ClaimOpens DEF Submission!Start, Confirmed, Used, Open, Called
  <2> QED
    BY <2>6 DEF Submission!Next
<1>4. ASSUME NEW w \in Submitters, CallBroker(w)
      PROVE  [Submission!Next]_(Submission!submissionVars)
  <2>1. Holder(w) /\ SubAt(w, "claimed")
    BY <1>4 DEF CallBroker, Holder, SubAt, AfterClaim
  <2>2. sub[w].conf \in Confirmations /\ sub[w].conf \in Open \ Called
    BY <2>1, HolderIsOpen
  <2>3. Called' = Called \cup {sub[w].conf}
    <3>1. calls' = [calls EXCEPT ![sub[w].conf] = calls[sub[w].conf] + 1]
      BY <1>4 DEF CallBroker
    <3>2. calls \in [Confirmations -> Nat]
      BY DEF TypeOK
    <3> QED
      BY <2>2, <3>1, <3>2 DEF Called
  <2>4. UNCHANGED <<Confirmed, Used, Open, KillActive>>
    BY <1>4, SameSwitch DEF CallBroker, durable, Confirmed, Used, Open, Unresolved, Resolved
  <2>5. \E c \in Confirmations : Submission!CallBroker(c)
    BY <2>2, <2>3, <2>4 DEF Submission!CallBroker, Confirmed, Used, Open, Called
  <2> QED
    BY <2>5 DEF Submission!Next
<1>5. ASSUME NEW w \in Submitters, CommitAck(w) \/ CommitUnknown(w)
      PROVE  [Submission!Next]_(Submission!submissionVars)
  <2>1. Holder(w) /\ ~ SubAt(w, "claimed")
    BY <1>5 DEF CommitAck, CommitUnknown, Holder, SubAt, AfterClaim
  <2>2. sub[w].conf \in Confirmations /\ sub[w].conf \in Open \cap Called
    BY <2>1, HolderIsOpen
  <2>3. Open' = {}
    BY <1>5, ResolutionKeeps DEF Open
  <2>4. UNCHANGED <<Confirmed, Used, Called>>
    BY <1>5 DEF CommitAck, CommitUnknown, provider, Confirmed, Used, Called
  <2>5. CASE CommitAck(w)
    <3>1. UNCHANGED KillActive
      BY <2>5, SameSwitch DEF CommitAck
    <3>2. \E c \in Confirmations : Submission!Acknowledge(c)
      BY <2>2, <2>3, <2>4, <3>1 DEF Submission!Acknowledge, Confirmed, Used, Open, Called
    <3> QED
      BY <3>2 DEF Submission!Next
  <2>6. CASE CommitUnknown(w)
    <3>1. KillActive'
      <4>1. nextSeq + 3 \in Nat /\ nextSeq < nextSeq + 3
        BY RowSeqs
      <4> QED
        BY <2>6, <4>1, ActivationStops DEF CommitUnknown, IInv
    <3>2. \E c \in Confirmations : Submission!GiveUp(c)
      BY <2>2, <2>3, <2>4, <3>1 DEF Submission!GiveUp, Confirmed, Used, Open, Called
    <3> QED
      BY <3>2 DEF Submission!Next
  <2> QED
    BY <1>5, <2>5, <2>6
<1>6. ASSUME NEW r \in Reconcilers, PersistReport(r)
      PROVE  [Submission!Next]_(Submission!submissionVars)
  <2>1. UNCHANGED <<Confirmed, Used, Open, Called>>
    BY <1>6, PersistReportKeeps DEF PersistReport, provider, Confirmed, Used, Open, Called
  <2>2. CASE UNCHANGED kills
    <3>1. UNCHANGED KillActive
      BY <1>a, <2>2, LastRowDecides DEF IInv, Ends, KillActive, ClearsSupported
    <3> QED
      BY <2>1, <3>1 DEF Submission!submissionVars, Confirmed, Used, Open, Called
  <2>3. CASE ~ UNCHANGED kills
    <3>1. KillActive'
      <4>1. nextSeq + 2 \in Nat /\ nextSeq < nextSeq + 2
        BY RowSeqs
      <4> QED
        BY <1>6, <2>3, <4>1, ActivationStops DEF PersistReport, IInv
    <3>2. Submission!Stop
      BY <2>1, <3>1 DEF Submission!Stop, Confirmed, Used, Open, Called
    <3> QED
      BY <3>2 DEF Submission!Next
  <2> QED
    BY <2>2, <2>3
<1>7. ASSUME NEW o \in Operators, CommitClear(o)
      PROVE  [Submission!Next]_(Submission!submissionVars)
  <2>1. KillActive /\ Open = {}
    BY <1>7 DEF CommitClear, IInv, ClearReady, Open
  <2>2. UNCHANGED <<Confirmed, Used, Open, Called>>
    BY <1>7, CommitClearKeeps DEF CommitClear, provider, Confirmed, Used, Open, Called
  <2>3. KillActive' = FALSE
    <3>0. PICK x : /\ x = [seq |-> nextSeq + 1, kind |-> "cleared", marker |-> clr[o].marker]
                   /\ kills' = kills \cup {x}
      BY <1>7 DEF CommitClear
    <3>1. kills' = kills \cup {x} /\ x.kind = "cleared" /\ x.seq = nextSeq + 1
      BY <3>0
    <3>2. \A y \in kills : y.seq <= nextSeq /\ y.seq \in Nat
      BY RowSeqs DEF IInv, RowsNumbered, Numbered
    <3>3. ~ Ends(kills', "activated")
      BY <3>1, <3>2, RowSeqs DEF Ends
    <3> QED
      BY <1>a, <3>3 DEF KillActive, IInv, ClearsSupported
  <2>4. Submission!Resume
    BY <2>1, <2>2, <2>3 DEF Submission!Resume, Confirmed, Used, Open, Called
  <2> QED
    BY <2>4 DEF Submission!Next
<1>8. \/ UNCHANGED <<durable, calls>>
      \/ \E c \in Confirmations : Issue(c)
      \/ \E w \in Submitters : CommitClaim(w) \/ CallBroker(w) \/ CommitAck(w) \/ CommitUnknown(w)
      \/ \E r \in Reconcilers : PersistReport(r)
      \/ \E o \in Operators : CommitClear(o)
  BY DEF Next, Tick, LedgerMoves, LateAccept, Submit, Reconcile, Clear, Leave, Enter,
         Admit, CaptureFence, Claim, QueryAmbiguous, ReadForAck, AckFails, ReadForUnknown,
         UnknownConflict, Refuse, Crash, Observe, Compare, ReconcilerDies, ReadForClear,
         ClearFails, provider, vars
<1> QED
  BY <1>1, <1>2, <1>3, <1>4, <1>5, <1>6, <1>7, <1>8

(***************************************************************************)
(* The protocol of execution/safety.py keeps its promise: what LiveSafety  *)
(* does to the store and the broker is what LiveSubmission allows, for any *)
(* interleaving of any number of threads and wherever they die.            *)
(***************************************************************************)
THEOREM SubmissionImplemented == Spec => ImplementsSubmission
<1>1. Init => Submission!Init
  BY DEF Init, Submission!Init, Unresolved, KillActive, Ends
<1> QED
  BY <1>1, StepImplements, TypeCorrect, InvariantHolds, BackedHolds, PTL
     DEF Spec, ImplementsSubmission, Submission!Spec

-----------------------------------------------------------------------------
(* What a call is authorised by *)

\* A call to the broker has its issued confirmation and its unresolved claim.
LEMMA CallIsAuthorised ==
  ASSUME TypeOK, IInv, CallsBacked, [Next]_vars, NEW c \in Confirmations, calls'[c] # calls[c]
  PROVE  \E row \in issued, s \in Unresolved :
            /\ row.conf = c /\ s.conf = c
            /\ row.intent = s.intent /\ row.broker = s.broker
<1>1. PICK w \in Submitters : CallBroker(w)
  BY DEF Next, Tick, LedgerMoves, LateAccept, Issue, Submit, Reconcile, Clear, Leave, Enter,
         Admit, CaptureFence, Claim, CommitClaim, QueryAmbiguous, ReadForAck, CommitAck,
         AckFails, ReadForUnknown, CommitUnknown, UnknownConflict, Refuse, Crash, Observe,
         Compare, PersistReport, ReconcilerDies, ReadForClear, CommitClear, ClearFails,
         provider, vars
<1>2. SubAt(w, "claimed") /\ c = sub[w].conf
  BY <1>1 DEF CallBroker, TypeOK
<1>3. PICK row \in issued : /\ row.conf = c /\ row.intent = sub[w].intent
                            /\ row.broker = sub[w].broker
  BY <1>2 DEF CallsBacked, Backed, SubAt
<1>4. PICK s \in Unresolved : s.conf = c /\ s.intent = sub[w].intent /\ s.broker = sub[w].broker
  BY <1>2 DEF IInv, HoldersOpen, Holder, SubAt, AfterClaim
<1> QED
  BY <1>3, <1>4

(***************************************************************************)
(* Every broker call is for the intent and the broker of one confirmation  *)
(* and of the claim that is still unresolved in the store.                 *)
(***************************************************************************)
THEOREM CallsAuthorised == Spec => AuthorisedCall
<1>1. TypeOK /\ IInv /\ CallsBacked /\ [Next]_vars =>
        [\A c \in Confirmations : calls'[c] # calls[c] =>
          \E row \in issued, s \in Unresolved :
             /\ row.conf = c /\ s.conf = c
             /\ row.intent = s.intent /\ row.broker = s.broker]_vars
  BY CallIsAuthorised
<1> QED
  BY <1>1, TypeCorrect, InvariantHolds, BackedHolds, PTL DEF Spec, AuthorisedCall

-----------------------------------------------------------------------------
(* What the rows say is true: orders go back to starts, claims were made     *)
(* within their windows, and the two replays of the rows agree.  First the   *)
(* orders.                                                                   *)

\* A call is about to acknowledge only what the provider has accepted.
AcksAccepted == \A w \in Submitters :
    sub[w].pc \in {"acknowledging", "committingAck"} => sub[w].intent \in accepted

OrdersInv == AcksAccepted /\ OrdersAreAccounted

\* At first there are no orders.
LEMMA OrdersInit == Init => OrdersInv
BY DEF Init, OrdersInv, AcksAccepted, OrdersAreAccounted, IdleSub

\* A step of one call that accepts no order and writes no row.
LEMMA OrdersGo ==
  ASSUME TypeOK, OrdersInv, UNCHANGED <<interlocks, accepted, transit>>,
         NEW w \in Submitters, NEW c, sub' = [sub EXCEPT ![w] = c],
         c.pc \in {"acknowledging", "committingAck"} => c.intent \in accepted
  PROVE  OrdersInv'
<1>1. sub'[w] = c /\ \A v \in Submitters : v # w => sub'[v] = sub[v]
  BY DEF TypeOK
<1>2. AcksAccepted'
  BY <1>1 DEF OrdersInv, AcksAccepted
<1>3. OrdersAreAccounted'
  BY DEF OrdersInv, OrdersAreAccounted
<1> QED
  BY <1>2, <1>3 DEF OrdersInv

\* Every step of a submission keeps what the rows say of the orders.
LEMMA SubmitOrders ==
  ASSUME TypeOK, IInv, OrdersInv, NEW w \in Submitters, Submit(w)
  PROVE  OrdersInv'
<1> USE DEF SubAt, SubGoto
<1>0. sub[w] \in SubCall
  BY DEF TypeOK
<1>1. ASSUME NEW label \in {"admitted", "claimed", "unknown"}, sub' = [sub EXCEPT ![w].pc = label],
             UNCHANGED <<interlocks, accepted, transit>>
      PROVE  OrdersInv'
  <2> DEFINE c == [sub[w] EXCEPT !.pc = label]
  <2>1. sub' = [sub EXCEPT ![w] = c] /\ c.pc = label
    BY <1>0, <1>1 DEF SubCall, IdleSub
  <2> HIDE DEF c
  <2> QED
    BY <1>1, <2>1, OrdersGo
<1>2. CASE Enter(w)
  <2>1. PICK row \in issued, i \in Intents, b \in Brokers, r \in reports :
             sub' = [sub EXCEPT ![w] = [pc |-> "entered", conf |-> row.conf, intent |-> i,
                        broker |-> b, report |-> r.seq, kill |-> 0, lock |-> 0, at |-> 0]]
    BY <1>2 DEF Enter
  <2> QED
    BY <1>2, <2>1, OrdersGo DEF Enter, durable, provider
<1>3. CASE Admit(w) \/ AckFails(w)
  BY <1>1, <1>3 DEF Admit, AckFails, durable, provider
<1>4. CASE CaptureFence(w)
  <2>1. PICK k \in 0..nextSeq, l \in 0..nextSeq :
             sub' = [sub EXCEPT ![w] = [@ EXCEPT !.pc = "fenced", !.kill = k, !.lock = l]]
    BY <1>4 DEF CaptureFence
  <2> DEFINE c == [sub[w] EXCEPT !.pc = "fenced", !.kill = k, !.lock = l]
  <2>2. c.pc = "fenced"
    BY <1>0 DEF SubCall, IdleSub
  <2>3. sub' = [sub EXCEPT ![w] = c]
    BY <2>1
  <2> HIDE DEF c
  <2> QED
    BY <1>4, <2>2, <2>3, OrdersGo DEF CaptureFence, durable, provider
<1>5. CASE Claim(w)
  <2> DEFINE c == [sub[w] EXCEPT !.pc = "claiming", !.at = clock]
  <2>1. c.pc = "claiming" /\ sub' = [sub EXCEPT ![w] = c]
    BY <1>0, <1>5 DEF Claim, SubCall, IdleSub
  <2> HIDE DEF c
  <2> QED
    BY <1>5, <2>1, OrdersGo DEF Claim, durable, provider
<1>6. CASE CommitClaim(w)
  <2> DEFINE x == [seq |-> nextSeq + 4, kind |-> "started", conf |-> sub[w].conf,
                   intent |-> sub[w].intent, broker |-> sub[w].broker, at |-> sub[w].at]
  <2>1. interlocks' = interlocks \cup {x} /\ x.kind = "started"
    BY <1>6 DEF CommitClaim
  <2> HIDE DEF x
  <2>2. OrdersAreAccounted'
    BY <1>6, <2>1 DEF CommitClaim, OrdersInv, OrdersAreAccounted, provider
  <2>3. sub'[w].pc = "claimed" /\ \A v \in Submitters : v # w => sub'[v] = sub[v]
    BY <1>0, <1>6 DEF CommitClaim, TypeOK, SubCall, IdleSub
  <2>4. AcksAccepted'
    BY <1>6, <2>3 DEF CommitClaim, OrdersInv, AcksAccepted, provider
  <2> QED
    BY <2>2, <2>4 DEF OrdersInv
<1>7. CASE CallBroker(w)
  <2>1. sub[w].pc \in AfterClaim
    BY <1>7 DEF CallBroker, AfterClaim
  <2>2. \E s \in interlocks : s.kind = "started" /\ s.intent = sub[w].intent
    <3>1. PICK s \in Unresolved : s.intent = sub[w].intent
      BY <2>1 DEF IInv, HoldersOpen, Holder
    <3> QED
      BY <3>1 DEF Unresolved, Resolved
  <2>3. /\ accepted \subseteq accepted'
        /\ accepted' \cup transit' \subseteq accepted \cup transit \cup {sub[w].intent}
        /\ UNCHANGED interlocks
    BY <1>7 DEF CallBroker, durable
  <2>4. OrdersAreAccounted'
    BY <2>2, <2>3 DEF OrdersInv, OrdersAreAccounted
  <2>5. \/ sub'[w].pc = "querying"
        \/ sub'[w].intent \in accepted'
    BY <1>0, <1>7 DEF CallBroker, TypeOK, SubCall, IdleSub
  <2>6. \A v \in Submitters : v # w => sub'[v] = sub[v]
    BY <1>7 DEF CallBroker, TypeOK
  <2>7. AcksAccepted'
    BY <2>3, <2>5, <2>6 DEF OrdersInv, AcksAccepted
  <2> QED
    BY <2>4, <2>7 DEF OrdersInv
<1>8. CASE QueryAmbiguous(w)
  <2>1. CASE SubGoto(w, "unknown")
    BY <1>1, <1>8, <2>1 DEF QueryAmbiguous, durable, provider
  <2>2. CASE sub[w].intent \in accepted /\ SubGoto(w, "acknowledging")
    <3> DEFINE c == [sub[w] EXCEPT !.pc = "acknowledging"]
    <3>1. sub' = [sub EXCEPT ![w] = c] /\ c.intent = sub[w].intent
      BY <1>0, <2>2 DEF SubCall, IdleSub
    <3> HIDE DEF c
    <3> QED
      BY <1>8, <2>2, <3>1, OrdersGo DEF QueryAmbiguous, durable, provider
  <2> QED
    BY <1>8, <2>1, <2>2 DEF QueryAmbiguous
<1>9. CASE ReadForAck(w)
  <2> DEFINE p == IF Holds(w) THEN "committingAck" ELSE "unknown"
  <2>1. PICK l \in 0..nextSeq : sub' = [sub EXCEPT ![w] = [@ EXCEPT !.pc = p, !.lock = l]]
    BY <1>9 DEF ReadForAck
  <2> HIDE DEF p
  <2> DEFINE c == [sub[w] EXCEPT !.pc = p, !.lock = l]
  <2>2. c.intent = sub[w].intent /\ sub[w].intent \in accepted
    BY <1>0, <1>9 DEF ReadForAck, OrdersInv, AcksAccepted, SubCall, IdleSub
  <2>3. sub' = [sub EXCEPT ![w] = c]
    BY <2>1
  <2> HIDE DEF c
  <2> QED
    BY <1>9, <2>2, <2>3, OrdersGo DEF ReadForAck, durable, provider
<1>10. CASE ReadForUnknown(w)
  <2>1. PICK l \in 0..nextSeq, k \in 0..nextSeq :
             sub' = [sub EXCEPT ![w] =
                       [@ EXCEPT !.pc = "committingUnknown", !.lock = l, !.kill = k]]
    BY <1>10 DEF ReadForUnknown
  <2> DEFINE c == [sub[w] EXCEPT !.pc = "committingUnknown", !.lock = l, !.kill = k]
  <2>2. c.pc = "committingUnknown"
    BY <1>0 DEF SubCall, IdleSub
  <2>3. sub' = [sub EXCEPT ![w] = c]
    BY <2>1
  <2> HIDE DEF c
  <2> QED
    BY <1>10, <2>2, <2>3, OrdersGo DEF ReadForUnknown, durable, provider
<1>11. CASE CommitAck(w) \/ CommitUnknown(w)
  <2>a. PICK kind \in {"acknowledged", "unknown"} :
             /\ interlocks' = interlocks \cup
                  {[seq |-> nextSeq + 2, kind |-> kind, conf |-> sub[w].conf,
                    intent |-> sub[w].intent, broker |-> sub[w].broker, at |-> 0]}
             /\ kind = "acknowledged" => CommitAck(w)
    BY <1>11 DEF CommitAck, CommitUnknown
  <2> DEFINE x == [seq |-> nextSeq + 2, kind |-> kind, conf |-> sub[w].conf,
                   intent |-> sub[w].intent, broker |-> sub[w].broker, at |-> 0]
  <2>1. /\ interlocks' = interlocks \cup {x} /\ x.intent = sub[w].intent
        /\ x.kind = "acknowledged" => CommitAck(w)
    BY <2>a
  <2> HIDE DEF x
  <2>2. CommitAck(w) => sub[w].intent \in accepted
    BY DEF CommitAck, OrdersInv, AcksAccepted
  <2>3. OrdersAreAccounted'
    BY <1>11, <2>1, <2>2 DEF CommitAck, CommitUnknown, OrdersInv, OrdersAreAccounted, provider
  <2>4. sub'[w].pc = "idle" /\ \A v \in Submitters : v # w => sub'[v] = sub[v]
    BY <1>11 DEF CommitAck, CommitUnknown, TypeOK, IdleSub
  <2>5. AcksAccepted'
    BY <1>11, <2>4 DEF CommitAck, CommitUnknown, OrdersInv, AcksAccepted, provider
  <2> QED
    BY <2>3, <2>5 DEF OrdersInv
<1>12. CASE UnknownConflict(w) \/ Refuse(w) \/ Crash(w)
  <2>1. sub' = [sub EXCEPT ![w] = IdleSub] /\ IdleSub.pc = "idle"
        /\ UNCHANGED <<interlocks, accepted, transit>>
    BY <1>12 DEF UnknownConflict, Refuse, Crash, Leave, IdleSub, durable, provider
  <2> QED
    BY <2>1, OrdersGo
<1> QED
  BY <1>2, <1>3, <1>4, <1>5, <1>6, <1>7, <1>8, <1>9, <1>10, <1>11, <1>12 DEF Submit

\* So does every other step.
LEMMA OrdersStep == TypeOK /\ IInv /\ OrdersInv /\ [Next]_vars => OrdersInv'
<1> SUFFICES ASSUME TypeOK, IInv, OrdersInv, [Next]_vars
             PROVE  OrdersInv'
  OBVIOUS
<1>1. ASSUME NEW i \in Intents, LateAccept(i)
      PROVE  OrdersInv'
  BY <1>1 DEF LateAccept, OrdersInv, AcksAccepted, OrdersAreAccounted, durable
<1>2. ASSUME UNCHANGED <<interlocks, sub, provider>>
      PROVE  OrdersInv'
  BY <1>2 DEF provider, OrdersInv, AcksAccepted, OrdersAreAccounted
<1> QED
  BY <1>1, <1>2, SubmitOrders DEF Next, vars, durable, provider, Tick, LedgerMoves, Issue,
     Reconcile, Observe, Compare, PersistReport, ReconcilerDies, Clear, ReadForClear, CommitClear,
     ClearFails

\* Every order the provider has or may still take goes back to a durable start, and
\* every acknowledgement to an order.
THEOREM OrdersAccountedHolds == Spec => []OrdersAreAccounted
<1>1. OrdersInv => OrdersAreAccounted
  BY DEF OrdersInv
<1> QED
  BY <1>1, OrdersInit, OrdersStep, TypeCorrect, InvariantHolds, PTL DEF Spec

-----------------------------------------------------------------------------
(* Windows *)

\* Nobody decides on a ledger that is still to come.
PortfoliosPast == \A row \in issued : row.portfolio <= ledger

\* The report of a fence agreed with a ledger no older than any decision that its
\* confirmation carries.
FencedLedger(w) ==
    \E r \in reports : /\ r.seq = sub[w].report /\ r.ledger <= ledger
                       /\ \A row \in issued : row.conf = sub[w].conf => row.portfolio <= r.ledger

\* What holds at the instant a claim bears.
ClaimInstant(w) ==
    \E row \in issued, r \in reports :
        /\ row.conf = sub[w].conf
        /\ row.at <= sub[w].at /\ sub[w].at < row.expires
        /\ row.decided <= sub[w].at /\ sub[w].at < row.decided + RiskTTL
        /\ r.seq = sub[w].report /\ RecentAt(r, sub[w].at)
        /\ r.ledger = row.portfolio
FencesAgree == \A w \in Submitters : /\ SubAt(w, "fenced") => FencedLedger(w)
                                     /\ SubAt(w, "claiming") => ClaimInstant(w)

WindowsInv == PortfoliosPast /\ FencesAgree /\ ClaimWithinWindows

\* At first there is no claim.
LEMMA WindowsInit == Init => WindowsInv
BY DEF Init, WindowsInv, PortfoliosPast, FencesAgree, SubAt, IdleSub, ClaimWithinWindows

\* A step of one call that neither fences nor claims, nor starts a submission.
LEMMA WindowsGo ==
  ASSUME TypeOK, WindowsInv, UNCHANGED <<ledger, issued, reports>>,
         \A s \in interlocks' : s.kind = "started" => s \in interlocks,
         NEW w \in Submitters, NEW c, sub' = [sub EXCEPT ![w] = c],
         c.pc \notin {"fenced", "claiming"}
  PROVE  WindowsInv'
<1>1. sub'[w] = c /\ \A v \in Submitters : v # w => sub'[v] = sub[v]
  BY DEF TypeOK
<1>2. PortfoliosPast'
  BY DEF WindowsInv, PortfoliosPast
<1>3. FencesAgree'
  BY <1>1 DEF WindowsInv, FencesAgree, SubAt, FencedLedger, ClaimInstant, RecentAt
<1>4. ClaimWithinWindows'
  BY DEF WindowsInv, ClaimWithinWindows, RecentAt
<1> QED
  BY <1>2, <1>3, <1>4 DEF WindowsInv

\* The versions of the portfolio are numbers.
LEMMA WindowTypes ==
  ASSUME TypeOK
  PROVE  /\ ledger \in Nat
         /\ \A r \in reports : r.seq \in Seqs /\ r.ledger \in Nat
         /\ \A row \in issued : row.portfolio \in Nat
BY DEF TypeOK, ReportRow, IssuedRow

\* Capturing the fence keeps the windows.
LEMMA FenceWindows ==
  ASSUME TypeOK, WindowsInv, NEW w \in Submitters, CaptureFence(w)
  PROVE  WindowsInv'
<1>0. sub[w] \in SubCall /\ sub[w].pc = "admitted"
  BY DEF TypeOK, CaptureFence, SubAt
<1>1. PICK k \in 0..nextSeq, l \in 0..nextSeq :
         sub' = [sub EXCEPT ![w] = [@ EXCEPT !.pc = "fenced", !.kill = k, !.lock = l]]
  BY DEF CaptureFence
<1> DEFINE c == [sub[w] EXCEPT !.pc = "fenced", !.kill = k, !.lock = l]
<1>2. c.pc = "fenced" /\ c.conf = sub[w].conf /\ c.report = sub[w].report
  BY <1>0 DEF SubCall, IdleSub
<1>3. sub' = [sub EXCEPT ![w] = c]
  BY <1>1
<1> HIDE DEF c
<1>4. sub'[w] = c /\ \A v \in Submitters : v # w => sub'[v] = sub[v]
  BY <1>3 DEF TypeOK
<1>5. UNCHANGED <<ledger, issued, reports, interlocks>>
  BY DEF CaptureFence, durable
<1>6. FencedLedger(w)'
  <2>1. PICK r \in reports : r.seq = sub[w].report /\ r.ledger = ledger
    BY DEF CaptureFence, CurrentHealthy
  <2> QED
    BY <1>2, <1>4, <1>5, <2>1, WindowTypes DEF FencedLedger, WindowsInv, PortfoliosPast
<1>7. FencesAgree'
  BY <1>2, <1>4, <1>5, <1>6
     DEF WindowsInv, FencesAgree, SubAt, FencedLedger, ClaimInstant, RecentAt
<1> QED
  BY <1>5, <1>7 DEF WindowsInv, PortfoliosPast, ClaimWithinWindows, RecentAt

\* The checks before a claim keep the windows.
LEMMA ClaimWindows ==
  ASSUME TypeOK, RowsNumbered, WindowsInv, NEW w \in Submitters, Claim(w)
  PROVE  WindowsInv'
<1>0. sub[w] \in SubCall /\ sub[w].pc = "fenced"
  BY DEF TypeOK, Claim, SubAt
<1> DEFINE c == [sub[w] EXCEPT !.pc = "claiming", !.at = clock]
<1>1. c.pc = "claiming" /\ c.conf = sub[w].conf /\ c.report = sub[w].report /\ c.at = clock
  BY <1>0 DEF SubCall, IdleSub
<1>2. sub' = [sub EXCEPT ![w] = c]
  BY DEF Claim
<1> HIDE DEF c
<1>3. sub'[w] = c /\ \A v \in Submitters : v # w => sub'[v] = sub[v]
  BY <1>2 DEF TypeOK
<1>4. UNCHANGED <<ledger, issued, reports, interlocks>>
  BY DEF Claim, durable
<1>5. PICK row \in issued : /\ row.conf = sub[w].conf
                            /\ row.at <= clock /\ clock < row.expires
                            /\ row.decided <= clock /\ clock < row.decided + RiskTTL
                            /\ row.portfolio = ledger
  BY DEF Claim, Verified, RiskCurrent, RiskRequired
<1>6. PICK r \in reports : r.seq = sub[w].report /\ r.ledger <= ledger
                           /\ row.portfolio <= r.ledger
  BY <1>0, <1>5 DEF WindowsInv, FencesAgree, SubAt, FencedLedger
<1>7. PICK q \in reports : q.seq = sub[w].report /\ RecentAt(q, clock)
  BY DEF Claim, Recent
<1>8. q = r
  BY <1>6, <1>7 DEF RowsNumbered, Numbered
<1>9. r.ledger = row.portfolio
  BY <1>5, <1>6, WindowTypes
<1>10. ClaimInstant(w)'
  BY <1>1, <1>3, <1>4, <1>5, <1>6, <1>7, <1>8, <1>9 DEF ClaimInstant, RecentAt
<1>11. FencesAgree'
  BY <1>1, <1>3, <1>4, <1>10
     DEF WindowsInv, FencesAgree, SubAt, FencedLedger, ClaimInstant, RecentAt
<1> QED
  BY <1>4, <1>11 DEF WindowsInv, PortfoliosPast, ClaimWithinWindows, RecentAt

\* Committing a claim keeps the windows.
LEMMA CommitWindows ==
  ASSUME TypeOK, RowsNumbered, WindowsInv, NEW w \in Submitters, CommitClaim(w)
  PROVE  WindowsInv'
<1> DEFINE x == [seq |-> nextSeq + 4, kind |-> "started", conf |-> sub[w].conf,
                 intent |-> sub[w].intent, broker |-> sub[w].broker, at |-> sub[w].at]
<1>0. sub[w] \in SubCall
  BY DEF TypeOK
<1>1. /\ SubAt(w, "claiming") /\ HeadIs(reports, sub[w].report)
      /\ interlocks' = interlocks \cup {x}
      /\ UNCHANGED <<ledger, issued, reports>>
  BY DEF CommitClaim, FenceHolds
<1>2. x.seq = nextSeq + 4 /\ x.conf = sub[w].conf /\ x.at = sub[w].at
  OBVIOUS
<1> HIDE DEF x
<1>3. sub'[w].pc = "claimed" /\ \A v \in Submitters : v # w => sub'[v] = sub[v]
  BY <1>0 DEF CommitClaim, SubGoto, TypeOK, SubCall, IdleSub
<1>4. FencesAgree'
  BY <1>1, <1>3 DEF WindowsInv, FencesAgree, SubAt, FencedLedger, ClaimInstant, RecentAt
<1>5. PICK row \in issued, r \in reports :
         /\ row.conf = x.conf
         /\ row.at <= x.at /\ x.at < row.expires
         /\ row.decided <= x.at /\ x.at < row.decided + RiskTTL
         /\ r.seq = sub[w].report /\ RecentAt(r, x.at)
         /\ r.ledger = row.portfolio
  BY <1>1, <1>2 DEF WindowsInv, FencesAgree, ClaimInstant
<1>6. \A q \in reports : q.seq <= r.seq
  BY <1>1, <1>5 DEF HeadIs
<1>7. r.seq < x.seq
  BY <1>2, WindowTypes DEF RowsNumbered, Numbered, TypeOK, Seqs
<1>8. ClaimWithinWindows'
  <2> SUFFICES ASSUME NEW s \in interlocks', s.kind = "started"
               PROVE  \E y \in issued, p \in reports :
                         /\ y.conf = s.conf
                         /\ y.at <= s.at /\ s.at < y.expires
                         /\ y.decided <= s.at /\ s.at < y.decided + RiskTTL
                         /\ p.seq < s.seq /\ \A q \in reports : q.seq < s.seq => q.seq <= p.seq
                         /\ RecentAt(p, s.at)
                         /\ p.ledger = y.portfolio
    BY <1>1 DEF ClaimWithinWindows, RecentAt
  <2>1. CASE s \in interlocks
    BY <2>1 DEF WindowsInv, ClaimWithinWindows
  <2>2. CASE s = x
    BY <1>5, <1>6, <1>7, <2>2
  <2> QED
    BY <1>1, <2>1, <2>2
<1> QED
  BY <1>1, <1>4, <1>8 DEF WindowsInv, PortfoliosPast

\* Persisting a report keeps the windows.
LEMMA PersistWindows ==
  ASSUME TypeOK, RowsNumbered, WindowsInv, NEW r \in Reconcilers, PersistReport(r)
  PROVE  WindowsInv'
<1> DEFINE x == [seq |-> nextSeq + 1, healthy |-> rec[r].healthy, broker |-> rec[r].broker,
                 ledger |-> rec[r].ledger, at |-> rec[r].at, seen |-> rec[r].seen]
<1>1. /\ reports' = reports \cup {x} /\ x.seq = nextSeq + 1
      /\ UNCHANGED <<ledger, issued, interlocks, sub>>
  BY DEF PersistReport
<1> HIDE DEF x
<1>2. PortfoliosPast' /\ FencesAgree'
  BY <1>1 DEF WindowsInv, PortfoliosPast, FencesAgree, SubAt, FencedLedger, ClaimInstant, RecentAt
<1>3. \A s \in interlocks : ~ (x.seq < s.seq)
  BY <1>1, RowSeqs DEF RowsNumbered, Numbered
<1>4. ClaimWithinWindows'
  BY <1>1, <1>3 DEF WindowsInv, ClaimWithinWindows, RecentAt
<1> QED
  BY <1>2, <1>4 DEF WindowsInv

\* A confirmation is issued once, so the row that backs a call is the only one.
LEMMA IssueWindows ==
  ASSUME TypeOK, CallsBacked, WindowsInv, NEW c \in Confirmations, Issue(c)
  PROVE  WindowsInv'
<1>1. PICK i \in Intents, b \in Brokers, d \in 0..clock, p \in 0..ledger,
           lifetime \in 1..ConfirmLifetime :
         issued' = issued \cup {[seq |-> nextSeq + 1, conf |-> c, intent |-> i, broker |-> b,
                                 at |-> clock, expires |-> clock + lifetime,
                                 decided |-> d, portfolio |-> p]}
  BY DEF Issue
<1> DEFINE x == [seq |-> nextSeq + 1, conf |-> c, intent |-> i, broker |-> b,
                 at |-> clock, expires |-> clock + lifetime, decided |-> d, portfolio |-> p]
<1>2. /\ issued' = issued \cup {x} /\ x.conf = c /\ x.portfolio <= ledger
      /\ UNCHANGED <<ledger, reports, interlocks, sub>>
      /\ \A row \in issued : row.conf # c
  BY <1>1, WindowTypes DEF Issue
<1> HIDE DEF x
<1>3. \A w \in Submitters : sub[w].pc # "idle" => sub[w].conf # c
  BY <1>2 DEF CallsBacked, Backed
<1>4. PortfoliosPast' /\ FencesAgree'
  BY <1>2, <1>3
     DEF WindowsInv, PortfoliosPast, FencesAgree, SubAt, FencedLedger, ClaimInstant, RecentAt
<1>5. ClaimWithinWindows'
  BY <1>2 DEF WindowsInv, ClaimWithinWindows, RecentAt
<1> QED
  BY <1>4, <1>5 DEF WindowsInv

\* Every step of a submission keeps the windows.
LEMMA SubmitWindows ==
  ASSUME TypeOK, RowsNumbered, WindowsInv, NEW w \in Submitters, Submit(w)
  PROVE  WindowsInv'
<1> USE DEF SubAt, SubGoto
<1>0. sub[w] \in SubCall
  BY DEF TypeOK
<1>1. ASSUME NEW label \in {"admitted", "acknowledging", "querying", "unknown"},
             sub' = [sub EXCEPT ![w].pc = label],
             UNCHANGED <<ledger, issued, reports, interlocks>>
      PROVE  WindowsInv'
  <2> DEFINE c == [sub[w] EXCEPT !.pc = label]
  <2>1. sub' = [sub EXCEPT ![w] = c] /\ c.pc = label
    BY <1>0, <1>1 DEF SubCall, IdleSub
  <2> HIDE DEF c
  <2> QED
    BY <1>1, <2>1, WindowsGo
<1>2. CASE Enter(w)
  <2>1. PICK row \in issued, i \in Intents, b \in Brokers, r \in reports :
             sub' = [sub EXCEPT ![w] = [pc |-> "entered", conf |-> row.conf, intent |-> i,
                        broker |-> b, report |-> r.seq, kill |-> 0, lock |-> 0, at |-> 0]]
    BY <1>2 DEF Enter
  <2> QED
    BY <1>2, <2>1, WindowsGo DEF Enter, durable
<1>3. CASE Admit(w) \/ CallBroker(w) \/ QueryAmbiguous(w) \/ AckFails(w)
  BY <1>1, <1>3 DEF Admit, CallBroker, QueryAmbiguous, AckFails, durable
<1>4. CASE CaptureFence(w) \/ Claim(w) \/ CommitClaim(w)
  BY <1>4, FenceWindows, ClaimWindows, CommitWindows
<1>5. CASE ReadForAck(w)
  <2> DEFINE p == IF Holds(w) THEN "committingAck" ELSE "unknown"
  <2>1. PICK l \in 0..nextSeq : sub' = [sub EXCEPT ![w] = [@ EXCEPT !.pc = p, !.lock = l]]
    BY <1>5 DEF ReadForAck
  <2>2. p \notin {"fenced", "claiming"}
    OBVIOUS
  <2> HIDE DEF p
  <2> DEFINE c == [sub[w] EXCEPT !.pc = p, !.lock = l]
  <2>3. sub' = [sub EXCEPT ![w] = c] /\ c.pc = p
    BY <1>0, <2>1 DEF SubCall, IdleSub
  <2> HIDE DEF c
  <2> QED
    BY <1>5, <2>2, <2>3, WindowsGo DEF ReadForAck, durable
<1>6. CASE ReadForUnknown(w)
  <2>1. PICK l \in 0..nextSeq, k \in 0..nextSeq :
             sub' = [sub EXCEPT ![w] =
                       [@ EXCEPT !.pc = "committingUnknown", !.lock = l, !.kill = k]]
    BY <1>6 DEF ReadForUnknown
  <2> DEFINE c == [sub[w] EXCEPT !.pc = "committingUnknown", !.lock = l, !.kill = k]
  <2>2. sub' = [sub EXCEPT ![w] = c] /\ c.pc = "committingUnknown"
    BY <1>0, <2>1 DEF SubCall, IdleSub
  <2> HIDE DEF c
  <2> QED
    BY <1>6, <2>2, WindowsGo DEF ReadForUnknown, durable
<1>7. CASE CommitAck(w) \/ CommitUnknown(w)
  <2>1. PICK kind \in {"acknowledged", "unknown"} :
             interlocks' = interlocks \cup
                  {[seq |-> nextSeq + 2, kind |-> kind, conf |-> sub[w].conf,
                    intent |-> sub[w].intent, broker |-> sub[w].broker, at |-> 0]}
    BY <1>7 DEF CommitAck, CommitUnknown
  <2>2. \A s \in interlocks' : s.kind = "started" => s \in interlocks
    BY <2>1
  <2>3. sub' = [sub EXCEPT ![w] = IdleSub] /\ IdleSub.pc = "idle"
        /\ UNCHANGED <<ledger, issued, reports>>
    BY <1>7 DEF CommitAck, CommitUnknown, IdleSub
  <2> QED
    BY <2>2, <2>3, WindowsGo
<1>8. CASE UnknownConflict(w) \/ Refuse(w) \/ Crash(w)
  <2>1. sub' = [sub EXCEPT ![w] = IdleSub] /\ IdleSub.pc = "idle"
        /\ UNCHANGED <<ledger, issued, reports, interlocks>>
    BY <1>8 DEF UnknownConflict, Refuse, Crash, Leave, IdleSub, durable
  <2> QED
    BY <2>1, WindowsGo
<1> QED
  BY <1>2, <1>3, <1>4, <1>5, <1>6, <1>7, <1>8 DEF Submit

\* So does every other step.
LEMMA WindowsStep ==
  TypeOK /\ IInv /\ CallsBacked /\ WindowsInv /\ [Next]_vars => WindowsInv'
<1> SUFFICES ASSUME TypeOK, IInv, CallsBacked, WindowsInv, [Next]_vars
             PROVE  WindowsInv'
  OBVIOUS
<1>0. RowsNumbered
  BY DEF IInv
<1>1. ASSUME UNCHANGED <<issued, reports, interlocks, sub>>,
             ledger' \in Nat /\ ledger <= ledger'
      PROVE  WindowsInv'
  <2>1. PortfoliosPast'
    BY <1>1, WindowTypes DEF WindowsInv, PortfoliosPast
  <2>2. FencesAgree'
    BY <1>1, WindowTypes DEF WindowsInv, FencesAgree, SubAt, FencedLedger, ClaimInstant, RecentAt
  <2> QED
    BY <1>1, <2>1, <2>2 DEF WindowsInv, ClaimWithinWindows, RecentAt
<1>2. CASE LedgerMoves
  BY <1>1, <1>2, WindowTypes DEF LedgerMoves, durable
<1>3. CASE UNCHANGED <<issued, reports, interlocks, sub, ledger>>
  BY <1>1, <1>3, WindowTypes
<1> QED
  BY <1>0, <1>2, <1>3, SubmitWindows, PersistWindows, IssueWindows DEF Next, vars, durable, Tick,
     LateAccept, Reconcile, Observe, Compare, ReconcilerDies, Clear, ReadForClear, CommitClear,
     ClearFails

\* Every claim was made while its confirmation, its decision and the last report were
\* current, and about one state of the ledger.
THEOREM WindowsHold == Spec => []ClaimWithinWindows
<1>1. WindowsInv => ClaimWithinWindows
  BY DEF WindowsInv
<1> QED
  BY <1>1, WindowsInit, WindowsStep, TypeCorrect, InvariantHolds, BackedHolds, PTL DEF Spec

-----------------------------------------------------------------------------
(* The two replays *)

WellFormed(x) == ~ InterlockMalformed(x) /\ ~ OutOfTurn(x)
RowsWellFormed == \A x \in interlocks : WellFormed(x)

\* An empty log is well formed.
LEMMA WellFormedInit == Init => RowsWellFormed
BY DEF Init, RowsWellFormed

\* With no malformed row, the last row tells whether a submission is unresolved.
LEMMA LastStartIsOpen ==
  ASSUME TypeOK, RowsNumbered, OpenIsLast, RowsWellFormed
  PROVE  Ends(interlocks, "started") <=> Unresolved # {}
<1>1. ASSUME NEW s \in Unresolved
      PROVE  Ends(interlocks, "started")
  BY OpenIsLast DEF OpenIsLast, Unresolved, Resolved, Ends
<1>2. ASSUME NEW x \in interlocks, x.kind = "started", \A y \in interlocks : y.seq <= x.seq
      PROVE  x \in Unresolved
  <2> SUFFICES ASSUME NEW y \in interlocks, Resolved(y), y.conf = x.conf
               PROVE  FALSE
    BY <1>2 DEF Unresolved, Resolved
  <2>1. y.seq < x.seq
    BY <1>2, RowSeqs DEF RowsNumbered, Numbered, Resolved
  <2>2. PICK s \in interlocks : ~ Resolved(s) /\ s.conf = y.conf /\ s.seq < y.seq
    BY DEF RowsWellFormed, WellFormed, InterlockMalformed
  <2>3. s.seq < x.seq
    BY <2>1, <2>2, RowSeqs
  <2> QED
    BY <1>2, <2>2, <2>3 DEF RowsWellFormed, WellFormed, InterlockMalformed, Resolved
<1> QED
  BY <1>1, <1>2 DEF Ends

\* A later row makes no earlier one malformed.
LEMMA AppendKeepsForm ==
  ASSUME TypeOK, RowsNumbered, RowsWellFormed, NEW x, x.seq \in Nat, nextSeq < x.seq,
         interlocks' = interlocks \cup {x}
  PROVE  \A y \in interlocks : WellFormed(y)'
<1> SUFFICES ASSUME NEW y \in interlocks
             PROVE  WellFormed(y)'
  OBVIOUS
<1>1. y.seq <= nextSeq /\ ~ (x.seq < y.seq)
  BY RowSeqs DEF RowsNumbered, Numbered
<1>2. WellFormed(y)
  BY DEF RowsWellFormed
<1>3. InterlockMalformed(y)' = InterlockMalformed(y)
  BY <1>1 DEF InterlockMalformed, Resolved
<1>4. Before(interlocks', y) = Before(interlocks, y)
  BY <1>1 DEF Before
<1>5. OutOfTurn(y)' = OutOfTurn(y)
  BY <1>4 DEF OutOfTurn, Resolved
<1> QED
  BY <1>2, <1>3, <1>5 DEF WellFormed

\* Committing a claim keeps the rows well formed.
LEMMA ClaimWellFormed ==
  ASSUME TypeOK, IInv, RowsWellFormed, NEW w \in Submitters, CommitClaim(w)
  PROVE  RowsWellFormed'
<1>0. PICK x : x = [seq |-> nextSeq + 4, kind |-> "started", conf |-> sub[w].conf,
                    intent |-> sub[w].intent, broker |-> sub[w].broker, at |-> sub[w].at]
  OBVIOUS
<1>1. /\ SubAt(w, "claiming") /\ FenceHolds(w) /\ Unused(sub[w].conf)
      /\ interlocks' = interlocks \cup {x}
  BY <1>0 DEF CommitClaim
<1>2. x.seq = nextSeq + 4 /\ x.kind = "started" /\ x.conf = sub[w].conf
  BY <1>0
<1>3. x.seq \in Nat /\ nextSeq < x.seq /\ \A y \in interlocks : y.seq <= nextSeq
  BY <1>2, RowSeqs DEF IInv, RowsNumbered, Numbered
<1>4. \A y \in interlocks : WellFormed(y)'
  BY <1>1, <1>3, AppendKeepsForm DEF IInv
<1>5. \A y \in interlocks : y.conf # x.conf
  BY <1>1, <1>2 DEF IInv, ClaimsConsume
<1>6. ~ InterlockMalformed(x)'
  BY <1>1, <1>2, <1>3, <1>5 DEF InterlockMalformed, Resolved
<1>7. ~ Ends(interlocks, "started")
  BY <1>1, LastStartIsOpen DEF IInv, ClaimReady
<1>8. ~ OutOfTurn(x)'
  <2>1. \A p \in Before(interlocks', x) : p \in interlocks /\ \A z \in interlocks : z.seq <= p.seq
    BY <1>1, <1>3, RowSeqs DEF Before
  <2>2. \A p \in Before(interlocks', x) : Resolved(p)
    BY <1>7, <2>1 DEF Ends, Resolved
  <2> QED
    BY <1>2, <2>2 DEF OutOfTurn, Resolved
<1> QED
  BY <1>1, <1>4, <1>6, <1>8 DEF RowsWellFormed, WellFormed

\* So does resolving one, as acknowledged or unknown.
LEMMA ResolutionWellFormed ==
  ASSUME TypeOK, IInv, RowsWellFormed, NEW w \in Submitters, CommitAck(w) \/ CommitUnknown(w)
  PROVE  RowsWellFormed'
<1>1. PICK kind \in {"acknowledged", "unknown"} :
         interlocks' = interlocks \cup
            {[seq |-> nextSeq + 2, kind |-> kind, conf |-> sub[w].conf,
              intent |-> sub[w].intent, broker |-> sub[w].broker, at |-> 0]}
  BY DEF CommitAck, CommitUnknown
<1>a. PICK x : x = [seq |-> nextSeq + 2, kind |-> kind, conf |-> sub[w].conf,
                    intent |-> sub[w].intent, broker |-> sub[w].broker, at |-> 0]
  OBVIOUS
<1>2. /\ interlocks' = interlocks \cup {x}
      /\ x.seq = nextSeq + 2 /\ Resolved(x) /\ x.conf = sub[w].conf
  BY <1>1, <1>a DEF Resolved
<1>3. x.seq \in Nat /\ nextSeq < x.seq /\ \A y \in interlocks : y.seq <= nextSeq
  BY <1>2, RowSeqs DEF IInv, RowsNumbered, Numbered
<1>4. \A y \in interlocks : WellFormed(y)'
  BY <1>2, <1>3, AppendKeepsForm DEF IInv
<1>5. PICK s \in Unresolved : s.conf = sub[w].conf
  <2>1. Holder(w)
    BY DEF CommitAck, CommitUnknown, SubAt, Holder, AfterClaim
  <2> QED
    BY <2>1 DEF IInv, HoldersOpen
<1>6. /\ s \in interlocks /\ ~ Resolved(s)
      /\ ~ \E y \in interlocks : Resolved(y) /\ y.conf = s.conf
      /\ \A y \in interlocks : y.seq <= s.seq
  BY DEF Unresolved, IInv, OpenIsLast
<1>7. s.seq < x.seq
  BY <1>3, <1>6, RowSeqs
<1>8. ~ InterlockMalformed(x)'
  BY <1>2, <1>3, <1>5, <1>6, <1>7 DEF InterlockMalformed, Resolved
<1>9. ~ OutOfTurn(x)'
  <2>1. s \in Before(interlocks', x)
    BY <1>2, <1>3, <1>6, <1>7 DEF Before
  <2> QED
    BY <1>2, <1>5, <1>6, <2>1 DEF OutOfTurn, Resolved
<1> QED
  BY <1>2, <1>4, <1>8, <1>9 DEF RowsWellFormed, WellFormed

\* So does every other step.
LEMMA WellFormedStep == TypeOK /\ IInv /\ RowsWellFormed /\ [Next]_vars => RowsWellFormed'
<1> SUFFICES ASSUME TypeOK, IInv, RowsWellFormed, [Next]_vars
             PROVE  RowsWellFormed'
  OBVIOUS
<1>1. CASE UNCHANGED interlocks
  BY <1>1 DEF RowsWellFormed, WellFormed, InterlockMalformed, OutOfTurn, Before, Resolved
<1> QED
  BY <1>1, ClaimWellFormed, ResolutionWellFormed DEF Next, vars, durable, Tick, LedgerMoves,
     LateAccept, Issue, Submit, Enter, Admit, CaptureFence, Claim, CallBroker, QueryAmbiguous,
     ReadForAck, AckFails, ReadForUnknown, UnknownConflict, Refuse, Crash, Leave, Reconcile,
     Observe, Compare, PersistReport, ReconcilerDies, Clear, ReadForClear, CommitClear, ClearFails

\* The two loops that replay the kill switch and the interlock agree, and find no
\* row malformed.
THEOREM ReplaysAlwaysAgree == Spec => []ReplaysAgree
<1>1. TypeOK /\ IInv /\ RowsWellFormed => ReplaysAgree
  <2> SUFFICES ASSUME TypeOK, IInv, RowsWellFormed
               PROVE  ReplaysAgree
    OBVIOUS
  <2>1. \A k \in kills : ~ ClearUnsupported(k) /\ ~ KillRowMalformed(k)
    BY DEF IInv, ClearsSupported, ClearUnsupported, KillRowMalformed
  <2>2. KillActive <=> KillRowsActive
    BY <2>1 DEF KillActive, KillRowsActive
  <2>3. \A x \in interlocks : ~ InterlockMalformed(x) /\ ~ OutOfTurn(x)
    BY DEF RowsWellFormed, WellFormed
  <2>4. InterlockActive <=> InterlockRowsActive
    BY <2>3, LastStartIsOpen DEF IInv, InterlockActive, InterlockRowsActive
  <2> QED
    BY <2>1, <2>2, <2>3, <2>4 DEF ReplaysAgree
<1> QED
  BY <1>1, WellFormedInit, WellFormedStep, TypeCorrect, InvariantHolds, PTL DEF Spec
=============================================================================
