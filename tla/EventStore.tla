----------------------------- MODULE EventStore -----------------------------
(***************************************************************************)
(* storage/events.py and storage/db.py, one action per SQL statement.      *)
(* Each writer runs engine.begin() on a connection of its own.  SQLite     *)
(* gives the write lock to the connection whose first UPDATE comes first   *)
(* and keeps it to the end of the transaction; what a transaction has      *)
(* written is invisible to others until it commits, and is rolled back     *)
(* when it raises or when the process dies.                                *)
(***************************************************************************)
EXTENDS Naturals, Sequences

CONSTANTS Writers, Aggregates, EventIds, NoEvent,
          NoWriter,   \* the value of lock when no transaction holds it
          MaxBatch    \* bound: rows in one batch

ASSUME NoEventAssumption == NoEvent \notin EventIds
ASSUME NoWriterAssumption == NoWriter \notin Writers
ASSUME BoundAssumption == MaxBatch \in Nat \ {0}

VARIABLES rows, counter,
          lock,   \* the connection that holds SQLite's write lock
          txn     \* txn[w]: the call writer w is executing

vars == <<rows, counter, lock, txn>>

BatchEntry == [id : EventIds, agg : Aggregates]

\* Callers draw the ids of one batch apart (uuid4, or scheduler's _event_ids).
Batches == {b \in UNION {[1..n -> BatchEntry] : n \in 1..MaxBatch} :
              \A i, j \in DOMAIN b : b[i].id = b[j].id => i = j}

\* No heads at all is append_many; a mapping is append_many_if_heads.
Expectations == UNION {[S -> EventIds \cup {NoEvent}] : S \in SUBSET Aggregates}

Idle == [pc |-> "idle", batch |-> <<>>, heads |-> <<>>, base |-> 0]

Log == INSTANCE EventLog WITH
         request <- [w \in Writers |-> [batch |-> txn[w].batch, heads |-> txn[w].heads]]

Init == /\ rows = {}
        /\ counter = 0
        /\ lock = NoWriter
        /\ txn = [w \in Writers |-> Idle]

At(w, label) == txn[w].pc = label
Goto(w, label) == txn' = [txn EXCEPT ![w].pc = label]

\* _prepare_batch has validated the batch.  The heads a caller expects are those
\* it has just streamed; another writer may move them before the transaction.
Call(w) ==
    /\ At(w, "idle")
    /\ \E batch \in Batches, heads \in Expectations :
          /\ Log!HeadsMatch(rows, heads)
          /\ txn' = [txn EXCEPT ![w] =
                        [pc |-> IF DOMAIN heads = {} THEN "reserving" ELSE "locking",
                         batch |-> batch, heads |-> heads, base |-> 0]]
    /\ UNCHANGED <<rows, counter, lock>>

\* UPDATE event_sequence SET next_sequence = next_sequence: takes the write lock.
\* Mutant of LockCounter: the heads are read before the lock is taken.
LockCounterLater(w) ==
    /\ At(w, "locking")
    /\ Goto(w, "checking")
    /\ UNCHANGED <<rows, counter, lock>>
LockCounter(w) ==
    /\ At(w, "locking")
    /\ lock = NoWriter
    /\ lock' = w
    /\ Goto(w, "checking")
    /\ UNCHANGED <<rows, counter>>

\* SELECT the head of each fenced aggregate, inside the transaction.
CheckHeads(w) ==
    /\ At(w, "checking")
    /\ Log!HeadsMatch(rows, txn[w].heads)
    /\ Goto(w, "reserving")
    /\ UNCHANGED <<rows, counter, lock>>

\* UPDATE ... next_sequence + len(batch) RETURNING: the first statement of
\* append_many, for which it is also the one that takes the lock.
Reserve(w) ==
    /\ At(w, "reserving")
    /\ lock \in {NoWriter, w}
    /\ lock' = w
    /\ txn' = [txn EXCEPT ![w].pc = "inserting", ![w].base = counter]
    /\ UNCHANGED <<rows, counter>>

\* INSERT, which enforces the primary key.
Insert(w) ==
    /\ At(w, "inserting")
    /\ Log!FreshIds(rows, txn[w].batch)
    /\ Goto(w, "committing")
    /\ UNCHANGED <<rows, counter, lock>>

\* The end of the with-block.
Commit(w) ==
    /\ At(w, "committing")
    /\ rows' = rows \cup Log!Sequenced(txn[w].batch, txn[w].base)
    /\ counter' = txn[w].base + Len(txn[w].batch)
    /\ lock' = NoWriter
    /\ txn' = [txn EXCEPT ![w] = Idle]

\* A head conflict, a duplicate id, a lock timeout, any database error, or the
\* death of the process: the transaction leaves no trace.
\* Mutant of Rollback: the counter is not part of the transaction.
RollbackBurning(w) ==
    /\ ~ At(w, "idle")
    /\ lock' = IF lock = w THEN NoWriter ELSE lock
    /\ counter' = IF At(w, "committing") THEN counter + Len(txn[w].batch) ELSE counter
    /\ txn' = [txn EXCEPT ![w] = Idle]
    /\ UNCHANGED rows
Rollback(w) ==
    /\ ~ At(w, "idle")
    /\ lock' = IF lock = w THEN NoWriter ELSE lock
    /\ txn' = [txn EXCEPT ![w] = Idle]
    /\ UNCHANGED <<rows, counter>>

Next == \E w \in Writers :
          \/ Call(w) \/ LockCounter(w) \/ CheckHeads(w) \/ Reserve(w)
          \/ Insert(w) \/ Commit(w) \/ Rollback(w)

Spec == Init /\ [][Next]_vars

-----------------------------------------------------------------------------
TypeOK ==
    /\ rows \subseteq [seq : Nat, id : EventIds, agg : Aggregates]
    /\ counter \in Nat
    /\ lock \in Writers \cup {NoWriter}
    /\ txn \in [Writers -> [pc : {"idle", "locking", "checking", "reserving",
                                  "inserting", "committing"},
                            batch : Batches \cup {<<>>},
                            heads : Expectations \cup {<<>>},
                            base : Nat]]

(***************************************************************************)
(* The sequence column numbers the committed rows 1, 2, ... with neither a *)
(* gap (a rolled back transaction would burn its numbers if the counter    *)
(* were not part of it) nor a repetition, whatever the writers interleave. *)
(***************************************************************************)
ContiguousSequences ==
    /\ {r.seq : r \in rows} = 1..counter
    /\ \A r, s \in rows : r.seq = s.seq => r = s

(***************************************************************************)
(* The statement-level code is an atomic conditional append: it implements *)
(* EventLog, so a batch commits only while every expected head is still    *)
(* the head, although the check and the insert are separate statements.    *)
(***************************************************************************)
AtomicAppend == Log!Spec
=============================================================================
