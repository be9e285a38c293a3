-------------------------- MODULE EventStoreProofs --------------------------
(***************************************************************************)
(* Theorems about EventStore, for any number of writers, aggregates and    *)
(* event ids and any size of batch: in particular that the statements of   *)
(* the code are the one atomic step of EventLog.                           *)
(***************************************************************************)
EXTENDS EventStore, SequenceTheorems, TLAPS

-----------------------------------------------------------------------------
(* The inductive invariant *)

\* Who has written, or may rely on what it has read, holds the write lock.
Locked(w) == txn[w].pc \in {"checking", "inserting", "committing"}
LockHeld == \A w \in Writers : Locked(w) => lock = w

\* Past the check the heads are those expected; past append_many's start there
\* are none to expect.
HeadsKept ==
    \A w \in Writers :
        /\ At(w, "reserving") => \/ DOMAIN txn[w].heads = {}
                                 \/ /\ lock = w
                                    /\ Log!HeadsMatch(rows, txn[w].heads)
        /\ txn[w].pc \in {"inserting", "committing"} => /\ Log!HeadsMatch(rows, txn[w].heads)
                                                        /\ txn[w].base = counter
        /\ At(w, "committing") => Log!FreshIds(rows, txn[w].batch)

\* A call under way is a request; an idle writer has none.
Asking == \A w \in Writers : /\ At(w, "idle") => txn[w] = Idle
                             /\ ~ At(w, "idle") => txn[w].batch \in Batches

IInv == LockHeld /\ HeadsKept /\ Asking

-----------------------------------------------------------------------------
(***************************************************************************)
(* A batch is a sequence of rows, and not the empty one.                   *)
(***************************************************************************)
LEMMA BatchesAre ==
  ASSUME NEW batch \in Batches
  PROVE  /\ batch \in Seq(BatchEntry) /\ batch # <<>>
         /\ Len(batch) \in Nat
         /\ \A i \in DOMAIN batch : i \in Nat /\ batch[i] \in BatchEntry
<1>1. PICK n \in 1..MaxBatch : batch \in [1..n -> BatchEntry]
  BY DEF Batches
<1>2. n \in Nat /\ n # 0
  BY <1>1, BoundAssumption
<1>3. batch \in Seq(BatchEntry)
  BY <1>1, <1>2, SeqDef
<1>4. DOMAIN batch = 1..n /\ 1 \in 1..n
  BY <1>1, <1>2
<1>5. batch # <<>>
  BY <1>4
<1> QED
  BY <1>1, <1>2, <1>3, <1>4, <1>5, LenProperties

\* The initial state is typed.
LEMMA TypeInit == Init => TypeOK
BY DEF Init, TypeOK, Idle

\* Every step keeps the types.
LEMMA TypeStep == TypeOK /\ [Next]_vars => TypeOK'
<1> SUFFICES ASSUME TypeOK, [Next]_vars
             PROVE  TypeOK'
  OBVIOUS
<1> USE DEF TypeOK, At, Goto
<1>1. ASSUME NEW w \in Writers, Call(w)
      PROVE  TypeOK'
  BY <1>1 DEF Call
<1>2. ASSUME NEW w \in Writers, LockCounter(w)
      PROVE  TypeOK'
  BY <1>2 DEF LockCounter
<1>3. ASSUME NEW w \in Writers, CheckHeads(w)
      PROVE  TypeOK'
  BY <1>3 DEF CheckHeads
<1>4. ASSUME NEW w \in Writers, Reserve(w)
      PROVE  TypeOK'
  <2>1. counter \in Nat /\ txn[w] \in [pc : {"idle", "locking", "checking", "reserving",
                                           "inserting", "committing"},
                                     batch : Batches \cup {<<>>},
                                     heads : Expectations \cup {<<>>},
                                     base : Nat]
    OBVIOUS
  <2>2. [txn[w] EXCEPT !.pc = "inserting", !.base = counter]
          \in [pc : {"idle", "locking", "checking", "reserving", "inserting", "committing"},
              batch : Batches \cup {<<>>}, heads : Expectations \cup {<<>>}, base : Nat]
    BY ONLY <2>1
  <2>3. txn' = [txn EXCEPT ![w] = [@ EXCEPT !.pc = "inserting", !.base = counter]]
    BY <1>4 DEF Reserve
  <2> QED
    BY <1>4, <2>2, <2>3 DEF Reserve
<1>5. ASSUME NEW w \in Writers, Insert(w)
      PROVE  TypeOK'
  BY <1>5 DEF Insert
<1>6. ASSUME NEW w \in Writers, Commit(w)
      PROVE  TypeOK'
  <2> DEFINE batch == txn[w].batch
  <2>0. batch \in Batches \/ batch = <<>>
    OBVIOUS
  <2>1. batch \in Seq(BatchEntry)
    <3>1. <<>> \in Seq(BatchEntry)
      BY EmptySeq
    <3> HIDE DEF batch
    <3> QED
      BY <3>1, <2>0, BatchesAre
  <2>2. Len(batch) \in Nat /\ \A i \in DOMAIN batch : i \in Nat /\ batch[i] \in BatchEntry
    BY <2>1, LenProperties
  <2>3. txn[w].base \in Nat
    OBVIOUS
  <2>4. Log!Sequenced(batch, txn[w].base) \subseteq [seq : Nat, id : EventIds, agg : Aggregates]
    BY <2>2, <2>3 DEF Log!Sequenced, BatchEntry
  <2>5. txn[w].base + Len(batch) \in Nat
    BY <2>2, <2>3
  <2>6. /\ rows' \subseteq [seq : Nat, id : EventIds, agg : Aggregates]
        /\ counter' \in Nat /\ lock' \in Writers \cup {NoWriter}
    BY <2>4, <2>5, <1>6 DEF Commit
  <2> QED
    BY <2>6, <1>6 DEF Commit, Idle
<1>7. ASSUME NEW w \in Writers, Rollback(w)
      PROVE  TypeOK'
  BY <1>7 DEF Rollback, Idle
<1>8. CASE UNCHANGED vars
  BY <1>8 DEF vars
<1> QED
  BY <1>1, <1>2, <1>3, <1>4, <1>5, <1>6, <1>7, <1>8 DEF Next

(***************************************************************************)
(* Every variable keeps its type.                                          *)
(***************************************************************************)
THEOREM TypeCorrect == Spec => []TypeOK
<1> QED
  BY TypeInit, TypeStep, PTL DEF Spec

-----------------------------------------------------------------------------
\* The inductive invariant holds at first.
LEMMA InvInit == Init => IInv
BY DEF Init, IInv, LockHeld, Locked, HeadsKept, Asking, At, Idle

(***************************************************************************)
(* While one writer holds the lock the others only ask, wait and give up:  *)
(* what the holder has checked stays so until its own commit.              *)
(***************************************************************************)
LEMMA InvStep == TypeOK /\ IInv /\ [Next]_vars => IInv'
<1> SUFFICES ASSUME TypeOK, IInv, [Next]_vars
             PROVE  IInv'
  OBVIOUS
<1> USE DEF TypeOK, At, Goto, IInv, LockHeld, Locked, HeadsKept, Asking,
            Log!HeadsMatch, Log!HeadIs, Log!FreshIds
<1>1. ASSUME NEW w \in Writers, Call(w)
      PROVE  IInv'
  BY <1>1 DEF Call
<1>2. ASSUME NEW w \in Writers, LockCounter(w)
      PROVE  IInv'
  BY <1>2, NoWriterAssumption DEF LockCounter
<1>3. ASSUME NEW w \in Writers, CheckHeads(w)
      PROVE  IInv'
  BY <1>3 DEF CheckHeads
<1>4. ASSUME NEW w \in Writers, Reserve(w)
      PROVE  IInv'
  <2>1. /\ txn'[w].pc = "inserting" /\ txn'[w].base = counter
        /\ txn'[w].batch = txn[w].batch /\ txn'[w].heads = txn[w].heads
        /\ \A v \in Writers : v # w => txn'[v] = txn[v]
    BY <1>4 DEF Reserve
  <2>2. LockHeld'
    <3>1. lock \in {NoWriter, w} /\ lock' = w
      BY <1>4 DEF Reserve
    <3>2. ASSUME NEW v \in Writers, v # w
          PROVE  ~ txn'[v].pc \in {"checking", "inserting", "committing"}
      BY <2>1, <3>1, <3>2, NoWriterAssumption
    <3> QED
      BY ONLY <3>1, <3>2 DEF LockHeld, Locked
  <2>3. Asking'
    BY <2>1, <1>4 DEF Reserve
  <2>4. Log!HeadsMatch(rows, txn[w].heads)
    BY <1>4 DEF Reserve
  <2>5. HeadsKept'
    <3>1. lock \in {NoWriter, w} /\ UNCHANGED <<rows, counter>>
      BY <1>4 DEF Reserve
    <3>2. ASSUME NEW v \in Writers, v # w
          PROVE  /\ txn'[v] = txn[v] /\ lock # v
                 /\ txn[v].pc \notin {"inserting", "committing"}
      BY <2>1, <3>1, <3>2, NoWriterAssumption
    <3>3. ASSUME NEW v \in Writers, v # w, txn[v].pc = "reserving"
          PROVE  DOMAIN txn[v].heads = {}
      BY <3>2, <3>3
    <3> QED
      BY <2>1, <2>4, <3>1, <3>2, <3>3
  <2> QED
    BY <2>2, <2>3, <2>5
<1>5. ASSUME NEW w \in Writers, Insert(w)
      PROVE  IInv'
  BY <1>5 DEF Insert
<1>6. ASSUME NEW w \in Writers, Commit(w)
      PROVE  IInv'
  BY <1>6, NoWriterAssumption DEF Commit, Idle
<1>7. ASSUME NEW w \in Writers, Rollback(w)
      PROVE  IInv'
  BY <1>7, NoWriterAssumption DEF Rollback, Idle
<1>8. CASE UNCHANGED vars
  BY <1>8 DEF vars
<1> QED
  BY <1>1, <1>2, <1>3, <1>4, <1>5, <1>6, <1>7, <1>8 DEF Next

(***************************************************************************)
(* The inductive invariant holds.                                          *)
(***************************************************************************)
THEOREM InvariantHolds == Spec => [](TypeOK /\ IInv)
<1> QED
  BY TypeInit, TypeStep, InvInit, InvStep, PTL DEF Spec

(***************************************************************************)
(* The committed rows are numbered without gap or repetition.              *)
(***************************************************************************)
LEMMA NumberingKept ==
  TypeOK /\ IInv /\ ContiguousSequences /\ [Next]_vars => ContiguousSequences'
<1> SUFFICES ASSUME TypeOK, IInv, ContiguousSequences, Next
             PROVE  ContiguousSequences'
  BY DEF vars, ContiguousSequences
<1>1. CASE UNCHANGED <<rows, counter>>
  BY <1>1 DEF ContiguousSequences
<1>2. ASSUME NEW w \in Writers, Commit(w)
      PROVE  ContiguousSequences'
  <2> DEFINE batch == txn[w].batch  n == Len(batch)
             added == Log!Sequenced(batch, counter)
  <2>1. /\ rows' = rows \cup added
        /\ counter' = counter + n
        /\ batch \in Batches
    BY <1>2 DEF Commit, At, IInv, HeadsKept, Asking
  <2>2. counter \in Nat /\ n \in Nat /\ DOMAIN batch = 1..n
    BY <2>1, BatchesAre, LenProperties DEF TypeOK
  <2>3. added = {[seq |-> counter + i, id |-> batch[i].id, agg |-> batch[i].agg] : i \in 1..n}
    BY <2>2 DEF Log!Sequenced
  <2> HIDE DEF batch, n
  <2>4. {r.seq : r \in added} = (counter + 1)..(counter + n)
    <3>1. \A r \in added : r.seq \in (counter + 1)..(counter + n)
      BY <2>2, <2>3
    <3>2. ASSUME NEW m \in (counter + 1)..(counter + n)
          PROVE  \E r \in added : r.seq = m
      <4>1. m - counter \in 1..n /\ counter + (m - counter) = m
        BY <2>2
      <4> DEFINE i == m - counter
                 x == [seq |-> counter + i, id |-> batch[i].id, agg |-> batch[i].agg]
      <4>2. x \in added
        BY <4>1, <2>3
      <4>3. x.seq = m
        BY <4>1
      <4> QED
        BY <4>2, <4>3
    <3> QED
      BY <3>1, <3>2
  <2>5. \A r, s \in added : r.seq = s.seq => r = s
    BY <2>2, <2>3
  <2> HIDE DEF added
  <2>6. {r.seq : r \in rows'} = 1..counter'
    <3>1. {r.seq : r \in rows'} = 1..counter \cup (counter + 1)..(counter + n)
      BY <2>1, <2>4 DEF ContiguousSequences
    <3> QED
      BY <3>1, <2>1, <2>2
  <2>7. ASSUME NEW r \in rows', NEW s \in rows', r.seq = s.seq
        PROVE  r = s
    <3>1. \A x \in rows : x.seq \in 1..counter
      BY DEF ContiguousSequences
    <3>2. \A x \in added : x.seq \in (counter + 1)..(counter + n)
      BY <2>4
    <3> QED
      BY <2>1, <2>2, <2>5, <2>7, <3>1, <3>2 DEF ContiguousSequences
  <2> QED
    BY <2>6, <2>7 DEF ContiguousSequences
<1> QED
  BY <1>1, <1>2 DEF Next, Call, LockCounter, CheckHeads, Reserve, Insert, Rollback

(***************************************************************************)
(* Replays may rely on the numbering, whatever was rolled back.            *)
(***************************************************************************)
THEOREM NumberingHolds == Spec => []ContiguousSequences
<1>1. Init => ContiguousSequences
  BY DEF Init, ContiguousSequences
<1> QED
  BY <1>1, NumberingKept, InvariantHolds, PTL DEF Spec

-----------------------------------------------------------------------------
(* The refinement *)

\* An empty store is an empty log.
LEMMA LogInit == Init => Log!Init
BY DEF Init, Log!Init, Log!NoRequest, Idle

\* The requests an observer sees.
Requests == [w \in Writers |-> [batch |-> txn[w].batch, heads |-> txn[w].heads]]

(***************************************************************************)
(* A commit is the atomic append, a rollback the refusal; every other step *)
(* of a call changes nothing an observer of the log could see.             *)
(***************************************************************************)
LEMMA LogStep == TypeOK /\ IInv /\ [Next]_vars => [Log!Next]_Log!logVars
<1> SUFFICES ASSUME TypeOK, IInv, [Next]_vars
             PROVE  [Log!Next]_Log!logVars
  OBVIOUS
<1> USE DEF At, Goto
<1>1. ASSUME NEW w \in Writers, Call(w)
      PROVE  Log!Ask(w)
  <2>1. PICK batch \in Batches, heads \in Expectations :
           txn' = [txn EXCEPT ![w] =
                     [pc |-> IF DOMAIN heads = {} THEN "reserving" ELSE "locking",
                      batch |-> batch, heads |-> heads, base |-> 0]]
    BY <1>1 DEF Call
  <2>2. Requests[w] = Log!NoRequest
    BY <1>1 DEF Call, IInv, Asking, Idle, Log!NoRequest, Requests
  <2>3. Requests' = [Requests EXCEPT ![w] = [batch |-> batch, heads |-> heads]]
    BY <2>1 DEF TypeOK, Requests
  <2>4. UNCHANGED <<rows, counter>>
    BY <1>1 DEF Call
  <2> QED
    BY <2>2, <2>3, <2>4 DEF Log!Ask, Requests
<1>2. ASSUME NEW w \in Writers, LockCounter(w) \/ CheckHeads(w) \/ Reserve(w) \/ Insert(w)
      PROVE  UNCHANGED Log!logVars
  <2>1. UNCHANGED <<rows, counter>>
    BY <1>2 DEF LockCounter, CheckHeads, Reserve, Insert
  <2>2. \A v \in Writers : txn'[v].batch = txn[v].batch /\ txn'[v].heads = txn[v].heads
    BY <1>2 DEF TypeOK, LockCounter, CheckHeads, Reserve, Insert
  <2>3. Requests' = Requests
    BY <2>2 DEF Requests
  <2> QED
    BY <2>1, <2>3 DEF Log!logVars, Requests
<1>3. ASSUME NEW w \in Writers, ~ At(w, "idle"), txn' = [txn EXCEPT ![w] = Idle]
      PROVE  /\ Requests[w] # Log!NoRequest
             /\ Requests' = [Requests EXCEPT ![w] = Log!NoRequest]
  <2>1. txn[w].batch # <<>>
    BY <1>3, BatchesAre DEF IInv, Asking
  <2>2. Requests[w] # Log!NoRequest
    BY <2>1 DEF Requests, Log!NoRequest
  <2>3. Requests' = [Requests EXCEPT ![w] = Log!NoRequest]
    BY <1>3 DEF TypeOK, Requests, Idle, Log!NoRequest
  <2> QED
    BY <2>2, <2>3
<1>4. ASSUME NEW w \in Writers, Commit(w)
      PROVE  Log!AppendBatch(w)
  <2>1. /\ Requests[w].batch = txn[w].batch /\ Requests[w].heads = txn[w].heads
        /\ txn[w].base = counter
        /\ Log!HeadsMatch(rows, txn[w].heads) /\ Log!FreshIds(rows, txn[w].batch)
    BY <1>4 DEF Commit, Requests, IInv, HeadsKept
  <2>2. /\ Requests[w] # Log!NoRequest
        /\ Requests' = [Requests EXCEPT ![w] = Log!NoRequest]
    BY <1>3, <1>4 DEF Commit
  <2>3. /\ rows' = rows \cup Log!Sequenced(Requests[w].batch, counter)
        /\ counter' = counter + Len(Requests[w].batch)
    BY <2>1, <1>4 DEF Commit
  <2> QED
    BY <2>1, <2>2, <2>3 DEF Log!AppendBatch, Requests
<1>5. ASSUME NEW w \in Writers, Rollback(w)
      PROVE  Log!Refuse(w)
  <2>1. /\ Requests[w] # Log!NoRequest
        /\ Requests' = [Requests EXCEPT ![w] = Log!NoRequest]
    BY <1>3, <1>5 DEF Rollback
  <2> QED
    BY <2>1, <1>5 DEF Log!Refuse, Requests, Rollback
<1>6. CASE UNCHANGED vars
  BY <1>6 DEF vars, Log!logVars
<1> QED
  BY <1>1, <1>2, <1>4, <1>5, <1>6 DEF Next, Log!Next

(***************************************************************************)
(* The statements of append_many_if_heads are one atomic conditional       *)
(* append, however many writers interleave them and die.                   *)
(***************************************************************************)
THEOREM AppendIsAtomic == Spec => AtomicAppend
<1> QED
  BY LogInit, LogStep, InvariantHolds, PTL DEF Spec, AtomicAppend, Log!Spec
=============================================================================
