------------------------------ MODULE EventLog ------------------------------
(***************************************************************************)
(* What the event ledger of storage/events.py promises its callers: an     *)
(* append-only table of rows, ordered by one global sequence, to which a   *)
(* caller appends a batch atomically, either unconditionally               *)
(* (append_many) or only while the aggregates it names still have the      *)
(* heads it expects (append_many_if_heads).  EventStore.tla shows how the  *)
(* SQL statements of the code implement it; the other modules of the       *)
(* project rely on this specification alone.                               *)
(***************************************************************************)
EXTENDS Naturals, Sequences

CONSTANTS Writers,     \* callers, each with a connection of its own
          Aggregates,  \* values of events.aggregate_id
          EventIds,    \* values of events.event_id
          NoEvent,     \* the head of an aggregate without rows (None), no event id
          Batches,     \* the batches a caller may ask to append
          Expectations \* the expected_heads mappings a caller may give

VARIABLES rows,     \* the committed table: [seq, id, agg] records
          counter,  \* the committed event_sequence.next_sequence
          request   \* request[w]: what writer w has asked for and not yet got

logVars == <<rows, counter, request>>

NoRequest == [batch |-> <<>>, heads |-> <<>>]

\* The row of aggregate a with the greatest sequence is h (NoEvent: no row).
HeadIs(table, a, h) ==
    \/ h = NoEvent /\ \A r \in table : r.agg # a
    \/ \E r \in table : /\ r.agg = a
                        /\ r.id = h
                        /\ \A s \in table : s.agg = a => s.seq <= r.seq

\* Every aggregate an expectation names has the head it expects.
HeadsMatch(table, heads) == \A a \in DOMAIN heads : HeadIs(table, a, heads[a])

\* The batch as rows, with the sequences that follow n.
Sequenced(batch, n) ==
    {[seq |-> n + i, id |-> batch[i].id, agg |-> batch[i].agg] : i \in DOMAIN batch}

\* event_id is the primary key: a batch may repeat no stored id.
FreshIds(table, batch) == \A i \in DOMAIN batch : \A r \in table : r.id # batch[i].id

Init == /\ rows = {}
        /\ counter = 0
        /\ request = [w \in Writers |-> NoRequest]

Ask(w) ==
    /\ request[w] = NoRequest
    /\ \E batch \in Batches, heads \in Expectations :
          request' = [request EXCEPT ![w] = [batch |-> batch, heads |-> heads]]
    /\ UNCHANGED <<rows, counter>>

\* The whole batch appears at once, next in sequence, or not at all.
AppendBatch(w) ==
    /\ request[w] # NoRequest
    /\ HeadsMatch(rows, request[w].heads)
    /\ FreshIds(rows, request[w].batch)
    /\ rows' = rows \cup Sequenced(request[w].batch, counter)
    /\ counter' = counter + Len(request[w].batch)
    /\ request' = [request EXCEPT ![w] = NoRequest]

\* EventHeadConflict, a duplicate id, a store error or the caller's death.
Refuse(w) ==
    /\ request[w] # NoRequest
    /\ request' = [request EXCEPT ![w] = NoRequest]
    /\ UNCHANGED <<rows, counter>>

Next == \E w \in Writers : Ask(w) \/ AppendBatch(w) \/ Refuse(w)

Spec == Init /\ [][Next]_logVars
=============================================================================
