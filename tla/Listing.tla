------------------------------- MODULE Listing -------------------------------
(***************************************************************************)
(* Keyset pagination (common/pagination.rs) of invoices, customers and     *)
(* events: a client follows next_cursor from page to page while other       *)
(* transactions insert rows and change their state.  created_at is the      *)
(* start of the inserting transaction, so rows may appear below a cursor    *)
(* that has already passed them.                                            *)
(***************************************************************************)
EXTENDS Integers, FiniteSets, InvoiceDomain

CONSTANTS
  Ids,             \* bound: row ids, ordered as uuids are
  States,          \* the states rows of this listing pass through
  Filters,         \* values of the state parameter; NoFilter when there is none
  NoFilter,
  Limits,          \* bound: values of the limit parameter
  DefaultLimit,    \* DEFAULT_LIMIT
  MaxLimit,        \* MAX_LIMIT
  MaxTime          \* bound: ticks of the database clock

ASSUME ListingAssumption ==
  /\ Ids \subseteq Nat /\ IsFiniteSet(Ids)
  /\ States \subseteq InvoiceState /\ "draft" \in States
  /\ NoFilter \in Filters /\ NoFilter \notin InvoiceState
  /\ Limits \subseteq Int
  /\ DefaultLimit \in 1 .. MaxLimit
  /\ MaxLimit \in Nat /\ MaxTime \in Nat

VARIABLES
  now,             \* the database clock
  rows,            \* the table, rows of open transactions included
  reader           \* the client's traversal

vars == <<now, rows, reader>>

-----------------------------------------------------------------------------
NoRow == [created_at |-> -1]

Row == [created_at : Nat, state : States, committed : BOOLEAN]

\* A cursor is the hex text of "created_at|id"; the timestamp is printed with the
\* microseconds the database keeps, so a cursor decodes to the position it was made
\* from.  Any other text does not decode.
Position == Nat \X Ids
NoCursor == <<>>
Garbage == <<"garbage">>

encode_cursor(id) == <<rows[id].created_at, id>>

decode_cursor(cursor) == IF cursor \in Position THEN cursor ELSE NoCursor

\* limit is absent, or clamped into 1 .. MaxLimit.
clamp_limit(requested) ==
  IF requested > MaxLimit THEN MaxLimit ELSE IF requested < 1 THEN 1 ELSE requested

EffectiveLimits == {DefaultLimit} \cup {clamp_limit(n) : n \in Limits}

\* The traversal: the state filter and the limit, next_cursor, the page last read, the rows of the
\* pages before it, and as history the rows committed at its start that have
\* matched the filter ever since.
Reader == [pc : {"idle", "more", "done"}, filter : Filters, limit : 1 .. MaxLimit,
           cursor : Position \cup {NoCursor}, page : SUBSET Ids, seen : SUBSET Ids, steady : SUBSET Ids]

Init ==
  /\ now = 0
  /\ rows = [id \in Ids |-> NoRow]
  /\ reader = [pc |-> "idle", filter |-> NoFilter, limit |-> DefaultLimit, cursor |-> NoCursor,
               page |-> {}, seen |-> {}, steady |-> {}]

-----------------------------------------------------------------------------
(* The writers                                                             *)

Tick == now < MaxTime /\ now' = now + 1 /\ UNCHANGED <<rows, reader>>

\* Faulty: created_at is left out of the INSERT and has no default.
BeginInsertUndated(id) ==
  /\ rows[id] = NoRow
  /\ rows' = [rows EXCEPT ![id] = [created_at |-> -1, state |-> "draft", committed |-> FALSE]]
  /\ UNCHANGED <<now, reader>>

\* A transaction begins, and inserts its row with created_at = now().
BeginInsert(id) ==
  /\ rows[id] = NoRow
  /\ rows' = [rows EXCEPT ![id] = [created_at |-> now, state |-> "draft", committed |-> FALSE]]
  /\ UNCHANGED <<now, reader>>

Commit(id) ==
  /\ rows[id] # NoRow /\ ~rows[id].committed
  /\ rows' = [rows EXCEPT ![id] = [@ EXCEPT !.committed = TRUE]]
  /\ UNCHANGED <<now, reader>>

Rollback(id) ==
  /\ rows[id] # NoRow /\ ~rows[id].committed
  /\ rows' = [rows EXCEPT ![id] = NoRow]
  /\ UNCHANGED <<now, reader>>

Matches(filter, state) == filter = NoFilter \/ filter = state

\* An invoice moves while it is being listed.
Transition(id, to) ==
  /\ rows[id] # NoRow /\ rows[id].committed
  /\ CanTransitionTo(rows[id].state, to)
  /\ rows' = [rows EXCEPT ![id] = [@ EXCEPT !.state = to]]
  /\ reader' = IF Matches(reader.filter, to) THEN reader
               ELSE [reader EXCEPT !.steady = @ \ {id}]
  /\ UNCHANGED now

-----------------------------------------------------------------------------
(* The reader                                                              *)

\* (created_at, id) < (created_at, id), the row comparison of the query.
Less(p, q) == p[1] < q[1] \/ (p[1] = q[1] /\ p[2] < q[2])

Before(id, other) == Less(encode_cursor(other), encode_cursor(id))

\* Faulty: the cursor's own row is part of the next page.
QueryInclusive(filter, cursor) ==
  {id \in Ids : /\ rows[id] # NoRow /\ rows[id].committed
                /\ Matches(filter, rows[id].state)
                /\ cursor = NoCursor \/ ~Less(cursor, encode_cursor(id))}

\* The rows the WHERE clause selects; the order is by (created_at, id) descending.
Query(filter, cursor) ==
  {id \in Ids : /\ rows[id] # NoRow /\ rows[id].committed
                /\ Matches(filter, rows[id].state)
                /\ cursor = NoCursor \/ Less(encode_cursor(id), cursor)}

\* The number of rows the query returns before this one.
Rank(id, result) == Cardinality({other \in result : Before(other, id)})

\* Faulty: the row fetched beyond the page becomes the cursor.
CursorRowExtra(result, limit) == {id \in result : Rank(id, result) = limit}

\* rows[limit - 1].
CursorRow(result, limit) == {id \in result : Rank(id, result) = limit - 1}

\* One page.  The query asks for limit + 1 rows; if it gets them all, the page is
\* cut to limit rows and its last row is next_cursor.
Fetch(r, cursor) ==
  LET limit  == r.limit
      result == Query(r.filter, decode_cursor(cursor))
      page   == {id \in result : Rank(id, result) < limit}
  IN  \/ /\ Cardinality(result) > limit
         /\ \E last \in CursorRow(result, limit) :
              reader' = [r EXCEPT !.pc = "more", !.cursor = encode_cursor(last), !.page = page]
      \/ /\ Cardinality(result) <= limit
         /\ reader' = [r EXCEPT !.pc = "done", !.cursor = NoCursor, !.page = page]

\* A first request, without a cursor or with one that does not decode.
FirstPage(filter) ==
  /\ reader.pc \in {"idle", "done"}
  /\ \E limit \in EffectiveLimits, cursor \in {NoCursor, Garbage} :
       Fetch([pc |-> "idle", filter |-> filter, limit |-> limit, cursor |-> NoCursor,
              page |-> {}, seen |-> {}, steady |-> Query(filter, NoCursor)], cursor)
  /\ UNCHANGED <<now, rows>>

\* The client follows next_cursor.
NextPage ==
  /\ reader.pc = "more"
  /\ Fetch([reader EXCEPT !.seen = @ \cup reader.page], reader.cursor)
  /\ UNCHANGED <<now, rows>>

Next ==
  \/ Tick
  \/ \E id \in Ids :
       \/ BeginInsert(id) \/ Commit(id) \/ Rollback(id)
       \/ \E to \in States : Transition(id, to)
  \/ \E filter \in Filters : FirstPage(filter)
  \/ NextPage

Spec == Init /\ [][Next]_vars

\* A client that keeps following next_cursor.
FairSpec == Spec /\ WF_vars(NextPage)

-----------------------------------------------------------------------------
(* Properties                                                              *)

\* Clock, rows and traversal keep their shapes.
TypeOK ==
  /\ now \in 0 .. MaxTime
  /\ rows \in [Ids -> Row \cup {NoRow}]
  /\ reader \in Reader

\* Across pages, rows come in strictly descending order: none is shown twice and
\* none out of order, whatever is inserted, committed late or moved meanwhile.
Descending == \A id \in reader.page, earlier \in reader.seen : Before(earlier, id)

\* A finished traversal has shown every row that was there when it began and kept
\* matching the filter.  Rows committed later may be missed, those with an early
\* created_at too.
Complete == reader.pc = "done" => reader.steady \subseteq reader.seen \cup reader.page

\* The rows a traversal speaks of are committed, and the steady ones match its filter.
ShownCommitted ==
  /\ \A id \in reader.seen \cup reader.page \cup reader.steady :
       rows[id] # NoRow /\ rows[id].committed
  /\ \A id \in reader.steady : Matches(reader.filter, rows[id].state)

\* next_cursor separates what has been shown from the steady rows still to come.
CursorSeparates ==
  reader.pc = "more" =>
    LET shown == reader.seen \cup reader.page
    IN  /\ reader.cursor \in Position
        /\ \A id \in shown : ~Less(encode_cursor(id), reader.cursor)
        /\ \A id \in reader.steady \ shown : Less(encode_cursor(id), reader.cursor)

\* The inductive invariant of a traversal: between two pages, whatever is written,
\* the cursor alone tells which rows have been shown and which have not.
Traversal ==
  /\ TypeOK
  /\ ShownCommitted
  /\ CursorSeparates
  /\ Descending
  /\ Complete

\* A client that follows next_cursor comes to the last page, with any limit and
\* however many rows are inserted meanwhile.
Terminates == reader.pc = "more" ~> reader.pc = "done"
=============================================================================
