---------------------------- MODULE ListingProofs ----------------------------
(***************************************************************************)
(* A traversal by keyset pagination shows rows in descending order, none    *)
(* twice, and misses none that was there from the start, for any set of      *)
(* rows, any limit and any concurrent writers.                               *)
(***************************************************************************)
EXTENDS Listing, FiniteSetTheorems, TLAPS

-----------------------------------------------------------------------------
(* The order of the query                                                  *)

\* (created_at, id) is a strict total order on positions.
LEMMA LessOrder ==
  ASSUME NEW p \in Position, NEW q \in Position
  PROVE  /\ ~Less(p, p)
         /\ p = q \/ Less(p, q) \/ Less(q, p)
         /\ \A s \in Position : Less(p, q) /\ Less(q, s) => Less(p, s)
<1>1. p[1] \in Nat /\ p[2] \in Nat /\ q[1] \in Nat /\ q[2] \in Nat
  BY ListingAssumption DEF Position
<1>2. \A s \in Position : s[1] \in Nat /\ s[2] \in Nat
  BY ListingAssumption DEF Position
<1>3. p = <<p[1], p[2]>> /\ q = <<q[1], q[2]>>
  BY DEF Position
<1>4. p = q \/ Less(p, q) \/ Less(q, p)
  BY <1>1, <1>3 DEF Less
<1> QED BY <1>1, <1>2, <1>4 DEF Less

\* A cursor below another, which a row is not below: the row is not below the first.
LEMMA LessBelow ==
  ASSUME NEW p \in Position, NEW q \in Position, NEW s \in Position, Less(p, q), ~Less(s, q)
  PROVE  Less(p, s)
<1>1. s = q \/ Less(q, s)
  BY LessOrder
<1> QED BY <1>1, LessOrder

\* Where a row is in the order.
LEMMA RowPosition ==
  ASSUME rows \in [Ids -> Row \cup {NoRow}], NEW id \in Ids, rows[id] # NoRow
  PROVE  encode_cursor(id) \in Position
<1>1. rows[id] \in Row
  OBVIOUS
<1>2. rows[id].created_at \in Nat
  BY <1>1 DEF Row
<1> QED BY <1>2 DEF encode_cursor, Position

\* What a query selects.
LEMMA QueryRows ==
  ASSUME rows \in [Ids -> Row \cup {NoRow}], NEW filter, NEW pos
  PROVE  /\ Query(filter, pos) \subseteq Ids
         /\ IsFiniteSet(Query(filter, pos))
         /\ \A id \in Query(filter, pos) :
              /\ rows[id] # NoRow /\ rows[id].committed
              /\ Matches(filter, rows[id].state)
              /\ encode_cursor(id) \in Position
              /\ pos = NoCursor \/ Less(encode_cursor(id), pos)
<1>1. Query(filter, pos) \subseteq Ids
  BY DEF Query
<1>2. IsFiniteSet(Query(filter, pos))
  BY <1>1, FS_Subset, ListingAssumption
<1> QED BY <1>1, <1>2, RowPosition DEF Query

\* A row that comes before another has a smaller rank, and every rank is below the
\* number of rows.
LEMMA RankOrder ==
  ASSUME NEW result, IsFiniteSet(result),
         \A id \in result : encode_cursor(id) \in Position,
         NEW x \in result
  PROVE  /\ Rank(x, result) \in Nat
         /\ Rank(x, result) < Cardinality(result)
         /\ \A y \in result : Before(x, y) => Rank(x, result) < Rank(y, result)
<1> DEFINE Above(id) == {other \in result : Before(other, id)}
<1>1. ASSUME NEW id \in result
      PROVE  /\ Above(id) \in SUBSET result /\ id \notin Above(id) /\ IsFiniteSet(Above(id))
             /\ Rank(id, result) = Cardinality(Above(id)) /\ Rank(id, result) \in Nat
  <2>1. Above(id) \in SUBSET result /\ id \notin Above(id)
    BY <1>1, LessOrder DEF Before
  <2>2. IsFiniteSet(Above(id))
    BY <2>1, FS_Subset
  <2>3. Rank(id, result) = Cardinality(Above(id))
    BY DEF Rank
  <2> HIDE DEF Above
  <2> QED BY <2>1, <2>2, <2>3, FS_CardinalityType
<1>2. ASSUME NEW y \in result, Before(x, y) PROVE Above(x) \in SUBSET Above(y) /\ x \in Above(y)
  <2>1. ASSUME NEW z \in Above(x) PROVE z \in Above(y)
    <3>1. z \in result /\ Less(encode_cursor(x), encode_cursor(z))
      BY <2>1 DEF Before
    <3>2. Less(encode_cursor(y), encode_cursor(x))
      BY <1>2 DEF Before
    <3>3. Less(encode_cursor(y), encode_cursor(z))
      BY <1>2, <3>1, <3>2, LessOrder
    <3> QED BY <3>1, <3>3 DEF Before
  <2> QED BY <1>2, <2>1
<1> HIDE DEF Above
<1>3. Rank(x, result) < Cardinality(result)
  <2>1. /\ Cardinality(Above(x)) <= Cardinality(result)
        /\ Cardinality(result) = Cardinality(Above(x)) => result = Above(x)
    BY <1>1, FS_Subset
  <2>2. Cardinality(result) \in Nat
    BY FS_CardinalityType
  <2> QED BY <1>1, <2>1, <2>2
<1>4. ASSUME NEW y \in result, Before(x, y) PROVE Rank(x, result) < Rank(y, result)
  <2>1. /\ Cardinality(Above(x)) <= Cardinality(Above(y))
        /\ Cardinality(Above(y)) = Cardinality(Above(x)) => Above(y) = Above(x)
    BY <1>1, <1>2, <1>4, FS_Subset
  <2> QED BY <1>1, <1>2, <1>4, <2>1
<1> QED BY <1>1, <1>3, <1>4

-----------------------------------------------------------------------------
(* One page                                                                *)

\* How a page is cut: its rows are the query's first, the cursor is the last of them.
LEMMA PageCut ==
  ASSUME rows \in [Ids -> Row \cup {NoRow}], NEW filter, NEW pos, NEW limit \in 1 .. MaxLimit,
         NEW result, result = Query(filter, pos)
  PROVE  LET page == {id \in result : Rank(id, result) < limit}
         IN  /\ Cardinality(result) <= limit => page = result
             /\ \A last \in CursorRow(result, limit) :
                  /\ last \in result
                  /\ \A id \in page : ~Less(encode_cursor(id), encode_cursor(last))
                  /\ \A id \in result \ page : Less(encode_cursor(id), encode_cursor(last))
<1> DEFINE page == {id \in result : Rank(id, result) < limit}
<1>1. /\ IsFiniteSet(result) /\ result \subseteq Ids
      /\ \A id \in result : encode_cursor(id) \in Position
  BY QueryRows
<1>2. /\ limit \in Nat /\ Cardinality(result) \in Nat
      /\ \A id \in result : Rank(id, result) \in Nat /\ Rank(id, result) < Cardinality(result)
  <2>1. limit \in Nat
    BY ListingAssumption
  <2>2. Cardinality(result) \in Nat
    BY <1>1, FS_CardinalityType
  <2>3. \A id \in result : Rank(id, result) \in Nat /\ Rank(id, result) < Cardinality(result)
    BY <1>1, RankOrder
  <2> QED BY <2>1, <2>2, <2>3
<1>3. Cardinality(result) <= limit => page = result
  BY <1>2
<1>4. ASSUME NEW last \in CursorRow(result, limit)
      PROVE  /\ last \in result
             /\ \A id \in page : ~Less(encode_cursor(id), encode_cursor(last))
             /\ \A id \in result \ page : Less(encode_cursor(id), encode_cursor(last))
  <2>1. last \in result /\ Rank(last, result) = limit - 1
    BY <1>4 DEF CursorRow
  <2>2. ASSUME NEW id \in page PROVE ~Less(encode_cursor(id), encode_cursor(last))
    <3>1. id \in result /\ Rank(id, result) < limit
      BY <2>2
    <3>2. Before(last, id) => Rank(last, result) < Rank(id, result)
      BY <1>1, <2>1, <3>1, RankOrder
    <3> QED BY <1>2, <2>1, <3>1, <3>2 DEF Before
  <2>3. ASSUME NEW id \in result \ page PROVE Less(encode_cursor(id), encode_cursor(last))
    <3>1. id \in result /\ ~(Rank(id, result) < limit)
      BY <2>3
    <3>2. Before(id, last) => Rank(id, result) < Rank(last, result)
      BY <1>1, <2>1, <3>1, RankOrder
    <3>3. ~Less(encode_cursor(last), encode_cursor(id))
      BY <1>2, <2>1, <3>1, <3>2 DEF Before
    <3>4. encode_cursor(id) # encode_cursor(last)
      <4>1. id # last
        BY <1>2, <2>1, <3>1
      <4> QED BY <4>1 DEF encode_cursor
    <3> QED BY <1>1, <2>1, <3>1, <3>3, <3>4, LessOrder
  <2> QED BY <2>1, <2>2, <2>3
<1> QED BY <1>3, <1>4

\* A page is read for a traversal that has shown only rows above the position it asks
\* from, and whose steady rows are shown or selected by the query.
LEMMA FetchKeeps ==
  ASSUME now \in 0 .. MaxTime, rows \in [Ids -> Row \cup {NoRow}], UNCHANGED <<now, rows>>,
         NEW r \in Reader, NEW cursor, NEW pos, pos = decode_cursor(cursor), Fetch(r, cursor),
         pos \in Position \/ (pos = NoCursor /\ r.seen = {}),
         \A id \in r.seen : rows[id] # NoRow /\ rows[id].committed,
         \A id \in r.seen : ~Less(encode_cursor(id), pos),
         \A id \in r.steady : /\ rows[id] # NoRow /\ rows[id].committed
                              /\ Matches(r.filter, rows[id].state),
         \A id \in r.steady \ r.seen : pos = NoCursor \/ Less(encode_cursor(id), pos)
  PROVE  Traversal'
<1> DEFINE limit == r.limit
           result == Query(r.filter, pos)
           page == {id \in result : Rank(id, result) < limit}
<1>1. /\ limit \in 1 .. MaxLimit /\ r.seen \subseteq Ids /\ r.steady \subseteq Ids
      /\ r.filter \in Filters
  BY DEF Reader
<1>2. /\ result \subseteq Ids
      /\ \A id \in result : /\ rows[id] # NoRow /\ rows[id].committed
                            /\ encode_cursor(id) \in Position
                            /\ pos = NoCursor \/ Less(encode_cursor(id), pos)
  BY QueryRows
<1>3. /\ Cardinality(result) <= limit => page = result
      /\ \A last \in CursorRow(result, limit) :
           /\ last \in result
           /\ \A id \in page : ~Less(encode_cursor(id), encode_cursor(last))
           /\ \A id \in result \ page : Less(encode_cursor(id), encode_cursor(last))
  BY <1>1, PageCut
<1>4. \A id \in r.seen : encode_cursor(id) \in Position
  BY <1>1, RowPosition
<1>5. \A id \in result, earlier \in r.seen : Less(encode_cursor(id), encode_cursor(earlier))
  BY <1>2, <1>4, LessBelow DEF NoCursor, Position
<1>6. r.steady \ r.seen \subseteq result
  BY <1>1 DEF Query
<1>7. /\ reader' \in Reader
      /\ reader'.filter = r.filter /\ reader'.seen = r.seen /\ reader'.steady = r.steady
      /\ reader'.page = page
      /\ \/ /\ reader'.pc = "more"
            /\ \E last \in CursorRow(result, limit) : reader'.cursor = encode_cursor(last)
         \/ reader'.pc = "done" /\ Cardinality(result) <= limit
  <2>1. \/ \E last \in CursorRow(result, limit) :
             reader' = [r EXCEPT !.pc = "more", !.cursor = encode_cursor(last), !.page = page]
        \/ /\ Cardinality(result) <= limit
           /\ reader' = [r EXCEPT !.pc = "done", !.cursor = NoCursor, !.page = page]
    BY DEF Fetch
  <2>2. page \in SUBSET Ids /\ \A last \in CursorRow(result, limit) : encode_cursor(last) \in Position
    BY <1>2, <1>3
  <2> HIDE DEF page, result, limit
  <2>3. CASE \E last \in CursorRow(result, limit) :
               reader' = [r EXCEPT !.pc = "more", !.cursor = encode_cursor(last), !.page = page]
    <3>1. PICK last \in CursorRow(result, limit) :
            reader' = [r EXCEPT !.pc = "more", !.cursor = encode_cursor(last), !.page = page]
      BY <2>3
    <3> QED BY <2>2, <3>1 DEF Reader
  <2>4. CASE /\ Cardinality(result) <= limit
             /\ reader' = [r EXCEPT !.pc = "done", !.cursor = NoCursor, !.page = page]
    BY <2>2, <2>4 DEF Reader
  <2> QED BY <2>1, <2>3, <2>4
<1> HIDE DEF page, result, limit
<1>8. page \subseteq result
  BY DEF page
<1>9. \A id \in Ids : encode_cursor(id)' = encode_cursor(id)
  BY DEF encode_cursor
<1>10. TypeOK'
  BY <1>7 DEF TypeOK
<1>11. ShownCommitted'
  BY <1>2, <1>7, <1>8 DEF ShownCommitted, Matches
<1>12. Descending'
  BY <1>1, <1>2, <1>5, <1>7, <1>8, <1>9 DEF Descending, Before
<1>13. Complete'
  BY <1>3, <1>6, <1>7 DEF Complete
<1>14. CursorSeparates'
  <2> SUFFICES ASSUME reader'.pc = "more"
               PROVE  /\ reader'.cursor \in Position
                      /\ \A id \in reader'.seen \cup reader'.page :
                           ~Less(encode_cursor(id)', reader'.cursor)
                      /\ \A id \in reader'.steady \ (reader'.seen \cup reader'.page) :
                           Less(encode_cursor(id)', reader'.cursor)
    BY DEF CursorSeparates, Less
  <2>1. PICK last \in CursorRow(result, limit) : reader'.cursor = encode_cursor(last)
    BY <1>7
  <2>2. last \in result /\ encode_cursor(last) \in Position
    BY <1>2, <1>3
  <2>3. ASSUME NEW id \in r.seen PROVE ~Less(encode_cursor(id), encode_cursor(last))
    <3>1. Less(encode_cursor(last), encode_cursor(id))
      BY <1>5, <2>2
    <3> QED BY <1>4, <2>2, <3>1, LessOrder
  <2>4. \A id \in page : ~Less(encode_cursor(id), encode_cursor(last))
    BY <1>3
  <2>5. \A id \in r.steady \ (r.seen \cup page) : Less(encode_cursor(id), encode_cursor(last))
    BY <1>3, <1>6
  <2> QED BY <1>1, <1>2, <1>7, <1>8, <1>9, <2>1, <2>2, <2>3, <2>4, <2>5
<1> QED BY <1>10, <1>11, <1>12, <1>13, <1>14 DEF Traversal

-----------------------------------------------------------------------------
(* The steps                                                               *)

LEMMA FirstPageKeeps ==
  ASSUME TypeOK, NEW filter \in Filters, FirstPage(filter)
  PROVE  Traversal'
<1>1. PICK limit \in EffectiveLimits, cursor \in {NoCursor, Garbage} :
        Fetch([pc |-> "idle", filter |-> filter, limit |-> limit, cursor |-> NoCursor,
               page |-> {}, seen |-> {}, steady |-> Query(filter, NoCursor)], cursor)
  BY DEF FirstPage
<1> DEFINE r == [pc |-> "idle", filter |-> filter, limit |-> limit, cursor |-> NoCursor,
                 page |-> {}, seen |-> {}, steady |-> Query(filter, NoCursor)]
<1>2. limit \in 1 .. MaxLimit
  <2>1. MaxLimit \in Nat /\ DefaultLimit \in 1 .. MaxLimit /\ Limits \subseteq Int
    BY ListingAssumption
  <2>2. ASSUME NEW n \in Int PROVE clamp_limit(n) \in 1 .. MaxLimit
    BY <2>1 DEF clamp_limit
  <2> QED BY <2>1, <2>2 DEF EffectiveLimits
<1>3. /\ Query(filter, NoCursor) \subseteq Ids
      /\ \A id \in Query(filter, NoCursor) : /\ rows[id] # NoRow /\ rows[id].committed
                                             /\ Matches(filter, rows[id].state)
  BY QueryRows DEF TypeOK
<1>4. /\ r \in Reader /\ r.seen = {} /\ r.filter = filter
      /\ r.steady = Query(filter, NoCursor)
  BY <1>2, <1>3 DEF Reader
<1>5. decode_cursor(cursor) = NoCursor
  BY DEF decode_cursor, NoCursor, Garbage, Position
<1>6. Fetch(r, cursor)
  BY <1>1
<1>7. now \in 0 .. MaxTime /\ rows \in [Ids -> Row \cup {NoRow}] /\ UNCHANGED <<now, rows>>
  BY DEF FirstPage, TypeOK
<1> HIDE DEF r
<1> QED BY <1>3, <1>4, <1>5, <1>6, <1>7, FetchKeeps

LEMMA NextPageKeeps ==
  ASSUME Traversal, NextPage
  PROVE  Traversal'
<1> DEFINE r == [reader EXCEPT !.seen = @ \cup reader.page]
<1>1. /\ reader.pc = "more" /\ Fetch(r, reader.cursor) /\ UNCHANGED <<now, rows>>
      /\ TypeOK /\ ShownCommitted /\ CursorSeparates
  BY DEF NextPage, Traversal
<1>2. /\ r \in Reader /\ r.seen = reader.seen \cup reader.page
      /\ r.filter = reader.filter /\ r.steady = reader.steady
  BY <1>1 DEF TypeOK, Reader
<1>3. PICK pos \in Position : pos = reader.cursor /\ pos = decode_cursor(reader.cursor)
  BY <1>1 DEF CursorSeparates, decode_cursor
<1> HIDE DEF r
<1>4. /\ \A id \in r.seen : ~Less(encode_cursor(id), pos)
      /\ \A id \in r.steady \ r.seen : Less(encode_cursor(id), pos)
  BY <1>1, <1>2, <1>3 DEF CursorSeparates
<1>5. /\ \A id \in r.seen : rows[id] # NoRow /\ rows[id].committed
      /\ \A id \in r.steady : /\ rows[id] # NoRow /\ rows[id].committed
                              /\ Matches(r.filter, rows[id].state)
  BY <1>1, <1>2 DEF ShownCommitted
<1> QED BY <1>1, <1>2, <1>3, <1>4, <1>5, FetchKeeps DEF TypeOK

\* The writers: a committed row keeps its position, and it stays committed.
LEMMA WritersKeep ==
  ASSUME Traversal, TypeOK',
         \A id \in Ids : rows[id] # NoRow /\ rows[id].committed =>
           /\ rows'[id] # NoRow /\ rows'[id].committed
           /\ rows'[id].created_at = rows[id].created_at,
         NEW steady \in SUBSET reader.steady, reader' = [reader EXCEPT !.steady = steady],
         \A id \in steady : Matches(reader.filter, rows'[id].state)
  PROVE  Traversal'
<1>1. /\ reader \in Reader /\ ShownCommitted /\ CursorSeparates /\ Descending /\ Complete
  BY DEF Traversal, TypeOK
<1>2. /\ reader'.pc = reader.pc /\ reader'.filter = reader.filter
      /\ reader'.cursor = reader.cursor /\ reader'.page = reader.page
      /\ reader'.seen = reader.seen /\ reader'.steady = steady
  BY <1>1 DEF Reader
<1>3. reader.page \subseteq Ids /\ reader.seen \subseteq Ids /\ steady \subseteq Ids
  BY <1>1 DEF Reader
<1>4. \A id \in reader.seen \cup reader.page \cup steady :
        /\ rows'[id] # NoRow /\ rows'[id].committed
        /\ encode_cursor(id)' = encode_cursor(id)
  BY <1>1, <1>3 DEF ShownCommitted, encode_cursor
<1>5. ShownCommitted'
  BY <1>2, <1>4 DEF ShownCommitted, Matches
<1>6. CursorSeparates'
  BY <1>1, <1>2, <1>4 DEF CursorSeparates, Less
<1>7. Descending'
  BY <1>1, <1>2, <1>4 DEF Descending, Before, Less
<1>8. Complete'
  BY <1>1, <1>2 DEF Complete
<1> QED BY <1>5, <1>6, <1>7, <1>8 DEF Traversal

LEMMA WriterSteps ==
  ASSUME Traversal,
         \/ Tick \/ UNCHANGED vars
         \/ \E id \in Ids : \/ BeginInsert(id) \/ Commit(id) \/ Rollback(id)
                            \/ \E to \in States : Transition(id, to)
  PROVE  Traversal'
<1>1. /\ now \in 0 .. MaxTime /\ rows \in [Ids -> Row \cup {NoRow}] /\ reader \in Reader
      /\ ShownCommitted
  BY DEF Traversal, TypeOK
<1>2. /\ reader.steady \subseteq Ids
      /\ \A id \in reader.steady : /\ rows[id] # NoRow /\ rows[id].committed
                                   /\ Matches(reader.filter, rows[id].state)
      /\ reader = [reader EXCEPT !.steady = reader.steady]
  BY <1>1 DEF ShownCommitted, Reader
<1>3. ASSUME now' \in 0 .. MaxTime, rows' \in [Ids -> Row \cup {NoRow}], UNCHANGED reader,
             \A id \in Ids : rows[id] # NoRow /\ rows[id].committed => rows'[id] = rows[id]
      PROVE  Traversal'
  <2>1. TypeOK'
    BY <1>1, <1>3 DEF TypeOK
  <2> QED BY <1>2, <1>3, <2>1, WritersKeep
<1>4. CASE Tick
  <2>1. now' \in 0 .. MaxTime /\ UNCHANGED <<rows, reader>>
    BY <1>1, <1>4, ListingAssumption DEF Tick
  <2> QED BY <1>1, <1>3, <2>1
<1>5. CASE UNCHANGED vars
  BY <1>1, <1>3, <1>5 DEF vars
<1>6. ASSUME NEW id \in Ids, BeginInsert(id) PROVE Traversal'
  <2> DEFINE row == [created_at |-> now, state |-> "draft", committed |-> FALSE]
  <2>1. row \in Row
    BY <1>1, ListingAssumption DEF Row
  <2>2. rows' = [rows EXCEPT ![id] = row] /\ rows[id] = NoRow /\ UNCHANGED <<now, reader>>
    BY <1>6 DEF BeginInsert
  <2> HIDE DEF row
  <2> QED BY <1>1, <1>3, <2>1, <2>2
<1>7. ASSUME NEW id \in Ids, Commit(id) PROVE Traversal'
  <2> DEFINE row == [rows[id] EXCEPT !.committed = TRUE]
  <2>1. /\ rows[id] \in Row /\ ~rows[id].committed
        /\ rows' = [rows EXCEPT ![id] = row] /\ UNCHANGED <<now, reader>>
    BY <1>1, <1>7 DEF Commit
  <2>2. row \in Row
    BY <2>1 DEF Row
  <2> HIDE DEF row
  <2> QED BY <1>1, <1>3, <2>1, <2>2
<1>8. ASSUME NEW id \in Ids, Rollback(id) PROVE Traversal'
  BY <1>1, <1>3, <1>8 DEF Rollback
<1>9. ASSUME NEW id \in Ids, NEW to \in States, Transition(id, to) PROVE Traversal'
  <2> DEFINE row == [rows[id] EXCEPT !.state = to]
             steady == IF Matches(reader.filter, to) THEN reader.steady ELSE reader.steady \ {id}
  <2>1. /\ rows[id] \in Row /\ rows[id].committed
        /\ rows' = [rows EXCEPT ![id] = row] /\ UNCHANGED now
    BY <1>1, <1>9 DEF Transition
  <2>2. /\ row \in Row /\ row.state = to /\ row.committed
        /\ row.created_at = rows[id].created_at /\ row # NoRow
    BY <2>1 DEF Row, NoRow
  <2>3. steady \in SUBSET reader.steady /\ reader' = [reader EXCEPT !.steady = steady]
    BY <1>2, <1>9 DEF Transition
  <2>4. id \in steady => Matches(reader.filter, to)
    OBVIOUS
  <2> HIDE DEF row, steady
  <2>5. /\ rows' \in [Ids -> Row \cup {NoRow}] /\ rows'[id] = row
        /\ \A other \in Ids : other # id => rows'[other] = rows[other]
    BY <1>1, <2>1, <2>2
  <2>6. reader' \in Reader
    BY <1>1, <1>2, <2>3 DEF Reader
  <2>7. TypeOK'
    BY <1>1, <2>1, <2>5, <2>6 DEF TypeOK
  <2>8. \A other \in steady : Matches(reader.filter, rows'[other].state)
    BY <1>2, <2>2, <2>3, <2>4, <2>5
  <2>9. \A other \in Ids : rows[other] # NoRow /\ rows[other].committed =>
           /\ rows'[other] # NoRow /\ rows'[other].committed
           /\ rows'[other].created_at = rows[other].created_at
    BY <2>1, <2>2, <2>5
  <2> QED BY <2>3, <2>7, <2>8, <2>9, WritersKeep
<1> QED BY <1>4, <1>5, <1>6, <1>7, <1>8, <1>9

-----------------------------------------------------------------------------
(* The theorems                                                            *)

\* Between two pages the cursor alone tells what has been shown and what has not,
\* for any set of rows, limits and filters and any interleaving of writers.
THEOREM TraversalInductive == Spec => []Traversal
<1>1. Init => Traversal
  <2> SUFFICES ASSUME Init PROVE Traversal
    OBVIOUS
  <2>1. reader \in Reader
    BY ListingAssumption DEF Init, Reader
  <2>2. TypeOK
    BY <2>1, ListingAssumption DEF Init, TypeOK
  <2>3. ShownCommitted /\ CursorSeparates /\ Descending /\ Complete
    BY DEF Init, ShownCommitted, CursorSeparates, Descending, Complete
  <2> QED BY <2>2, <2>3 DEF Traversal
<1>2. Traversal /\ [Next]_vars => Traversal'
  BY FirstPageKeeps, NextPageKeeps, WriterSteps DEF Next, Traversal
<1> QED BY <1>1, <1>2, PTL DEF Spec

\* Clock, rows and traversal keep their shapes.
THEOREM ListingTypes == Spec => []TypeOK
<1>1. Traversal => TypeOK
  BY DEF Traversal
<1> QED BY <1>1, TraversalInductive, PTL

\* Across pages, no row is shown twice or out of order.
THEOREM PagesDescend == Spec => []Descending
<1>1. Traversal => Descending
  BY DEF Traversal
<1> QED BY <1>1, TraversalInductive, PTL

\* A finished traversal has shown every row that was there when it began and kept
\* matching the filter.
THEOREM PagesComplete == Spec => []Complete
<1>1. Traversal => Complete
  BY DEF Traversal
<1> QED BY <1>1, TraversalInductive, PTL
=============================================================================
