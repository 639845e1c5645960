------------------------------ MODULE DataQuery ------------------------------
(***************************************************************************)
(* GET /<provider>/data/<table> of worker/src/data/mod.rs: from the        *)
(* parameters of the URL to the one SELECT that answers it.                *)
(*                                                                         *)
(* A text is a sequence of characters; only the characters that the        *)
(* parsers look at, and a few that values are made of, exist here.  White  *)
(* space around names and the wildcards of LIKE in a value are left out.   *)
(***************************************************************************)
EXTENDS Naturals, SequencesExt

CONSTANTS
  Columns,  \* schema::columns of the table, as texts
  MaxRows,  \* WORKER_SQL_MAX_ROWS
  None      \* a parameter that is not in the URL

(* The characters of values, in the order of their codes *)
Characters == <<",", "0", "1", ":", "@", "X", "\\", "x">>

-----------------------------------------------------------------------------
(* Parsing *)

Split(text, separator) ==
  FoldLeft(LAMBDA parts, c : IF c = separator
                               THEN Append(parts, <<>>)
                               ELSE Append(Front(parts), Append(Last(parts), c)),
           << <<>> >>, text)

Escaped(text) ==
  FoldLeft(LAMBDA done, c : IF c = "," /\ done # <<>> /\ Last(done) = "\\"
                              THEN Append(Front(done), "NUL")
                              ELSE Append(done, c),
           <<>>, text)

Unescaped(text) == ReplaceAll(text, "NUL", ",")

(* Mutation for ParseFilterItems: every comma separates items *)
ParseFilterItemsUnescaped(raw) == Split(raw, ",")

(* An item ends with the first part that has an "@". *)
ParseFilterItems(raw) ==
  LET Take(done, part) ==
        LET buffer == IF done.buffer = <<>> THEN part
                      ELSE done.buffer \o <<",">> \o part
        IN  IF Contains(buffer, "@")
              THEN [items |-> Append(done.items, Unescaped(buffer)), buffer |-> <<>>]
              ELSE [done EXCEPT !.buffer = buffer]
      parsed == FoldLeft(Take, [items |-> <<>>, buffer |-> <<>>], Split(Escaped(raw), ","))
  IN  IF raw = <<>> THEN <<raw>>
      ELSE parsed.items \o (IF parsed.buffer = <<>> THEN <<>>
                            ELSE <<Unescaped(parsed.buffer)>>)

(* The readings of begin:end, one or none: an open end where the range begins
   or ends with its only colon at that place, or a cut at the middle colon.
   An absent bound is an empty text. *)
ParseRangeBounds(text) ==
  LET colons == {i \in DOMAIN text : text[i] = ":"}
      Side(i, j) == Cardinality({k \in colons : i < k /\ k < j})
      last == Len(text)
      OpenStart(i) == i = 1 /\ last > 1 /\ 2 \notin colons
      OpenEnd(i) == 1 \notin colons /\ i = last /\ i - 1 \notin colons
      Middle(i) ==
        /\ colons \cap {1, last} = {} /\ Cardinality(colons) \in {1, 3, 5}
        /\ Side(0, i) = Side(i, last + 1)
  IN  {[begin |-> SubSeq(text, 1, i - 1), end |-> SubSeq(text, i + 1, last)] :
         i \in {c \in colons : OpenStart(c) \/ OpenEnd(c) \/ Middle(c)}}

(* col[begin:end] *)
ParseRangePart(part) ==
  LET open == SelectInSeq(part, LAMBDA c : c = "[")
  IN  IF open > 1 /\ Last(part) = "]"
        THEN {[column |-> SubSeq(part, 1, open - 1), bounds |-> bounds] :
                bounds \in ParseRangeBounds(SubSeq(part, open + 1, Len(part) - 1))}
        ELSE {}

-----------------------------------------------------------------------------
(* The statement *)

Rejected == [ok |-> FALSE, clauses |-> <<>>, values |-> <<>>]

(* The number of the placeholder of the next clause *)
Slot(query) == Len(query.clauses) + 1

Where(query, column, test, value) ==
  [query EXCEPT
    !.clauses = Append(@, [column |-> column, test |-> test, slot |-> Slot(query)]),
    !.values = Append(@, value)]

AddFilter(query, test, item) ==
  LET at == SelectLastInSeq(item, LAMBDA c : c = "@")
      column == SubSeq(item, at + 1, Len(item))
  IN  IF query.ok /\ at # 0 /\ column \in Columns
        THEN Where(query, column, test, SubSeq(item, 1, at - 1))
        ELSE Rejected

AddBound(query, column, test, bound) ==
  IF bound = <<>> THEN query ELSE Where(query, column, test, bound)

AddRange(query, part) ==
  LET Add(range) ==
        AddBound(AddBound(query, range.column, ">=", range.bounds.begin),
                 range.column, "<=", range.bounds.end)
      valid == {range \in ParseRangePart(part) : range.column \in Columns}
  IN  IF query.ok /\ valid # {} THEN Add(CHOOSE range \in valid : TRUE) ELSE Rejected

Compiled(url) ==
  LET Add(query, p) ==
        IF p.key = "range"
          THEN FoldLeft(AddRange, query, Split(p.value, ","))
          ELSE FoldLeft(LAMBDA q, item : AddFilter(q, p.key, item), query,
                        ParseFilterItems(p.value))
  IN  FoldLeft(Add, [Rejected EXCEPT !.ok = TRUE], url.filters)

Limit(url) == IF url.limit = None \/ url.limit > MaxRows THEN MaxRows ELSE url.limit
Offset(url) == IF url.offset = None THEN 0 ELSE url.offset

(* The selected columns: include wins over exclude. *)
Selected(url) ==
  IF url.include # None THEN url.include
  ELSE IF url.exclude # None THEN Columns \ url.exclude ELSE Columns

ColumnsRejected(url) ==
  \/ url.include # None /\ ~(url.include \subseteq Columns)
  \/ url.include = None /\ url.exclude # None
       /\ (~(url.exclude \subseteq Columns) \/ url.exclude = Columns)

SortRejected(url) == \E i \in DOMAIN url.sort : url.sort[i].column \notin Columns

-----------------------------------------------------------------------------
(* What SQLite makes of it *)

Code(c) == CHOOSE n \in DOMAIN Characters : Characters[n] = c
NoCase(text) == ReplaceAll(text, "X", "x")
Within(part, text) ==
  \E i \in 0..Len(text) - Len(part) : SubSeq(text, i + 1, i + Len(part)) = part
Less(s, t) ==
  \E i \in DOMAIN t :
    /\ i - 1 <= Len(s)
    /\ SubSeq(s, 1, i - 1) = SubSeq(t, 1, i - 1)
    /\ i - 1 = Len(s) \/ Code(s[i]) < Code(t[i])

Meets(text, test, value) ==
  CASE test = "filter"    -> text = value
    [] test = "ifilter"   -> NoCase(text) = NoCase(value)
    [] test = "contains"  -> Within(value, text)
    [] test = "icontains" -> Within(NoCase(value), NoCase(text))
    [] test = ">="        -> ~Less(text, value)
    [] test = "<="        -> ~Less(value, text)

(* a may come before b in the order of the sort clauses *)
Ordered(sort, a, b) ==
  \A i \in DOMAIN sort :
    LET c == sort[i].column
        before == IF sort[i].descending THEN Less(b[c], a[c]) ELSE Less(a[c], b[c])
    IN  a[c] = b[c] \/ before \/ \E j \in 1..i - 1 : a[sort[j].column] # b[sort[j].column]

Orders(rows, sort) ==
  {order \in SetToSeqs(rows) :
     \A i, j \in DOMAIN order : i < j => Ordered(sort, order[i], order[j])}

Pages(orders, limit, offset) ==
  {SubSeq(order, offset + 1, Min({offset + limit, Len(order)})) : order \in orders}

(* The results that SELECT ... LIMIT ?n+1 OFFSET ?n+2 may have *)
Results(url, rows) ==
  LET query == Compiled(url)
      params == query.values \o <<Limit(url), Offset(url)>>
      limit == params[Slot(query)]
      offset == params[Slot(query) + 1]
      found == {row \in rows : \A i \in DOMAIN query.clauses :
                  LET clause == query.clauses[i]
                  IN  Meets(row[clause.column], clause.test, params[clause.slot])}
  IN  {[i \in DOMAIN page |-> Restrict(page[i], Selected(url))] :
         page \in Pages(Orders(found, url.sort), limit, offset)}

(* The status of the answer when the database works: a SELECT of no column is
   a syntax error. *)
Status(url) ==
  IF ColumnsRejected(url) \/ ~Compiled(url).ok \/ SortRejected(url) THEN 400
  ELSE IF Selected(url) = {} THEN 500 ELSE 200
=============================================================================
