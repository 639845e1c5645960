----------------------------- MODULE MCEndpoints -----------------------------
(***************************************************************************)
(* An instance of Endpoints: a provider under two spellings and another    *)
(* without shapes, a name without a database, and requests for /data with  *)
(* the characters that its notation uses.                                  *)
(***************************************************************************)
EXTENDS Endpoints

TheNames == {"bus", "BUS", "rail", "none"}
LowerCase == [n \in TheNames |-> IF n = "BUS" THEN "bus" ELSE n]
Bindings == [n \in TheNames |-> CASE LowerCase[n] = "bus" -> "DB_BUS"
                                  [] n = "rail" -> "DB_RAIL"
                                  [] OTHER -> None]
TablesOf == [n \in TheNames |-> CASE n = "bus" -> {"stops", "shapes"}
                                  [] n = "rail" -> {"stops"}
                                  [] OTHER -> {}]
RoutesByVersion == [v \in 0..MaxVersion |-> IF v = 1 THEN {"r1", "r2"} ELSE {"r1"}]

Get(endpoint, name, routes) ==
  [method |-> "GET", endpoint |-> endpoint, name |-> name, routes |-> routes]

(* Spellings of a provider share an answer. *)
StatusWorkload ==
  [requests |-> {Get("status", n, <<>>) : n \in TheNames}
                  \cup {[Get("status", "bus", <<>>) EXCEPT !.method = "POST"]},
   changes |-> {<<"DB_BUS", "import_progress">>}]

(* A route comes and goes. *)
RouteWorkload ==
  [requests |-> {Get("map", "bus", <<"r1">>), Get("map", "BUS", <<"r2">>), Get("status", "bus", <<>>),
                 Get("map", "bus", <<"r1", "r2">>)},
   changes |-> {<<"DB_BUS", "routes">>}]

(* Tables that several queries of a map read change between them. *)
RailWorkload ==
  [requests |-> {Get("map", "rail", <<"r1">>)},
   changes |-> {<<"DB_RAIL", "trips">>, <<"DB_RAIL", "stops">>}]

-----------------------------------------------------------------------------
A == <<"a">>
B == <<"b">>
TheColumns == {A, B}

Row(a, b) == (A :> a) @@ (B :> b)
TheRows ==
  {Row(<<"x", ",", "0">>, <<"0", ":", "1">>), Row(<<"X">>, <<"1", ":", "0">>),
   Row(<<"x">>, <<"1">>), Row(<<"@", "x", "\\", ",">>, <<"0", ":", "1">>)}

Values == {<<>>, <<"X">>, <<",">>, <<"x", ",", "0">>, <<"@", "x", "\\", ",">>, <<"\\">>}

Conditions == [column : {A, B, <<"z">>}, value : Values]

(* The bounds of a range have as many colons as each other, or one is open. *)
Bounds ==
  LET plain == {<<"0">>, <<"1">>}
      times == {<<"0", ":", "1">>, <<"1", ":", "0">>}
      full == {<<"0", ":", "0", ":", "1">>, <<"1", ":", "0", ":", "0">>}
  IN  (plain \X plain) \cup (times \X times) \cup (full \X full)
        \cup (({<<>>} \X (plain \cup times))) \cup ((plain \cup times) \X {<<>>})

Ranges == {[column |-> c, begin |-> b[1], end |-> b[2]] : c \in {A, B, <<"z">>}, b \in Bounds}

Plain(groups) ==
  [groups |-> groups, include |-> None, exclude |-> None, sort |-> <<>>,
   limit |-> None, offset |-> None]

Group(key, conditions) == [key |-> key, conditions |-> conditions]

Tests == {"filter", "ifilter", "contains", "icontains"}

OneGroup ==
  {Plain(<<Group(k, s)>>) : k \in Tests, s \in TupleOf(Conditions, 1) \cup TupleOf(Conditions, 2)}
    \cup {Plain(<<Group("range", s)>>) : s \in TupleOf(Ranges, 1) \cup TupleOf(Ranges, 2)}

TwoGroups ==
  {Plain(<<Group(k, <<[column |-> A, value |-> v]>>),
           Group("range", <<[column |-> B, begin |-> b, end |-> <<>>]>>),
           Group("contains", <<[column |-> B, value |-> w]>>)>>) :
     k \in Tests, v \in Values, b \in {<<"0">>, <<"1">>}, w \in {<<"0">>, <<"1">>, <<":">>}}

Sorts ==
  {<<>>} \cup {<<[column |-> c, descending |-> d]>> : c \in {A, B, <<"z">>}, d \in BOOLEAN}
    \cup {<<[column |-> B, descending |-> d], [column |-> A, descending |-> e]>> :
            d \in BOOLEAN, e \in BOOLEAN}

Paged ==
  {[Plain(<<Group("icontains", <<[column |-> A, value |-> v]>>)>>) EXCEPT
      !.sort = s, !.limit = l, !.offset = o] :
     v \in {<<"x">>, <<",">>}, s \in Sorts, l \in {None, 0, 2, 5}, o \in {None, 1, 4}}

ColumnSets == {None, {A}, {B}, {A, B}, {A, <<"z">>}}

Chosen ==
  {[Plain(<<>>) EXCEPT !.include = i, !.exclude = e] : i \in ColumnSets, e \in ColumnSets}

Reading(name, table, intent) ==
  [requests |-> {[method |-> "GET", endpoint |-> "data", name |-> name, routes |-> <<>>,
                  table |-> table, intent |-> intent]},
   changes |-> {}]

DataWorkloads ==
  {Reading("BUS", "stops", i) : i \in OneGroup \cup TwoGroups \cup Paged \cup Chosen}
    \cup {Reading("none", "stops", Plain(<<>>)), Reading("rail", "shapes", Plain(<<>>))}

TheWorkloads == DataWorkloads \cup {StatusWorkload, RouteWorkload, RailWorkload}
=============================================================================
