------------------------------- MODULE Endpoints -------------------------------
(***************************************************************************)
(* The worker's endpoints that read what the importer has written:         *)
(* /status and /map, which keep their answers in the cache of the edge,    *)
(* and /data, which does not (worker/src/lib.rs, status/mod.rs,            *)
(* map/mod.rs, data/mod.rs, database.rs).  Requests are served             *)
(* concurrently, each a sequence of queries, while the importer writes and *)
(* the clock goes on.                                                      *)
(*                                                                         *)
(* Of a table only its version matters, of an answer the versions that its *)
(* queries read.  The cache of the edge keeps an entry at most as long as  *)
(* its max-age; it may lose one at any time.                               *)
(***************************************************************************)
EXTENDS DataQuery

CONSTANTS
  Slots,        \* bound: requests served concurrently
  Names,        \* names of providers as clients write them
  Canonical,    \* by name, its lower case
  BoundTo,      \* by name, the database that its binding names, or None
  Databases,
  ShapeDatabases, \* those with a table of shapes
  RoutesAt,     \* by version of the table of routes, the routes it has
  SchemaOf,     \* by lower-case name, the tables whose columns were compiled in
  Rows,         \* of a table that /data reads
  StatusMaxAge, MapMaxAge, \* max-age of the answers, in ticks
  MaxDelay,     \* bound: ticks from the first query of a request to its last write
  MaxVersion,   \* bound: changes of a table
  Workloads     \* what clients ask for, and the tables that the importer changes

ASSUME EndpointsAssumption ==
  /\ StatusMaxAge \in Nat /\ MapMaxAge \in Nat /\ MaxDelay \in Nat /\ MaxVersion \in Nat
  /\ BoundTo \in [Names -> Databases \cup {None}]
  \* A binding is named after the provider whatever the case of its letters.
  /\ \A m, n \in Names : Canonical[m] = Canonical[n] => BoundTo[m] = BoundTo[n]
  /\ \A w \in Workloads : \A request \in w.requests :
       request.name \in Names /\ request.endpoint \in {"status", "map", "data"}

VARIABLES
  workload,
  version, \* by database and table, how often it changed
  since,   \* by database and table, ticks since it changed
  cache,   \* by URL, an answer and its age
  slot,    \* requests that are being served
  answer   \* the answer that was just given, if one was

vars == <<workload, version, since, cache, slot, answer>>

Tables == {"import_progress", "routes", "trips", "stop_times", "stops", "shapes"}

(* Bound: a change this old is a change of long ago. *)
LongAgo == MaxDelay + StatusMaxAge + MapMaxAge + 1

-----------------------------------------------------------------------------
(* Requests *)

Database(request) == BoundTo[request.name]

(* What is refused before anything is read *)
Refusal(request) ==
  CASE request.method # "GET" -> 405
    [] request.endpoint = "map" /\ Len(request.routes) # 1 -> 400
    [] OTHER -> None

(* Mutation for CacheKey: the query of the URL does not count *)
CacheKeyOfPath(request) == <<request.endpoint, Canonical[request.name]>>

(* The URL that stands for all with the same answer *)
CacheKey(request) == <<request.endpoint, Canonical[request.name], request.routes>>

(* Mutation for MaxAge: every answer is kept as long as a map *)
MaxAgeOfMap(request) == MapMaxAge

MaxAge(request) == IF request.endpoint = "status" THEN StatusMaxAge ELSE MapMaxAge

(* The tables that the request's queries read, one set per query *)
Queries(request) ==
  IF request.endpoint = "status" THEN <<{"import_progress"}>>
  ELSE <<{"routes"},
         IF Database(request) \in ShapeDatabases
           THEN {"trips", "shapes"} ELSE {"trips", "stop_times", "stops"},
         {"trips", "stop_times", "stops"}>>

UnknownRoute(request, d) ==
  request.endpoint = "map" /\ request.routes[1] \notin RoutesAt[version[d]["routes"]]

Idle == [stage |-> "idle", request |-> None, parts |-> <<>>, elapsed |-> 0]

-----------------------------------------------------------------------------
Init ==
  /\ workload \in Workloads
  /\ version = [d \in Databases |-> [t \in Tables |-> 0]]
  /\ since = [d \in Databases |-> [t \in Tables |-> LongAgo]]
  /\ cache = <<>>
  /\ slot = [s \in Slots |-> Idle]
  /\ answer = None

Answer(request, status, body) ==
  answer' = [request |-> request, status |-> status, body |-> body]

Calm == answer' = None

databases == <<workload, version, since>>

Refuse(request) ==
  /\ Refusal(request) # None
  /\ Answer(request, Refusal(request), <<>>)
  /\ UNCHANGED <<databases, cache, slot>>

Hit(request) ==
  /\ request.endpoint # "data" /\ Refusal(request) = None
  /\ CacheKey(request) \in DOMAIN cache
  /\ Answer(request, 200, cache[CacheKey(request)].body)
  /\ UNCHANGED <<databases, cache, slot>>

Missed(request) ==
  /\ request.endpoint # "data" /\ Refusal(request) = None
  /\ CacheKey(request) \notin DOMAIN cache

NotBound(request) ==
  /\ Missed(request) /\ Database(request) = None
  /\ Answer(request, 404, <<>>)
  /\ UNCHANGED <<databases, cache, slot>>

Begin(s, request) ==
  /\ slot[s] = Idle
  /\ Missed(request) /\ Database(request) # None
  /\ slot' = [slot EXCEPT ![s] =
                 [stage |-> "reading", request |-> request, parts |-> <<>>, elapsed |-> 0]]
  /\ Calm
  /\ UNCHANGED <<databases, cache>>

(* What the next query of the slot reads *)
Part(s) ==
  LET request == slot[s].request
  IN  Restrict(version[Database(request)], Queries(request)[Len(slot[s].parts) + 1])

Body(s) ==
  [endpoint |-> slot[s].request.endpoint, routes |-> slot[s].request.routes,
   database |-> Database(slot[s].request), parts |-> Append(slot[s].parts, Part(s))]

AtLast(s) == Len(slot[s].parts) + 1 = Len(Queries(slot[s].request))

ReadNext(s) ==
  /\ slot[s].stage = "reading" /\ ~AtLast(s)
  /\ slot[s].parts # <<>> \/ ~UnknownRoute(slot[s].request, Database(slot[s].request))
  /\ slot' = [slot EXCEPT ![s].parts = Append(@, Part(s))]
  /\ Calm
  /\ UNCHANGED <<databases, cache>>

(* Mutation for RejectRoute: the rejection is cached like an answer *)
RejectRouteCached(s) ==
  /\ slot[s].stage = "reading" /\ slot[s].parts = <<>>
  /\ UnknownRoute(slot[s].request, Database(slot[s].request))
  /\ Answer(slot[s].request, 404, <<>>)
  /\ slot' = [slot EXCEPT ![s] = [@ EXCEPT !.stage = "storing", !.parts = Body(s)]]
  /\ UNCHANGED <<databases, cache>>

RejectRoute(s) ==
  /\ slot[s].stage = "reading" /\ slot[s].parts = <<>>
  /\ UnknownRoute(slot[s].request, Database(slot[s].request))
  /\ Answer(slot[s].request, 404, <<>>)
  /\ slot' = [slot EXCEPT ![s] = Idle]
  /\ UNCHANGED <<databases, cache>>

(* The answer is given; the copy for the cache is left to wait_until. *)
ReadLast(s) ==
  /\ slot[s].stage = "reading" /\ AtLast(s)
  /\ Answer(slot[s].request, 200, Body(s))
  /\ slot' = [slot EXCEPT ![s] = [@ EXCEPT !.stage = "storing", !.parts = Body(s)]]
  /\ UNCHANGED <<databases, cache>>

FailRead(s) ==
  /\ slot[s].stage = "reading"
  /\ Answer(slot[s].request, 500, <<>>)
  /\ slot' = [slot EXCEPT ![s] = Idle]
  /\ UNCHANGED <<databases, cache>>

Store(s) ==
  /\ slot[s].stage = "storing"
  /\ LET request == slot[s].request
         entry == [request |-> request, body |-> slot[s].parts, age |-> 0]
     IN  cache' = [key \in DOMAIN cache \cup {CacheKey(request)} |->
                     IF key = CacheKey(request) THEN entry ELSE cache[key]]
  /\ slot' = [slot EXCEPT ![s] = Idle]
  /\ Calm
  /\ UNCHANGED databases

(* The error of put is ignored. *)
FailStore(s) ==
  /\ slot[s].stage = "storing"
  /\ slot' = [slot EXCEPT ![s] = Idle]
  /\ Calm
  /\ UNCHANGED <<databases, cache>>

-----------------------------------------------------------------------------
(* /data: a client writes what it wants into the URL, one SELECT answers. *)

Escape(text) == FlattenSeq([i \in DOMAIN text |-> IF text[i] = "," THEN <<"\\", ",">> ELSE <<text[i]>>])

Joined(parts) ==
  FlattenSeq([i \in DOMAIN parts |-> IF i = 1 THEN parts[i] ELSE <<",">> \o parts[i]])

(* value@column of a filter, column[begin:end] of a range *)
WrittenCondition(key, c) ==
  IF key = "range" THEN c.column \o <<"[">> \o c.begin \o <<":">> \o c.end \o <<"]">>
  ELSE Escape(c.value) \o <<"@">> \o c.column

Written(intent) ==
  [include |-> intent.include, exclude |-> intent.exclude, sort |-> intent.sort,
   limit |-> intent.limit, offset |-> intent.offset,
   filters |-> [g \in DOMAIN intent.groups |->
     LET group == intent.groups[g]
     IN  [key |-> group.key,
          value |-> Joined([i \in DOMAIN group.conditions |->
                              WrittenCondition(group.key, group.conditions[i])])]]]

(* The provider is bound, and its table has a schema. *)
Found(request) ==
  Database(request) # None /\ request.table \in SchemaOf[Canonical[request.name]]

ServeData(request) ==
  /\ request.endpoint = "data" /\ Refusal(request) = None
  /\ LET url == Written(request.intent)
     IN  \/ ~Found(request) /\ Answer(request, 404, <<>>)
         \/ Found(request) /\ Answer(request, Status(url), <<>>) /\ Status(url) # 200
         \/ /\ Found(request) /\ Status(url) = 200
            /\ \/ Answer(request, 500, <<>>)
               \/ \E page \in Results(url, Rows) : Answer(request, 200, page)
  /\ UNCHANGED <<databases, cache, slot>>

-----------------------------------------------------------------------------
(* The importer, the clock and the cache's own evictions *)

Import(d, t) ==
  /\ <<d, t>> \in workload.changes /\ version[d][t] < MaxVersion
  /\ version' = [version EXCEPT ![d][t] = @ + 1]
  /\ since' = [since EXCEPT ![d][t] = 0]
  /\ Calm
  /\ UNCHANGED <<workload, cache, slot>>

Active == {s \in Slots : slot[s] # Idle}

(* Bound: time passes while something depends on it. *)
Timed ==
  \/ Active # {} \/ DOMAIN cache # {}
  \/ \E d \in Databases, t \in Tables : since[d][t] < LongAgo

(* Mutation for Kept: an entry is served in the tick after its last *)
KeptPast(entry) == entry.age <= MaxAge(entry.request)

Kept(entry) == entry.age < MaxAge(entry.request)

Tick ==
  /\ Timed
  /\ \A s \in Active : slot[s].elapsed < MaxDelay
  /\ since' = [d \in Databases |-> [t \in Tables |-> Min({since[d][t] + 1, LongAgo})]]
  /\ slot' = [s \in Slots |-> IF s \in Active THEN [slot[s] EXCEPT !.elapsed = @ + 1] ELSE slot[s]]
  /\ cache' = [key \in {k \in DOMAIN cache : Kept(cache[k])} |->
                 [cache[key] EXCEPT !.age = @ + 1]]
  /\ Calm
  /\ UNCHANGED <<workload, version>>

Evict ==
  /\ \E key \in DOMAIN cache : cache' = Restrict(cache, DOMAIN cache \ {key})
  /\ Calm
  /\ UNCHANGED <<databases, slot>>

Serve(request) ==
  \/ Refuse(request) \/ Hit(request) \/ NotBound(request) \/ ServeData(request)
  \/ \E s \in Slots : Begin(s, request)

Continue(s) ==
  \/ ReadNext(s) \/ RejectRoute(s) \/ ReadLast(s) \/ FailRead(s) \/ Store(s) \/ FailStore(s)

Next ==
  \/ \E request \in workload.requests : Serve(request)
  \/ \E s \in Slots : Continue(s)
  \/ \E d \in Databases, t \in Tables : Import(d, t)
  \/ Tick
  \/ Evict

Spec == Init /\ [][Next]_vars

-----------------------------------------------------------------------------
TypeOK ==
  /\ workload \in Workloads
  /\ version \in [Databases -> [Tables -> 0..MaxVersion]]
  /\ since \in [Databases -> [Tables -> 0..LongAgo]]
  /\ \A key \in DOMAIN cache :
       key = CacheKey(cache[key].request) /\ cache[key].age \in 0..MaxAge(cache[key].request)
  /\ \A s \in Slots :
       slot[s].stage \in {"idle", "reading", "storing"} /\ slot[s].elapsed \in 0..MaxDelay

(* A client gets the answer of what it asked for: of the endpoint, the
   provider's database and the route, and whole, from the database or from the
   cache, whoever filled it; and it is told that there is no such provider or route
   only when there is none now (map/mod.rs: cache_key, Unknown route_id). *)
OwnAnswer ==
  answer # None /\ answer.request.endpoint # "data" =>
    LET request == answer.request
    IN  /\ answer.status = 200 =>
             /\ Refusal(request) = None
             /\ answer.body.endpoint = request.endpoint
             /\ answer.body.database = Database(request)
             /\ answer.body.routes = request.routes
             /\ [i \in DOMAIN answer.body.parts |-> DOMAIN answer.body.parts[i]] = Queries(request)
        /\ answer.status = 404 =>
             Database(request) = None \/ UnknownRoute(request, Database(request))

(* An answer shows no data that were replaced longer ago than the max-age of
   the endpoint's answers and the time that one request takes: also the answer
   that was put together from queries before and after a change, or that was
   stored after a newer one (Cache-Control, wait_until). *)
Fresh ==
  answer # None /\ answer.request.endpoint # "data" /\ answer.status = 200 =>
    LET d == answer.body.database
        kept == IF answer.request.endpoint = "status" THEN StatusMaxAge ELSE MapMaxAge
    IN  \A i \in DOMAIN answer.body.parts : \A t \in DOMAIN answer.body.parts[i] :
          answer.body.parts[i][t] = version[d][t] \/ since[d][t] <= kept + MaxDelay

(* What a client excludes counts when it does not say what it includes. *)
Hidden(intent) ==
  IF intent.include # None \/ intent.exclude = None THEN {} ELSE intent.exclude

(* What the client means: the rows that meet every condition, in an order that
   respects the sort, without the first ones, at most so many, of the columns
   that it wants *)
Intended(intent) ==
  LET Holds(row, key, c) ==
        IF key = "range"
          THEN /\ c.begin # <<>> => Meets(row[c.column], ">=", c.begin)
               /\ c.end # <<>> => Meets(row[c.column], "<=", c.end)
          ELSE Meets(row[c.column], key, c.value)
      found == {row \in Rows : \A g \in DOMAIN intent.groups :
                  \A i \in DOMAIN intent.groups[g].conditions :
                    Holds(row, intent.groups[g].key, intent.groups[g].conditions[i])}
      skipped == IF intent.offset = None THEN 0 ELSE intent.offset
      size == Min({MaxRows} \cup ({intent.limit} \ {None}))
      shown == IF intent.include # None THEN intent.include ELSE Columns \ Hidden(intent)
  IN  {[i \in DOMAIN page |-> Restrict(page[i], shown)] :
         page \in Pages(Orders(found, intent.sort), size, skipped)}

(* Every column that the client names, and whether one is left *)
Meaningful(intent) ==
  LET named == UNION {{c.column : c \in ToSet(intent.groups[g].conditions)} :
                        g \in DOMAIN intent.groups}
                 \cup {c.column : c \in ToSet(intent.sort)}
                 \cup (IF intent.include = None THEN {} ELSE intent.include)
                 \cup Hidden(intent)
  IN  named \subseteq Columns /\ Hidden(intent) # Columns

(* /data gives the rows that the client means, through the escapes of the URL,
   the brackets of ranges and the numbered placeholders of the statement; it
   refuses exactly what names no column of the table (data/mod.rs). *)
DataAnswer ==
  answer # None /\ answer.request.endpoint = "data" =>
    LET intent == answer.request.intent
    IN  /\ answer.status = 200 => answer.body \in Intended(intent)
        /\ answer.status = 400 => ~Meaningful(intent)
        /\ answer.status \in {200, 500} => Meaningful(intent)
=============================================================================
