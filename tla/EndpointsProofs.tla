---------------------------- MODULE EndpointsProofs ----------------------------
(***************************************************************************)
(* /status and /map, for any number of requests served at a time, any      *)
(* providers and spellings of their names, any max-age and any schedule of *)
(* the importer: an answer is the whole answer to its own request, and no  *)
(* older than its max-age and the time that one request takes.             *)
(*                                                                         *)
(* An answer is put together query by query, stored later and given again  *)
(* later still.  What is invariant is how far each table may have moved on *)
(* since it was read: by no more than the request has taken so far, and by *)
(* no more than the entry's age on top of what its request took.           *)
(***************************************************************************)
EXTENDS Endpoints, TLAPS

AllRequests == UNION {w.requests : w \in Workloads}

(* What one query may read *)
Reads == UNION {[T -> 0..MaxVersion] : T \in SUBSET Tables}

Bodies ==
  [endpoint : {"status", "map"}, routes : {request.routes : request \in AllRequests},
   database : Databases, parts : Seq(Reads)]

Servings ==
  [stage : {"idle", "reading", "storing"}, request : AllRequests \cup {None},
   parts : Seq(Reads) \cup Bodies, elapsed : 0..MaxDelay]

Entries == [request : AllRequests, body : Bodies, age : Nat]

Typed ==
  /\ TypeOK
  /\ slot \in [Slots -> Servings]
  /\ \A key \in DOMAIN cache : cache[key] \in Entries

-----------------------------------------------------------------------------
(* A request whose answer may be kept *)
Cacheable(request) ==
  /\ request \in AllRequests
  /\ request.endpoint # "data"
  /\ Refusal(request) = None
  /\ Database(request) \in Databases

(* What was read of the database d is current, or was so many ticks ago. *)
Recent(v, ago, d, part, ticks) ==
  \A t \in DOMAIN part : part[t] = v[d][t] \/ ago[d][t] <= ticks

(* The first queries of a request have been answered. *)
Partial(v, ago, parts, request, ticks) ==
  /\ parts \in Seq(Reads)
  /\ Len(parts) < Len(Queries(request))
  /\ \A i \in DOMAIN parts :
       /\ DOMAIN parts[i] = Queries(request)[i]
       /\ Recent(v, ago, Database(request), parts[i], ticks)

(* The body is the answer to the request, so many ticks old. *)
Whole(v, ago, body, request, ticks) ==
  /\ body \in Bodies
  /\ body.endpoint = request.endpoint
  /\ body.database = Database(request)
  /\ body.routes = request.routes
  /\ [i \in DOMAIN body.parts |-> DOMAIN body.parts[i]] = Queries(request)
  /\ \A i \in DOMAIN body.parts : Recent(v, ago, body.database, body.parts[i], ticks)

(* What a request has read, and what it is to store *)
SlotOK(v, ago, serving) ==
  /\ serving.stage # "idle" => Cacheable(serving.request)
  /\ serving.stage = "reading" =>
       Partial(v, ago, serving.parts, serving.request, serving.elapsed)
  /\ serving.stage = "storing" =>
       Whole(v, ago, serving.parts, serving.request, serving.elapsed)

Served == \A s \in Slots : SlotOK(version, since, slot[s])

Stored ==
  \A key \in DOMAIN cache :
    /\ Cacheable(cache[key].request)
    /\ Whole(version, since, cache[key].body, cache[key].request, cache[key].age + MaxDelay)

IInv == Typed /\ Served /\ Stored /\ OwnAnswer /\ Fresh

-----------------------------------------------------------------------------
(* Requests *)

LEMMA RequestType ==
  ASSUME NEW request \in AllRequests
  PROVE  /\ request.name \in Names
         /\ request.endpoint \in {"status", "map", "data"}
         /\ Database(request) \in Databases \cup {None}
         /\ MaxAge(request) \in Nat
BY EndpointsAssumption DEF AllRequests, Database, MaxAge

LEMMA QueriesType ==
  ASSUME NEW request
  PROVE  /\ Queries(request) \in Seq(SUBSET Tables)
         /\ Len(Queries(request)) \in 1..3
<1> DEFINE routes == {"routes"}
           shapes == {"trips", "shapes"}
           stops == {"trips", "stop_times", "stops"}
           status == {"import_progress"}
<1>1. {routes, shapes, stops, status} \subseteq SUBSET Tables
  BY DEF Tables
<1>2. Queries(request) \in {<<status>>, <<routes, shapes, stops>>, <<routes, stops, stops>>}
  BY DEF Queries
<1> HIDE DEF routes, shapes, stops, status
<1>3. <<status>> \in Seq(SUBSET Tables) /\ Len(<<status>>) = 1
  BY <1>1
<1>4. \A tables \in SUBSET Tables :
        /\ <<routes, tables, stops>> \in Seq(SUBSET Tables)
        /\ Len(<<routes, tables, stops>>) = 3
  BY <1>1
<1>5. CASE Queries(request) = <<status>>
  BY <1>3, <1>5
<1>6. CASE Queries(request) = <<routes, shapes, stops>>
  BY <1>1, <1>4, <1>6
<1>7. CASE Queries(request) = <<routes, stops, stops>>
  BY <1>1, <1>4, <1>7
<1> QED BY <1>2, <1>5, <1>6, <1>7

(* The answers of requests with the same URL are interchangeable. *)
LEMMA SameKey ==
  ASSUME NEW p \in AllRequests, NEW q \in AllRequests, CacheKey(p) = CacheKey(q)
  PROVE  /\ p.endpoint = q.endpoint
         /\ p.routes = q.routes
         /\ Database(p) = Database(q)
         /\ Queries(p) = Queries(q)
         /\ MaxAge(p) = MaxAge(q)
<1>1. p.endpoint = q.endpoint /\ p.routes = q.routes /\ Canonical[p.name] = Canonical[q.name]
  BY DEF CacheKey
<1>2. Database(p) = Database(q)
  BY <1>1, RequestType, EndpointsAssumption DEF Database
<1> QED BY <1>1, <1>2 DEF Queries, MaxAge

LEMMA LesserOfTwo ==
  \A a, b \in Int : Min({a, b}) \in {a, b} /\ Min({a, b}) <= a /\ Min({a, b}) <= b
<1> TAKE a, b \in Int
<1>1. \E x \in {a, b} : \A y \in {a, b} : x =< y
  OBVIOUS
<1> QED BY <1>1 DEF Min

LEMMA AgesType ==
  /\ StatusMaxAge \in Nat /\ MapMaxAge \in Nat /\ MaxDelay \in Nat /\ MaxVersion \in Nat
  /\ LongAgo \in Nat
BY EndpointsAssumption DEF LongAgo

-----------------------------------------------------------------------------
(* Time *)

(* What was recent before a step is recent after it, counting k more ticks. *)
Ages(k) ==
  \A d \in Databases, ticks \in Nat : \A part \in Reads :
    Recent(version, since, d, part, ticks) => Recent(version', since', d, part, ticks + k)

LEMMA ReadsType == \A part \in Reads : DOMAIN part \subseteq Tables
BY DEF Reads

LEMMA AgesNone ==
  ASSUME UNCHANGED databases
  PROVE  Ages(0)
BY DEF databases, Ages, Recent

(* A change of a table has just happened. *)
LEMMA AgesImport ==
  ASSUME TypeOK, NEW e \in Databases, NEW u \in Tables, Import(e, u)
  PROVE  Ages(0)
<1> SUFFICES ASSUME NEW d \in Databases, NEW ticks \in Nat, NEW part \in Reads,
                    NEW t \in DOMAIN part, part[t] = version[d][t] \/ since[d][t] <= ticks
             PROVE  part[t] = version'[d][t] \/ since'[d][t] <= ticks + 0
  BY DEF Ages, Recent
<1>1. t \in Tables
  BY ReadsType
<1>2. CASE d = e /\ t = u
  BY <1>2 DEF Import, TypeOK
<1>3. CASE ~(d = e /\ t = u)
  BY <1>1, <1>3 DEF Import, TypeOK
<1> QED BY <1>2, <1>3

LEMMA AgesTick ==
  ASSUME TypeOK, Tick
  PROVE  Ages(1)
<1> SUFFICES ASSUME NEW d \in Databases, NEW ticks \in Nat, NEW part \in Reads,
                    NEW t \in DOMAIN part, part[t] = version[d][t] \/ since[d][t] <= ticks
             PROVE  part[t] = version'[d][t] \/ since'[d][t] <= ticks + 1
  BY DEF Ages, Recent
<1>1. since'[d][t] = Min({since[d][t] + 1, LongAgo}) /\ version' = version
  BY ReadsType DEF Tick
<1>2. since[d][t] \in Int
  BY AgesType, ReadsType DEF TypeOK
<1>3. \A x \in Int : Min({x, LongAgo}) \in Int /\ Min({x, LongAgo}) <= x
  <2>1. LongAgo \in Int
    BY AgesType
  <2> QED BY <2>1, LesserOfTwo
<1>4. Min({since[d][t] + 1, LongAgo}) \in Int /\ Min({since[d][t] + 1, LongAgo}) <= since[d][t] + 1
  <2>1. since[d][t] + 1 \in Int
    BY <1>2
  <2> QED BY <1>3, <2>1
<1>5. since'[d][t] \in Int /\ since'[d][t] <= since[d][t] + 1
  BY <1>1, <1>4
<1> QED BY <1>1, <1>2, <1>5

LEMMA WholeAges ==
  ASSUME NEW k \in {0, 1}, Ages(k)
  PROVE  \A ticks \in Nat : \A body, request :
           Whole(version, since, body, request, ticks) => Whole(version', since', body, request, ticks + k)
<1> SUFFICES ASSUME NEW body, NEW request, NEW ticks \in Nat, Whole(version, since, body, request, ticks)
             PROVE  Whole(version', since', body, request, ticks + k)
  OBVIOUS
<1>1. body.database \in Databases /\ \A i \in DOMAIN body.parts : body.parts[i] \in Reads
  BY DEF Whole, Bodies
<1>2. \A i \in DOMAIN body.parts : Recent(version', since', body.database, body.parts[i], ticks + k)
  BY <1>1 DEF Whole, Ages
<1> QED BY <1>2 DEF Whole

LEMMA PartialAges ==
  ASSUME NEW k \in {0, 1}, Ages(k)
  PROVE  \A ticks \in Nat : \A parts, request :
           Database(request) \in Databases /\ Partial(version, since, parts, request, ticks)
             => Partial(version', since', parts, request, ticks + k)
<1> SUFFICES ASSUME NEW parts, NEW request, NEW ticks \in Nat,
                    Database(request) \in Databases, Partial(version, since, parts, request, ticks)
             PROVE  Partial(version', since', parts, request, ticks + k)
  OBVIOUS
<1>1. \A i \in DOMAIN parts : parts[i] \in Reads
  BY DEF Partial
<1>2. \A i \in DOMAIN parts : Recent(version', since', Database(request), parts[i], ticks + k)
  BY <1>1 DEF Partial, Ages
<1> QED BY <1>2 DEF Partial

-----------------------------------------------------------------------------
(* Reading *)

LEMMA PartRead ==
  ASSUME Typed, Served, NEW s \in Slots, slot[s].stage = "reading"
  PROVE  /\ slot[s].request \in AllRequests
         /\ Database(slot[s].request) \in Databases
         /\ slot[s].elapsed \in Nat /\ slot[s].elapsed <= MaxDelay
         /\ slot[s].parts \in Seq(Reads)
         /\ Part(s) \in Reads
         /\ DOMAIN Part(s) = Queries(slot[s].request)[Len(slot[s].parts) + 1]
         /\ \A ticks \in Nat : Recent(version, since, Database(slot[s].request), Part(s), ticks)
<1> DEFINE request == slot[s].request
           n == Len(slot[s].parts)
           tables == Queries(request)[n + 1]
<1>1. Cacheable(request) /\ Partial(version, since, slot[s].parts, request, slot[s].elapsed)
  BY DEF Served, SlotOK
<1>2. request \in AllRequests /\ Database(request) \in Databases
  BY <1>1 DEF Cacheable
<1>3. slot[s].elapsed \in Nat /\ slot[s].elapsed <= MaxDelay
  BY AgesType DEF Typed, TypeOK
<1>4. slot[s].parts \in Seq(Reads) /\ n \in Nat /\ n < Len(Queries(request))
  BY <1>1 DEF Partial
<1>5. tables \in SUBSET Tables
  BY <1>4, QueriesType
<1>6. Part(s) = [t \in tables |-> version[Database(request)][t]]
  BY DEF Part, Restrict
<1>7. Part(s) \in [tables -> 0..MaxVersion]
  BY <1>2, <1>5, <1>6 DEF Typed, TypeOK
<1>8. Part(s) \in Reads
  BY <1>5, <1>7 DEF Reads
<1>9. DOMAIN Part(s) = tables /\ \A t \in tables : Part(s)[t] = version[Database(request)][t]
  BY <1>6
<1> QED BY <1>2, <1>3, <1>4, <1>8, <1>9 DEF Recent

LEMMA PartsAppended ==
  ASSUME NEW parts \in Seq(Reads), NEW part \in Reads
  PROVE  /\ Append(parts, part) \in Seq(Reads)
         /\ Len(Append(parts, part)) = Len(parts) + 1
         /\ DOMAIN Append(parts, part) = 1..Len(parts) + 1
         /\ \A i \in 1..Len(parts) : Append(parts, part)[i] = parts[i]
         /\ Append(parts, part)[Len(parts) + 1] = part
OBVIOUS

(* One more query is answered with what is current. *)
LEMMA PartsRead ==
  ASSUME Typed, Served, NEW s \in Slots, slot[s].stage = "reading"
  PROVE  LET parts == Append(slot[s].parts, Part(s))
             request == slot[s].request
         IN  /\ parts \in Seq(Reads)
             /\ Len(parts) = Len(slot[s].parts) + 1
             /\ \A i \in DOMAIN parts :
                  /\ DOMAIN parts[i] = Queries(request)[i]
                  /\ Recent(version, since, Database(request), parts[i], slot[s].elapsed)
<1> DEFINE read == slot[s].parts
           part == Part(s)
           parts == Append(read, part)
           request == slot[s].request
<1>1. /\ read \in Seq(Reads) /\ part \in Reads /\ slot[s].elapsed \in Nat
      /\ DOMAIN part = Queries(request)[Len(read) + 1]
      /\ Recent(version, since, Database(request), part, slot[s].elapsed)
  BY PartRead
<1>2. \A i \in 1..Len(read) :
        /\ DOMAIN read[i] = Queries(request)[i]
        /\ Recent(version, since, Database(request), read[i], slot[s].elapsed)
  BY <1>1 DEF Served, SlotOK, Partial
<1>3. /\ parts \in Seq(Reads) /\ Len(parts) = Len(read) + 1
      /\ DOMAIN parts = 1..Len(read) + 1
      /\ \A i \in 1..Len(read) : parts[i] = read[i]
      /\ parts[Len(read) + 1] = part
  BY <1>1, PartsAppended
<1> HIDE DEF read, part, parts, request
<1>4. ASSUME NEW i \in DOMAIN parts
      PROVE  /\ DOMAIN parts[i] = Queries(request)[i]
             /\ Recent(version, since, Database(request), parts[i], slot[s].elapsed)
  <2>1. CASE i \in 1..Len(read)
    BY <1>2, <1>3, <2>1
  <2>2. CASE i = Len(read) + 1
    BY <1>1, <1>3, <2>2
  <2>3. i \in 1..Len(read) \/ i = Len(read) + 1
    BY <1>1, <1>3
  <2> QED BY <2>1, <2>2, <2>3
<1> QED BY <1>3, <1>4 DEF read, part, parts, request

(* With its last query, a request has its whole answer. *)
LEMMA BodyWhole ==
  ASSUME Typed, Served, NEW s \in Slots, slot[s].stage = "reading", AtLast(s)
  PROVE  Whole(version, since, Body(s), slot[s].request, slot[s].elapsed)
<1> DEFINE parts == Append(slot[s].parts, Part(s))
           request == slot[s].request
<1>1. /\ parts \in Seq(Reads) /\ Len(parts) = Len(Queries(request))
      /\ \A i \in DOMAIN parts :
           /\ DOMAIN parts[i] = Queries(request)[i]
           /\ Recent(version, since, Database(request), parts[i], slot[s].elapsed)
  BY PartsRead DEF AtLast
<1>2. Cacheable(request)
  BY DEF Served, SlotOK
<1>3. Body(s) = [endpoint |-> request.endpoint, routes |-> request.routes,
                 database |-> Database(request), parts |-> parts]
  BY DEF Body
<1> HIDE DEF parts, request
<1>4. Body(s) \in Bodies
  BY <1>1, <1>2, <1>3, RequestType DEF Bodies, Cacheable
<1>5. [i \in DOMAIN parts |-> DOMAIN parts[i]] = Queries(request)
  <2>1. Queries(request) \in Seq(SUBSET Tables)
    BY QueriesType
  <2>2. DOMAIN parts = DOMAIN Queries(request)
    BY <1>1, <2>1
  <2> QED BY <1>1, <2>1, <2>2
<1>6. Whole(version, since, Body(s), request, slot[s].elapsed)
  BY <1>1, <1>3, <1>4, <1>5 DEF Whole
<1> QED BY <1>6 DEF request

-----------------------------------------------------------------------------
(* The requests that are served *)

(* Only these steps change what is served. *)
LEMMA OtherSteps ==
  ASSUME [Next]_vars
  PROVE  \/ slot' = slot /\ UNCHANGED databases
         \/ \E s \in Slots, request \in workload.requests : Begin(s, request)
         \/ \E s \in Slots : ReadNext(s) \/ ReadLast(s)
         \/ \E s \in Slots : slot' = [slot EXCEPT ![s] = Idle] /\ UNCHANGED databases
         \/ \E d \in Databases, t \in Tables : Import(d, t)
         \/ Tick
<1>1. ASSUME NEW request \in workload.requests, Serve(request)
      PROVE  \/ slot' = slot /\ UNCHANGED databases
             \/ \E s \in Slots : Begin(s, request)
  BY <1>1 DEF Serve, Refuse, Hit, NotBound, ServeData
<1>2. ASSUME NEW s \in Slots, Continue(s)
      PROVE  \/ ReadNext(s) \/ ReadLast(s)
             \/ slot' = [slot EXCEPT ![s] = Idle] /\ UNCHANGED databases
  BY <1>2 DEF Continue, RejectRoute, FailRead, Store, FailStore
<1>3. CASE Evict
  BY <1>3 DEF Evict
<1>4. CASE UNCHANGED vars
  BY <1>4 DEF vars, databases
<1> QED BY <1>1, <1>2, <1>3, <1>4 DEF Next

(* One request is served otherwise, the rest as before. *)
LEMMA OneServed ==
  ASSUME Typed, Served, UNCHANGED databases,
         NEW s \in Slots, NEW new \in Servings, SlotOK(version, since, new),
         slot' = [slot EXCEPT ![s] = new]
  PROVE  slot' \in [Slots -> Servings] /\ Served'
<1>1. slot' \in [Slots -> Servings] /\ \A r \in Slots : slot'[r] = IF r = s THEN new ELSE slot[r]
  BY DEF Typed
<1> QED BY <1>1 DEF Served, databases

(* A request goes on waiting for its next query. *)
LEMMA SlotAges ==
  ASSUME NEW k \in {0, 1}, Ages(k),
         NEW old \in Servings, SlotOK(version, since, old),
         NEW new \in Servings, new.stage = old.stage, new.request = old.request,
         new.parts = old.parts, new.stage # "idle" => new.elapsed = old.elapsed + k
  PROVE  SlotOK(version', since', new)
<1>1. old.elapsed \in Nat
  BY AgesType DEF Servings
<1>2. CASE new.stage = "reading"
  <2>1. Cacheable(old.request) /\ Partial(version, since, old.parts, old.request, old.elapsed)
    BY <1>2 DEF SlotOK
  <2>2. Partial(version', since', old.parts, old.request, old.elapsed + k)
    BY <1>1, <2>1, PartialAges DEF Cacheable
  <2> QED BY <1>2, <2>1, <2>2 DEF SlotOK
<1>3. CASE new.stage = "storing"
  <2>1. Cacheable(old.request) /\ Whole(version, since, old.parts, old.request, old.elapsed)
    BY <1>3 DEF SlotOK
  <2>2. Whole(version', since', old.parts, old.request, old.elapsed + k)
    BY <1>1, <2>1, WholeAges
  <2> QED BY <1>3, <2>1, <2>2 DEF SlotOK
<1>4. new.stage \in {"idle", "reading", "storing"}
  BY DEF Servings
<1> QED BY <1>2, <1>3, <1>4 DEF SlotOK

LEMMA SlotsStep ==
  ASSUME Typed, Served, [Next]_vars
  PROVE  slot' \in [Slots -> Servings] /\ Served'
<1>1. CASE slot' = slot /\ UNCHANGED databases
  BY <1>1 DEF Typed, Served, databases
<1>2. ASSUME NEW s \in Slots, NEW request \in workload.requests, Begin(s, request)
      PROVE  slot' \in [Slots -> Servings] /\ Served'
  <2> DEFINE new == [stage |-> "reading", request |-> request, parts |-> <<>>, elapsed |-> 0]
  <2>1. slot' = [slot EXCEPT ![s] = new] /\ UNCHANGED databases
    BY <1>2 DEF Begin
  <2>2. request \in AllRequests
    BY DEF Typed, TypeOK, AllRequests
  <2>3. Cacheable(request)
    BY <1>2, <2>2, RequestType DEF Begin, Missed, Cacheable
  <2>4. <<>> \in Seq(Reads) /\ Len(<<>>) = 0 /\ DOMAIN <<>> = {}
    OBVIOUS
  <2>5. Partial(version, since, <<>>, request, 0)
    BY <2>4, QueriesType DEF Partial
  <2>6. new \in Servings
    <3>1. 0 \in 0..MaxDelay
      BY AgesType
    <3> QED BY <2>2, <2>4, <3>1 DEF Servings
  <2>7. SlotOK(version, since, new)
    BY <2>3, <2>5 DEF SlotOK
  <2> HIDE DEF new
  <2> QED BY <2>1, <2>6, <2>7, OneServed
<1>3. ASSUME NEW s \in Slots, ReadNext(s)
      PROVE  slot' \in [Slots -> Servings] /\ Served'
  <2> DEFINE parts == Append(slot[s].parts, Part(s))
             new == [slot[s] EXCEPT !.parts = parts]
  <2>1. slot[s].stage = "reading" /\ slot[s] \in Servings /\ ~AtLast(s)
    BY <1>3 DEF ReadNext, Typed
  <2>2. /\ parts \in Seq(Reads) /\ Len(parts) = Len(slot[s].parts) + 1
        /\ \A i \in DOMAIN parts :
             /\ DOMAIN parts[i] = Queries(slot[s].request)[i]
             /\ Recent(version, since, Database(slot[s].request), parts[i], slot[s].elapsed)
    BY <2>1, PartsRead
  <2>3. /\ Cacheable(slot[s].request) /\ Len(slot[s].parts) \in Nat
        /\ Len(slot[s].parts) < Len(Queries(slot[s].request))
    BY <2>1, PartRead DEF Served, SlotOK, Partial
  <2>4. Partial(version, since, parts, slot[s].request, slot[s].elapsed)
    BY <2>1, <2>2, <2>3, QueriesType DEF AtLast, Partial
  <2>5. slot' = [slot EXCEPT ![s] = new] /\ UNCHANGED databases
    BY <1>3 DEF ReadNext, Typed
  <2> HIDE DEF parts
  <2>6. /\ new \in Servings /\ new.stage = "reading" /\ new.request = slot[s].request
        /\ new.parts = parts /\ new.elapsed = slot[s].elapsed
    BY <2>1, <2>2 DEF Servings
  <2> HIDE DEF new
  <2>7. SlotOK(version, since, new)
    BY <2>3, <2>4, <2>6 DEF SlotOK
  <2> QED BY <2>5, <2>6, <2>7, OneServed
<1>4. ASSUME NEW s \in Slots, ReadLast(s)
      PROVE  slot' \in [Slots -> Servings] /\ Served'
  <2> DEFINE body == Body(s)
             new == [slot[s] EXCEPT !.stage = "storing", !.parts = body]
  <2>1. slot[s].stage = "reading" /\ slot[s] \in Servings /\ AtLast(s)
    BY <1>4 DEF ReadLast, Typed
  <2>2. Whole(version, since, body, slot[s].request, slot[s].elapsed) /\ Cacheable(slot[s].request)
    BY <2>1, BodyWhole DEF Served, SlotOK
  <2>3. slot' = [slot EXCEPT ![s] = new] /\ UNCHANGED databases
    BY <1>4 DEF ReadLast, Typed
  <2>4. body \in Bodies
    BY <2>2 DEF Whole
  <2> HIDE DEF body
  <2>5. /\ new \in Servings /\ new.stage = "storing" /\ new.request = slot[s].request
        /\ new.parts = body /\ new.elapsed = slot[s].elapsed
    BY <2>1, <2>4 DEF Servings
  <2> HIDE DEF new
  <2>6. SlotOK(version, since, new)
    BY <2>2, <2>5 DEF SlotOK
  <2> QED BY <2>3, <2>5, <2>6, OneServed
<1>5. ASSUME NEW s \in Slots, slot' = [slot EXCEPT ![s] = Idle], UNCHANGED databases
      PROVE  slot' \in [Slots -> Servings] /\ Served'
  <2>1. Idle \in Servings /\ SlotOK(version, since, Idle)
    BY AgesType DEF Idle, Servings, SlotOK
  <2> QED BY <1>5, <2>1, OneServed
<1>6. ASSUME NEW d \in Databases, NEW t \in Tables, Import(d, t)
      PROVE  slot' \in [Slots -> Servings] /\ Served'
  <2>1. Ages(0) /\ slot' = slot
    BY <1>6, AgesImport DEF Import, Typed
  <2>2. \A s \in Slots : slot[s] \in Servings /\ slot[s].elapsed + 0 = slot[s].elapsed
    BY AgesType DEF Typed, TypeOK
  <2>3. \A s \in Slots : SlotOK(version', since', slot[s])
    BY <2>1, <2>2, SlotAges DEF Served
  <2> QED BY <2>1, <2>3 DEF Served, Typed
<1>7. CASE Tick
  <2>1. Ages(1)
    BY <1>7, AgesTick DEF Typed
  <2>2. ASSUME NEW s \in Slots
        PROVE  /\ slot'[s] \in Servings
               /\ slot'[s].stage = slot[s].stage /\ slot'[s].request = slot[s].request
               /\ slot'[s].parts = slot[s].parts
               /\ slot[s].stage # "idle" => slot'[s].elapsed = slot[s].elapsed + 1
    <3>1. slot[s] \in Servings /\ slot'[s] =
            IF s \in Active THEN [slot[s] EXCEPT !.elapsed = @ + 1] ELSE slot[s]
      BY <1>7 DEF Tick, Typed
    <3>2. s \in Active => slot[s].elapsed < MaxDelay
      BY <1>7 DEF Tick
    <3>3. slot[s].stage # "idle" => s \in Active
      BY DEF Active, Idle
    <3> QED BY <3>1, <3>2, <3>3, AgesType DEF Servings
  <2>3. slot' \in [Slots -> Servings]
    BY <1>7, <2>2 DEF Tick
  <2>4. \A s \in Slots : slot[s] \in Servings /\ SlotOK(version, since, slot[s])
    BY DEF Typed, Served
  <2>5. \A s \in Slots : SlotOK(version', since', slot'[s])
    BY <2>1, <2>2, <2>4, SlotAges
  <2> QED BY <2>3, <2>5 DEF Served
<1> QED BY <1>1, <1>2, <1>3, <1>4, <1>5, <1>6, <1>7, OtherSteps

-----------------------------------------------------------------------------
(* What the cache of the edge keeps *)

(* The entry at a URL holds the answer to a request with that URL. *)
EntryOK(v, ago, key, entry) ==
  /\ entry \in Entries
  /\ key = CacheKey(entry.request)
  /\ entry.age \in 0..MaxAge(entry.request)
  /\ Cacheable(entry.request)
  /\ Whole(v, ago, entry.body, entry.request, entry.age + MaxDelay)

LEMMA EntriesOK ==
  ASSUME Typed, Stored
  PROVE  \A key \in DOMAIN cache : EntryOK(version, since, key, cache[key])
BY DEF Typed, TypeOK, Stored, EntryOK

LEMMA WholeLonger ==
  ASSUME TypeOK, NEW body, NEW request, NEW ticks \in Nat, NEW longer \in Nat, ticks <= longer,
         Whole(version, since, body, request, ticks)
  PROVE  Whole(version, since, body, request, longer)
<1>1. body.database \in Databases /\ \A i \in DOMAIN body.parts : body.parts[i] \in Reads
  BY DEF Whole, Bodies
<1>2. ASSUME NEW i \in DOMAIN body.parts
      PROVE  Recent(version, since, body.database, body.parts[i], longer)
  <2>1. Recent(version, since, body.database, body.parts[i], ticks)
    BY DEF Whole
  <2>2. \A t \in DOMAIN body.parts[i] : since[body.database][t] \in Int
    BY <1>1, ReadsType, AgesType DEF TypeOK
  <2> QED BY <2>1, <2>2 DEF Recent
<1> QED BY <1>2 DEF Whole

(* Only these steps change what is kept. *)
LEMMA OtherKeeping ==
  ASSUME [Next]_vars
  PROVE  \/ cache' = cache /\ UNCHANGED databases
         \/ \E s \in Slots : Store(s)
         \/ \E d \in Databases, t \in Tables : Import(d, t)
         \/ Tick
         \/ Evict
<1>1. ASSUME NEW request \in workload.requests, Serve(request)
      PROVE  cache' = cache /\ UNCHANGED databases
  BY <1>1 DEF Serve, Refuse, Hit, NotBound, ServeData, Begin
<1>2. ASSUME NEW s \in Slots, Continue(s), ~Store(s)
      PROVE  cache' = cache /\ UNCHANGED databases
  BY <1>2 DEF Continue, ReadNext, ReadLast, RejectRoute, FailRead, FailStore
<1>3. CASE UNCHANGED vars
  BY <1>3 DEF vars, databases
<1> QED BY <1>1, <1>2, <1>3 DEF Next

LEMMA EntriesStep ==
  ASSUME Typed, Served, Stored, [Next]_vars
  PROVE  \A key \in DOMAIN cache' : EntryOK(version', since', key, cache'[key])
<1>1. CASE cache' = cache /\ UNCHANGED databases
  BY <1>1, EntriesOK DEF databases
<1>2. ASSUME NEW s \in Slots, Store(s)
      PROVE  \A key \in DOMAIN cache' : EntryOK(version', since', key, cache'[key])
  <2> DEFINE request == slot[s].request
             entry == [request |-> request, body |-> slot[s].parts, age |-> 0]
  <2>1. slot[s].stage = "storing" /\ slot[s] \in Servings /\ UNCHANGED databases
    BY <1>2 DEF Store, Typed
  <2>2. Cacheable(request) /\ Whole(version, since, slot[s].parts, request, slot[s].elapsed)
    BY <2>1 DEF Served, SlotOK
  <2>3. slot[s].elapsed \in Nat /\ MaxDelay \in Nat /\ slot[s].elapsed <= MaxDelay
    BY <2>1, AgesType DEF Servings
  <2>4. Whole(version, since, slot[s].parts, request, MaxDelay)
    BY <2>2, <2>3, WholeLonger DEF Typed
  <2>5. 0 + MaxDelay = MaxDelay /\ MaxAge(request) \in Nat /\ request \in AllRequests
    BY <2>2, <2>3, RequestType DEF Cacheable
  <2>6. 0 \in 0..MaxAge(request) /\ slot[s].parts \in Bodies
    BY <2>4, <2>5 DEF Whole
  <2>7. /\ entry.request = request /\ entry.body = slot[s].parts /\ entry.age = 0
        /\ entry \in Entries
    BY <2>5, <2>6 DEF Entries
  <2>8. \A key \in DOMAIN cache' :
          \/ key = CacheKey(request) /\ cache'[key] = entry
          \/ key \in DOMAIN cache /\ cache'[key] = cache[key]
    BY <1>2 DEF Store
  <2> HIDE DEF entry, request
  <2>9. EntryOK(version, since, CacheKey(request), entry)
    BY <2>2, <2>4, <2>5, <2>6, <2>7 DEF EntryOK, request
  <2> QED BY <2>1, <2>8, <2>9, EntriesOK DEF databases
<1>3. ASSUME NEW d \in Databases, NEW t \in Tables, Import(d, t)
      PROVE  \A key \in DOMAIN cache' : EntryOK(version', since', key, cache'[key])
  <2>1. Ages(0) /\ cache' = cache
    BY <1>3, AgesImport DEF Import, Typed
  <2>2. ASSUME NEW key \in DOMAIN cache
        PROVE  EntryOK(version', since', key, cache[key])
    <3>1. EntryOK(version, since, key, cache[key])
      BY EntriesOK
    <3>2. /\ cache[key].age + MaxDelay \in Nat
          /\ (cache[key].age + MaxDelay) + 0 = cache[key].age + MaxDelay
      BY <3>1, AgesType DEF EntryOK, Entries
    <3> QED BY <2>1, <3>1, <3>2, WholeAges DEF EntryOK
  <2> QED BY <2>1, <2>2
<1>4. CASE Tick
  <2>1. Ages(1)
    BY <1>4, AgesTick DEF Typed
  <2>2. ASSUME NEW key \in DOMAIN cache'
        PROVE  EntryOK(version', since', key, cache'[key])
    <3> DEFINE old == cache[key]
               new == [old EXCEPT !.age = @ + 1]
    <3>1. key \in DOMAIN cache /\ old.age < MaxAge(old.request) /\ cache'[key] = new
      BY <1>4 DEF Tick, Kept
    <3>2. EntryOK(version, since, key, old)
      BY <3>1, EntriesOK
    <3>3. old \in Entries /\ old.age \in Nat /\ MaxDelay \in Nat /\ MaxAge(old.request) \in Nat
      BY <3>2, AgesType, RequestType DEF EntryOK, Entries
    <3> HIDE DEF old
    <3>4. /\ new \in Entries /\ new.request = old.request /\ new.body = old.body
          /\ new.age = old.age + 1
      BY <3>3 DEF Entries
    <3> HIDE DEF new
    <3>5. Whole(version', since', old.body, old.request, (old.age + MaxDelay) + 1)
      BY <2>1, <3>2, <3>3, WholeAges DEF EntryOK
    <3>6. (old.age + MaxDelay) + 1 = new.age + MaxDelay /\ new.age \in 0..MaxAge(new.request)
      BY <3>1, <3>3, <3>4
    <3>7. EntryOK(version', since', key, new)
      BY <3>2, <3>4, <3>5, <3>6 DEF EntryOK
    <3> QED BY <3>1, <3>7
  <2> QED BY <2>2
<1>5. CASE Evict
  <2>1. PICK gone \in DOMAIN cache : cache' = Restrict(cache, DOMAIN cache \ {gone})
    BY <1>5 DEF Evict
  <2>2. \A key \in DOMAIN cache' : key \in DOMAIN cache /\ cache'[key] = cache[key]
    BY <2>1 DEF Restrict
  <2> QED BY <1>5, <2>2, EntriesOK DEF Evict, databases
<1> QED BY <1>1, <1>2, <1>3, <1>4, <1>5, OtherKeeping

(* Types are preserved, of the cache because of EntriesStep. *)
LEMMA TypedStep ==
  ASSUME Typed, Served, Stored, [Next]_vars
  PROVE  Typed' /\ Stored'
<1>1. \A key \in DOMAIN cache' : EntryOK(version', since', key, cache'[key])
  BY EntriesStep
<1>2. slot' \in [Slots -> Servings]
  BY SlotsStep
<1>3. /\ workload' \in Workloads
      /\ version' \in [Databases -> [Tables -> 0..MaxVersion]]
      /\ since' \in [Databases -> [Tables -> 0..LongAgo]]
  <2>1. CASE UNCHANGED databases
    BY <2>1 DEF databases, Typed, TypeOK
  <2>2. ASSUME NEW d \in Databases, NEW t \in Tables, Import(d, t)
        PROVE  /\ workload' \in Workloads
               /\ version' \in [Databases -> [Tables -> 0..MaxVersion]]
               /\ since' \in [Databases -> [Tables -> 0..LongAgo]]
    <3>1. version[d][t] + 1 \in 0..MaxVersion /\ 0 \in 0..LongAgo
      BY <2>2, AgesType DEF Import, Typed, TypeOK
    <3> QED BY <2>2, <3>1 DEF Import, Typed, TypeOK
  <2>3. CASE Tick
    <3>1. ASSUME NEW d \in Databases, NEW t \in Tables
          PROVE  Min({since[d][t] + 1, LongAgo}) \in 0..LongAgo
      <4>1. since[d][t] + 1 \in Nat /\ LongAgo \in Nat
        BY AgesType DEF Typed, TypeOK
      <4> DEFINE later == since[d][t] + 1
      <4>2. later \in Int /\ LongAgo \in Int
        BY <4>1
      <4>3. Min({later, LongAgo}) \in {later, LongAgo} /\ Min({later, LongAgo}) <= LongAgo
        BY <4>2, LesserOfTwo
      <4> QED BY <4>1, <4>3
    <3> QED BY <2>3, <3>1 DEF Tick, Typed, TypeOK
  <2>4. \/ UNCHANGED databases \/ Tick
        \/ \E d \in Databases, t \in Tables : Import(d, t)
    BY OtherKeeping DEF Store, Evict
  <2> QED BY <2>1, <2>2, <2>3, <2>4
<1>4. \A s \in Slots :
        slot'[s].stage \in {"idle", "reading", "storing"} /\ slot'[s].elapsed \in 0..MaxDelay
  BY <1>2 DEF Servings
<1> QED BY <1>1, <1>2, <1>3, <1>4 DEF Typed, TypeOK, Stored, EntryOK

-----------------------------------------------------------------------------
(* Answers *)

LEMMA NoAnswer ==
  ASSUME Calm
  PROVE  OwnAnswer' /\ Fresh'
BY DEF Calm, OwnAnswer, Fresh

(* An answer with an error is right when it is about what is there now. *)
LEMMA ErrorAnswer ==
  ASSUME NEW request, NEW status \in {400, 404, 405, 500}, Answer(request, status, <<>>),
         status = 404 => Database(request) = None \/ UnknownRoute(request, Database(request)),
         UNCHANGED databases
  PROVE  OwnAnswer' /\ Fresh'
<1>1. answer'.request = request /\ answer'.status = status /\ status # 200
  BY DEF Answer
<1>2. UnknownRoute(request, Database(request)) =>
        request.endpoint = "map" /\ request.routes[1] \notin RoutesAt[version'[Database(request)]["routes"]]
  BY DEF UnknownRoute, databases
<1> QED BY <1>1, <1>2 DEF OwnAnswer, Fresh, UnknownRoute, Database

(* A whole answer is right while it is not too old. *)
LEMMA WholeAnswer ==
  ASSUME NEW request, NEW body, Cacheable(request), Answer(request, 200, body),
         Whole(version, since, body, request, MaxAge(request) + MaxDelay), UNCHANGED databases
  PROVE  OwnAnswer' /\ Fresh'
<1>1. answer'.request = request /\ answer'.status = 200 /\ answer'.body = body
  BY DEF Answer
<1>2. Refusal(request) = None /\ request.endpoint # "data"
  BY DEF Cacheable
<1>3. OwnAnswer'
  BY <1>1, <1>2 DEF OwnAnswer, Whole, Database, Refusal, Queries
<1>4. Fresh'
  BY <1>1 DEF Fresh, Whole, Recent, databases, MaxAge
<1> QED BY <1>3, <1>4

(* An entry of the cache is an answer to each request with its URL. *)
LEMMA EntryAnswers ==
  ASSUME Typed, Stored, NEW request \in AllRequests, request.endpoint # "data",
         Refusal(request) = None, CacheKey(request) \in DOMAIN cache
  PROVE  /\ Cacheable(request)
         /\ Whole(version, since, cache[CacheKey(request)].body, request, MaxAge(request) + MaxDelay)
<1> DEFINE entry == cache[CacheKey(request)]
<1>1. EntryOK(version, since, CacheKey(request), entry)
  BY EntriesOK
<1> HIDE DEF entry
<1>2. entry.request \in AllRequests /\ CacheKey(entry.request) = CacheKey(request)
  BY <1>1 DEF EntryOK, Cacheable
<1>3. /\ entry.request.endpoint = request.endpoint /\ entry.request.routes = request.routes
      /\ Database(entry.request) = Database(request)
      /\ Queries(entry.request) = Queries(request) /\ MaxAge(entry.request) = MaxAge(request)
  BY <1>2, SameKey
<1>4. Cacheable(request)
  BY <1>1, <1>3 DEF EntryOK, Cacheable
<1>5. Whole(version, since, entry.body, request, entry.age + MaxDelay)
  BY <1>1, <1>3 DEF EntryOK, Whole
<1>6. /\ entry.age + MaxDelay \in Nat /\ MaxAge(request) + MaxDelay \in Nat
      /\ entry.age + MaxDelay <= MaxAge(request) + MaxDelay
  BY <1>1, <1>3, AgesType, RequestType DEF EntryOK, Entries
<1>7. Whole(version, since, entry.body, request, MaxAge(request) + MaxDelay)
  BY <1>5, <1>6, WholeLonger DEF Typed
<1> QED BY <1>4, <1>7 DEF entry

LEMMA AnswerStep ==
  ASSUME IInv, [Next]_vars
  PROVE  OwnAnswer' /\ Fresh'
<1> USE DEF IInv
<1>1. ASSUME NEW request \in workload.requests, Serve(request)
      PROVE  OwnAnswer' /\ Fresh'
  <2>1. request \in AllRequests
    BY DEF Typed, TypeOK, AllRequests
  <2>2. CASE Refuse(request)
    <3>1. Refusal(request) \in {400, 405}
      BY <2>2 DEF Refuse, Refusal
    <3> QED BY <2>2, <3>1, ErrorAnswer DEF Refuse
  <2>3. CASE Hit(request)
    <3>1. UNCHANGED databases /\ Answer(request, 200, cache[CacheKey(request)].body)
      BY <2>3 DEF Hit
    <3>2. /\ Cacheable(request)
          /\ Whole(version, since, cache[CacheKey(request)].body, request, MaxAge(request) + MaxDelay)
      BY <2>1, <2>3, EntryAnswers DEF Hit
    <3> QED BY <3>1, <3>2, WholeAnswer
  <2>4. CASE NotBound(request)
    <3>1. Answer(request, 404, <<>>) /\ Database(request) = None /\ UNCHANGED databases
      BY <2>4 DEF NotBound
    <3> QED BY <3>1, ErrorAnswer
  <2>5. CASE ServeData(request)
    <3>1. request.endpoint = "data" /\ \E status, body : Answer(request, status, body)
      BY <2>5 DEF ServeData
    <3>2. answer'.request.endpoint = "data"
      BY <3>1 DEF Answer
    <3> QED BY <3>2 DEF OwnAnswer, Fresh
  <2>6. ASSUME NEW s \in Slots, Begin(s, request)
        PROVE  OwnAnswer' /\ Fresh'
    BY <2>6, NoAnswer DEF Begin
  <2> QED BY <1>1, <2>2, <2>3, <2>4, <2>5, <2>6 DEF Serve
<1>2. ASSUME NEW s \in Slots, Continue(s)
      PROVE  OwnAnswer' /\ Fresh'
  <2>1. CASE ReadNext(s) \/ Store(s) \/ FailStore(s)
    BY <2>1, NoAnswer DEF ReadNext, Store, FailStore
  <2>2. CASE RejectRoute(s)
    BY <2>2, ErrorAnswer DEF RejectRoute
  <2>3. CASE FailRead(s)
    BY <2>3, ErrorAnswer DEF FailRead
  <2>4. CASE ReadLast(s)
    <3> DEFINE request == slot[s].request
               body == Body(s)
    <3>1. Answer(request, 200, body) /\ UNCHANGED databases /\ slot[s].stage = "reading"
      BY <2>4 DEF ReadLast
    <3>2. Whole(version, since, body, request, slot[s].elapsed)
      BY <2>4, <3>1, BodyWhole DEF ReadLast
    <3>3. Cacheable(request)
      BY <3>1 DEF Served, SlotOK
    <3>4. /\ slot[s].elapsed \in Nat /\ MaxAge(request) + MaxDelay \in Nat
          /\ slot[s].elapsed <= MaxAge(request) + MaxDelay
      BY <3>3, <3>1, PartRead, RequestType, AgesType
    <3> HIDE DEF request, body
    <3>5. Whole(version, since, body, request, MaxAge(request) + MaxDelay)
      BY <3>2, <3>4, WholeLonger DEF Typed
    <3> QED BY <3>1, <3>3, <3>5, WholeAnswer
  <2> QED BY <1>2, <2>1, <2>2, <2>3, <2>4 DEF Continue
<1>3. ASSUME NEW d \in Databases, NEW t \in Tables, Import(d, t)
      PROVE  OwnAnswer' /\ Fresh'
  BY <1>3, NoAnswer DEF Import
<1>4. CASE Tick \/ Evict
  BY <1>4, NoAnswer DEF Tick, Evict
<1>5. CASE UNCHANGED vars
  BY <1>5 DEF vars, OwnAnswer, Fresh, UnknownRoute, Database, Queries, Refusal
<1> QED BY <1>1, <1>2, <1>3, <1>4, <1>5 DEF Next

-----------------------------------------------------------------------------
LEMMA InitIInv == Init => IInv
<1> SUFFICES ASSUME Init PROVE IInv
  OBVIOUS
<1>1. Idle \in Servings /\ SlotOK(version, since, Idle)
  BY AgesType DEF Idle, Servings, SlotOK
<1>2. slot \in [Slots -> Servings] /\ \A s \in Slots : slot[s] = Idle
  BY <1>1 DEF Init
<1>3. DOMAIN cache = {}
  BY DEF Init
<1>4. TypeOK
  <2>1. \A s \in Slots :
          slot[s].stage \in {"idle", "reading", "storing"} /\ slot[s].elapsed \in 0..MaxDelay
    BY <1>2, AgesType DEF Idle
  <2>2. 0 \in 0..MaxVersion /\ LongAgo \in 0..LongAgo
    BY AgesType
  <2> QED BY <1>3, <2>1, <2>2 DEF Init, TypeOK
<1> QED BY <1>1, <1>2, <1>3, <1>4 DEF Init, IInv, Typed, Served, Stored, OwnAnswer, Fresh

LEMMA Invariance == Spec => []IInv
<1>1. IInv /\ [Next]_vars => IInv'
  <2> SUFFICES ASSUME IInv, [Next]_vars PROVE IInv'
    OBVIOUS
  <2>1. Typed /\ Served /\ Stored
    BY DEF IInv
  <2>2. Typed' /\ Stored'
    BY <2>1, TypedStep
  <2>3. Served'
    BY <2>1, SlotsStep
  <2>4. OwnAnswer' /\ Fresh'
    BY AnswerStep
  <2> QED BY <2>2, <2>3, <2>4 DEF IInv
<1> QED BY InitIInv, <1>1, PTL DEF Spec

(* The types of the endpoints' state, and an entry of the cache at the URL of
   its own request and never older than its max-age (lib.rs, map/mod.rs,
   status/mod.rs). *)
THEOREM TypeCorrect == Spec => []TypeOK
<1>1. IInv => TypeOK
  BY DEF IInv, Typed
<1> QED BY Invariance, <1>1, PTL

(* A client gets the whole answer of what it asked for, whichever request
   filled the cache and however it spelt the provider's name (map/mod.rs:
   cache_key; status/mod.rs; database.rs). *)
THEOREM OwnAnswerHolds == Spec => []OwnAnswer
<1>1. IInv => OwnAnswer
  BY DEF IInv
<1> QED BY Invariance, <1>1, PTL

(* No answer shows data that were replaced longer ago than its max-age and the
   time that one request takes, also the one that mixes what was before and
   after a change or that was stored after a newer one (Cache-Control and
   wait_until in map/mod.rs and status/mod.rs). *)
THEOREM FreshHolds == Spec => []Fresh
<1>1. IInv => Fresh
  BY DEF IInv
<1> QED BY Invariance, <1>1, PTL
=============================================================================
