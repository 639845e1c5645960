------------------------------- MODULE Schedule -------------------------------
(***************************************************************************)
(* The departures of one stop: next_departures of                          *)
(* worker/src/departures/schedule.rs, and the cached calculation that      *)
(* answers later requests, Entry::select of cache.rs and calculate of      *)
(* mod.rs.  DepartureCache has the requests that race with imports; here   *)
(* the feed is fixed and requests come one after another, so that what     *)
(* they are answered is a question of arithmetic alone.                    *)
(*                                                                         *)
(* The timetable is in whole seconds.  Requests are not: instants are      *)
(* ticks, two to a second.  A list of departures is the set of them, since *)
(* Before orders them totally.                                             *)
(***************************************************************************)
EXTENDS Integers, FiniteSets, FiniteSetsExt, Sequences

CONSTANTS
  Feeds,       \* sequences of templates, as query::load returns them
  Days,        \* an interval of dates that covers every search
  WeekLength,  \* weekdays
  DayLength,   \* seconds of a day
  Zones,       \* by time zone, the second in which each day begins
  SearchTime,  \* SEARCH_DAYS, in seconds
  MaxLimit,    \* MAX_LIMIT
  Limits,      \* limits asked for
  Ttl,         \* lifetime of a cached entry, in seconds
  Near,        \* ticks from now within which a calculation is cached
  Shifts,      \* how far from now requests look, in ticks
  LastTick,    \* bound: the clock
  NoCalculation, NoAnswer

Ticks(seconds) == 2 * seconds
Seconds(ticks) == ticks \div 2
SecondsUp(ticks) == (ticks + 1) \div 2

VARIABLES
  feed,   \* the imported timetable
  now,    \* the clock
  entry,  \* the row of departure_cache: its payload and its expiry
  answer  \* the request answered last, and its answer

scheduleVars == <<feed, now, entry, answer>>

-----------------------------------------------------------------------------
(* Service days *)

LocalDate(zone, second) ==
  CHOOSE d \in Days : /\ Zones[zone][d] <= second
                      /\ d + 1 \in Days => second < Zones[zone][d + 1]

(* A service day counts from twelve hours before noon: on a day whose clocks
   change before noon, that is not the midnight it begins with. *)
Origin(zone, date) == Zones[zone][date + 1] - DayLength

InRange(calendar, date) ==
  date \in calendar.first..calendar.last /\ date % WeekLength \in calendar.weekdays

(* An exception, 1 to add and 2 to remove, overrides the calendars. *)
Active(service, date) ==
  IF date \in DOMAIN service.exceptions
    THEN service.exceptions[date] = 1
    ELSE \E calendar \in service.calendars : InRange(calendar, date)

ServiceDates(service) ==
  (UNION {{calendar.first, calendar.last} : calendar \in service.calendars})
    \cup {date \in DOMAIN service.exceptions : service.exceptions[date] = 1}

-----------------------------------------------------------------------------
(* next_departures *)

(* A scheduled stop time is a window of one run. *)
Malformed(t) == t.headway = 0 \/ t.end <= t.start \/ t.offset < 0

LastRun(t) == (t.end - t.start - 1) \div t.headway

FirstDeparture(t) == t.start + t.offset

LastDeparture(t) == FirstDeparture(t) + LastRun(t) * t.headway

Earliest(t, second) == LocalDate(t.zone, second) - 1

(* Mutation for Latest: a service day never begins the day before *)
LatestExact(t, second) == LocalDate(t.zone, second)

Latest(t, second) == LocalDate(t.zone, second) + 1

SearchedDates(t, when, until) ==
  LET dates == ServiceDates(t.service)
  IN  IF dates = {} THEN {}
      ELSE Max({Earliest(t, Seconds(when) - LastDeparture(t)), Min(dates)})
             ..Min({Latest(t, Seconds(until) - FirstDeparture(t)), Max(dates)})

CeilDiv(n, d) == n \div d + (IF n % d # 0 THEN 1 ELSE 0)

FirstRun(t, date, when) ==
  CeilDiv(Max({0, SecondsUp(when) - Origin(t.zone, date) - FirstDeparture(t)}), t.headway)

Wait(at, when) == SecondsUp(Ticks(at) - when)

(* The fields that identify a departure and order it; trip stands for trip
   and stop_sequence, template for the fields copied from the template. *)
Departure(t, i, date, run, when) ==
  LET start == t.start + run * t.headway
      at    == Origin(t.zone, date) + start + t.offset
  IN  [at |-> at, trip |-> t.trip, date |-> date, start |-> start, template |-> i,
       wait |-> Wait(at, when)]

Runs(t, i, when, until, limit) ==
  {d \in UNION {
       {Departure(t, i, date, run, when) :
          run \in LET first == FirstRun(t, date, when)
                  IN  first..Min({LastRun(t), first + limit - 1})} :
       date \in {d \in SearchedDates(t, when, until) : Active(t.service, d)}} :
     Ticks(d.at) < until}

Key(d) == <<d.at, d.trip, d.date, d.start>>

(* The order of sort_by, which is stable *)
Before(d, e) ==
  LET k == Append(Key(d), d.template)  l == Append(Key(e), e.template)
  IN  \E i \in 1..5 : k[i] < l[i] /\ \A j \in 1..(i - 1) : k[j] = l[j]

(* dedup_by: a trip stops once per stop_sequence, so that equal departures
   have equal times and are neighbours. *)
Distinct(ds) ==
  {d \in ds : \A e \in ds : Key(e) = Key(d) => e.template >= d.template}

First(ds, n) == {d \in ds : Cardinality({e \in ds : Before(e, d)}) < n}

(* Mutation for Merged: duplicates count *)
MergedRepeated(ds, n) == First(ds, n)

Merged(ds, n) == First(Distinct(ds), n)

NextDepartures(templates, when, until, limit) ==
  LET after[i \in 0..Len(templates)] ==
        IF i = 0 THEN {}
        ELSE Merged(after[i - 1] \cup Runs(templates[i], i, when, until, limit), limit)
  IN  after[Len(templates)]

-----------------------------------------------------------------------------
(* Entry *)

Covers(e, when, until) == when >= e.from /\ until <= e.until

(* Mutation for CutShort: a full entry is always taken for a truncated one *)
CutShortWhenFull(e, found, until, limit) == Cardinality(e.departures) = MaxLimit

(* Mutation for CutShort: departures before the horizon may be missing *)
CutShortNever(e, found, until, limit) == FALSE

CutShort(e, found, until, limit) ==
  /\ Cardinality(found) < limit
  /\ Cardinality(e.departures) = MaxLimit
  /\ \A d \in e.departures : Ticks(d.at) < until

Chosen(e, when, until, limit) ==
  First({d \in e.departures : Ticks(d.at) >= when /\ Ticks(d.at) < until}, limit)

Selectable(e, when, until, limit) ==
  /\ Covers(e, when, until)
  /\ ~CutShort(e, Chosen(e, when, until, limit), until, limit)

Select(e, when, until, limit) ==
  {[d EXCEPT !.wait = Wait(d.at, when)] : d \in Chosen(e, when, until, limit)}

-----------------------------------------------------------------------------
(* What is calculated, and for how long *)

Until(when) == when + Ticks(SearchTime)

(* Mutation for CacheUntil: the entry covers its own request *)
CacheUntilOwn(when) == Until(when)

CacheUntil(when) == Until(when) + Ticks(Ttl)

-----------------------------------------------------------------------------
(* The assumptions *)

(* Instants that requests look from *)
Requested == {time + shift : time \in 0..LastTick, shift \in Shifts}

TemplateOK(t) ==
  /\ {t.trip, t.start, t.end, t.offset} \subseteq Int /\ t.headway \in Nat
  /\ t.zone \in DOMAIN Zones
  /\ IsFiniteSet(t.service.calendars) /\ IsFiniteSet(DOMAIN t.service.exceptions)
  /\ \A calendar \in t.service.calendars : {calendar.first, calendar.last} \subseteq Int
  /\ DOMAIN t.service.exceptions \subseteq Int

(* The days around a second are in Days. *)
Covered(zone, second) ==
  \E d \in Days : /\ {d - 1, d + 1, d + 2} \subseteq Days
                 /\ Zones[zone][d] <= second /\ second < Zones[zone][d + 1]

Searchable(t) ==
  \A when \in Requested :
    /\ Covered(t.zone, Seconds(when) - LastDeparture(t))
    /\ Covered(t.zone, Seconds(CacheUntil(when)) - FirstDeparture(t))

ASSUME ScheduleAssumption ==
  /\ Days \subseteq Int /\ \A s \in Days, t \in Days : s..t \subseteq Days
  /\ DayLength \in Nat
  /\ \A z \in DOMAIN Zones :
       /\ Zones[z] \in [Days -> Int]
       /\ \A d \in Days : d + 1 \in Days => Zones[z][d] < Zones[z][d + 1]
       \* Two days together are longer than a day of any length.
       /\ \A d \in Days : d + 2 \in Days => Zones[z][d] + DayLength <= Zones[z][d + 2]
  /\ MaxLimit \in Nat /\ Limits \subseteq 1..MaxLimit
  /\ Ttl \in Nat \ {0} /\ SearchTime \in Nat \ {0} /\ LastTick \in Nat
  /\ Near \in Nat /\ Shifts \subseteq Int
  /\ \A templates \in Feeds :
       /\ templates \in Seq({templates[i] : i \in DOMAIN templates})
       /\ \A i \in DOMAIN templates :
            TemplateOK(templates[i]) /\ (Malformed(templates[i]) \/ Searchable(templates[i]))

-----------------------------------------------------------------------------
(* calculate *)

Calculation(when) ==
  [from |-> when, until |-> CacheUntil(when),
   departures |-> NextDepartures(feed, when, CacheUntil(when), MaxLimit)]

Live == entry # NoCalculation /\ entry.expires > Seconds(now)

Hits(when, limit) == Live /\ Selectable(entry.payload, when, Until(when), limit)

Answer(status, when, limit, departures) ==
  answer' = [status |-> status, when |-> when, limit |-> limit, departures |-> departures]

AnswerFromEntry(when, limit) ==
  /\ Hits(when, limit)
  /\ Answer("hit", when, limit, Select(entry.payload, when, Until(when), limit))
  /\ UNCHANGED <<feed, now, entry>>

Store(when, fresh) ==
  IF feed # <<>> /\ when - now \in -Near+1..Near-1
    THEN entry' = [payload |-> fresh, expires |-> Seconds(now + Ticks(Ttl))]
    ELSE UNCHANGED entry

Calculate(when, limit) ==
  /\ ~Hits(when, limit)
  /\ \A i \in DOMAIN feed : ~Malformed(feed[i])
  /\ LET fresh == Calculation(when)
     IN  /\ Store(when, fresh)
         /\ IF Selectable(fresh, when, Until(when), limit)
              THEN Answer("calculated", when, limit, Select(fresh, when, Until(when), limit))
              ELSE Answer("unavailable", when, limit, {})
  /\ UNCHANGED <<feed, now>>

(* One malformed template fails the calculation. *)
Fail(when, limit) ==
  /\ ~Hits(when, limit)
  /\ \E i \in DOMAIN feed : Malformed(feed[i])
  /\ Answer("unavailable", when, limit, {})
  /\ UNCHANGED <<feed, now, entry>>

(* An answer is forgotten when the clock moves on. *)
Advance ==
  /\ now < LastTick
  /\ now' = now + 1
  /\ answer' = NoAnswer
  /\ UNCHANGED <<feed, entry>>

ScheduleInit ==
  /\ feed \in Feeds
  /\ now = 0
  /\ entry = NoCalculation
  /\ answer = NoAnswer

ScheduleNext ==
  \/ Advance
  \/ \E shift \in Shifts, limit \in Limits :
       \/ AnswerFromEntry(now + shift, limit)
       \/ Calculate(now + shift, limit)
       \/ Fail(now + shift, limit)

ScheduleSpec == ScheduleInit /\ [][ScheduleNext]_scheduleVars

-----------------------------------------------------------------------------
(* What the timetable says: every run of every service day, without looking
   for where to begin or end. *)
TimetableRuns(t, i, when) ==
  {Departure(t, i, date, run, when) :
     date \in {d \in Days : d + 1 \in Days /\ Active(t.service, d)},
     run \in {k \in 0..(t.end - t.start) : t.start + k * t.headway < t.end}}

Timetable(when, limit) ==
  LET all == UNION {TimetableRuns(feed[i], i, when) : i \in DOMAIN feed}
  IN  First(Distinct({d \in all : /\ Ticks(d.at) >= when
                                  /\ Ticks(d.at) < Until(when)}), limit)

(* A request is answered with the next departures of the timetable in its
   own horizon, and its own waits, whether they are calculated for it or
   selected from what an earlier request calculated: past midnight, across
   clock changes, with exceptions and overlapping frequency windows.  A
   calculation always answers the request it was made for: "Incomplete
   departure results" is never the reason of a failure. *)
AnswerIsTimetable ==
  answer # NoAnswer =>
    IF answer.status = "unavailable"
      THEN \E i \in DOMAIN feed : Malformed(feed[i])
      ELSE answer.departures = Timetable(answer.when, answer.limit)

(* An entry that is not truncated answers every request for an instant up to
   Ttl after the one it was calculated for, however few departures it has: what
   it covers exceeds its own horizon.  (Its row expires Ttl after it is
   written, a little earlier or later than the last of these instants.)  One
   that is truncated has MaxLimit departures, which fit in a row. *)
EntryLasts ==
  entry # NoCalculation =>
    /\ Cardinality(entry.payload.departures) <= MaxLimit
    /\ Cardinality(entry.payload.departures) < MaxLimit
         => \A limit \in Limits,
               when \in entry.payload.from..entry.payload.from + Ticks(Ttl) :
              Selectable(entry.payload, when, Until(when), limit)
=============================================================================
