------------------------------ MODULE MCSchedule ------------------------------
(***************************************************************************)
(* Timetables of days of six seconds.  Days 1 and 3 of the time zones      *)
(* spring and autumn are a second shorter and longer than the others.      *)
(***************************************************************************)
EXTENDS Schedule, TLC

Dates == -6..9

Begin(offset, changed, by) ==
  [d \in Dates |-> offset + 6 * d + (IF d > changed THEN by ELSE 0)]

TimeZones ==
  [plain |-> Begin(0, 0, 0), spring |-> Begin(2, 1, -1), autumn |-> Begin(-1, 1, 1)]

Calendar(first, last, weekdays) == [first |-> first, last |-> last, weekdays |-> weekdays]

(* Every day; even days, but for day 0 and with day 3 that lies outside; and
   no calendar at all. *)
Services ==
  { [calendars |-> {Calendar(-1, 3, {0, 1})}, exceptions |-> <<>>],
    [calendars |-> {Calendar(0, 2, {0})}, exceptions |-> (0 :> 2 @@ 3 :> 1)],
    [calendars |-> {}, exceptions |-> (1 :> 1)] }

Window(trip, start, end, headway, offset, zone, service) ==
  [trip |-> trip, start |-> start, end |-> end, headway |-> headway,
   offset |-> offset, zone |-> zone, service |-> service]

(* One window: early or past midnight, of one run, exact or not *)
Single ==
  {<<Window(1, start, start + length, 2, offset, zone, service)>> :
     start \in {0, 5, 13}, length \in {1, 4}, offset \in {0, 2},
     zone \in DOMAIN TimeZones, service \in Services}

(* Two overlapping windows of one trip, in either order, and two trips; one of
   them may be malformed. *)
Double ==
  {<<Window(1, 1, 4, 1, 0, zone, service), Window(trip, 2, end, 2, offset, "plain", service)>> :
     trip \in {1, 2}, end \in {2, 7}, offset \in {0, 3},
     zone \in DOMAIN TimeZones, service \in Services}

MCShifts == {-2, 0, 5}

MCFeeds == {<<>>} \cup Single \cup Double
=============================================================================
