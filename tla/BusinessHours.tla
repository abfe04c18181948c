--------------------------- MODULE BusinessHours ---------------------------
(***************************************************************************)
(* addBusinessMinutes: the time at which a number of open minutes has      *)
(* passed.  The code walks from day to day, passes holidays and days       *)
(* without hours, and takes from the windows of the others what is left of *)
(* them, the earliest first, until nothing is missing.                     *)
(*                                                                         *)
(* A time is a pair of a day and a minute of the day, the parts that the   *)
(* code takes a date apart into; the seconds of the start are dropped.     *)
(* All rows have the zone of the seed and of the schema's default          *)
(* (Africa/Accra), which is UTC without changes of the clock.              *)
(***************************************************************************)
EXTENDS Integers, FiniteSets

CONSTANTS
  DayMinutes,  \* minutes of a day (1440)
  DaysOfWeek,  \* days of a week (7); day 0 is a Sunday
  Calendars,   \* [hours, holidays]: the active rows and the days off
  Starts,      \* times at which tickets are created
  Durations,   \* minutes that policies give
  MaxDays      \* days the walk goes on for (800)

ASSUME HoursAssumption ==
  /\ DayMinutes \in Nat \ {0} /\ DaysOfWeek \in Nat \ {0} /\ MaxDays \in Nat \ {0}
  /\ Starts \subseteq Nat \X (0..DayMinutes - 1) /\ Durations \subseteq Int
  /\ Calendars \subseteq
       [hours : SUBSET [dow : 0..DaysOfWeek - 1, start : 0..DayMinutes - 1, end : 0..DayMinutes],
        holidays : SUBSET Nat]

VARIABLE walk   \* the computation at work

NoWalk == [op |-> "idle", calendar |-> [hours |-> {}, holidays |-> {}], from |-> <<0, 0>>, minutes |-> 0,
           cursor |-> <<0, 0>>, remaining |-> 0, left |-> {}, days |-> 0, dueAt |-> <<0, 0>>]

Windows(calendar, day) == {w \in calendar.hours : w.dow = day % DaysOfWeek}

ClockAfter(from, minutes) ==
  <<from[1] + (from[2] + minutes) \div DayMinutes, (from[2] + minutes) % DayMinutes>>

(***************************************************************************)
(* addBusinessMinutes                                                      *)
(***************************************************************************)
(* Without hours, and for no time at all, the clock on the wall counts. *)
AddMinutes(calendar, from, minutes) ==
  LET asked == [NoWalk EXCEPT !.calendar = calendar, !.from = from, !.minutes = minutes]
  IN  /\ walk.op = "idle"
      /\ walk' = IF calendar.hours = {} \/ minutes <= 0
                 THEN [asked EXCEPT !.op = "due",
                         !.dueAt = ClockAfter(from, IF minutes > 0 THEN minutes ELSE 0)]
                 ELSE [asked EXCEPT !.op = "walk", !.cursor = from, !.remaining = minutes]

WalkIsDone == walk.days >= MaxDays \/ walk.remaining <= 0

ToNextDay ==
  walk' = [walk EXCEPT !.op = "walk", !.cursor = <<walk.cursor[1] + 1, 0>>, !.days = @ + 1]

SkipDayOff ==
  /\ walk.op = "walk" /\ ~WalkIsDone
  /\ \/ walk.cursor[1] \in walk.calendar.holidays
     \/ Windows(walk.calendar, walk.cursor[1]) = {}
  /\ ToNextDay

BeginDay ==
  /\ walk.op = "walk" /\ ~WalkIsDone
  /\ walk.cursor[1] \notin walk.calendar.holidays
  /\ LET ws == Windows(walk.calendar, walk.cursor[1])
     IN  ws # {} /\ walk' = [walk EXCEPT !.op = "day", !.left = ws]

OpensAtStart(w) == w.start   \* wrong variant: the hour of the day is not looked at

(* When the rest of window w opens, and how long it is. *)
OpensAt(w) == IF walk.cursor[2] > w.start THEN walk.cursor[2] ELSE w.start

Available(w) == IF OpensAt(w) < w.end THEN w.end - OpensAt(w) ELSE 0

Earliest(w) == w \in walk.left /\ \A v \in walk.left : w.start <= v.start

FitsInto(w) == 0 < Available(w) /\ walk.remaining <= Available(w)

PassWindow(w) ==
  /\ walk.op = "day" /\ Earliest(w) /\ ~FitsInto(w)
  /\ walk' = [walk EXCEPT !.left = @ \ {w}, !.remaining = @ - Available(w)]

(* The end of a day is its minute DayMinutes as well as the first of the next. *)
FillWindow(w) ==
  /\ walk.op = "day" /\ Earliest(w) /\ FitsInto(w)
  /\ walk' = [walk EXCEPT !.op = "due", !.left = {},
                 !.dueAt = <<walk.cursor[1], OpensAt(w) + walk.remaining>>]

EndDay == walk.op = "day" /\ walk.left = {} /\ ToNextDay

(* No opening in sight: the clock on the wall counts. *)
GiveUp ==
  /\ walk.op = "walk" /\ WalkIsDone
  /\ walk' = [walk EXCEPT !.op = "due", !.dueAt = ClockAfter(walk.from, walk.minutes)]

(* The rows of the clocks are written with it. *)
UseDue == walk.op = "due" /\ walk' = NoWalk

(***************************************************************************)
(* The specification                                                       *)
(***************************************************************************)
HoursInit == walk = NoWalk

HoursNext ==
  \/ \E calendar \in Calendars, from \in Starts, minutes \in Durations :
       AddMinutes(calendar, from, minutes)
  \/ SkipDayOff \/ BeginDay \/ EndDay \/ GiveUp \/ UseDue
  \/ \E w \in walk.left : PassWindow(w) \/ FillWindow(w)

HoursSpec == HoursInit /\ [][HoursNext]_walk

(***************************************************************************)
(* Properties                                                              *)
(***************************************************************************)
\* The walk has its shape, and one that goes on has minutes left to find.
HoursTypeOK ==
  /\ walk.op \in {"idle", "walk", "day", "due"}
  /\ walk.op # "idle" => walk.calendar \in Calendars /\ walk.from \in Starts /\ walk.minutes \in Durations
  /\ walk.cursor \in Nat \X (0..DayMinutes - 1) /\ walk.dueAt \in Nat \X (0..DayMinutes)
  /\ walk.days \in 0..MaxDays
  /\ walk.op \in {"walk", "day"} => walk.remaining \in 1..walk.minutes
  /\ walk.left \subseteq walk.calendar.hours /\ (walk.left # {} => walk.op = "day")

Precedes(s, t) == s[1] < t[1] \/ (s[1] = t[1] /\ s[2] < t[2])

Within(w, t) == w.start <= t[2] /\ t[2] < w.end

OpenAt(calendar, t) ==
  t[1] \notin calendar.holidays /\ \E w \in Windows(calendar, t[1]) : Within(w, t)

OpenMinutes(calendar, from, to) ==
  {t \in (from[1]..to[1]) \X (0..DayMinutes - 1) :
     ~Precedes(t, from) /\ Precedes(t, to) /\ OpenAt(calendar, t)}

(* Two windows of one day share no minute. *)
Disjoint(calendar) == \A v, w \in calendar.hours : v # w /\ v.dow = w.dow =>
  \A t \in {0} \X (0..DayMinutes - 1) : ~(Within(v, t) /\ Within(w, t))

(* The end of the walk. *)
Horizon == <<walk.from[1] + MaxDays, 0>>

\* A due time comes after exactly as many open minutes as were asked for, and
\* right after the last of them: at the end of a window, not at the start of
\* the next one.  Only where there are fewer before the end of the walk, the
\* clock on the wall counts.
DueInOpenTime == walk.op = "due" /\ walk.minutes > 0 /\ Disjoint(walk.calendar) =>
  \/ /\ OpenAt(walk.calendar, <<walk.dueAt[1], walk.dueAt[2] - 1>>)
     /\ Cardinality(OpenMinutes(walk.calendar, walk.from, walk.dueAt)) = walk.minutes
  \/ /\ Cardinality(OpenMinutes(walk.calendar, walk.from, Horizon)) < walk.minutes
     /\ walk.dueAt = ClockAfter(walk.from, walk.minutes)
=============================================================================
