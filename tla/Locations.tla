----------------------------- MODULE Locations -----------------------------
(***************************************************************************)
(* When a station is open: what the locations requests of AnyRent and      *)
(* Rently make of the schedule that the supplier gives, and how the schema *)
(* has a client read it.                                                   *)
(*                                                                         *)
(* A time is the sequence of the numbers between its colons, as            *)
(* strings.Split has it.  The rest of a station is copied and left out.    *)
(***************************************************************************)
EXTENDS Offers

\* Type OpeningTime; ooh is out of hours, for a fee.
OpeningTime(weekday, start, end, ooh) ==
  [open |-> TRUE, weekday |-> weekday, start |-> start, end |-> end, ooh |-> ooh]

\* The hours and minutes of a time.  With no colon in it, as in an empty one, the
\* index is out of range, which is a panic.
HourMinute(time) == SubSeq(time, 1, 2)

HasColon(time) == Len(time) > 1

Time == Seq(Nat)

-----------------------------------------------------------------------------
\* Rently: json/vehlocationsrs.go.  A schedule has the times of every day of the
\* week, from Monday, in which the station is open; holidays are not looked at.
RentlySchedule ==
  [days : [1 .. 7 -> Seq([openedFrom : Time, openedTo : Time])]]

\* GetOpeningTime with the days numbered from zero, as Go numbers them.
GetOpeningTimeFromZero(schedule) ==
  FlattenSeq([day \in 1 .. 7 |->
    [i \in DOMAIN schedule.days[day] |->
       OpeningTime(day - 1, HourMinute(schedule.days[day][i].openedFrom),
                   HourMinute(schedule.days[day][i].openedTo), FALSE)]])

\* GetOpeningTime
GetOpeningTime(schedule) ==
  FlattenSeq([day \in 1 .. 7 |->
    [i \in DOMAIN schedule.days[day] |->
       OpeningTime(day, HourMinute(schedule.days[day][i].openedFrom),
                   HourMinute(schedule.days[day][i].openedTo), FALSE)]])

RentlyReadable(schedule) ==
  \A day \in 1 .. 7 : \A i \in DOMAIN schedule.days[day] :
    LET times == schedule.days[day][i]
    IN  HasColon(times.openedFrom) /\ HasColon(times.openedTo)

-----------------------------------------------------------------------------
\* AnyRent: locations.go.  A schedule has the times of the week, of Saturday and
\* of Sunday, and with each those out of hours.  The week's are given for
\* weekday zero.
AnyRentTimes == [open : Time, close : Time, oohStart : Time, oohEnd : Time]
AnyRentSchedule ==
  [week : AnyRentTimes, saturday : AnyRentTimes, sunday : AnyRentTimes]

\* Two entries of OpeningHours in parseLocation.
WithOutOfHours(weekday, times) ==
  <<OpeningTime(weekday, HourMinute(times.open), HourMinute(times.close), FALSE),
    OpeningTime(weekday, HourMinute(times.oohStart), HourMinute(times.oohEnd), TRUE)>>

OpeningHours(schedule) ==
  WithOutOfHours(0, schedule.week) \o WithOutOfHours(6, schedule.saturday)
    \o WithOutOfHours(7, schedule.sunday)

AnyRentReadable(schedule) ==
  \A times \in {schedule.week, schedule.saturday, schedule.sunday} :
    \A part \in DOMAIN times : HasColon(times[part])

-----------------------------------------------------------------------------
\* How a client reads them: weekday zero is every day.
HoursOn(openingHours, day) ==
  {[from |-> o.start, to |-> o.end, ooh |-> o.ooh] :
     o \in {h \in ToSet(openingHours) : h.open /\ h.weekday \in {0, day}}}

\* What the supplier's schedule says of a day.
RentlyHours(schedule, day) ==
  {[from |-> HourMinute(times.openedFrom), to |-> HourMinute(times.openedTo), ooh |-> FALSE] :
     times \in ToSet(schedule.days[day])}

AnyRentHours(schedule, day) ==
  LET times == CASE day = 6 -> schedule.saturday
                 [] day = 7 -> schedule.sunday
                 [] OTHER -> schedule.week
  IN  {[from |-> HourMinute(times.open), to |-> HourMinute(times.close), ooh |-> FALSE],
       [from |-> HourMinute(times.oohStart), to |-> HourMinute(times.oohEnd), ooh |-> TRUE]}
=============================================================================
