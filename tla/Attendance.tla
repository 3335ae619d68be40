----------------------------- MODULE Attendance -----------------------------
(***************************************************************************)
(* Daily attendance records and their monthly summary.  Check-in,          *)
(* check-out and regularization read and write one record and then rebuild *)
(* the summary of its month from all its records, each in a database call  *)
(* of its own; several handlers (Desks) interleave between the calls while *)
(* the clock moves on.                                                     *)
(***************************************************************************)
EXTENDS Integers, FiniteSets, Functions

CONSTANTS
  People,         \* employees
  DayLength,      \* hours of a day
  MonthLength,    \* days of a month
  MaxHour,        \* bound: the hour at which the clock stops
  LATE_THRESHOLD_HOUR, STANDARD_HOURS, HALF_DAY_THRESHOLD,
  Desks,          \* handlers that may be in flight together
  Corrections,    \* what HR enters when it regularizes: status, in and out, or NoTime
  MaxDeskFaults,  \* bound: database calls that fail
  NoTime, NoRecord

Times    == 0 .. MaxHour
DayOf(t) == t \div DayLength
DaySet   == 0 .. DayOf(MaxHour)
MonthOf(day) == day \div MonthLength
Months   == {MonthOf(d) : d \in DaySet}
Statuses == {"PRESENT", "ABSENT", "HALF_DAY", "LATE", "ON_LEAVE", "HOLIDAY", "WEEKEND"}

ASSUME ClockAssumption == /\ DayLength \in Nat \ {0} /\ MonthLength \in Nat \ {0}
                          /\ MaxHour \in Nat /\ MaxDeskFaults \in Nat /\ NoTime \notin Int
ASSUME HoursAssumption == /\ LATE_THRESHOLD_HOUR \in Nat /\ STANDARD_HOURS \in Nat
                          /\ HALF_DAY_THRESHOLD \in Nat
ASSUME CorrectionsAssumption ==
  Corrections \subseteq [status : Statuses, in : Nat \cup {NoTime}, out : Nat \cup {NoTime}]

VARIABLES
  now,        \* the clock, in hours
  record,     \* attendance_records, keyed by employee and day
  summary,    \* attendance_summaries, keyed by employee and month
  desk,       \* what each handler is in the middle of
  outdated,   \* history: summaries whose last rebuild was computed from outdated records
  deskFaults

attendanceVars == <<now, record, summary, desk, outdated, deskFaults>>

Record == [in : Int, out : Int \cup {NoTime}, status : Statuses,
           hours : Int \cup {NoTime}, regularized : BOOLEAN]

Summaries == [counts : [Statuses \ {"WEEKEND"} -> 0 .. MonthLength], hours : Int, overtime : Nat]

ASSUME RowsAssumption == IsFiniteSet(People) /\ NoRecord \notin Record \cup Summaries

Waiting == [at |-> "idle"]

Larger(a, b) == IF a > b THEN a ELSE b

\* overtimeHours follows from hoursWorked wherever either is written.
Overtime(r) == IF r.hours = NoTime THEN 0 ELSE Larger(0, r.hours - STANDARD_HOURS)

Worked(r) == IF r.hours = NoTime THEN 0 ELSE r.hours

InitAttendance ==
  /\ now = 0
  /\ record = [e \in People |-> [d \in DaySet |-> NoRecord]]
  /\ summary = [e \in People |-> [m \in Months |-> NoRecord]]
  /\ desk = [k \in Desks |-> Waiting]
  /\ outdated = {}
  /\ deskFaults = 0

Sit(k, j) == desk' = [desk EXCEPT ![k] = j]

Tick ==
  /\ now < MaxHour
  /\ now' = now + 1
  /\ UNCHANGED <<record, summary, desk, outdated, deskFaults>>

----------------------------------------------------------------------------
(* checkIn: today is taken before the query, the time of check-in after.   *)

CheckIn(k, e) ==
  /\ desk[k] = Waiting
  /\ record[e][DayOf(now)] = NoRecord
  /\ Sit(k, [at |-> "in", emp |-> e, day |-> DayOf(now)])
  /\ UNCHANGED <<now, record, summary, outdated, deskFaults>>

Arrival == [in |-> now, out |-> NoTime, hours |-> NoTime, regularized |-> FALSE,
            status |-> IF now % DayLength >= LATE_THRESHOLD_HOUR THEN "LATE" ELSE "PRESENT"]

\* The unique index refuses a second record of the day.
CreateRecord(k) ==
  /\ desk[k].at = "in"
  /\ record' = IF record[desk[k].emp][desk[k].day] # NoRecord THEN record
               ELSE [record EXCEPT ![desk[k].emp][desk[k].day] = Arrival]
  /\ Sit(k, Waiting)
  /\ UNCHANGED <<now, summary, outdated, deskFaults>>

----------------------------------------------------------------------------
(* checkOut and regularizeAttendance.                                      *)

\* The time of check-out and everything computed from it belong together.
CheckOut(k, e) ==
  LET r == record[e][DayOf(now)] IN
  /\ desk[k] = Waiting
  /\ r # NoRecord
  /\ r.out = NoTime
  /\ Sit(k, [at |-> "out", emp |-> e, day |-> DayOf(now), out |-> now, hours |-> now - r.in,
             status |-> IF now - r.in < HALF_DAY_THRESHOLD THEN "HALF_DAY" ELSE r.status])
  /\ UNCHANGED <<now, record, summary, outdated, deskFaults>>

\* Mutant: the time of check-out is taken again when the row is written.
Departure_ClockReadTwice(r, j) == [r EXCEPT !.out = now, !.hours = j.hours, !.status = j.status]

\* The columns a check-out writes, over whatever the row holds by now.
Departure(r, j) == [r EXCEPT !.out = j.out, !.hours = j.hours, !.status = j.status]

\* The summary the handler goes on to rebuild.
Rebuild(e, day) == [at |-> "sum", emp |-> e, month |-> MonthOf(day)]

WriteCheckOut(k) ==
  /\ desk[k].at = "out"
  /\ record' = [record EXCEPT ![desk[k].emp][desk[k].day] = Departure(@, desk[k])]
  /\ Sit(k, Rebuild(desk[k].emp, desk[k].day))
  /\ UNCHANGED <<now, summary, outdated, deskFaults>>

\* The hours between two given times.
Span(c) == IF c.in # NoTime /\ c.out # NoTime THEN c.out - c.in ELSE NoTime

\* Mutant: a record nobody checked in for has no check-in time.
Corrected_NoMidnight(r, day, c) ==
  IF r = NoRecord
  THEN [in |-> c.in, out |-> c.out, status |-> c.status, hours |-> Span(c), regularized |-> TRUE]
  ELSE [r EXCEPT !.status = c.status, !.regularized = TRUE]

\* The upsert: a new record begins at midnight when no time is given, an existing one
\* keeps the columns that are not given.
Corrected(r, day, c) ==
  IF r = NoRecord
  THEN [in |-> IF c.in = NoTime THEN day * DayLength ELSE c.in, out |-> c.out, status |-> c.status,
        hours |-> Span(c), regularized |-> TRUE]
  ELSE [in |-> IF c.in = NoTime THEN r.in ELSE c.in, out |-> IF c.out = NoTime THEN r.out ELSE c.out,
        status |-> c.status, hours |-> IF Span(c) = NoTime THEN r.hours ELSE Span(c), regularized |-> TRUE]

\* Mutant: the summary is left as it is.
AfterCorrection_NoRebuild(e, day) == Waiting

AfterCorrection(e, day) == Rebuild(e, day)

regularizeAttendance(k, e, day, c) ==
  /\ desk[k] = Waiting
  /\ record' = [record EXCEPT ![e][day] = Corrected(@, day, c)]
  /\ Sit(k, AfterCorrection(e, day))
  /\ UNCHANGED <<now, summary, outdated, deskFaults>>

----------------------------------------------------------------------------
(* updateMonthlySummary.                                                   *)

Stored(rs, m) == {d \in DaySet : MonthOf(d) = m /\ rs[d] # NoRecord}

\* Counts by status, the hours and the overtime of the days given; WEEKEND is not counted.
Tally(rs, days) ==
  [counts |-> [s \in Statuses \ {"WEEKEND"} |-> Cardinality({d \in days : rs[d].status = s})],
   hours |-> SumFunction([d \in days |-> Worked(rs[d])]),
   overtime |-> SumFunction([d \in days |-> Overtime(rs[d])])]

ReadMonth(k) ==
  /\ desk[k].at = "sum"
  /\ LET rs == record[desk[k].emp] IN
       Sit(k, [at |-> "upsert", emp |-> desk[k].emp, month |-> desk[k].month, seen |-> rs])
  /\ UNCHANGED <<now, record, summary, outdated, deskFaults>>

\* The columns of the summary: replaced when it exists, for all that it held.
WriteSummary(k) ==
  /\ desk[k].at = "upsert"
  /\ LET e == desk[k].emp  m == desk[k].month  rs == desk[k].seen IN
       /\ summary' = [summary EXCEPT ![e][m] = Tally(rs, Stored(rs, m))]
       /\ outdated' = IF \A d \in {x \in DaySet : MonthOf(x) = m} : rs[d] = record[e][d]
                      THEN outdated \ {<<e, m>>} ELSE outdated \cup {<<e, m>>}
  /\ Sit(k, Waiting)
  /\ UNCHANGED <<now, record, deskFaults>>

\* A database call fails or the process ends between two calls.
DeskFault(k) ==
  /\ desk[k] # Waiting
  /\ deskFaults < MaxDeskFaults
  /\ deskFaults' = deskFaults + 1
  /\ Sit(k, Waiting)
  /\ UNCHANGED <<now, record, summary, outdated>>

----------------------------------------------------------------------------
(* The reports of attendance, which read what is stored: on a day, over    *)
(* some days (a week), and on a month, of the employees the reader may see. *)

\* summariseCounts.  An employee without a record is absent in the report of the day.
\* Mutant: only records are counted.
DailyStatus_Recorded(e, day) == IF record[e][day] = NoRecord THEN "WEEKEND" ELSE record[e][day].status

DailyStatus(e, day) == IF record[e][day] = NoRecord THEN "ABSENT" ELSE record[e][day].status

getDailyReport(staff, day) == [s \in Statuses |-> Cardinality({e \in staff : DailyStatus(e, day) = s})]

\* What is counted in all reports.
Reported == {"PRESENT", "ABSENT", "LATE"}

getWeeklyReport(staff, days) ==
  LET stored == {p \in staff \X days : record[p[1]][p[2]] # NoRecord} IN
  [counts |-> [s \in Reported |-> Cardinality({p \in stored : record[p[1]][p[2]].status = s})],
   hours |-> SumFunction([p \in stored |-> Worked(record[p[1]][p[2]])])]

getMonthlyReport(staff, m) ==
  LET known == {e \in staff : summary[e][m] # NoRecord} IN
  [counts |-> [s \in Reported |-> SumFunction([e \in known |-> summary[e][m].counts[s]])],
   hours |-> SumFunction([e \in known |-> summary[e][m].hours])]

NextAttendance ==
  \/ Tick
  \/ \E k \in Desks :
       \/ \E e \in People : CheckIn(k, e) \/ CheckOut(k, e)
       \/ \E e \in People, d \in DaySet, c \in Corrections : regularizeAttendance(k, e, d, c)
       \/ CreateRecord(k) \/ WriteCheckOut(k) \/ ReadMonth(k) \/ WriteSummary(k) \/ DeskFault(k)

SpecAttendance == InitAttendance /\ [][NextAttendance]_attendanceVars

----------------------------------------------------------------------------
AttendanceTypeOK ==
  /\ now \in Times
  /\ \A e \in People : /\ \A d \in DaySet : record[e][d] \in Record \cup {NoRecord}
                       /\ \A m \in Months : summary[e][m] \in Summaries \cup {NoRecord}
  /\ \A k \in Desks : desk[k].at \in {"idle", "in", "out", "sum", "upsert"}
  /\ outdated \subseteq People \X Months
  /\ deskFaults \in 0 .. MaxDeskFaults

\* A day that nobody regularized shows the hours between its check-in and its check-out,
\* also when two check-outs race for it (attendance.service.ts:70 to :93).
HoursMatchTimes ==
  \A e \in People, d \in DaySet : LET r == record[e][d] IN
    r # NoRecord /\ ~r.regularized =>
      r.hours = IF r.out = NoTime THEN NoTime ELSE r.out - r.in

\* Days that have been checked out of or regularized.
ClosedDays(e, m) ==
  {d \in Stored(record[e], m) : record[e][d].out # NoTime \/ record[e][d].regularized}

Refreshing(e, m) == \E k \in Desks : desk[k].at \in {"sum", "upsert"} /\ desk[k].emp = e /\ desk[k].month = m

\* A summary that nobody is rebuilding counts every closed day of its month as it stands:
\* each change rebuilds it, and only a handler that stopped half way or one that wrote
\* records it had read before another's change leaves it behind.  A day that is still open
\* may or may not be counted (attendance.service.ts:96 and :174).
SummaryCoversClosedDays ==
  deskFaults = 0 =>
    \A e \in People, m \in Months :
      ClosedDays(e, m) # {} /\ ~Refreshing(e, m) /\ <<e, m>> \notin outdated =>
        \E open \in SUBSET (Stored(record[e], m) \ ClosedDays(e, m)) :
          summary[e][m] = Tally(record[e], ClosedDays(e, m) \cup open)

\* The report of a month and those of its days agree on who was present and who was late, and
\* differ on absence by the days without a record; the report of a month made of summaries
\* agrees once all its days are closed and summaries are up to date
\* (attendance-report.service.ts:34-71, 110-124, 174-199, 307-329).
ReportsAgree == \A staff \in SUBSET People, m \in Months :
  LET days == {d \in DaySet : MonthOf(d) = m}
      week == getWeeklyReport(staff, days)
      daily(s) == SumFunction([d \in days |-> getDailyReport(staff, d)[s]])
      settled == \A e \in staff : /\ ~Refreshing(e, m) /\ <<e, m>> \notin outdated
                                  /\ ClosedDays(e, m) = Stored(record[e], m) IN
  /\ daily("PRESENT") = week.counts["PRESENT"] /\ daily("LATE") = week.counts["LATE"]
  /\ daily("ABSENT") = week.counts["ABSENT"] + Cardinality({p \in staff \X days : record[p[1]][p[2]] = NoRecord})
  /\ deskFaults = 0 /\ settled => getMonthlyReport(staff, m) = week

\* Attendance: the three above.
AttendanceAgrees == HoursMatchTimes /\ SummaryCoversClosedDays /\ ReportsAgree
=============================================================================
