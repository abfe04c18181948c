--------------------------- MODULE ExportSchedules ---------------------------
(***************************************************************************)
(* Reports and audit exports that are mailed daily or weekly.  A runner    *)
(* lists the schedules that are due, mails each export and then writes     *)
(* lastRunAt; a user may run a schedule by hand at any time, beside the    *)
(* runner.  ReportScheduleRunner and AuditExportScheduleRunner are the     *)
(* same program over two tables: one of them is modelled.                  *)
(*                                                                         *)
(* Time is counted in polls.  lastRunAt is kept as the time since then,    *)
(* and what an export contains is left out.                                *)
(***************************************************************************)
EXTENDS Naturals, FiniteSets

CONSTANTS
  Schedules,         \* rows of the table
  Undeliverable,     \* those whose address the mail server rejects
  DayPolls,          \* polls of a day
  WeekLength,        \* days of a week (7)
  Hands,             \* bound: runs by hand at one time
  MaxOdd,            \* bound: what `odd` counts up to
  ScheduleFeatures   \* "edit", "slow", "smtp_down", "db_down", "restart"

ASSUME SchedulesAssumption ==
  /\ Undeliverable \subseteq Schedules /\ "runner" \notin Hands
  /\ DayPolls \in Nat \ {0} /\ WeekLength \in Nat \ {0} /\ MaxOdd \in Nat

VARIABLES
  plan,    \* plan[s]: the row of s; `ran` is the time since lastRunAt
  job,     \* job[j]: the runner's list and what a job is doing
  poll,    \* time of the day
  polled,  \* the timer has fired in this interval
  exported,    \* exported[s]: exports mailed since midnight
  odd      \* odd[s]: runs by hand since then, and mails of the runner left unmarked

scheduleVars == <<plan, job, poll, polled, exported, odd>>

Never0 == WeekLength * DayPolls   \* ran that long ago, or never

NoPlan == [state |-> "absent", cadence |-> "daily", ran |-> Never0]

NoJob == [op |-> "idle", s |-> {}, queue |-> {}]

Jobs == {"runner"} \cup Hands

HasPlan(s) == plan[s].state \in {"active", "paused"}

Counted(n) == IF n <= MaxOdd THEN n + 1 ELSE n

(***************************************************************************)
(* Rows                                                                    *)
(***************************************************************************)
CreateSchedule(s, cadence) ==
  /\ plan[s].state = "absent"
  /\ plan' = [plan EXCEPT ![s] = [NoPlan EXCEPT !.state = "active", !.cadence = cadence]]
  /\ UNCHANGED <<job, poll, polled, exported, odd>>

UpdateSchedule(s, state, cadence) ==
  /\ "edit" \in ScheduleFeatures
  /\ HasPlan(s)
  /\ plan' = [plan EXCEPT ![s].state = state, ![s].cadence = cadence]
  /\ plan' # plan
  /\ UNCHANGED <<job, poll, polled, exported, odd>>

DeleteSchedule(s) ==
  /\ "edit" \in ScheduleFeatures
  /\ HasPlan(s)
  /\ plan' = [plan EXCEPT ![s].state = "deleted"]
  /\ UNCHANGED <<job, poll, polled, exported, odd>>

ScheduleIsDueToday(row) ==   \* wrong variant: a run since midnight counts as one before it
  IF row.cadence = "weekly" THEN row.ran >= WeekLength * DayPolls ELSE row.ran >= poll

(***************************************************************************)
(* runDue, runOne and executeSchedule                                      *)
(***************************************************************************)
ScheduleIsDue(row) ==
  IF row.cadence = "weekly" THEN row.ran >= WeekLength * DayPolls ELSE row.ran > poll

RunDue ==
  /\ ~polled
  /\ polled' = TRUE
  /\ job' = IF job["runner"] # NoJob THEN job ELSE [job EXCEPT !["runner"] =
       [op |-> "next", s |-> {},
        queue |-> {s \in Schedules : plan[s].state = "active" /\ ScheduleIsDue(plan[s])}]]
  /\ UNCHANGED <<plan, poll, exported, odd>>

NextExport(s) ==
  /\ job["runner"].op = "next" /\ s \in job["runner"].queue
  /\ job' = [job EXCEPT !["runner"] = [op |-> "send", s |-> {s}, queue |-> @.queue \ {s}]]
  /\ UNCHANGED <<plan, poll, polled, exported, odd>>

EndRun ==
  /\ job["runner"].op = "next" /\ job["runner"].queue = {}
  /\ job' = [job EXCEPT !["runner"] = NoJob]
  /\ UNCHANGED <<plan, poll, polled, exported, odd>>

RunOne(j, s) ==
  /\ j \in Hands /\ job[j] = NoJob
  /\ HasPlan(s) /\ odd[s] < MaxOdd
  /\ job' = [job EXCEPT ![j] = [NoJob EXCEPT !.op = "send", !.s = {s}]]
  /\ odd' = [odd EXCEPT ![s] = Counted(@)]
  /\ UNCHANGED <<plan, poll, polled, exported>>

RestUnfinished(j) ==   \* wrong variant: the schedule is not let go
  IF j = "runner" THEN [job[j] EXCEPT !.op = "next"] ELSE NoJob

Rest(j) == IF j = "runner" THEN [job[j] EXCEPT !.op = "next", !.s = {}] ELSE NoJob

SendExport(j, s) ==
  /\ job[j].op = "send" /\ s \in job[j].s \ Undeliverable
  /\ exported' = [exported EXCEPT ![s] = Counted(@)]
  /\ job' = [job EXCEPT ![j].op = "mark"]
  /\ UNCHANGED <<plan, poll, polled, odd>>

SendFailsHard(j, s) ==   \* wrong variant: the failure leaves the runner marked as running
  /\ job[j].op = "send" /\ s \in job[j].s
  /\ s \in Undeliverable \/ "smtp_down" \in ScheduleFeatures
  /\ job' = [job EXCEPT ![j].s = {}]
  /\ UNCHANGED <<plan, poll, polled, exported, odd>>

SendFails(j, s) ==
  /\ job[j].op = "send" /\ s \in job[j].s
  /\ s \in Undeliverable \/ "smtp_down" \in ScheduleFeatures
  /\ job' = [job EXCEPT ![j] = Rest(j)]
  /\ UNCHANGED <<plan, poll, polled, exported, odd>>

(* The update fails when the row was deleted. *)
MarkRan(j, s) ==
  /\ job[j].op = "mark" /\ s \in job[j].s
  /\ plan' = IF HasPlan(s) THEN [plan EXCEPT ![s].ran = 0] ELSE plan
  /\ job' = [job EXCEPT ![j] = Rest(j)]
  /\ UNCHANGED <<poll, polled, exported, odd>>

(* The database refuses the mark: the mail is out, the row says nothing. *)
MarkFails(j, s) ==
  /\ "db_down" \in ScheduleFeatures
  /\ job[j].op = "mark" /\ s \in job[j].s
  /\ j = "runner" => odd[s] < MaxOdd
  /\ odd' = IF j = "runner" THEN [odd EXCEPT ![s] = Counted(@)] ELSE odd
  /\ job' = [job EXCEPT ![j] = Rest(j)]
  /\ UNCHANGED <<plan, poll, polled, exported>>

(* The process restarts and runs what is due at once. *)
ScheduleRestart ==
  /\ "restart" \in ScheduleFeatures
  /\ \E j \in Jobs : job[j] # NoJob
  /\ \A s \in Schedules : odd[s] < MaxOdd
  /\ odd' = [s \in Schedules |->
       IF job["runner"].op = "mark" /\ s \in job["runner"].s THEN Counted(odd[s]) ELSE odd[s]]
  /\ job' = [j \in Jobs |-> NoJob] /\ polled' = FALSE
  /\ UNCHANGED <<plan, poll, exported>>

PollPasses ==
  /\ polled
  /\ \A j \in Jobs : job[j] # NoJob => "slow" \in ScheduleFeatures
  /\ poll' = (poll + 1) % DayPolls
  /\ polled' = FALSE
  /\ plan' = [s \in Schedules |-> [plan[s] EXCEPT !.ran = IF @ < Never0 THEN @ + 1 ELSE @]]
  /\ IF poll' = 0 THEN exported' = [s \in Schedules |-> 0] /\ odd' = [s \in Schedules |-> 0]
                  ELSE UNCHANGED <<exported, odd>>
  /\ UNCHANGED job

(***************************************************************************)
(* The specification                                                       *)
(***************************************************************************)
SchedulesInit ==
  /\ plan = [s \in Schedules |-> NoPlan]
  /\ job = [j \in Jobs |-> NoJob]
  /\ poll = 0 /\ polled = FALSE
  /\ exported = [s \in Schedules |-> 0] /\ odd = [s \in Schedules |-> 0]

Execute(j) == \E s \in Schedules : SendExport(j, s) \/ SendFails(j, s) \/ MarkRan(j, s) \/ MarkFails(j, s)

RunnerWorks == EndRun \/ (\E s \in Schedules : NextExport(s)) \/ Execute("runner")

SchedulesNext ==
  \/ \E s \in Schedules, cadence \in {"daily", "weekly"} :
       \/ CreateSchedule(s, cadence)
       \/ \E state \in {"active", "paused"} : UpdateSchedule(s, state, cadence)
  \/ \E s \in Schedules : DeleteSchedule(s) \/ \E j \in Hands : RunOne(j, s)
  \/ RunDue
  \/ RunnerWorks
  \/ \E j \in Hands : Execute(j)
  \/ ScheduleRestart
  \/ PollPasses

SchedulesSpec == SchedulesInit /\ [][SchedulesNext]_scheduleVars

(***************************************************************************)
(* Properties                                                              *)
(***************************************************************************)
\* Rows and jobs have their shape; who is neither listed nor sending is idle,
\* and only those that were mailed are marked.
SchedulesTypeOK ==
  /\ plan \in [Schedules -> [state : {"absent", "active", "paused", "deleted"},
                             cadence : {"daily", "weekly"}, ran : 0..Never0]]
  /\ job \in [Jobs -> [op : {"idle", "next", "send", "mark"}, s : SUBSET Schedules,
                       queue : SUBSET Schedules]]
  /\ \A j \in Jobs : job[j].op \in {"send", "mark"} <=> Cardinality(job[j].s) = 1
  /\ \A j \in Hands : job[j].queue = {} /\ job[j].op # "next"
  /\ poll \in 0..DayPolls - 1 /\ polled \in BOOLEAN
  /\ exported \in [Schedules -> 0..MaxOdd + 1] /\ odd \in [Schedules -> 0..MaxOdd + 1]

\* The runner mails an export once a day: any more were run by hand, or follow
\* a mail whose mark failed or was lost in a restart.
OncePerDay == \A s \in Schedules : exported[s] <= odd[s] + 1

\* Every active schedule that mail reaches is run again and again, whatever
\* becomes of the others.
ExportsRecur == \A s \in Schedules \ Undeliverable :
  <>[](plan[s].state = "active") => []<>(plan[s].ran = 0)
=============================================================================
