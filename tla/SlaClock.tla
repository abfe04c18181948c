------------------------------ MODULE SlaClock ------------------------------
(***************************************************************************)
(* The SLA rows of one ticket, and the two processes that keep them: the   *)
(* poller inside the API (SlaService.processDue) and the worker (tickSla   *)
(* of apps/worker), which knows nothing of each other.                     *)
(*                                                                         *)
(* A tick reads a page of open rows with their ticket, takes the time      *)
(* once, and then works through the rows it has read, one awaited write    *)
(* after the other, while the ticket moves on.                             *)
(*                                                                         *)
(* Left out: percentConsumed, which nothing reads back; who is notified;   *)
(* the assignee an escalation removes together with the team.  Business    *)
(* hours are always open here.                                             *)
(***************************************************************************)
EXTENDS TicketStatuses, Integers, FiniteSets

CONSTANTS
  Metrics,      \* "first_response", "resolution", or both
  Target,       \* Target[m]: the time the policy allows, in ticks of the clock
  Thresholds,   \* percentages of the policy's escalation rules
  Reassigning,  \* those whose rule names a team
  Tickers,      \* whoever ticks; a worker that is late ticks beside itself
  Escalators,   \* those that run processDue; the others run tickSla
  PageSize,     \* rows one tick takes (200 in the code)
  Targets,      \* statuses the ticket is moved to
  Features,     \* events the instance exercises
  MaxInFlight,  \* ticks and handlers that overlap
  MaxComments,  \* comments that overlap
  MaxTime       \* the clock stops here

ASSUME SlaAssumption ==
  /\ Metrics \subseteq {"first_response", "resolution"}
  /\ Target \in [Metrics -> Nat \ {0}]
  /\ Thresholds \subseteq 1..200 /\ IsFiniteSet(Thresholds)
  /\ Escalators \subseteq Tickers
  /\ Targets \subseteq Statuses
  /\ PageSize \in Nat /\ MaxInFlight \in Nat /\ MaxComments \in Nat /\ MaxTime \in Nat

VARIABLES
  ticket,    \* the columns of the ticket row the engine reads or writes
  clock,     \* clock[m]: the row of sla_instances for metric m
  attach,    \* createForTicket: "rows", then "due", then "done"
  tick,      \* tick[k]: what ticker k has read and has still to do
  comments,  \* calls of addComment that found no first response and will write one
  sent,      \* escalations that were sent, as <<metric, threshold>>
  repeated,  \* those that were sent again
  history,   \* writes a later state no longer shows
  now        \* the wall clock

slaVars == <<ticket, clock, attach, tick, comments, sent, repeated, history, now>>

Never == 0   \* a null timestamp; the clock starts at 1

Instance == [startedAt : Nat, dueAt : Nat, pausedAt : Nat, completedAt : Nat,
             breachedAt : Nat, level : Nat]   \* level: lastEscalationPercent

Unattached == [startedAt |-> Never, dueAt |-> Never, pausedAt |-> Never,
               completedAt |-> Never, breachedAt |-> Never, level |-> 0]

(* What is left of the row being handled: a copy of its new due date, or the
   write that follows an escalation. *)
Nothing == [kind |-> "none", m |-> "", at |-> Never, level |-> 0]
NoTick == [rows |-> {}, now |-> Never, next |-> Nothing]

(* What is remembered only for the properties: when a response was written;
   escalations whose sender stopped before it had recorded them; the metrics
   whose row was resumed after its pause or due date had changed under the
   tick; whether the last move of the due date may have missed the ticket,
   because another was under way or its process stopped. *)
NoHistory == [responses |-> {}, unrecorded |-> {}, rewound |-> {}, uncopied |-> FALSE]

(***************************************************************************)
(* Helpers                                                                 *)
(***************************************************************************)
OpenOrDone(m) == clock[m].startedAt # Never   \* wrong variant: completed rows are read too

Open(m) == clock[m].startedAt # Never /\ clock[m].completedAt = Never

Room == Cardinality({k \in Tickers : tick[k] # NoTick})
        + (IF attach = "due" THEN 1 ELSE 0) < MaxInFlight

SnapshotOfOne(m) ==   \* wrong variant: both metrics end with the resolution
  [m |-> m, row |-> clock[m], pauses |-> ticket.status \in PausesSla,
   stopped |-> ticket.resolvedAt, team |-> ticket.team]

Snapshot(m) == [m |-> m, row |-> clock[m], pauses |-> ticket.status \in PausesSla,
                stopped |-> IF m = "first_response" THEN ticket.firstResponseAt
                            ELSE ticket.resolvedAt,
                team |-> ticket.team]

Smaller(a, b) == IF a < b THEN a ELSE b
Larger(a, b) == IF a > b THEN a ELSE b

PercentEager(row, time) ==   \* wrong variant: the tick in progress counts
  Smaller(200, ((time + 1 - row.startedAt) * 100) \div Larger(1, row.dueAt - row.startedAt))

(* The share of the time from start to due date that is over, in percent.
   Thresholds are integers, so the fraction decides nothing. *)
Percent(row, time) ==
  Smaller(200, ((time - row.startedAt) * 100) \div Larger(1, row.dueAt - row.startedAt))

(* p is the highest of the thresholds that `percent` has reached. *)
Hit(p, percent) ==
  /\ p \in Thresholds /\ p <= percent
  /\ \A q \in Thresholds : q <= percent => q <= p

(***************************************************************************)
(* SlaService.createForTicket: both rows in a transaction, then the due    *)
(* date of the ticket.                                                     *)
(***************************************************************************)
AttachRows ==
  /\ attach = "rows"
  /\ Room
  /\ clock' = [m \in Metrics |-> [Unattached EXCEPT !.startedAt = now,
                                                    !.dueAt = now + Target[m]]]
  /\ attach' = "due"
  /\ UNCHANGED <<ticket, tick, comments, sent, repeated, history, now>>

AttachDue ==
  /\ attach = "due"
  /\ attach' = "done"
  /\ ticket' = [ticket EXCEPT !.dueAt =
       IF "resolution" \in Metrics THEN clock["resolution"].startedAt + Target["resolution"]
       ELSE @]
  /\ UNCHANGED <<clock, tick, comments, sent, repeated, history, now>>

(***************************************************************************)
(* A tick                                                                  *)
(***************************************************************************)
TickBegin(k) ==
  /\ tick[k] = NoTick
  /\ Room
  /\ LET open == {m \in Metrics : Open(m)} IN
     \E page \in SUBSET open :
       /\ page # {} /\ Cardinality(page) <= PageSize
       /\ Cardinality(page) = PageSize \/ page = open
       /\ tick' = [tick EXCEPT ![k] =
            [rows |-> {Snapshot(m) : m \in page}, now |-> now, next |-> Nothing]]
  /\ UNCHANGED <<ticket, clock, attach, comments, sent, repeated, history, now>>

(* Row s is next, and this is all there is to do for it; a tick that has
   handled its last row is over. *)
After(k, s) == LET left == tick[k].rows \ {s} IN
  IF left = {} THEN NoTick ELSE [tick[k] EXCEPT !.rows = left]

Takes(k, s) == tick[k].next = Nothing /\ s \in tick[k].rows

Finished(k) == IF tick[k].rows = {} THEN NoTick ELSE [tick[k] EXCEPT !.next = Nothing]

(* The ticket's status stops the clock. *)
Hold(k, s) ==
  /\ Takes(k, s)
  /\ s.pauses
  /\ clock' = IF s.row.pausedAt = Never THEN [clock EXCEPT ![s.m].pausedAt = now] ELSE clock
  /\ tick' = [tick EXCEPT ![k] = After(k, s)]
  /\ UNCHANGED <<ticket, attach, comments, sent, repeated, history, now>>

CopyUnderWay == attach = "due" \/ \E k \in Tickers : tick[k].next.kind = "due"

Resumed(s) ==   \* the history after a resume
  LET stale == clock[s.m].pausedAt # s.row.pausedAt \/ clock[s.m].dueAt # s.row.dueAt IN
  [history EXCEPT !.rewound = IF stale THEN @ \cup {s.m} ELSE @,
                  !.uncopied = IF s.m = "resolution" THEN CopyUnderWay ELSE @]

ResumeUncopied(k, s) ==   \* wrong variant: the ticket's due date is not moved
  LET due == s.row.dueAt + (tick[k].now - s.row.pausedAt) IN
  /\ Takes(k, s)
  /\ ~s.pauses /\ s.row.pausedAt # Never
  /\ clock' = [clock EXCEPT ![s.m] = [@ EXCEPT !.pausedAt = Never, !.dueAt = due]]
  /\ tick' = [tick EXCEPT ![k] = After(k, s)]
  /\ history' = Resumed(s)
  /\ UNCHANGED <<ticket, attach, comments, sent, repeated, now>>

(* It no longer does: the due date moves by the time the row was held. *)
Resume(k, s) ==
  LET due == s.row.dueAt + (tick[k].now - s.row.pausedAt) IN
  /\ Takes(k, s)
  /\ ~s.pauses /\ s.row.pausedAt # Never
  /\ clock' = [clock EXCEPT ![s.m] = [@ EXCEPT !.pausedAt = Never, !.dueAt = due]]
  /\ tick' = [tick EXCEPT ![k] =
       IF s.m = "resolution"
       THEN [tick[k] EXCEPT !.rows = @ \ {s},
                            !.next = [Nothing EXCEPT !.kind = "due", !.m = s.m, !.at = due]]
       ELSE After(k, s)]
  /\ history' = Resumed(s)
  /\ UNCHANGED <<ticket, attach, comments, sent, repeated, now>>

CopyDue(k) ==
  /\ tick[k].next.kind = "due"
  /\ ticket' = [ticket EXCEPT !.dueAt = tick[k].next.at]
  /\ tick' = [tick EXCEPT ![k] = Finished(k)]
  /\ UNCHANGED <<clock, attach, comments, sent, repeated, history, now>>

StopNow(k, s) ==   \* wrong variant: the time at which it is noticed
  /\ Takes(k, s)
  /\ ~s.pauses /\ s.row.pausedAt = Never /\ s.stopped # Never
  /\ clock' = [clock EXCEPT ![s.m].completedAt = now]
  /\ tick' = [tick EXCEPT ![k] = After(k, s)]
  /\ UNCHANGED <<ticket, attach, comments, sent, repeated, history, now>>

(* The response or the resolution is there. *)
Stop(k, s) ==
  /\ Takes(k, s)
  /\ ~s.pauses /\ s.row.pausedAt = Never /\ s.stopped # Never
  /\ clock' = [clock EXCEPT ![s.m].completedAt = s.stopped]
  /\ tick' = [tick EXCEPT ![k] = After(k, s)]
  /\ UNCHANGED <<ticket, attach, comments, sent, repeated, history, now>>

Runs(s) == ~s.pauses /\ s.row.pausedAt = Never /\ s.stopped = Never

Escalates(k, s, p) ==
  k \in Escalators /\ Hit(p, Percent(s.row, tick[k].now)) /\ p # s.row.level

BreachedAgain(k, s, stored) ==   \* wrong variant: the breach is dated anew
  IF Percent(s.row, tick[k].now) >= 100 THEN now
  ELSE IF k \in Escalators THEN stored ELSE s.row.breachedAt

(* breachedAt after ticker k has handled s: processDue sets it or leaves it
   alone, tickSla always writes it, from the row it has read. *)
BreachedAfter(k, s, stored) ==
  IF Percent(s.row, tick[k].now) >= 100 /\ s.row.breachedAt = Never THEN now
  ELSE IF k \in Escalators THEN stored ELSE s.row.breachedAt

Consume(k, s) ==
  /\ Takes(k, s)
  /\ Runs(s) /\ \A p \in Thresholds : ~Escalates(k, s, p)
  /\ clock' = [clock EXCEPT ![s.m].breachedAt = BreachedAfter(k, s, @)]
  /\ tick' = [tick EXCEPT ![k] = After(k, s)]
  /\ UNCHANGED <<ticket, attach, comments, sent, repeated, history, now>>

(* escalate: the team is reassigned and the notifications go out before the
   row is written. *)
Escalate(k, s) == \E p \in Thresholds :
  /\ Takes(k, s)
  /\ Runs(s) /\ Escalates(k, s, p)
  /\ ticket' = [ticket EXCEPT !.team =
       IF p \in Reassigning /\ s.team # "escalation" THEN "escalation" ELSE @]
  /\ sent' = sent \cup {<<s.m, p>>}
  /\ repeated' = repeated \cup ({<<s.m, p>>} \cap sent)
  /\ tick' = [tick EXCEPT ![k] =
       [tick[k] EXCEPT !.rows = @ \ {s},
                       !.next = [kind |-> "row", m |-> s.m, level |-> p,
                                 at |-> BreachedAfter(k, s, Never)]]]
  /\ UNCHANGED <<clock, attach, comments, history, now>>

RecordForgotten(k) ==   \* wrong variant: the threshold is not written
  /\ tick[k].next.kind = "row"
  /\ clock' = [clock EXCEPT ![tick[k].next.m].breachedAt =
       IF tick[k].next.at = Never THEN @ ELSE tick[k].next.at]
  /\ tick' = [tick EXCEPT ![k] = Finished(k)]
  /\ UNCHANGED <<ticket, attach, comments, sent, repeated, history, now>>

Record(k) ==
  LET next == tick[k].next IN
  /\ next.kind = "row"
  /\ clock' = [clock EXCEPT ![next.m] = [clock[next.m] EXCEPT
       !.level = next.level,
       !.breachedAt = IF next.at = Never THEN @ ELSE next.at]]
  /\ tick' = [tick EXCEPT ![k] = Finished(k)]
  /\ UNCHANGED <<ticket, attach, comments, sent, repeated, history, now>>

(***************************************************************************)
(* What happens to the ticket meanwhile (see Tickets).  Handlers that only *)
(* write the ticket are one action here; a merge completes the open rows   *)
(* of its source in the same transaction.                                  *)
(***************************************************************************)
Move(target) ==
  /\ <<ticket.status, target>> \in Transitions
  /\ ticket' = [ticket EXCEPT
       !.status = target,
       !.resolvedAt = IF target = "resolved" THEN now
                      ELSE IF target = "open" THEN Never ELSE @]
  /\ UNCHANGED <<clock, attach, tick, comments, sent, repeated, history, now>>

(* addComment reads the ticket, and writes the response only after the comment
   is stored; another comment may have written its own by then. *)
BeginComment ==
  /\ ticket.firstResponseAt = Never
  /\ comments < MaxComments
  /\ comments' = comments + 1
  /\ UNCHANGED <<ticket, clock, attach, tick, sent, repeated, history, now>>

Respond ==
  /\ comments > 0
  /\ comments' = comments - 1
  /\ ticket' = [ticket EXCEPT !.firstResponseAt = now]
  /\ history' = [history EXCEPT !.responses = @ \cup {now}]
  /\ UNCHANGED <<clock, attach, tick, sent, repeated, now>>

MergeAway ==
  /\ "merge" \in Features
  /\ Room
  /\ attach = "done"
  /\ ticket.status # "merged"
  /\ ticket' = [ticket EXCEPT !.status = "merged"]
  /\ clock' = [m \in Metrics |-> IF Open(m) THEN [clock[m] EXCEPT !.completedAt = now]
                                 ELSE clock[m]]
  /\ UNCHANGED <<attach, tick, comments, sent, repeated, history, now>>

(* A process stops and starts again; createForTicket and addComment run in the
   API, whose poller is an escalator. *)
Crash(k) ==
  LET next == tick[k].next IN
  /\ "crash" \in Features
  /\ tick[k] # NoTick \/ (k \in Escalators /\ (attach # "done" \/ comments > 0))
  /\ tick' = [tick EXCEPT ![k] = NoTick]
  /\ attach' = IF k \in Escalators THEN "done" ELSE attach
  /\ comments' = IF k \in Escalators THEN 0 ELSE comments
  /\ history' = [history EXCEPT
       !.unrecorded = IF next.kind = "row" THEN @ \cup {<<next.m, next.level>>} ELSE @,
       !.uncopied = @ \/ next.kind = "due" \/ (k \in Escalators /\ attach = "due")]
  /\ UNCHANGED <<ticket, clock, sent, repeated, now>>

Pass == now < MaxTime /\ now' = now + 1
        /\ UNCHANGED <<ticket, clock, attach, tick, comments, sent, repeated, history>>

(***************************************************************************)
(* Specification                                                           *)
(***************************************************************************)
SlaInit ==
  /\ ticket = [status |-> "new", firstResponseAt |-> Never, resolvedAt |-> Never,
               dueAt |-> Never, team |-> "initial"]
  /\ clock = [m \in Metrics |-> Unattached]
  /\ attach = "rows"
  /\ tick = [k \in Tickers |-> NoTick]
  /\ comments = 0
  /\ sent = {} /\ repeated = {} /\ history = NoHistory
  /\ now = 1

Work(k) ==
  \/ TickBegin(k)
  \/ \E s \in tick[k].rows : Hold(k, s) \/ Resume(k, s) \/ Stop(k, s)
                             \/ Consume(k, s) \/ Escalate(k, s)
  \/ CopyDue(k)
  \/ Record(k)

SlaNext ==
  \/ AttachRows \/ AttachDue
  \/ \E k \in Tickers : Work(k) \/ Crash(k)
  \/ \E target \in Targets : Move(target)
  \/ BeginComment \/ Respond
  \/ MergeAway
  \/ Pass

SlaSpec == SlaInit /\ [][SlaNext]_slaVars

(* setInterval keeps calling both ticks, and a tick that has begun goes on. *)
SlaFairSpec == SlaSpec /\ \A k \in Tickers : WF_slaVars(Work(k))

(***************************************************************************)
(* Properties                                                              *)
(***************************************************************************)
SnapshotRow == [m : Metrics, row : Instance, pauses : BOOLEAN, stopped : Nat,
                team : {"initial", "escalation"}]

NextWrite == [kind : {"none", "due", "row"}, m : Metrics \cup {""}, at : Nat, level : Nat]

\* Rows, snapshots and what is left of a tick have their shape; a tick works
\* on rows it read while they were open.
SlaTypeOK ==
  /\ ticket \in [status : Statuses, firstResponseAt : Nat, resolvedAt : Nat,
                 dueAt : Nat, team : {"initial", "escalation"}]
  /\ clock \in [Metrics -> Instance]
  /\ attach \in {"rows", "due", "done"}
  /\ tick \in [Tickers -> [rows : SUBSET SnapshotRow, now : Nat, next : NextWrite]]
  /\ \A k \in Tickers :
       /\ \A s \in tick[k].rows : s.row.startedAt # Never /\ s.row.completedAt = Never
       /\ tick[k].next.kind # "none" => tick[k].next.m \in Metrics
       /\ tick[k].next.kind = "row" => tick[k].next.level \in Thresholds
       /\ tick[k].now <= now
  /\ comments \in Nat
  /\ sent \subseteq Metrics \X Thresholds /\ repeated \subseteq sent
  /\ history \in [responses : SUBSET Nat, unrecorded : SUBSET (Metrics \X Thresholds),
                  rewound : SUBSET Metrics, uncopied : BOOLEAN]
  /\ now \in Nat \ {0}

\* A first-response clock that has stopped shows when a response was written,
\* whatever tick noticed it and however late; the ticket shows the same, or the
\* later one of a comment that overlapped the first.  Only a merge ends the
\* clock at another time.
ResponseIsTimed ==
  LET stopped == clock["first_response"].completedAt IN
  "first_response" \in Metrics /\ stopped # Never /\ ticket.status # "merged" =>
    /\ stopped \in history.responses
    /\ ticket.firstResponseAt = stopped \/ history.responses # {stopped}

(* What a tick has read of the response was written, as was what the ticket
   shows; nothing was held in the future. *)
SnapshotsAgree ==
  /\ \A m \in Metrics : clock[m].pausedAt <= now
  /\ ticket.firstResponseAt # Never => ticket.firstResponseAt \in history.responses
  /\ history.responses # {} => ticket.firstResponseAt # Never
  /\ \A k \in Tickers : \A s \in tick[k].rows :
       /\ s.row.pausedAt <= tick[k].now
       /\ s.m = "first_response" /\ s.stopped # Never => s.stopped \in history.responses

\* The inductive invariant the proofs use.
SInv == SlaTypeOK /\ SnapshotsAgree /\ ResponseIsTimed

\* A breach is recorded only when the due date is over and the clock neither
\* held nor stopped.
BreachIsDue == [][\A m \in Metrics :
  clock[m].breachedAt = Never /\ clock'[m].breachedAt # Never =>
    now >= clock[m].dueAt /\ clock[m].pausedAt = Never /\ clock[m].completedAt = Never]_slaVars

(* A pause lets a share of more than 100 percent fall back towards 100: then
   the highest threshold up to 100, and those beyond, are reached anew. *)
FallsBack(p) ==
  /\ \E q \in Thresholds : q > 100
  /\ \A q \in Thresholds : q <= 100 => q <= p

\* Each threshold of a clock is announced once, except where the share falls
\* back over it, where its sender stopped before it could record it, or where
\* a tick resumed the clock from a state in which it no longer was.
EscalatesOnce ==
  \A m \in Metrics, p \in Thresholds :
    <<m, p>> \in repeated =>
      FallsBack(p) \/ <<m, p>> \in history.unrecorded \/ m \in history.rewound

\* When a threshold of p percent is announced, no more than the other 100 - p
\* percent of the allowed time are left.
EscalationIsDue == [][\A m \in Metrics, p \in Thresholds :
  <<m, p>> \in sent' \ sent =>
    (now - clock[m].dueAt + Target[m]) * 100 >= p * Target[m]]_slaVars

\* When nobody is copying it, the due date that lists and reports read from
\* the ticket is the one the resolution clock goes by, unless its last move was
\* cut short by a restart or crossed by another; the next pause that ends then
\* puts it right.
DueAgrees ==
  "resolution" \in Metrics /\ ~CopyUnderWay /\ ~history.uncopied
    => ticket.dueAt = clock["resolution"].dueAt

\* A ticket that has been answered, and is not held for ever, has its first
\* response clock stopped in the end.
ResponseIsNoticed ==
  (<>[](attach = "done" /\ ticket.firstResponseAt # Never /\ ticket.status \notin PausesSla))
    => <>(clock["first_response"].completedAt # Never)
=============================================================================
