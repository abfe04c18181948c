------------------------------ MODULE Tickets -------------------------------
(***************************************************************************)
(* The rows of the tickets table and every writer of their status          *)
(* (TicketsService, ApprovalsService.applyTicketStatus, SlaPollerService). *)
(*                                                                         *)
(* A handler is a chain of awaited database calls without a transaction:   *)
(* it reads the row, validates what it read, and writes the row by id some *)
(* awaits later.  Each handler is therefore two actions or more, and what  *)
(* it read is kept in req[r].seen between them.                            *)
(*                                                                         *)
(* Title, priority, assignee and the other fields no guard here reads are  *)
(* left out: an update that changes only such fields has target "keep".    *)
(***************************************************************************)
EXTENDS TicketStatuses, Integers, FiniteSets

CONSTANTS
  Tickets,      \* tickets that may be created
  Requests,     \* slots for HTTP requests being served
  NoTicket,     \* the null reference
  TypeOf,       \* TypeOf[t]: the type ticket t is created with
  RequesterOf,  \* RequesterOf[t]: the user ticket t is created for
  CloseAfter,   \* AUTO_CLOSE_RESOLVED_DAYS, in ticks of the clock
  PageSize,     \* candidates one auto-close tick takes (50 in the code)
  Targets,      \* statuses the instance's users ask for
  Features,     \* operations the instance exercises
  MaxInFlight,  \* handlers (the poller is one) the event loop interleaves
  MaxVersion,   \* no handler starts on a row that was written this often
  MaxTime       \* the clock stops here

ASSUME TicketsAssumption ==
  /\ NoTicket \notin Tickets
  /\ TypeOf \in [Tickets -> TypeCodes]
  /\ Targets \subseteq Statuses
  /\ CloseAfter \in Nat /\ PageSize \in Nat
  /\ MaxInFlight \in Nat /\ MaxVersion \in Nat /\ MaxTime \in Nat

VARIABLES
  ticket,   \* ticket[t]: the row of t
  req,      \* req[r]: the handler serving request r
  poller,   \* the auto-close half of SlaPollerService.tick
  now       \* the wall clock

vars == <<ticket, req, poller, now>>

(***************************************************************************)
(* Values                                                                  *)
(***************************************************************************)
Never == 0                       \* a null timestamp; the clock starts at 1

Row == [status : Statuses \cup {"absent"}, version : Nat,
        resolvedAt : Nat, closedAt : Nat, firstResponseAt : Nat,
        repliedAt : Nat,         \* the requester's latest public comment
        mergedInto : Tickets \cup {NoTicket}, deleted : BOOLEAN]

Blank == [status |-> "absent", version |-> 0, resolvedAt |-> Never,
          closedAt |-> Never, firstResponseAt |-> Never, repliedAt |-> Never,
          mergedInto |-> NoTicket, deleted |-> FALSE]

Ops == {"idle", "update", "cab", "verdict", "merge", "comment", "stamp"}

Handler == [op : Ops, t : Tickets \cup {NoTicket}, seen : Row,
            target : Statuses \cup {"keep"}, other : Tickets \cup {NoTicket}]

Idle == [op |-> "idle", t |-> NoTicket, seen |-> Blank,
         target |-> "keep", other |-> NoTicket]

(* A candidate of the auto-close query.  The poller uses only resolvedAt of
   the row; the rest of `seen` is history, which no guard reads. *)
Candidate == [t : Tickets, seen : Row]
NoCandidate == [t |-> NoTicket, seen |-> Blank]

IdlePoller == [batch |-> {}, closing |-> NoCandidate]

(***************************************************************************)
(* Helpers                                                                 *)
(***************************************************************************)
Exists(t) == ticket[t].status # "absent"

(* findAccessible: soft-deleted tickets are not found. *)
Found(t) == Exists(t) /\ ~ticket[t].deleted

(* The `running` flag of the poller. *)
Polling == poller # IdlePoller

InFlight == Cardinality({r \in Requests : req[r].op # "idle"})
            + (IF Polling THEN 1 ELSE 0)

(* A request arrives: the handler reads row t and goes on to validate it. *)
Begin(r, op, t, target, other) ==
  /\ req[r].op = "idle"
  /\ InFlight < MaxInFlight
  /\ ticket[t].version < MaxVersion
  /\ req' = [req EXCEPT ![r] = [op |-> op, t |-> t, seen |-> ticket[t],
                                target |-> target, other |-> other]]
  /\ UNCHANGED <<ticket, poller, now>>

Finish(r) == req' = [req EXCEPT ![r] = Idle]

(* `version: { increment: 1 }` beside the fields an UPDATE sets. *)
Bump(row) == [row EXCEPT !.version = @ + 1]

(* Only staff may make any move; a requester may cancel, or close what is
   resolved. *)
MayMove(who, from, to) ==
  \/ who = "staff"
  \/ to = "cancelled"
  \/ from = "resolved" /\ to = "closed"

Reopens(from, to) == to = "open" /\ from # "open"

ResolvedAfter(row, from, to) ==
  IF to = "resolved" THEN now
  ELSE IF Reopens(from, to) THEN Never ELSE row.resolvedAt

ClosedAfter(row, from, to) ==
  IF to = "closed" THEN now
  ELSE IF Reopens(from, to) THEN Never ELSE row.closedAt

(* The columns an update to status `to` sets. *)
Moved(row, from, to) ==
  [row EXCEPT !.status = to,
              !.resolvedAt = ResolvedAfter(row, from, to),
              !.closedAt = ClosedAfter(row, from, to)]

(***************************************************************************)
(* TicketsService.create                                                   *)
(***************************************************************************)
CreateUnversioned(t) ==   \* wrong variant: the column has no default
  /\ ~Exists(t)
  /\ ticket' = [ticket EXCEPT ![t] = [Blank EXCEPT !.status = "new"]]
  /\ UNCHANGED <<req, poller, now>>

Create(t) ==
  /\ ~Exists(t)
  /\ ticket' = [ticket EXCEPT
       ![t] = [Blank EXCEPT !.status = IF TypeOf[t] \in ApprovalTypes
                                       THEN "pending_approval" ELSE "new",
                            !.version = 1]]
  /\ UNCHANGED <<req, poller, now>>

(* promoteToProblem opens a problem for a ticket that can have one. *)
RaiseProblem(source, t) ==
  /\ "promote" \in Features
  /\ Found(source)
  /\ TypeOf[source] \notin {"problem", "change", "task"}
  /\ ~Exists(t) /\ TypeOf[t] = "problem"
  /\ ticket' = [ticket EXCEPT
       ![t] = [Blank EXCEPT !.status = "under_investigation", !.version = 1]]
  /\ UNCHANGED <<req, poller, now>>

(***************************************************************************)
(* TicketsService.update.  A dto.version other than the row's is refused   *)
(* with 409 and changes nothing, so the request modelled carries the       *)
(* version that is read.  The UPDATE that follows is by id alone.          *)
(***************************************************************************)
BeginUpdateUnchecked(r, t, target, who) ==   \* wrong variant: no transition lookup
  /\ "update" \in Features
  /\ Found(t)
  /\ target # "keep" => MayMove(who, ticket[t].status, target)
  /\ Begin(r, "update", t, target, NoTicket)

BeginUpdate(r, t, target, who) ==
  /\ "update" \in Features
  /\ Found(t)
  /\ target # "keep" => /\ <<ticket[t].status, target>> \in Transitions
                        /\ MayMove(who, ticket[t].status, target)
  /\ Begin(r, "update", t, target, NoTicket)

CompleteUpdate(r) ==
  LET h == req[r] IN
  /\ h.op = "update"
  /\ ticket' = [ticket EXCEPT
       ![h.t] = Bump(IF h.target = "keep" THEN @
                     ELSE Moved(@, h.seen.status, h.target))]
  /\ Finish(r)
  /\ UNCHANGED <<poller, now>>

(***************************************************************************)
(* TicketsService.requestCab, up to its call of approvals.createForTicket. *)
(***************************************************************************)
BeginCab(r, t) ==
  /\ "cab" \in Features
  /\ Found(t)
  /\ TypeOf[t] = "change"
  /\ ticket[t].status \notin Terminal \cup {"pending_approval"}
  /\ <<ticket[t].status, "pending_approval">> \in Transitions
  /\ Begin(r, "cab", t, "pending_approval", NoTicket)

CompleteCab(r) ==
  LET h == req[r] IN
  /\ h.op = "cab"
  /\ ticket' = [ticket EXCEPT ![h.t] = [Bump(@) EXCEPT !.status = h.target]]
  /\ Finish(r)
  /\ UNCHANGED <<poller, now>>

(***************************************************************************)
(* ApprovalsService.decide as far as the ticket row goes: the row is read  *)
(* with the approval (soft-deleted or not), and applyTicketStatus looks    *)
(* the transition up from the status read then.  When there is none it     *)
(* throws, and the row is left alone.                                      *)
(***************************************************************************)
BeginVerdict(r, t, target) ==
  /\ "verdict" \in Features
  /\ Exists(t)
  /\ TypeOf[t] \in ApprovalTypes
  /\ target \in {"cancelled", ApprovedStatus(TypeOf[t])}
  /\ Begin(r, "verdict", t, target, NoTicket)

CompleteVerdictUnversioned(r) ==   \* wrong variant: the version is not incremented
  LET h == req[r] IN
  /\ h.op = "verdict"
  /\ ticket' = IF <<h.seen.status, h.target>> \in Transitions
               THEN [ticket EXCEPT ![h.t].status = h.target] ELSE ticket
  /\ Finish(r)
  /\ UNCHANGED <<poller, now>>

CompleteVerdict(r) ==
  LET h == req[r] IN
  /\ h.op = "verdict"
  /\ ticket' = IF <<h.seen.status, h.target>> \in Transitions
               THEN [ticket EXCEPT ![h.t] = [Bump(@) EXCEPT !.status = h.target]]
               ELSE ticket
  /\ Finish(r)
  /\ UNCHANGED <<poller, now>>

(***************************************************************************)
(* TicketsService.merge of one source into a primary.  The checks read     *)
(* both rows before the transaction; the transaction repeats none of them. *)
(* The source's comments are copied with their dates, so a reply of the    *)
(* same requester counts for the primary too.                              *)
(***************************************************************************)
BeginMerge(r, source, primary) ==
  /\ "merge" \in Features
  /\ Found(primary) /\ Found(source)
  /\ source # primary
  /\ ticket[primary].mergedInto = NoTicket /\ ticket[primary].status # "merged"
  /\ ticket[source].mergedInto = NoTicket /\ ticket[source].status # "merged"
  /\ Begin(r, "merge", source, "merged", primary)

Later(a, b) == IF a > b THEN a ELSE b

CompleteMergeUnlinked(r) ==   \* wrong variant: the link is not written
  LET h == req[r] IN
  /\ h.op = "merge"
  /\ ticket' = [ticket EXCEPT
       ![h.t] = [Bump(@) EXCEPT !.status = "merged", !.closedAt = now],
       ![h.other] = Bump(@)]
  /\ Finish(r)
  /\ UNCHANGED <<poller, now>>

CompleteMergeQuietly(r) ==   \* wrong variant: the primary's version stays
  LET h == req[r] IN
  /\ h.op = "merge"
  /\ ticket' = [ticket EXCEPT
       ![h.t] = [Bump(@) EXCEPT !.status = "merged", !.mergedInto = h.other,
                                !.closedAt = now]]
  /\ Finish(r)
  /\ UNCHANGED <<poller, now>>

CompleteMerge(r) ==
  LET h == req[r]
      copied == IF RequesterOf[h.t] = RequesterOf[h.other]
                THEN h.seen.repliedAt ELSE Never
  IN
  /\ h.op = "merge"
  /\ ticket' = [t \in Tickets |->
       IF t = h.t
       THEN [Bump(ticket[t]) EXCEPT !.status = "merged", !.mergedInto = h.other,
                                    !.closedAt = now]
       ELSE IF t = h.other
       THEN [Bump(ticket[t]) EXCEPT !.repliedAt = Later(@, copied)]
       ELSE ticket[t]]
  /\ Finish(r)
  /\ UNCHANGED <<poller, now>>

(***************************************************************************)
(* TicketsService.addComment: the comment is inserted, then, when the row  *)
(* read first had no response and the author is not the requester, the     *)
(* first-response time is written.  Neither touches the version.           *)
(***************************************************************************)
BeginComment(r, t) ==
  /\ "comment" \in Features
  /\ Found(t)
  /\ Begin(r, "comment", t, "keep", NoTicket)

(* `internal` notes do not count as the requester's reply, but a staff
   member's note does count as the first response. *)
InsertComment(r, who, internal) ==
  LET h == req[r] IN
  /\ h.op = "comment"
  /\ ticket' = [ticket EXCEPT ![h.t].repliedAt =
                  IF who = "requester" /\ ~internal THEN now ELSE @]
  /\ IF who = "staff" /\ h.seen.firstResponseAt = Never
     THEN req' = [req EXCEPT ![r].op = "stamp"]
     ELSE Finish(r)
  /\ UNCHANGED <<poller, now>>

StampFirstResponse(r) ==
  LET h == req[r] IN
  /\ h.op = "stamp"
  /\ ticket' = [ticket EXCEPT ![h.t].firstResponseAt = now]
  /\ Finish(r)
  /\ UNCHANGED <<poller, now>>

(***************************************************************************)
(* TicketsService.softDelete sets deletedAt and nothing else.  Its read    *)
(* and its write commute with themselves, so it is one action.             *)
(***************************************************************************)
SoftDelete(t) ==
  /\ "delete" \in Features
  /\ Found(t)
  /\ ticket' = [ticket EXCEPT ![t].deleted = TRUE]
  /\ UNCHANGED <<req, poller, now>>

(***************************************************************************)
(* SlaPollerService.autoCloseResolved: one page of candidates is read,     *)
(* then each is checked for a requester's comment and closed by id.  The   *)
(* query has no ORDER BY, so which page is returned is up to the database. *)
(***************************************************************************)
AutoCloseDueAnyStatus == {t \in Tickets :   \* wrong variant: no status filter
  /\ ~ticket[t].deleted /\ ticket[t].status # "closed"
  /\ ticket[t].resolvedAt # Never
  /\ ticket[t].resolvedAt + CloseAfter <= now}

AutoCloseDue == {t \in Tickets :
  /\ ticket[t].status = "resolved" /\ ~ticket[t].deleted
  /\ ticket[t].resolvedAt # Never
  /\ ticket[t].resolvedAt + CloseAfter <= now}

PollScan ==
  /\ "poll" \in Features
  /\ ~Polling
  /\ InFlight < MaxInFlight
  /\ \E page \in SUBSET AutoCloseDue :
       /\ page # {}
       /\ Cardinality(page) <= PageSize
       /\ Cardinality(page) = PageSize \/ page = AutoCloseDue
       /\ poller' = [poller EXCEPT !.batch =
            {[t |-> t, seen |-> ticket[t]] : t \in page}]
  /\ UNCHANGED <<ticket, req, now>>

(* What is noted of a candidate when its comments have been looked at. *)
Inspected(c) == [c EXCEPT !.seen = [@ EXCEPT !.repliedAt = ticket[c.t].repliedAt]]

PollInspectBlind(c) ==   \* wrong variant: the requester's comments are not read
  /\ poller.closing = NoCandidate
  /\ c \in poller.batch
  /\ poller' = [batch |-> poller.batch \ {c}, closing |-> Inspected(c)]
  /\ UNCHANGED <<ticket, req, now>>

PollInspectEager(c) ==   \* wrong variant: a comment as old as the resolution counts
  /\ poller.closing = NoCandidate
  /\ c \in poller.batch
  /\ poller' = [batch |-> poller.batch \ {c},
                closing |-> IF ticket[c.t].repliedAt >= c.seen.resolvedAt
                            THEN NoCandidate ELSE Inspected(c)]
  /\ UNCHANGED <<ticket, req, now>>

PollInspect(c) ==
  /\ poller.closing = NoCandidate
  /\ c \in poller.batch
  /\ poller' = [batch |-> poller.batch \ {c},
                closing |-> IF ticket[c.t].repliedAt > c.seen.resolvedAt
                            THEN NoCandidate ELSE Inspected(c)]
  /\ UNCHANGED <<ticket, req, now>>

PollCloseUnversioned ==   \* wrong variant: the version is not incremented
  /\ poller.closing # NoCandidate
  /\ ticket' = [ticket EXCEPT
       ![poller.closing.t] = [@ EXCEPT !.status = "closed", !.closedAt = now]]
  /\ poller' = [poller EXCEPT !.closing = NoCandidate]
  /\ UNCHANGED <<req, now>>

PollClose ==
  /\ poller.closing # NoCandidate
  /\ ticket' = [ticket EXCEPT
       ![poller.closing.t] = [Bump(@) EXCEPT !.status = "closed", !.closedAt = now]]
  /\ poller' = [poller EXCEPT !.closing = NoCandidate]
  /\ UNCHANGED <<req, now>>

(* A handler ends before its write: one of its awaits rejects, or it turns
   out that there is nothing to write. *)
Abandon(r) ==
  /\ req[r].op # "idle"
  /\ Finish(r)
  /\ UNCHANGED <<ticket, poller, now>>

(***************************************************************************)
(* The process stops and restarts: what it had in memory is gone, what it  *)
(* had written stays.                                                      *)
(***************************************************************************)
Crash ==
  /\ "crash" \in Features
  /\ req' = [r \in Requests |-> Idle]
  /\ poller' = IdlePoller
  /\ UNCHANGED <<ticket, now>>

Tick == now < MaxTime /\ now' = now + 1 /\ UNCHANGED <<ticket, req, poller>>

(***************************************************************************)
(* Specification                                                           *)
(***************************************************************************)
Init ==
  /\ ticket = [t \in Tickets |-> Blank]
  /\ req = [r \in Requests |-> Idle]
  /\ poller = IdlePoller
  /\ now = 1

Start(r) == \E t \in Tickets :
  \/ \E target \in Targets \cup {"keep"}, who \in {"staff", "requester"} :
       BeginUpdate(r, t, target, who)
  \/ BeginCab(r, t)
  \/ \E target \in Statuses : BeginVerdict(r, t, target)
  \/ \E primary \in Tickets : BeginMerge(r, t, primary)
  \/ BeginComment(r, t)

Complete(r) ==
  \/ CompleteUpdate(r)
  \/ CompleteCab(r)
  \/ CompleteVerdict(r)
  \/ CompleteMerge(r)
  \/ \E who \in {"staff", "requester"}, internal \in BOOLEAN :
       InsertComment(r, who, internal)
  \/ StampFirstResponse(r)
  \/ Abandon(r)

Poll == PollScan \/ (\E c \in poller.batch : PollInspect(c)) \/ PollClose

Next ==
  \/ \E t \in Tickets : Create(t) \/ SoftDelete(t)
  \/ \E t, source \in Tickets : RaiseProblem(source, t)
  \/ \E r \in Requests : Start(r) \/ Complete(r)
  \/ Poll
  \/ Crash
  \/ Tick

Spec == Init /\ [][Next]_vars

(* What the runtime promises: a handler or poller run that has begun goes
   on, and setInterval keeps calling tick.  Nobody promises requests. *)
Fairness ==
  /\ \A r \in Requests : WF_vars(Complete(r))
  /\ WF_vars(Poll)

FairSpec == Spec /\ Fairness

(***************************************************************************)
(* What holds however the handlers interleave                              *)
(***************************************************************************)

\* Rows and handlers have their shape, a row exists from its version 1 on,
\* and no handler serves a ticket that was never created.
TypeOK ==
  /\ ticket \in [Tickets -> Row]
  /\ req \in [Requests -> Handler]
  /\ poller \in [batch : SUBSET Candidate, closing : Candidate \cup {NoCandidate}]
  /\ now \in Nat \ {0}
  /\ \A t \in Tickets : Exists(t) <=> ticket[t].version >= 1
  /\ \A r \in Requests : req[r].op # "idle" =>
       /\ req[r].t \in Tickets
       /\ Exists(req[r].t)

\* The columns a handler's guards read from a row.
Guarded(row) == <<row.status, row.resolvedAt, row.closedAt, row.mergedInto>>

Stamps(seen, row) ==
  /\ seen.version <= row.version
  /\ seen.version = row.version => Guarded(seen) = Guarded(row)

\* What the poller has read and not yet dealt with.
Held == poller.batch \cup ({poller.closing} \ {NoCandidate})

\* The version is a sound stamp of those columns: a handler or poller whose row
\* still has the version it read is looking at what is in the database.  This
\* is what comparing versions relies on, and it needs EVERY writer of a status
\* (edits, CAB, approvals, merge, the auto-close poller) to increment it.
VersionGuards ==
  /\ \A r \in Requests : req[r].op # "idle" => Stamps(req[r].seen, ticket[req[r].t])
  /\ \A c \in Held : Stamps(c.seen, ticket[c.t])

Stamped(t, row) ==
  /\ row.status = "resolved" => row.resolvedAt # Never
  /\ row.status = "closed"   => row.closedAt # Never
  /\ row.status = "merged"   => row.closedAt # Never /\ row.mergedInto \in Tickets \ {t}

\* A status that reports and pollers read together with a timestamp or a link
\* has it, whichever handlers wrote the row and in whatever order.
StatusStamped == \A t \in Tickets : Stamped(t, ticket[t])

\* A handler still carries the request its checks let through, and what they
\* were made on: only a merge ends in "merged", and it goes to another ticket.
HandlerTargets == \A r \in Requests :
  LET h == req[r] IN
  /\ h.op = "update" => /\ h.target # "merged"
                        /\ h.target # "keep" => <<h.seen.status, h.target>> \in Transitions
  /\ h.op = "cab" => /\ h.target = "pending_approval"
                     /\ <<h.seen.status, h.target>> \in Transitions
  /\ h.op = "verdict" => h.target \in {"cancelled", "open", "scheduled"}
  /\ h.op = "merge" => /\ h.seen.status # "merged" /\ h.seen.mergedInto = NoTicket
                       /\ h.other \in Tickets \ {h.t} /\ Exists(h.other)

DueAsSeen(row) == row.status = "resolved" /\ row.resolvedAt + CloseAfter <= now

\* Every ticket the poller holds exists and was due when the page was read; the
\* one it is about to close had no answer when its comments were looked at.
PollerHolds ==
  /\ \A c \in Held : Exists(c.t) /\ DueAsSeen(c.seen)
  /\ poller.closing # NoCandidate =>
       poller.closing.seen.repliedAt <= poller.closing.seen.resolvedAt

\* A merge whose source was not written since it was read does not go to a
\* ticket that was merged into the source meanwhile.
MergesAhead == \A r \in Requests :
  LET h == req[r] IN
  h.op = "merge" /\ h.seen.version = ticket[h.t].version => ticket[h.other].mergedInto # h.t

\* The inductive invariant the proofs use.
IInv ==
  /\ TypeOK /\ HandlerTargets /\ PollerHolds /\ MergesAhead
  /\ VersionGuards /\ StatusStamped

(***************************************************************************)
(* What overlapping handlers break, and how far.  The workflow's rules are *)
(* checked on a row that is read before the write, so a handler that wakes *)
(* on a row written meanwhile may break them.  Each property says that     *)
(* this is the ONLY way: nothing else breaks the rule, whoever overlaps.   *)
(***************************************************************************)

\* What the handlers that end in a step, the poller among them, had read of t.
WrittenFrom(t) ==
  {req[r].seen : r \in {s \in Requests :
                          req[s].op # "idle" /\ req[s].t = t /\ req'[s] # req[s]}}
  \cup (IF poller.closing.t = t /\ poller'.closing # poller.closing
        THEN {poller.closing.seen} ELSE {})

StaleWrite(t) == \E seen \in WrittenFrom(t) : seen.version # ticket[t].version

\* A ticket's status moves only along the transition table or to "merged",
\* unless its writer had read a row that was written since.
LegalMoves == [][\A t \in Tickets :
  Exists(t) /\ ticket'[t].status # ticket[t].status =>
    \/ <<ticket[t].status, ticket'[t].status>> \in Transitions
    \/ ticket'[t].status = "merged"
    \/ StaleWrite(t)]_vars

\* An edit lands on the row it was validated against: no save of an update
\* overwrites a version its author has not seen.
NoSilentOverwrite == [][\A r \in Requests :
  req[r].op = "update" /\ ticket'[req[r].t].version > ticket[req[r].t].version
    /\ req'[r].op = "idle"
    => req[r].seen.version = ticket[req[r].t].version]_vars

\* A merged ticket keeps its status and its primary, whatever is begun after
\* the merge: only a handler or a poller that had read the ticket before it was
\* merged takes it out again or merges it elsewhere.
MergedIsFinal == [][\A t \in Tickets :
  /\ ticket[t].status = "merged"
  /\ ticket'[t].status # "merged" \/ ticket'[t].mergedInto # ticket[t].mergedInto
  => \E seen \in WrittenFrom(t) : seen.status # "merged"]_vars

\* Two tickets are merged into each other only by a merge that had read its
\* source before the opposite merge wrote it.  (This is what the increment of
\* the PRIMARY's version is good for: its status and its link stay.)
NoMergeCycle == [][\A t, u \in Tickets :
  /\ ticket'[t].mergedInto = u /\ ticket'[u].mergedInto = t
  /\ ticket[t].mergedInto # u
  => StaleWrite(t)]_vars

\* The poller closes only tickets that have been resolved for the configured
\* time and not answered since, unless the row was written after the page was
\* read or the answer came after the comments were looked at.
AutoCloseJustified == [][
  LET c == poller.closing
      row == ticket[c.t]
  IN
  /\ c # NoCandidate /\ poller'.closing = NoCandidate
  /\ ticket'[c.t].version > row.version
  /\ c.seen.version = row.version
  => /\ row.status = "resolved"
     /\ row.resolvedAt + CloseAfter <= now
     /\ row.repliedAt <= row.resolvedAt \/ row.repliedAt # c.seen.repliedAt]_vars

(***************************************************************************)
(* Liveness                                                                *)
(***************************************************************************)
AwaitsClose(t) ==
  /\ t \in AutoCloseDue
  /\ ticket[t].repliedAt <= ticket[t].resolvedAt

\* A resolved ticket whose requester stays silent is eventually closed.
SilenceCloses == \A t \in Tickets : AwaitsClose(t) ~> ~AwaitsClose(t)
=============================================================================
