--------------------------- MODULE TicketsProofs ----------------------------
(***************************************************************************)
(* Proofs about Tickets, for any number of tickets and requests and any    *)
(* interleaving of their handlers with the poller.                         *)
(***************************************************************************)
EXTENDS Tickets, FiniteSetTheorems, TLAPS

(* Every transition leads from a status to a status, and none to "merged". *)
LEMMA StatusFacts ==
  /\ "absent" \notin Statuses /\ "keep" \notin Statuses
  /\ {"new", "open", "scheduled", "pending_approval", "resolved", "closed",
      "cancelled", "merged"} \subseteq Statuses
  /\ \A a, b : <<a, b>> \in Transitions => /\ a \in Statuses /\ b \in Statuses
                                           /\ b # "merged" /\ a # "absent"
<1>1. /\ "absent" \notin Statuses /\ "keep" \notin Statuses
      /\ {"new", "open", "scheduled", "pending_approval", "resolved", "closed",
          "cancelled", "merged"} \subseteq Statuses
  BY DEF Statuses, PausesSla, Terminal
<1>2. ASSUME NEW a, NEW b, <<a, b>> \in Transitions
      PROVE  a \in Statuses /\ b \in Statuses /\ b # "merged" /\ a # "absent"
  BY <1>2 DEF Transitions, Statuses, PausesSla, Terminal
<1>. QED  BY <1>1, <1>2

LEMMA BlankIsRow == Blank \in Row
BY DEF Blank, Row, Never

LEMMA IdleIsHandler == Idle \in Handler
BY BlankIsRow DEF Idle, Handler, Ops

LEMMA InitInv == Init => IInv
<1>. SUFFICES ASSUME Init PROVE IInv
  OBVIOUS
<1>. USE DEF Init
<1>1. TypeOK
  <2>1. ticket \in [Tickets -> Row] /\ req \in [Requests -> Handler]
    BY BlankIsRow, IdleIsHandler
  <2>2. poller \in [batch : SUBSET Candidate, closing : Candidate \cup {NoCandidate}]
    BY DEF IdlePoller
  <2>3. \A t \in Tickets : Exists(t) <=> ticket[t].version >= 1
    BY DEF Exists, Blank
  <2>4. \A r \in Requests : req[r].op = "idle"
    BY DEF Idle
  <2>. QED  BY <2>1, <2>2, <2>3, <2>4 DEF TypeOK
<1>2. HandlerTargets /\ MergesAhead
  BY DEF HandlerTargets, MergesAhead, Idle
<1>h. Held = {} /\ poller.closing = NoCandidate
  BY DEF Held, IdlePoller
<1>3. PollerHolds
  BY <1>h DEF PollerHolds
<1>4. VersionGuards
  BY <1>h DEF VersionGuards, Idle
<1>5. StatusStamped
  BY DEF StatusStamped, Stamped, Blank
<1>. QED  BY <1>1, <1>2, <1>3, <1>4, <1>5 DEF IInv

(***************************************************************************)
(* What a step may do to a row: leave what the guards read and the         *)
(* version alone, or write an existing row one version up.  A link that a  *)
(* row gets leads to a row that is written in the same step.               *)
(***************************************************************************)
RowKept(t) ==
  /\ Guarded(ticket'[t]) = Guarded(ticket[t])
  /\ ticket'[t].version = ticket[t].version

RowWritten(t) ==
  /\ Exists(t)
  /\ ticket'[t].status # "absent"
  /\ ticket'[t].version = ticket[t].version + 1
  /\ Stamped(t, ticket'[t])
  /\ \/ ticket'[t].mergedInto = ticket[t].mergedInto
     \/ \A u \in Tickets : ticket'[t].mergedInto = u =>
          ticket'[u].version = ticket[u].version + 1

(* What a step that begins no request may do to the handlers. *)
HandlersFinish == \A r \in Requests :
  \/ req'[r] = req[r]
  \/ req'[r] = Idle
  \/ req[r].op = "comment" /\ req'[r] = [req[r] EXCEPT !.op = "stamp"]

(* What the poller holds after a step is due, and stamped by the row before. *)
PollerAdvances ==
  /\ poller' \in [batch : SUBSET Candidate, closing : Candidate \cup {NoCandidate}]
  /\ \A c \in Held' : Exists(c.t) /\ DueAsSeen(c.seen)' /\ Stamps(c.seen, ticket[c.t])
  /\ poller'.closing # NoCandidate =>
       poller'.closing.seen.repliedAt <= poller'.closing.seen.resolvedAt

LEMMA HeldFacts ==
  ASSUME TypeOK
  PROVE  /\ Held \subseteq Candidate
         /\ NoTicket \notin Tickets /\ NoCandidate \notin Candidate
<1>1. NoTicket \notin Tickets
  BY TicketsAssumption
<1>. QED  BY <1>1 DEF TypeOK, Held, Candidate, NoCandidate

(* A stamp outlives the writes of the row: they leave it or go past it. *)
LEMMA StampsLast ==
  ASSUME NEW t \in Tickets, NEW seen \in Row, ticket[t] \in Row,
         Stamps(seen, ticket[t]), RowKept(t) \/ RowWritten(t)
  PROVE  /\ Stamps(seen, ticket'[t])
         /\ seen.version = ticket'[t].version =>
              seen.version = ticket[t].version /\ ticket'[t].version = ticket[t].version
<1>1. seen.version \in Nat /\ ticket[t].version \in Nat
  BY DEF Row
<1>. QED  BY <1>1 DEF Stamps, RowKept, RowWritten

(* The poller is left alone, or forgets what it holds. *)
LEMMA PollerStays ==
  ASSUME IInv, poller' = poller \/ poller' = IdlePoller, now' \in Nat, now' >= now
  PROVE  PollerAdvances
<1>1. CASE poller' = poller
  <2>1. Held' = Held
    BY <1>1 DEF Held
  <2>2. \A c \in Held : DueAsSeen(c.seen) => DueAsSeen(c.seen)'
    <3>. SUFFICES ASSUME NEW c \in Held, DueAsSeen(c.seen) PROVE DueAsSeen(c.seen)'
      OBVIOUS
    <3>1. c.seen.resolvedAt \in Nat /\ CloseAfter \in Nat /\ now \in Nat
      BY HeldFacts, TicketsAssumption DEF IInv, TypeOK, Candidate, Row
    <3>. QED  BY <3>1 DEF DueAsSeen
  <2>. QED  BY <1>1, <2>1, <2>2 DEF IInv, TypeOK, PollerHolds, VersionGuards, PollerAdvances
<1>2. CASE poller' = IdlePoller
  <2>1. Held' = {}
    BY <1>2 DEF Held, IdlePoller
  <2>. QED  BY <1>2, <2>1 DEF PollerAdvances, IdlePoller
<1>. QED  BY <1>1, <1>2

(* Such steps preserve the invariant: a write leaves every other handler
   on the same row behind in versions. *)
LEMMA RowSteps ==
  ASSUME IInv,
         ticket' \in [Tickets -> Row],
         \A t \in Tickets : RowKept(t) \/ RowWritten(t),
         req' \in [Requests -> Handler], HandlersFinish,
         PollerAdvances,
         now' \in Nat \ {0}
  PROVE  IInv'
<1>. USE DEF IInv
<1>1. \A t \in Tickets : Exists(t)' <=> Exists(t)
  BY DEF RowKept, RowWritten, Exists, Guarded
<1>2. TypeOK'
  <2>1. \A t \in Tickets : Exists(t)' <=> ticket'[t].version >= 1
    BY <1>1 DEF TypeOK, RowKept, RowWritten, Row
  <2>2. \A r \in Requests : req'[r].op # "idle" =>
          req'[r].t \in Tickets /\ ticket'[req'[r].t].status # "absent"
    BY <1>1 DEF TypeOK, HandlersFinish, Idle, Exists, Handler
  <2>3. \A r \in Requests : (req[r].op # "idle")' =>
          (req[r].t \in Tickets /\ Exists(req[r].t))'
    BY <2>2 DEF Exists
  <2>. QED  BY <2>1, <2>3 DEF TypeOK, PollerAdvances
<1>h. ASSUME NEW r \in Requests, req'[r].op # "idle"
      PROVE  /\ req[r].op # "idle" /\ req'[r].t = req[r].t /\ req'[r].seen = req[r].seen
             /\ req'[r].op # "stamp" => req'[r] = req[r]
             /\ req[r].t \in Tickets /\ req[r].seen \in Row
             /\ Stamps(req[r].seen, ticket[req[r].t])
  <2>1. /\ req[r].op # "idle" /\ req'[r].t = req[r].t /\ req'[r].seen = req[r].seen
        /\ req'[r].op # "stamp" => req'[r] = req[r]
    BY <1>h DEF HandlersFinish, Idle, TypeOK, Handler
  <2>. QED  BY <2>1 DEF TypeOK, Handler, VersionGuards
<1>t. \A t \in Tickets : ticket[t] \in Row
  BY DEF TypeOK
<1>3. HandlerTargets'
  <2>. SUFFICES ASSUME NEW r \in Requests, req'[r].op # "idle", req'[r].op # "stamp"
                PROVE  (LET h == req[r] IN
                        /\ h.op = "update" =>
                             /\ h.target # "merged"
                             /\ h.target # "keep" => <<h.seen.status, h.target>> \in Transitions
                        /\ h.op = "cab" => /\ h.target = "pending_approval"
                                           /\ <<h.seen.status, h.target>> \in Transitions
                        /\ h.op = "verdict" => h.target \in {"cancelled", "open", "scheduled"}
                        /\ h.op = "merge" =>
                             /\ h.seen.status # "merged" /\ h.seen.mergedInto = NoTicket
                             /\ h.other \in Tickets \ {h.t} /\ Exists(h.other))'
    BY DEF HandlerTargets
  <2>1. req'[r] = req[r]
    BY <1>h
  <2>2. req[r].op = "merge" => req[r].other \in Tickets /\ Exists(req[r].other)
    BY DEF HandlerTargets
  <2>3. req[r].op = "merge" => ticket'[req[r].other].status # "absent"
    BY <1>1, <2>2 DEF Exists
  <2>. QED  BY <2>1, <2>3 DEF HandlerTargets, Exists
<1>4. PollerHolds'
  <2>1. \A c \in Held' : c.t \in Tickets
    BY <1>2, HeldFacts DEF PollerAdvances, Candidate, Held
  <2>. QED  BY <1>1, <2>1 DEF PollerHolds, PollerAdvances
<1>5. VersionGuards'
  <2>1. ASSUME NEW r \in Requests, req'[r].op # "idle"
        PROVE  Stamps(req'[r].seen, ticket'[req'[r].t])
    BY <1>h, <1>t, <2>1, StampsLast
  <2>2. ASSUME NEW c \in Held' PROVE Stamps(c.seen, ticket'[c.t])
    <3>1. c.t \in Tickets /\ c.seen \in Row
      BY DEF PollerAdvances, Candidate, Held
    <3>2. Stamps(c.seen, ticket[c.t])
      BY DEF PollerAdvances
    <3>. QED  BY <1>t, <3>1, <3>2, StampsLast
  <2>. QED  BY <2>1, <2>2 DEF VersionGuards, Stamps
<1>6. StatusStamped'
  BY DEF StatusStamped, Stamped, RowKept, RowWritten, Guarded
<1>7. MergesAhead'
  <2>. SUFFICES ASSUME NEW r \in Requests, req'[r].op = "merge",
                       req'[r].seen.version = ticket'[req'[r].t].version
                PROVE  ticket'[req'[r].other].mergedInto # req'[r].t
    BY DEF MergesAhead
  <2>1. req'[r] = req[r] /\ req[r].op = "merge" /\ req[r].t \in Tickets
    BY <1>h
  <2>2. /\ req[r].seen.version = ticket[req[r].t].version
        /\ ticket'[req[r].t].version = ticket[req[r].t].version
    BY <1>h, <1>t, <2>1, StampsLast
  <2>3. ticket[req[r].other].mergedInto # req[r].t
    BY <2>1, <2>2 DEF MergesAhead
  <2>4. req[r].other \in Tickets /\ ticket[req[r].t].version \in Nat
    BY <1>t, <2>1 DEF HandlerTargets, Row
  <2>. QED  BY <2>1, <2>2, <2>3, <2>4 DEF RowKept, RowWritten, Guarded
<1>. QED  BY <1>2, <1>3, <1>4, <1>5, <1>6, <1>7

(* A request that begins holds the row as it is. *)
LEMMA BeginStep ==
  ASSUME IInv,
         NEW r \in Requests, NEW t \in Tickets, Exists(t),
         NEW op \in Ops \ {"idle", "stamp"},
         NEW target \in Statuses \cup {"keep"},
         NEW other \in Tickets \cup {NoTicket},
         op = "update" => /\ target # "merged"
                          /\ target # "keep" => <<ticket[t].status, target>> \in Transitions,
         op = "cab" => /\ target = "pending_approval"
                       /\ <<ticket[t].status, target>> \in Transitions,
         op = "verdict" => target \in {"cancelled", "open", "scheduled"},
         op = "merge" => /\ ticket[t].status # "merged" /\ ticket[t].mergedInto = NoTicket
                         /\ other \in Tickets \ {t} /\ Exists(other)
                         /\ ticket[other].mergedInto = NoTicket,
         Begin(r, op, t, target, other)
  PROVE  IInv'
<1>. USE DEF IInv, Begin
<1>. DEFINE h == [op |-> op, t |-> t, seen |-> ticket[t],
                  target |-> target, other |-> other]
<1>1. ticket[t] \in Row
  BY DEF TypeOK
<1>2. h \in Handler
  BY <1>1 DEF Handler
<1>3. req' = [req EXCEPT ![r] = h] /\ UNCHANGED <<ticket, poller, now>>
  OBVIOUS
<1>4. \A s \in Requests : req'[s] = IF s = r THEN h ELSE req[s]
  BY <1>3 DEF TypeOK
<1>5. TypeOK'
  <2>1. req' \in [Requests -> Handler]
    BY <1>2, <1>3 DEF TypeOK
  <2>2. \A s \in Requests : req'[s].op # "idle" =>
          req'[s].t \in Tickets /\ ticket[req'[s].t].status # "absent"
    BY <1>4 DEF TypeOK, Exists
  <2>. QED  BY <1>3, <2>1, <2>2 DEF TypeOK, Exists
<1>6. HandlerTargets'
  BY <1>3, <1>4 DEF HandlerTargets, Exists
<1>h. Held' = Held
  BY <1>3 DEF Held
<1>7. PollerHolds'
  BY <1>3, <1>h DEF PollerHolds, Exists, DueAsSeen
<1>8. VersionGuards'
  <2>1. Stamps(ticket[t], ticket[t])
    BY <1>1 DEF Stamps, Row
  <2>. QED  BY <1>3, <1>4, <1>h, <2>1 DEF VersionGuards, Stamps, Guarded
<1>9. StatusStamped'
  BY <1>3 DEF StatusStamped
<1>10. MergesAhead'
  BY <1>3, <1>4, TicketsAssumption DEF MergesAhead
<1>. QED  BY <1>5, <1>6, <1>7, <1>8, <1>9, <1>10

LEMMA StartStep ==
  ASSUME IInv, NEW r \in Requests, Start(r)
  PROVE  IInv'
<1>. USE TicketsAssumption, StatusFacts DEF Ops
<1>1. PICK t \in Tickets :
        \/ \E target \in Targets \cup {"keep"}, who \in {"staff", "requester"} :
             BeginUpdate(r, t, target, who)
        \/ BeginCab(r, t)
        \/ \E target \in Statuses : BeginVerdict(r, t, target)
        \/ \E primary \in Tickets : BeginMerge(r, t, primary)
        \/ BeginComment(r, t)
  BY DEF Start
<1>2. ASSUME NEW target \in Targets \cup {"keep"}, NEW who \in {"staff", "requester"},
             BeginUpdate(r, t, target, who)
      PROVE  IInv'
  <2>1. target # "keep" => <<ticket[t].status, target>> \in Transitions
    BY <1>2 DEF BeginUpdate
  <2>2. target # "merged"
    BY <2>1
  <2>. QED  BY <1>2, <2>1, <2>2, BeginStep DEF BeginUpdate, Found
<1>3. CASE BeginCab(r, t)
  BY <1>3, BeginStep DEF BeginCab, Found
<1>4. ASSUME NEW target \in Statuses, BeginVerdict(r, t, target)
      PROVE  IInv'
  <2>1. target \in {"cancelled", "open", "scheduled"}
    BY <1>4 DEF BeginVerdict, ApprovedStatus
  <2>. QED  BY <1>4, <2>1, BeginStep DEF BeginVerdict
<1>5. ASSUME NEW primary \in Tickets, BeginMerge(r, t, primary)
      PROVE  IInv'
  BY <1>5, BeginStep DEF BeginMerge, Found
<1>6. CASE BeginComment(r, t)
  BY <1>6, BeginStep DEF BeginComment, Found
<1>. QED  BY <1>1, <1>2, <1>3, <1>4, <1>5, <1>6

(* What the writers' columns are. *)
LEMMA BumpFacts ==
  ASSUME NEW row \in Row
  PROVE  /\ Bump(row) \in Row
         /\ Bump(row).version = row.version + 1
         /\ Guarded(Bump(row)) = Guarded(row)
         /\ Bump(row).repliedAt = row.repliedAt
BY DEF Bump, Row, Guarded

LEMMA MovedFacts ==
  ASSUME NEW row \in Row, NEW from, NEW to \in Statuses, now \in Nat
  PROVE  /\ Moved(row, from, to) \in Row
         /\ Moved(row, from, to).status = to
         /\ Moved(row, from, to).version = row.version
         /\ Moved(row, from, to).mergedInto = row.mergedInto
         /\ Moved(row, from, to).resolvedAt = ResolvedAfter(row, from, to)
         /\ Moved(row, from, to).closedAt = ClosedAfter(row, from, to)
<1>1. ResolvedAfter(row, from, to) \in Nat /\ ClosedAfter(row, from, to) \in Nat
  BY DEF ResolvedAfter, ClosedAfter, Never, Row
<1>. QED  BY <1>1 DEF Moved, Row

(* Handlers that write one row. *)
LEMMA WriteStep ==
  ASSUME IInv,
         NEW r \in Requests, req[r].op # "idle",
         NEW row \in Row, row.status # "absent",
         row.version = ticket[req[r].t].version + 1,
         row.mergedInto = ticket[req[r].t].mergedInto,
         Stamped(req[r].t, row),
         ticket' = [ticket EXCEPT ![req[r].t] = row],
         Finish(r), UNCHANGED <<poller, now>>
  PROVE  IInv'
<1>. USE DEF IInv, Finish
<1>1. req[r].t \in Tickets /\ Exists(req[r].t)
  BY DEF TypeOK
<1>2. ticket' \in [Tickets -> Row]
  BY <1>1 DEF TypeOK
<1>3. \A t \in Tickets : RowKept(t) \/ RowWritten(t)
  BY <1>1 DEF TypeOK, RowKept, RowWritten
<1>4. req' \in [Requests -> Handler] /\ HandlersFinish
  BY IdleIsHandler DEF TypeOK, HandlersFinish
<1>5. PollerAdvances /\ now' \in Nat \ {0}
  BY PollerStays DEF TypeOK
<1>. QED  BY <1>2, <1>3, <1>4, <1>5, RowSteps

LEMMA UpdateStep ==
  ASSUME IInv, NEW r \in Requests, CompleteUpdate(r)
  PROVE  IInv'
<1>. DEFINE h == req[r]
            old == ticket[h.t]
            row == Bump(IF h.target = "keep" THEN old
                        ELSE Moved(old, h.seen.status, h.target))
<1>1. h \in Handler /\ h.op = "update" /\ h.t \in Tickets /\ Exists(h.t)
  BY DEF IInv, TypeOK, CompleteUpdate
<1>2. old \in Row /\ old.status # "absent" /\ now \in Nat \ {0}
  BY <1>1 DEF IInv, TypeOK, Exists
<1>3. h.target \in Statuses \cup {"keep"} /\ h.target # "merged"
  BY <1>1 DEF IInv, HandlerTargets, Handler
<1>4. Stamped(h.t, old)
  BY <1>1 DEF IInv, StatusStamped
<1>5. /\ row \in Row /\ row.status # "absent" /\ row.version = old.version + 1
      /\ row.mergedInto = old.mergedInto
  <2>1. CASE h.target = "keep"
    BY <1>2, <2>1, BumpFacts DEF Guarded
  <2>2. CASE h.target # "keep"
    BY <1>2, <1>3, <2>2, StatusFacts, MovedFacts, BumpFacts DEF Guarded
  <2>. QED  BY <2>1, <2>2
<1>6. Stamped(h.t, row)
  <2>1. CASE h.target = "keep"
    BY <1>2, <1>4, <2>1, BumpFacts DEF Guarded, Stamped
  <2>2. CASE h.target # "keep"
    <3>. DEFINE moved == Moved(old, h.seen.status, h.target)
    <3>1. /\ moved \in Row /\ moved.status = h.target
          /\ moved.resolvedAt = ResolvedAfter(old, h.seen.status, h.target)
          /\ moved.closedAt = ClosedAfter(old, h.seen.status, h.target)
      BY <1>2, <1>3, <2>2, MovedFacts
    <3>2. /\ row.status = moved.status /\ row.resolvedAt = moved.resolvedAt
          /\ row.closedAt = moved.closedAt
      BY <2>2, <3>1, BumpFacts DEF Guarded
    <3>. QED  BY <1>2, <1>3, <3>1, <3>2 DEF Stamped, ResolvedAfter, ClosedAfter, Never
  <2>. QED  BY <2>1, <2>2
<1>7. /\ ticket' = [ticket EXCEPT ![h.t] = row]
      /\ Finish(r) /\ UNCHANGED <<poller, now>>
  BY DEF CompleteUpdate
<1>. HIDE DEF row
<1>. QED  BY <1>1, <1>5, <1>6, <1>7, WriteStep

(* CAB submissions and verdicts write a status that needs no stamp. *)
LEMMA PlainStatusStep ==
  ASSUME IInv, NEW r \in Requests, req[r].op # "idle",
         req[r].target \in {"pending_approval", "cancelled", "open", "scheduled"},
         ticket' = [ticket EXCEPT ![req[r].t] = [Bump(@) EXCEPT !.status = req[r].target]],
         Finish(r), UNCHANGED <<poller, now>>
  PROVE  IInv'
<1>. DEFINE h == req[r]
            old == ticket[h.t]
            row == [Bump(old) EXCEPT !.status = h.target]
<1>1. h.t \in Tickets /\ old \in Row
  BY DEF IInv, TypeOK
<1>2. /\ Bump(old) \in Row /\ Bump(old).version = old.version + 1
      /\ Bump(old).mergedInto = old.mergedInto
  BY <1>1, BumpFacts DEF Guarded
<1>3. h.target \in Statuses /\ h.target # "absent"
  BY StatusFacts
<1>4. /\ row \in Row /\ row.status = h.target /\ row.version = old.version + 1
      /\ row.mergedInto = old.mergedInto
  BY <1>2, <1>3 DEF Row
<1>5. Stamped(h.t, row)
  BY <1>4 DEF Stamped
<1>. QED  BY <1>3, <1>4, <1>5, WriteStep

LEMMA MergeStep ==
  ASSUME IInv, NEW r \in Requests, CompleteMerge(r)
  PROVE  IInv'
<1>. USE DEF IInv
<1>. DEFINE h == req[r]
            copied == IF RequesterOf[h.t] = RequesterOf[h.other]
                      THEN h.seen.repliedAt ELSE Never
            source == [Bump(ticket[h.t]) EXCEPT !.status = "merged",
                         !.mergedInto = h.other, !.closedAt = now]
            primary == [Bump(ticket[h.other]) EXCEPT !.repliedAt = Later(@, copied)]
<1>1. /\ h \in Handler /\ h.op = "merge" /\ h.t \in Tickets /\ Exists(h.t)
      /\ h.other \in Tickets \ {h.t} /\ Exists(h.other)
  BY DEF TypeOK, CompleteMerge, HandlerTargets
<1>2. /\ ticket[h.t] \in Row /\ ticket[h.other] \in Row /\ h.seen \in Row
      /\ now \in Nat \ {0}
  BY <1>1 DEF TypeOK, Handler
<1>3. ticket' = [t \in Tickets |-> IF t = h.t THEN source
                                   ELSE IF t = h.other THEN primary ELSE ticket[t]]
  BY <1>1 DEF CompleteMerge
<1>4. /\ source \in Row /\ source.status = "merged" /\ source.mergedInto = h.other
      /\ source.version = ticket[h.t].version + 1
      /\ Stamped(h.t, source)
  <2>. DEFINE bumped == Bump(ticket[h.t])
  <2>1. bumped \in Row /\ bumped.version = ticket[h.t].version + 1
    BY <1>2, BumpFacts
  <2>. HIDE DEF bumped
  <2>2. source = [bumped EXCEPT !.status = "merged", !.mergedInto = h.other,
                                !.closedAt = now]
    BY DEF bumped
  <2>3. /\ source \in Row /\ source.status = "merged" /\ source.closedAt = now
        /\ source.mergedInto = h.other /\ source.version = bumped.version
    BY <1>1, <1>2, <2>1, <2>2, StatusFacts DEF Row
  <2>. QED  BY <1>1, <1>2, <2>1, <2>3 DEF Stamped, Never
<1>5. /\ primary \in Row
      /\ Guarded(primary) = Guarded(ticket[h.other])
      /\ primary.version = ticket[h.other].version + 1
  <2>. DEFINE bumped == Bump(ticket[h.other])
              replied == Later(bumped.repliedAt, copied)
  <2>1. /\ bumped \in Row /\ bumped.version = ticket[h.other].version + 1
        /\ Guarded(bumped) = Guarded(ticket[h.other])
    BY <1>2, BumpFacts
  <2>2. primary = [bumped EXCEPT !.repliedAt = replied]
    OBVIOUS
  <2>3. replied \in Nat
    BY <1>2, <2>1 DEF Later, Row, Never
  <2>. HIDE DEF bumped, replied
  <2>. QED  BY <2>1, <2>2, <2>3 DEF Row, Guarded
<1>. HIDE DEF source, primary, copied
<1>6. \A t \in Tickets : ticket'[t] = IF t = h.t THEN source
                                      ELSE IF t = h.other THEN primary
                                      ELSE ticket[t]
  BY <1>1, <1>3 DEF TypeOK
<1>7. ticket' \in [Tickets -> Row]
  BY <1>3, <1>4, <1>5 DEF TypeOK
<1>8. \A t \in Tickets : RowKept(t) \/ RowWritten(t)
  <2>1. RowWritten(h.t)
    BY <1>1, <1>4, <1>5, <1>6 DEF RowWritten
  <2>2. Stamped(h.other, primary)
    BY <1>1, <1>5 DEF StatusStamped, Stamped, Guarded
  <2>3. RowWritten(h.other)
    BY <1>1, <1>5, <1>6, <2>2 DEF RowWritten, Exists, Guarded
  <2>4. ASSUME NEW t \in Tickets \ {h.t, h.other}  PROVE RowKept(t)
    BY <1>6 DEF RowKept
  <2>. QED  BY <2>1, <2>3, <2>4
<1>9. req' \in [Requests -> Handler] /\ HandlersFinish
  BY IdleIsHandler DEF CompleteMerge, Finish, TypeOK, HandlersFinish
<1>10. UNCHANGED <<poller, now>>
  BY DEF CompleteMerge
<1>11. PollerAdvances /\ now' \in Nat \ {0}
  BY <1>10, PollerStays DEF TypeOK
<1>. QED  BY <1>7, <1>8, <1>9, <1>11, RowSteps

(* Comments and deletions leave the version and the guarded columns. *)
LEMMA CommentStep ==
  ASSUME IInv, NEW r \in Requests,
         \/ \E who \in {"staff", "requester"}, internal \in BOOLEAN :
              InsertComment(r, who, internal)
         \/ StampFirstResponse(r)
  PROVE  IInv'
<1>. USE DEF IInv
<1>. DEFINE t == req[r].t
            old == ticket[t]
<1>1. t \in Tickets /\ old \in Row /\ req[r] \in Handler /\ now \in Nat \ {0}
  BY DEF TypeOK, InsertComment, StampFirstResponse
<1>2. PICK row \in Row :
        /\ ticket' = [ticket EXCEPT ![t] = row]
        /\ Guarded(row) = Guarded(old) /\ row.version = old.version
  <2>1. CASE StampFirstResponse(r)
    <3>1. ticket' = [ticket EXCEPT ![t] = [old EXCEPT !.firstResponseAt = now]]
      BY <2>1 DEF StampFirstResponse
    <3>2. [old EXCEPT !.firstResponseAt = now] \in Row
      BY <1>1 DEF Row
    <3>. QED  BY <1>1, <3>1, <3>2 DEF Guarded, Row
  <2>2. ASSUME NEW who \in {"staff", "requester"}, NEW internal \in BOOLEAN,
               InsertComment(r, who, internal)
        PROVE  \E row \in Row :
                 /\ ticket' = [ticket EXCEPT ![t] = row]
                 /\ Guarded(row) = Guarded(old) /\ row.version = old.version
    <3>. DEFINE n == IF who = "requester" /\ ~internal THEN now ELSE old.repliedAt
    <3>1. ticket' = [ticket EXCEPT ![t] = [old EXCEPT !.repliedAt = n]]
      BY <2>2 DEF InsertComment
    <3>2. n \in Nat
      BY <1>1 DEF Row
    <3>. HIDE DEF n
    <3>3. [old EXCEPT !.repliedAt = n] \in Row
      BY <1>1, <3>2 DEF Row
    <3>. QED  BY <1>1, <3>1, <3>3 DEF Guarded, Row
  <2>. QED  BY <2>1, <2>2
<1>3. ticket' \in [Tickets -> Row]
  BY <1>1, <1>2 DEF TypeOK
<1>4. \A u \in Tickets : RowKept(u) \/ RowWritten(u)
  BY <1>1, <1>2 DEF TypeOK, RowKept
<1>5. req' \in [Requests -> Handler] /\ HandlersFinish
  BY <1>1, IdleIsHandler
  DEF InsertComment, StampFirstResponse, Finish, TypeOK, HandlersFinish, Handler, Ops
<1>6. UNCHANGED <<poller, now>>
  BY DEF InsertComment, StampFirstResponse
<1>7. PollerAdvances /\ now' \in Nat \ {0}
  BY <1>6, PollerStays DEF TypeOK
<1>. QED  BY <1>3, <1>4, <1>5, <1>7, RowSteps

(* A handler that writes nothing. *)
LEMMA IdleStep ==
  ASSUME IInv, NEW r \in Requests, Finish(r), UNCHANGED <<ticket, poller, now>>
  PROVE  IInv'
<1>1. /\ ticket' \in [Tickets -> Row]
      /\ \A t \in Tickets : RowKept(t) \/ RowWritten(t)
      /\ PollerAdvances /\ now' \in Nat \ {0}
  BY PollerStays DEF IInv, TypeOK, RowKept
<1>2. req' \in [Requests -> Handler] /\ HandlersFinish
  BY IdleIsHandler DEF IInv, TypeOK, Finish, HandlersFinish
<1>. QED  BY <1>1, <1>2, RowSteps

LEMMA CompleteStep ==
  ASSUME IInv, NEW r \in Requests, Complete(r)
  PROVE  IInv'
<1>1. CASE CompleteUpdate(r)
  BY <1>1, UpdateStep
<1>2. CASE CompleteCab(r)
  BY <1>2, PlainStatusStep DEF CompleteCab, IInv, HandlerTargets
<1>3. CASE CompleteVerdict(r)
  <2>1. CASE <<req[r].seen.status, req[r].target>> \in Transitions
    BY <1>3, <2>1, PlainStatusStep DEF CompleteVerdict, IInv, HandlerTargets
  <2>2. CASE <<req[r].seen.status, req[r].target>> \notin Transitions
    BY <1>3, <2>2, IdleStep DEF CompleteVerdict
  <2>. QED  BY <2>1, <2>2
<1>4. CASE CompleteMerge(r)
  BY <1>4, MergeStep
<1>5. CASE \/ \E who \in {"staff", "requester"}, internal \in BOOLEAN :
                InsertComment(r, who, internal)
           \/ StampFirstResponse(r)
  BY <1>5, CommentStep
<1>6. CASE Abandon(r)
  BY <1>6, IdleStep DEF Abandon
<1>. QED  BY <1>1, <1>2, <1>3, <1>4, <1>5, <1>6 DEF Complete

(* Steps that leave the handlers alone, or drop them. *)
LEMMA EnvironmentStep ==
  ASSUME IInv, Crash \/ Tick \/ UNCHANGED vars
  PROVE  IInv'
<1>. USE DEF IInv
<1>1. /\ ticket' = ticket
      /\ poller' = poller \/ poller' = IdlePoller
      /\ now' \in Nat \ {0} /\ now' >= now
  BY DEF Crash, Tick, vars, TypeOK
<1>2. req' \in [Requests -> Handler] /\ HandlersFinish
  BY IdleIsHandler DEF Crash, Tick, vars, TypeOK, HandlersFinish
<1>3. /\ ticket' \in [Tickets -> Row]
      /\ \A t \in Tickets : RowKept(t) \/ RowWritten(t)
  BY <1>1 DEF TypeOK, RowKept
<1>4. PollerAdvances
  BY <1>1, PollerStays
<1>. QED  BY <1>1, <1>2, <1>3, <1>4, RowSteps

LEMMA PollStep ==
  ASSUME IInv, Poll
  PROVE  IInv'
<1>. USE DEF IInv
<1>1. UNCHANGED <<req, now>> /\ HandlersFinish
  BY DEF Poll, PollScan, PollInspect, PollClose, HandlersFinish
<1>2. req' \in [Requests -> Handler] /\ now' \in Nat \ {0}
  BY <1>1 DEF TypeOK
<1>t. \A t \in Tickets : ticket[t] \in Row /\ Stamps(ticket[t], ticket[t])
  BY DEF TypeOK, Row, Stamps
<1>3. CASE PollScan
  <2>1. PICK page \in SUBSET AutoCloseDue :
          poller' = [poller EXCEPT !.batch = {[t |-> t, seen |-> ticket[t]] : t \in page}]
    BY <1>3 DEF PollScan
  <2>2. \A t \in page : t \in Tickets /\ Exists(t) /\ DueAsSeen(ticket[t])
    BY DEF AutoCloseDue, Exists, DueAsSeen
  <2>3. poller.closing = NoCandidate
    BY <1>3 DEF PollScan, Polling, IdlePoller
  <2>4. /\ poller'.batch = {[t |-> t, seen |-> ticket[t]] : t \in page}
        /\ poller'.closing = NoCandidate
        /\ poller' = [batch |-> poller'.batch, closing |-> poller'.closing]
    BY <2>1, <2>3 DEF TypeOK
  <2>5. Held' = poller'.batch
    BY <2>4 DEF Held
  <2>6. poller'.batch \subseteq Candidate
    BY <1>t, <2>2, <2>4 DEF Candidate
  <2>7. \A c \in Held' : Exists(c.t) /\ DueAsSeen(c.seen)' /\ Stamps(c.seen, ticket[c.t])
    BY <1>1, <1>t, <2>2, <2>4, <2>5 DEF DueAsSeen
  <2>8. PollerAdvances
    BY <2>4, <2>6, <2>7 DEF PollerAdvances
  <2>9. /\ ticket' \in [Tickets -> Row]
        /\ \A t \in Tickets : RowKept(t) \/ RowWritten(t)
    BY <1>3 DEF PollScan, TypeOK, RowKept
  <2>. QED  BY <1>1, <1>2, <2>8, <2>9, RowSteps
<1>4. ASSUME NEW c \in poller.batch, PollInspect(c)
      PROVE  IInv'
  <2>1. c \in Held /\ c \in Candidate /\ c.t \in Tickets /\ c.seen \in Row
    BY HeldFacts DEF Held, Candidate
  <2>2. Exists(c.t) /\ DueAsSeen(c.seen) /\ Stamps(c.seen, ticket[c.t])
    BY <2>1 DEF PollerHolds, VersionGuards
  <2>3. /\ Inspected(c) \in Candidate /\ Inspected(c).t = c.t
        /\ Inspected(c).seen.repliedAt = ticket[c.t].repliedAt
        /\ Inspected(c).seen.version = c.seen.version
        /\ Inspected(c).seen.status = c.seen.status
        /\ Inspected(c).seen.resolvedAt = c.seen.resolvedAt
        /\ Guarded(Inspected(c).seen) = Guarded(c.seen)
    <3>1. ticket[c.t].repliedAt \in Nat
      BY <1>t, <2>1 DEF Row
    <3>. DEFINE seen == [c.seen EXCEPT !.repliedAt = ticket[c.t].repliedAt]
    <3>2. /\ seen \in Row /\ seen.repliedAt = ticket[c.t].repliedAt
          /\ seen.version = c.seen.version /\ seen.status = c.seen.status
          /\ seen.resolvedAt = c.seen.resolvedAt /\ seen.closedAt = c.seen.closedAt
          /\ seen.mergedInto = c.seen.mergedInto
      BY <2>1, <3>1 DEF Row
    <3>3. Inspected(c) = [c EXCEPT !.seen = seen]
      BY DEF Inspected
    <3>. HIDE DEF seen
    <3>4. Inspected(c) \in Candidate /\ Inspected(c).t = c.t /\ Inspected(c).seen = seen
      BY <2>1, <3>2, <3>3 DEF Candidate
    <3>. QED  BY <3>2, <3>4 DEF Guarded
  <2>i. PICK d \in Candidate : d = Inspected(c)
    BY <2>3
  <2>4. DueAsSeen(d.seen)' /\ Stamps(d.seen, ticket[c.t])
    BY <1>1, <2>2, <2>3, <2>i DEF DueAsSeen, Stamps
  <2>5. /\ poller'.batch = poller.batch \ {c}
        /\ poller'.closing = IF ticket[c.t].repliedAt > c.seen.resolvedAt
                             THEN NoCandidate ELSE d
        /\ poller' = [batch |-> poller'.batch, closing |-> poller'.closing]
    BY <1>4, <2>i DEF PollInspect
  <2>6. \A e \in Held' : e \in Held \/ e = d
    BY <2>5 DEF Held
  <2>7. \A e \in Held : Exists(e.t) /\ DueAsSeen(e.seen)' /\ Stamps(e.seen, ticket[e.t])
    BY <1>1 DEF PollerHolds, VersionGuards, DueAsSeen
  <2>8. \A e \in Held' : Exists(e.t) /\ DueAsSeen(e.seen)' /\ Stamps(e.seen, ticket[e.t])
    <3>1. Exists(d.t) /\ Stamps(d.seen, ticket[d.t])
      BY <2>2, <2>3, <2>4, <2>i
    <3>. QED  BY <2>4, <2>6, <2>7, <3>1
  <2>9. poller'.closing # NoCandidate =>
          poller'.closing.seen.repliedAt <= poller'.closing.seen.resolvedAt
    <3>1. ticket[c.t].repliedAt \in Nat /\ c.seen.resolvedAt \in Nat
      BY <1>t, <2>1 DEF Row
    <3>. QED  BY <2>3, <2>5, <2>i, <3>1
  <2>10. poller' \in [batch : SUBSET Candidate, closing : Candidate \cup {NoCandidate}]
    BY <2>3, <2>5 DEF TypeOK
  <2>11. PollerAdvances
    BY <2>8, <2>9, <2>10 DEF PollerAdvances
  <2>12. /\ ticket' \in [Tickets -> Row]
         /\ \A t \in Tickets : RowKept(t) \/ RowWritten(t)
    BY <1>4 DEF PollInspect, TypeOK, RowKept
  <2>. QED  BY <1>1, <1>2, <2>11, <2>12, RowSteps
<1>5. CASE PollClose
  <2>. DEFINE c == poller.closing
              t == c.t
              row == [Bump(ticket[t]) EXCEPT !.status = "closed", !.closedAt = now]
  <2>1. c \in Held /\ t \in Tickets /\ Exists(t) /\ ticket[t] \in Row /\ now \in Nat \ {0}
    BY <1>5, HeldFacts DEF PollClose, TypeOK, PollerHolds, Held, Candidate
  <2>2. /\ Bump(ticket[t]) \in Row /\ Bump(ticket[t]).version = ticket[t].version + 1
        /\ Bump(ticket[t]).mergedInto = ticket[t].mergedInto
    BY <2>1, BumpFacts DEF Guarded
  <2>3. /\ row \in Row /\ row.status = "closed" /\ row.closedAt = now
        /\ row.version = ticket[t].version + 1 /\ row.mergedInto = ticket[t].mergedInto
    BY <2>1, <2>2, StatusFacts DEF Row
  <2>4. ticket' = [ticket EXCEPT ![t] = row]
    BY <1>5 DEF PollClose
  <2>. HIDE DEF row
  <2>5. ticket' \in [Tickets -> Row]
    BY <2>1, <2>3, <2>4 DEF TypeOK
  <2>6. \A u \in Tickets : RowKept(u) \/ RowWritten(u)
    BY <2>1, <2>3, <2>4 DEF TypeOK, RowKept, RowWritten, Stamped, Never
  <2>7. /\ poller'.batch = poller.batch /\ poller'.closing = NoCandidate
        /\ poller' \in [batch : SUBSET Candidate, closing : Candidate \cup {NoCandidate}]
    BY <1>5 DEF PollClose, TypeOK
  <2>8. Held' \subseteq Held
    BY <2>7 DEF Held
  <2>9. \A d \in Held : Exists(d.t) /\ DueAsSeen(d.seen)' /\ Stamps(d.seen, ticket[d.t])
    BY <1>1 DEF PollerHolds, VersionGuards, DueAsSeen
  <2>10. PollerAdvances
    BY <2>7, <2>8, <2>9 DEF PollerAdvances
  <2>. QED  BY <1>1, <1>2, <2>5, <2>6, <2>10, RowSteps
<1>. QED  BY <1>3, <1>4, <1>5 DEF Poll

(* A created ticket was absent, so nothing in flight refers to it. *)
LEMMA NewRowStep ==
  ASSUME IInv, NEW t \in Tickets, ~Exists(t),
         NEW status \in {"new", "pending_approval", "under_investigation"},
         ticket' = [ticket EXCEPT
           ![t] = [Blank EXCEPT !.status = status, !.version = 1]],
         UNCHANGED <<req, poller, now>>
  PROVE  IInv'
<1>. USE DEF IInv
<1>. DEFINE row == [Blank EXCEPT !.status = status, !.version = 1]
<1>1. /\ ~Exists(t)
      /\ ticket' = [ticket EXCEPT ![t] = row]
      /\ UNCHANGED <<req, poller, now>>
  OBVIOUS
<1>2. /\ row \in Row /\ row.status = status /\ row.version = 1
      /\ status \in {"new", "pending_approval", "under_investigation"}
      /\ status # "absent"
  <2>1. status \in Statuses
    BY DEF Statuses, PausesSla
  <2>. QED  BY <2>1, BlankIsRow DEF Blank, Row
<1>. HIDE DEF row
<1>3. /\ ticket'[t] = row
      /\ \A u \in Tickets \ {t} : ticket'[u] = ticket[u]
      /\ ticket' \in [Tickets -> Row]
  BY <1>1, <1>2 DEF TypeOK
<1>4. \A u \in Tickets : Exists(u) => u # t /\ ticket'[u].status # "absent"
  BY <1>1, <1>3 DEF Exists
<1>5. TypeOK'
  <2>1. \A u \in Tickets : (ticket'[u].status # "absent") <=> ticket'[u].version >= 1
    BY <1>2, <1>3 DEF TypeOK, Exists
  <2>. QED  BY <1>1, <1>3, <1>4, <2>1 DEF TypeOK, Exists
<1>6. HandlerTargets'
  BY <1>1, <1>4 DEF HandlerTargets, Exists
<1>h. Held' = Held /\ \A c \in Held : c.t \in Tickets /\ Exists(c.t)
  BY <1>1, HeldFacts DEF Held, PollerHolds, Candidate
<1>7. PollerHolds'
  BY <1>1, <1>3, <1>4, <1>h DEF PollerHolds, Exists, DueAsSeen
<1>8. VersionGuards'
  <2>1. \A r \in Requests : req[r].op # "idle" =>
          /\ req[r].t \in Tickets \ {t}
          /\ ticket'[req[r].t] = ticket[req[r].t]
    BY <1>3, <1>4 DEF TypeOK
  <2>2. \A c \in Held : ticket'[c.t] = ticket[c.t]
    BY <1>3, <1>4, <1>h
  <2>. QED  BY <1>1, <1>h, <2>1, <2>2 DEF VersionGuards, Stamps
<1>9. StatusStamped'
  BY <1>2, <1>3 DEF StatusStamped, Stamped
<1>10. MergesAhead'
  <2>1. \A r \in Requests : req[r].op = "merge" =>
          /\ req[r].t \in Tickets \ {t} /\ req[r].other \in Tickets \ {t}
    BY <1>4 DEF TypeOK, HandlerTargets
  <2>. QED  BY <1>1, <1>3, <2>1 DEF MergesAhead
<1>. QED  BY <1>5, <1>6, <1>7, <1>8, <1>9, <1>10

LEMMA DeleteStep ==
  ASSUME IInv, NEW t \in Tickets, SoftDelete(t)
  PROVE  IInv'
<1>. USE DEF IInv
<1>1. /\ ticket' = [ticket EXCEPT ![t] = [ticket[t] EXCEPT !.deleted = TRUE]]
      /\ UNCHANGED <<req, poller, now>>
  BY DEF SoftDelete
<1>2. [ticket[t] EXCEPT !.deleted = TRUE] \in Row
  BY DEF TypeOK, Row
<1>3. /\ ticket' \in [Tickets -> Row]
      /\ \A u \in Tickets : RowKept(u) \/ RowWritten(u)
  BY <1>1, <1>2 DEF TypeOK, RowKept, Guarded, Row
<1>4. /\ req' \in [Requests -> Handler] /\ HandlersFinish
      /\ PollerAdvances /\ now' \in Nat \ {0}
  BY <1>1, PollerStays DEF TypeOK, HandlersFinish
<1>. QED  BY <1>3, <1>4, RowSteps

LEMMA NextInv == IInv /\ [Next]_vars => IInv'
<1>. SUFFICES ASSUME IInv, [Next]_vars PROVE IInv'
  OBVIOUS
<1>1. ASSUME NEW t \in Tickets, Create(t) \/ SoftDelete(t)
      PROVE  IInv'
  BY <1>1, NewRowStep, DeleteStep DEF Create
<1>5. ASSUME NEW t \in Tickets, NEW source \in Tickets, RaiseProblem(source, t)
      PROVE  IInv'
  BY <1>5, NewRowStep DEF RaiseProblem
<1>2. ASSUME NEW r \in Requests, Start(r) \/ Complete(r)
      PROVE  IInv'
  BY <1>2, StartStep, CompleteStep
<1>3. CASE Poll
  BY <1>3, PollStep
<1>4. CASE Crash \/ Tick \/ UNCHANGED vars
  BY <1>4, EnvironmentStep
<1>. QED  BY <1>1, <1>2, <1>3, <1>4, <1>5 DEF Next

(* The inductive invariant holds in every reachable state. *)
THEOREM Invariance == Spec => []IInv
<1>. QED  BY InitInv, NextInv, PTL DEF Spec

(* Rows, handlers and poller keep their shape, a row exists exactly from its
   version 1 on, and no handler works for a ticket that was never created. *)
THEOREM TypeCorrect == Spec => []TypeOK
<1>1. IInv => TypeOK
  BY DEF IInv
<1>. QED  BY <1>1, Invariance, PTL

(* A handler that still finds the version it read still finds the status,
   the timestamps and the link its checks were made on: comparing versions at
   the write would be enough to make every handler safe. *)
THEOREM VersionIsASoundGuard == Spec => []VersionGuards
<1>1. IInv => VersionGuards
  BY DEF IInv
<1>. QED  BY <1>1, Invariance, PTL

(* However the writers interleave, a resolved row has its resolution time, a
   closed one its closing time, and a merged one its closing time and a link
   to a ticket other than itself. *)
THEOREM StatusIsStamped == Spec => []StatusStamped
<1>1. IInv => StatusStamped
  BY DEF IInv
<1>. QED  BY <1>1, Invariance, PTL

(***************************************************************************)
(* What overlapping handlers can break.  A row that exists leaves its      *)
(* status or its link only by a handler that ends, or by the poller, and   *)
(* the change is right for the row that this writer had read.  The stamp   *)
(* of that read says whether it is right for the row it is written to.     *)
(***************************************************************************)
Rests(t) ==
  ticket'[t].status = ticket[t].status /\ ticket'[t].mergedInto = ticket[t].mergedInto

MovesAlong(t, seen) ==
  /\ <<seen.status, ticket'[t].status>> \in Transitions
  /\ ticket'[t].mergedInto = ticket[t].mergedInto

MergesAway(t, seen) ==
  /\ seen.status # "merged" /\ ticket'[t].status = "merged"
  /\ \A u \in Tickets : ticket'[t].mergedInto = u =>
       /\ ticket'[u].mergedInto = ticket[u].mergedInto
       /\ seen.version = ticket[t].version => ticket[u].mergedInto # t

MovedBy(t, seen) ==
  /\ seen \in WrittenFrom(t) /\ Stamps(seen, ticket[t])
  /\ MovesAlong(t, seen) \/ MergesAway(t, seen)

RowStep(t) ==
  IF Exists(t) THEN Rests(t) \/ \E seen : MovedBy(t, seen)
  ELSE ticket'[t].mergedInto \in {ticket[t].mergedInto, NoTicket}

(* A handler that ends had read its row, and the stamp of it is sound. *)
LEMMA EndsWithItsRead ==
  ASSUME IInv, NEW r \in Requests, req[r].op # "idle", Finish(r)
  PROVE  /\ req[r].t \in Tickets
         /\ req[r].seen \in WrittenFrom(req[r].t)
         /\ Stamps(req[r].seen, ticket[req[r].t])
<1>1. req[r].t \in Tickets /\ Stamps(req[r].seen, ticket[req[r].t])
  BY DEF IInv, TypeOK, VersionGuards
<1>2. req'[r] = Idle /\ req'[r] # req[r]
  BY DEF Finish, IInv, TypeOK, Idle
<1>. QED  BY <1>1, <1>2 DEF WrittenFrom

(* The last write of a handler that moves its ticket, if it does. *)
Writes(r, row) ==
  /\ row \in Row
  /\ row.mergedInto = ticket[req[r].t].mergedInto
  /\ \/ row.status = ticket[req[r].t].status
     \/ <<req[r].seen.status, row.status>> \in Transitions
  /\ ticket' = [ticket EXCEPT ![req[r].t] = row]

LEMMA WriteRow ==
  ASSUME IInv, NEW r \in Requests, req[r].op # "idle", Finish(r), NEW row, Writes(r, row)
  PROVE  \A t \in Tickets : RowStep(t)
<1>1. \A t \in Tickets : ticket'[t] = IF t = req[r].t THEN row ELSE ticket[t]
  BY EndsWithItsRead DEF Writes, IInv, TypeOK
<1>2. Rests(req[r].t) \/ MovedBy(req[r].t, req[r].seen)
  BY <1>1, EndsWithItsRead DEF Writes, Rests, MovedBy, MovesAlong
<1>3. Exists(req[r].t)
  BY DEF IInv, TypeOK
<1>. QED  BY <1>1, <1>2, <1>3 DEF RowStep, Rests

LEMMA UpdateWrites ==
  ASSUME IInv, NEW r \in Requests, CompleteUpdate(r)
  PROVE  \E row : Writes(r, row)
<1>. DEFINE h == req[r]
            old == ticket[h.t]
            row == Bump(IF h.target = "keep" THEN old
                        ELSE Moved(old, h.seen.status, h.target))
<1>1. h.op = "update" /\ ticket' = [ticket EXCEPT ![h.t] = row]
  BY DEF CompleteUpdate
<1>2. h.t \in Tickets /\ old \in Row /\ now \in Nat
  BY <1>1 DEF IInv, TypeOK
<1>3. CASE h.target = "keep"
  <2>1. row \in Row /\ row.status = old.status /\ row.mergedInto = old.mergedInto
    BY <1>2, <1>3, BumpFacts DEF Guarded
  <2>. HIDE DEF row
  <2>. QED  BY <1>1, <2>1 DEF Writes
<1>4. CASE h.target # "keep"
  <2>. DEFINE moved == Moved(old, h.seen.status, h.target)
  <2>1. <<h.seen.status, h.target>> \in Transitions /\ h.target \in Statuses
    BY <1>1, <1>4, StatusFacts DEF IInv, HandlerTargets
  <2>2. /\ moved \in Row /\ moved.status = h.target /\ moved.mergedInto = old.mergedInto
    BY <1>2, <2>1, MovedFacts
  <2>3. row = Bump(moved)
    BY <1>4
  <2>. HIDE DEF moved
  <2>4. row \in Row /\ row.status = h.target /\ row.mergedInto = old.mergedInto
    BY <2>2, <2>3, BumpFacts DEF Guarded
  <2>. HIDE DEF row
  <2>. QED  BY <1>1, <2>1, <2>4 DEF Writes
<1>. QED  BY <1>3, <1>4

LEMMA StatusWrites ==
  ASSUME IInv, NEW r \in Requests,
         \/ CompleteCab(r)
         \/ CompleteVerdict(r) /\ <<req[r].seen.status, req[r].target>> \in Transitions
  PROVE  \E row : Writes(r, row)
<1>. DEFINE h == req[r]
            old == ticket[h.t]
            bumped == Bump(old)
            row == [bumped EXCEPT !.status = h.target]
<1>1. h.op \in {"cab", "verdict"} /\ ticket' = [ticket EXCEPT ![h.t] = row]
  BY DEF CompleteCab, CompleteVerdict
<1>2. h.t \in Tickets /\ old \in Row
  BY <1>1 DEF IInv, TypeOK
<1>3. <<h.seen.status, h.target>> \in Transitions /\ h.target \in Statuses
  BY StatusFacts DEF IInv, HandlerTargets, CompleteCab
<1>4. bumped \in Row /\ bumped.mergedInto = old.mergedInto
  BY <1>2, BumpFacts DEF Guarded
<1>. HIDE DEF bumped
<1>5. row \in Row /\ row.status = h.target /\ row.mergedInto = old.mergedInto
  BY <1>3, <1>4 DEF Row
<1>. HIDE DEF row
<1>. QED  BY <1>1, <1>3, <1>5 DEF Writes

(* A merge links its source, and nothing else. *)
LEMMA MergeRow ==
  ASSUME IInv, NEW r \in Requests, CompleteMerge(r)
  PROVE  \A t \in Tickets : RowStep(t)
<1>. DEFINE h == req[r]
            copied == IF RequesterOf[h.t] = RequesterOf[h.other]
                      THEN h.seen.repliedAt ELSE Never
            source == [Bump(ticket[h.t]) EXCEPT !.status = "merged",
                         !.mergedInto = h.other, !.closedAt = now]
            primary == [Bump(ticket[h.other]) EXCEPT !.repliedAt = Later(@, copied)]
<1>1. /\ h.op = "merge" /\ h.t \in Tickets /\ h.other \in Tickets \ {h.t}
      /\ Exists(h.t) /\ Exists(h.other) /\ Finish(r)
      /\ h.seen.status # "merged"
      /\ h.seen.version = ticket[h.t].version => ticket[h.other].mergedInto # h.t
  BY DEF CompleteMerge, IInv, TypeOK, HandlerTargets, MergesAhead
<1>2. ticket[h.t] \in Row /\ ticket[h.other] \in Row
  BY <1>1 DEF IInv, TypeOK
<1>4. \A t \in Tickets : ticket'[t] = IF t = h.t THEN source
                                      ELSE IF t = h.other THEN primary ELSE ticket[t]
  BY <1>1 DEF CompleteMerge
<1>5. source.status = "merged" /\ source.mergedInto = h.other
  <2>. DEFINE bumped == Bump(ticket[h.t])
  <2>1. bumped \in Row
    BY <1>2, BumpFacts
  <2>2. source = [bumped EXCEPT !.status = "merged", !.mergedInto = h.other, !.closedAt = now]
    OBVIOUS
  <2>. HIDE DEF bumped
  <2>. QED  BY <2>1, <2>2 DEF Row
<1>6. /\ primary.status = ticket[h.other].status
      /\ primary.mergedInto = ticket[h.other].mergedInto
  <2>. DEFINE bumped == Bump(ticket[h.other])
  <2>1. bumped \in Row /\ Guarded(bumped) = Guarded(ticket[h.other])
    BY <1>2, BumpFacts
  <2>2. primary = [bumped EXCEPT !.repliedAt = Later(bumped.repliedAt, copied)]
    OBVIOUS
  <2>. HIDE DEF bumped, copied
  <2>. QED  BY <2>1, <2>2 DEF Row, Guarded
<1>. HIDE DEF source, primary, copied
<1>7. \A t \in Tickets \ {h.t} : Rests(t)
  BY <1>1, <1>4, <1>6 DEF Rests
<1>8. MovedBy(h.t, h.seen)
  <2>1. h.seen \in WrittenFrom(h.t) /\ Stamps(h.seen, ticket[h.t])
    BY <1>1, EndsWithItsRead
  <2>2. MergesAway(h.t, h.seen)
    BY <1>1, <1>4, <1>5, <1>7 DEF MergesAway, Rests
  <2>. QED  BY <2>1, <2>2 DEF MovedBy
<1>. QED  BY <1>1, <1>7, <1>8 DEF RowStep, Rests

(* Comments, deletions and all that is not the end of a handler. *)
LEMMA KeptRow ==
  ASSUME \A t \in Tickets : RowKept(t)
  PROVE  \A t \in Tickets : RowStep(t)
BY DEF RowKept, Guarded, RowStep, Rests

LEMMA CommentKeeps ==
  ASSUME IInv, NEW r \in Requests,
         \/ \E who \in {"staff", "requester"}, internal \in BOOLEAN :
              InsertComment(r, who, internal)
         \/ StampFirstResponse(r)
  PROVE  \A t \in Tickets : RowKept(t)
<1>1. \A t \in Tickets : ticket[t] \in Row
  BY DEF IInv, TypeOK
<1>2. CASE StampFirstResponse(r)
  BY <1>1, <1>2 DEF StampFirstResponse, IInv, TypeOK, RowKept, Row, Guarded
<1>3. ASSUME NEW who \in {"staff", "requester"}, NEW internal \in BOOLEAN,
             InsertComment(r, who, internal)
      PROVE  \A t \in Tickets : RowKept(t)
  BY <1>1, <1>3 DEF InsertComment, IInv, TypeOK, RowKept, Row, Guarded
<1>. QED  BY <1>2, <1>3

LEMMA CompleteRow ==
  ASSUME IInv, NEW r \in Requests, Complete(r)
  PROVE  \A t \in Tickets : RowStep(t)
<1>1. CASE CompleteUpdate(r)
  BY <1>1, UpdateWrites, WriteRow DEF CompleteUpdate
<1>2. CASE \/ CompleteCab(r)
           \/ CompleteVerdict(r) /\ <<req[r].seen.status, req[r].target>> \in Transitions
  BY <1>2, StatusWrites, WriteRow DEF CompleteCab, CompleteVerdict
<1>3. CASE CompleteMerge(r)
  BY <1>3, MergeRow
<1>4. CASE \/ \E who \in {"staff", "requester"}, internal \in BOOLEAN :
                InsertComment(r, who, internal)
           \/ StampFirstResponse(r)
  BY <1>4, CommentKeeps, KeptRow
<1>5. CASE \/ Abandon(r)
           \/ CompleteVerdict(r) /\ <<req[r].seen.status, req[r].target>> \notin Transitions
  BY <1>5, KeptRow DEF Abandon, CompleteVerdict, RowKept
<1>. QED  BY <1>1, <1>2, <1>3, <1>4, <1>5 DEF Complete

(* Nothing leaves "merged" by the table, and what is resolved may be closed. *)
LEMMA MergedHasNoExit ==
  /\ \A to : <<"merged", to>> \notin Transitions
  /\ <<"resolved", "closed">> \in Transitions
BY DEF Transitions

(* The poller closes what was resolved when its page was read. *)
LEMMA CloseRow ==
  ASSUME IInv, PollClose
  PROVE  \A t \in Tickets : RowStep(t)
<1>. DEFINE c == poller.closing
            bumped == Bump(ticket[c.t])
            row == [bumped EXCEPT !.status = "closed", !.closedAt = now]
<1>1. /\ c \in Held /\ c.t \in Tickets /\ NoTicket \notin Tickets
      /\ Exists(c.t) /\ DueAsSeen(c.seen) /\ Stamps(c.seen, ticket[c.t])
  BY HeldFacts DEF PollClose, IInv, TypeOK, PollerHolds, VersionGuards, Held, Candidate
<1>2. bumped \in Row /\ bumped.mergedInto = ticket[c.t].mergedInto
  BY <1>1, BumpFacts DEF Guarded, IInv, TypeOK
<1>3. ticket' = [ticket EXCEPT ![c.t] = row] /\ poller'.closing = NoCandidate
  BY DEF PollClose, IInv, TypeOK
<1>4. row.status = "closed" /\ row.mergedInto = ticket[c.t].mergedInto
  <2>. HIDE DEF bumped
  <2>. QED  BY <1>2 DEF Row
<1>. HIDE DEF row
<1>5. \A t \in Tickets : ticket'[t] = IF t = c.t THEN row ELSE ticket[t]
  BY <1>1, <1>3 DEF IInv, TypeOK
<1>6. poller.closing # poller'.closing
  BY <1>3 DEF PollClose
<1>7. c.seen \in WrittenFrom(c.t)
  BY <1>6 DEF WrittenFrom
<1>8. MovedBy(c.t, c.seen)
  BY <1>1, <1>4, <1>5, <1>7, MergedHasNoExit DEF MovedBy, MovesAlong, DueAsSeen
<1>. QED  BY <1>1, <1>5, <1>8 DEF RowStep, Rests

LEMMA StepRow ==
  ASSUME IInv, [Next]_vars
  PROVE  \A t \in Tickets : RowStep(t)
<1>1. ASSUME NEW u \in Tickets, NEW source \in Tickets,
             Create(u) \/ RaiseProblem(source, u)
      PROVE  \A t \in Tickets : RowStep(t)
  <2>1. PICK status \in {"new", "pending_approval", "under_investigation"} :
          ticket' = [ticket EXCEPT ![u] = [Blank EXCEPT !.status = status, !.version = 1]]
    BY <1>1 DEF Create, RaiseProblem
  <2>2. ~Exists(u)
    BY <1>1 DEF Create, RaiseProblem
  <2>3. ticket'[u].mergedInto = NoTicket
    BY <2>1 DEF IInv, TypeOK, Blank
  <2>4. \A t \in Tickets \ {u} : ticket'[t] = ticket[t]
    BY <2>1 DEF IInv, TypeOK
  <2>. QED  BY <2>2, <2>3, <2>4 DEF RowStep, Rests
<1>2. ASSUME NEW u \in Tickets, SoftDelete(u)
      PROVE  \A t \in Tickets : RowStep(t)
  <2>1. \A t \in Tickets : RowKept(t)
    BY <1>2 DEF SoftDelete, IInv, TypeOK, RowKept, Guarded, Row
  <2>. QED  BY <2>1, KeptRow
<1>3. ASSUME NEW r \in Requests, Start(r)
      PROVE  \A t \in Tickets : RowStep(t)
  <2>1. UNCHANGED ticket
    BY <1>3 DEF Start, BeginUpdate, BeginCab, BeginVerdict, BeginMerge, BeginComment, Begin
  <2>. QED  BY <2>1, KeptRow DEF RowKept
<1>4. CASE PollClose
  BY <1>4, CloseRow
<1>5. CASE PollScan \/ (\E c \in poller.batch : PollInspect(c)) \/ Crash \/ Tick \/ UNCHANGED vars
  BY <1>5, KeptRow DEF PollScan, PollInspect, Crash, Tick, vars, RowKept
<1>. QED  BY <1>1, <1>2, <1>3, <1>4, <1>5, CompleteRow DEF Next, Poll

(* A ticket that exists goes on to exist. *)
LEMMA TicketsRemain ==
  ASSUME IInv, [Next]_vars
  PROVE  \A t \in Tickets : Exists(t) => Exists(t)'
BY StepRow, StatusFacts DEF RowStep, Rests, MovedBy, MovesAlong, MergesAway, Exists

(* However the handlers and the poller interleave, every change of a status
   is in the transition table or is a merge, unless its writer had read an
   older version of the row: an update that compared the version it writes
   over would make the table what the workflow is. *)
THEOREM MovesAreLegal == Spec => LegalMoves
<1>1. ASSUME IInv, [Next]_vars, NEW t \in Tickets,
             Exists(t), ticket'[t].status # ticket[t].status
      PROVE  \/ <<ticket[t].status, ticket'[t].status>> \in Transitions
             \/ ticket'[t].status = "merged"
             \/ StaleWrite(t)
  <2>1. PICK seen : MovedBy(t, seen)
    BY <1>1, StepRow DEF RowStep, Rests
  <2>2. CASE seen.version = ticket[t].version
    BY <2>1, <2>2 DEF MovedBy, MovesAlong, MergesAway, Stamps, Guarded
  <2>3. CASE seen.version # ticket[t].version
    BY <2>1, <2>3 DEF MovedBy, StaleWrite
  <2>. QED  BY <2>2, <2>3
<1>2. IInv /\ [Next]_vars =>
        [\A t \in Tickets :
           Exists(t) /\ ticket'[t].status # ticket[t].status =>
             \/ <<ticket[t].status, ticket'[t].status>> \in Transitions
             \/ ticket'[t].status = "merged"
             \/ StaleWrite(t)]_vars
  BY <1>1
<1>. QED  BY <1>2, Invariance, PTL DEF Spec, LegalMoves

(* However the handlers and the poller interleave, a merged ticket is taken
   out of "merged", or linked to another primary, only by one that had read
   the ticket before it was merged.  What is begun after a merge, an edit, a
   verdict, another merge or a page of the poller, leaves it alone. *)
THEOREM MergingIsFinal == Spec => MergedIsFinal
<1>1. ASSUME IInv, [Next]_vars, NEW t \in Tickets,
             ticket[t].status = "merged",
             ticket'[t].status # "merged" \/ ticket'[t].mergedInto # ticket[t].mergedInto
      PROVE  \E seen \in WrittenFrom(t) : seen.status # "merged"
  <2>1. Exists(t)
    BY <1>1 DEF Exists
  <2>2. PICK seen : MovedBy(t, seen)
    BY <1>1, <2>1, StepRow DEF RowStep, Rests
  <2>. QED  BY <2>2, MergedHasNoExit DEF MovedBy, MovesAlong, MergesAway
<1>2. IInv /\ [Next]_vars =>
        [\A t \in Tickets :
           /\ ticket[t].status = "merged"
           /\ ticket'[t].status # "merged" \/ ticket'[t].mergedInto # ticket[t].mergedInto
           => \E seen \in WrittenFrom(t) : seen.status # "merged"]_vars
  BY <1>1
<1>. QED  BY <1>2, Invariance, PTL DEF Spec, MergedIsFinal

(* However the merges interleave, two tickets end up merged into each other
   only by a merge that had read its source before the opposite merge wrote
   it: because a merge also increments the version of its primary, comparing
   the version of the source alone would rule such a pair out. *)
THEOREM MergesAreAcyclic == Spec => NoMergeCycle
<1>1. ASSUME IInv, [Next]_vars, NEW t \in Tickets, NEW u \in Tickets,
             ticket'[t].mergedInto = u, ticket'[u].mergedInto = t,
             ticket[t].mergedInto # u
      PROVE  StaleWrite(t)
  <2>1. u # NoTicket
    BY TicketsAssumption
  <2>2. Exists(t) /\ ~Rests(t)
    BY <1>1, <2>1, StepRow DEF RowStep, Rests
  <2>3. PICK seen : MovedBy(t, seen)
    BY <1>1, <2>2, StepRow DEF RowStep
  <2>. QED  BY <1>1, <2>3 DEF MovedBy, MovesAlong, MergesAway, StaleWrite
<1>2. IInv /\ [Next]_vars =>
        [\A t, u \in Tickets :
           /\ ticket'[t].mergedInto = u /\ ticket'[u].mergedInto = t
           /\ ticket[t].mergedInto # u
           => StaleWrite(t)]_vars
  BY <1>1
<1>. QED  BY <1>2, Invariance, PTL DEF Spec, NoMergeCycle

(* However handlers run beside it, the poller closes a ticket that is not
   resolved, not due or answered only when the row was written after its page
   was read, or the answer came after it had looked for one: in a row whose
   version it still has, the select's three conditions are still true. *)
THEOREM AutoCloseIsJustified == Spec => AutoCloseJustified
<1>. DEFINE c == poller.closing
            row == ticket[c.t]
<1>1. ASSUME IInv, [Next]_vars,
             c # NoCandidate, poller'.closing = NoCandidate,
             ticket'[c.t].version > row.version, c.seen.version = row.version
      PROVE  /\ row.status = "resolved"
             /\ row.resolvedAt + CloseAfter <= now
             /\ row.repliedAt <= row.resolvedAt \/ row.repliedAt # c.seen.repliedAt
  <2>1. c \in Held /\ c.t \in Tickets
    BY <1>1, HeldFacts DEF IInv, TypeOK, Held, Candidate
  <2>2. DueAsSeen(c.seen) /\ Stamps(c.seen, row) /\ c.seen.repliedAt <= c.seen.resolvedAt
    BY <1>1, <2>1 DEF IInv, PollerHolds, VersionGuards
  <2>3. c.seen.status = row.status /\ c.seen.resolvedAt = row.resolvedAt
    BY <1>1, <2>2 DEF Stamps, Guarded
  <2>. QED  BY <2>2, <2>3 DEF DueAsSeen
<1>2. IInv /\ [Next]_vars =>
        [/\ c # NoCandidate /\ poller'.closing = NoCandidate
         /\ ticket'[c.t].version > row.version
         /\ c.seen.version = row.version
         => /\ row.status = "resolved"
            /\ row.resolvedAt + CloseAfter <= now
            /\ row.repliedAt <= row.resolvedAt \/ row.repliedAt # c.seen.repliedAt]_vars
  BY <1>1
<1>. QED  BY <1>2, Invariance, PTL DEF Spec, AutoCloseJustified
=============================================================================
