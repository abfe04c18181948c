--------------------------- MODULE SlaClockProofs ---------------------------
(***************************************************************************)
(* Proofs about SlaClock, for any tickers, policy and length of time, and  *)
(* however ticks, comments, merges and restarts overlap: rows keep their   *)
(* shape, a stopped first-response clock shows when a response was         *)
(* written, thresholds are announced once and due dates agree but for the  *)
(* slips that `history` names.                                             *)
(***************************************************************************)
EXTENDS SlaClock, FiniteSetTheorems, TLAPS

USE SlaAssumption DEF SlaAssumption, Never

TicketColumns == [status : Statuses, firstResponseAt : Nat, resolvedAt : Nat,
                  dueAt : Nat, team : {"initial", "escalation"}]
HistoryRecord == [responses : SUBSET Nat, unrecorded : SUBSET (Metrics \X Thresholds),
                  rewound : SUBSET Metrics, uncopied : BOOLEAN]
TickState == [rows : SUBSET SnapshotRow, now : Nat, next : NextWrite]

(* The part of the inductive invariant about rows ... *)
RowsOK ==
  /\ ticket \in TicketColumns
  /\ clock \in [Metrics -> Instance]
  /\ attach \in {"rows", "due", "done"}
  /\ comments \in Nat
  /\ sent \subseteq Metrics \X Thresholds /\ repeated \subseteq sent
  /\ history \in HistoryRecord
  /\ now \in Nat \ {0}
  /\ ticket.firstResponseAt # Never => ticket.firstResponseAt \in history.responses
  /\ history.responses # {} => ticket.firstResponseAt # Never
  /\ \A m \in Metrics : clock[m].pausedAt <= now

(* ... and the part about what a tick holds in memory. *)
SnapshotOK(s, time) ==
  /\ s.row.startedAt # Never /\ s.row.completedAt = Never
  /\ s.row.pausedAt <= time
  /\ s.m = "first_response" /\ s.stopped # Never => s.stopped \in history.responses

NextOK(next) ==
  /\ next.kind # "none" => next.m \in Metrics
  /\ next.kind = "row" => next.level \in Thresholds

TickOK(t) ==
  /\ t \in TickState
  /\ \A s \in t.rows : SnapshotOK(s, t.now)
  /\ NextOK(t.next)
  /\ t.now <= now

TicksOK == tick \in [Tickers -> TickState] /\ \A k \in Tickers : TickOK(tick[k])

\* The two parts and ResponseIsTimed are the inductive invariant.
LEMMA Parts == SInv <=> RowsOK /\ TicksOK /\ ResponseIsTimed
<1>1. ASSUME SInv PROVE RowsOK
  BY <1>1 DEF SInv, SlaTypeOK, SnapshotsAgree, RowsOK, TicketColumns, HistoryRecord
<1>2. ASSUME SInv PROVE TicksOK
  <2>1. tick \in [Tickers -> TickState]
    BY <1>2 DEF SInv, SlaTypeOK, TickState
  <2>2. ASSUME NEW k \in Tickers PROVE TickOK(tick[k])
    BY <1>2, <2>1 DEF SInv, SlaTypeOK, SnapshotsAgree, TickOK, SnapshotOK, NextOK
  <2> QED BY <2>1, <2>2 DEF TicksOK
<1>3. ASSUME RowsOK, TicksOK PROVE SlaTypeOK /\ SnapshotsAgree
  <2>1. tick \in [Tickers -> TickState]
    BY <1>3 DEF TicksOK
  <2>2. ASSUME NEW k \in Tickers
        PROVE  /\ \A s \in tick[k].rows : s.row.startedAt # Never /\ s.row.completedAt = Never
               /\ NextOK(tick[k].next)
               /\ tick[k].now <= now
    BY <1>3 DEF TicksOK, TickOK, SnapshotOK
  <2>3. ASSUME NEW k \in Tickers, NEW s \in tick[k].rows
        PROVE  /\ s.row.pausedAt <= tick[k].now
               /\ s.m = "first_response" /\ s.stopped # Never =>
                    s.stopped \in history.responses
    BY <1>3 DEF TicksOK, TickOK, SnapshotOK
  <2>4. SlaTypeOK
    BY <1>3, <2>1, <2>2 DEF SlaTypeOK, RowsOK, TickState, TicketColumns, HistoryRecord, NextOK
  <2> QED BY <1>3, <2>3, <2>4 DEF SnapshotsAgree, RowsOK
<1> QED BY <1>1, <1>2, <1>3 DEF SInv

\* The same of the next state.
LEMMA PartsNext == RowsOK' /\ TicksOK' /\ ResponseIsTimed' => SInv'
BY Parts, PTL

\* What the ticket shows is one of the responses, so a clock that shows one of
\* them is timed.
ShowsAResponse ==
  "first_response" \in Metrics /\ ticket.status # "merged"
    /\ clock["first_response"].completedAt # Never =>
      clock["first_response"].completedAt \in history.responses

LEMMA TimedByResponse == RowsOK /\ ShowsAResponse => ResponseIsTimed
BY DEF RowsOK, ResponseIsTimed, ShowsAResponse

LEMMA TimedNext == RowsOK' /\ ShowsAResponse' => ResponseIsTimed'
BY TimedByResponse, PTL

\* A ticker that handles no row holds nothing, and that has its shape.
LEMMA NoTickOK == ASSUME now \in Nat PROVE TickOK(NoTick)
<1>1. Nothing \in NextWrite /\ Nothing.kind = "none"
  BY DEF Nothing, NextWrite
<1>2. /\ NoTick \in TickState /\ NoTick.rows = {} /\ NoTick.now = Never
      /\ NoTick.next = Nothing
  BY <1>1 DEF NoTick, TickState
<1> QED BY <1>1, <1>2 DEF TickOK, NextOK

\* Nothing leaves "merged": a merged ticket is moved by no handler.
LEMMA MergedStays == \A target : <<"merged", target>> \notin Transitions
BY DEF Transitions

\* The row a tick reads has the shape of a snapshot, and agrees with the
\* ticket at the time it is read.
LEMMA SnapshotFacts ==
  ASSUME RowsOK, NEW m \in Metrics, Open(m)
  PROVE  Snapshot(m) \in SnapshotRow /\ SnapshotOK(Snapshot(m), now)
<1>1. /\ (ticket.status \in PausesSla) \in BOOLEAN
      /\ ticket.firstResponseAt \in Nat /\ ticket.resolvedAt \in Nat
      /\ ticket.team \in {"initial", "escalation"} /\ clock[m] \in Instance
  BY DEF RowsOK, TicketColumns
<1>2. Snapshot(m) \in SnapshotRow
  BY <1>1 DEF Snapshot, SnapshotRow
<1>3. SnapshotOK(Snapshot(m), now)
  BY <1>1 DEF Snapshot, SnapshotOK, Open, RowsOK
<1> QED BY <1>2, <1>3

\* What is left of a tick once a row is handled, is as sound as the tick was.
LEMMA WhatIsLeft ==
  ASSUME NEW k \in Tickers, RowsOK, TicksOK, NEW s \in tick[k].rows
  PROVE  /\ TickOK(After(k, s))
         /\ \A next \in NextWrite : NextOK(next) =>
              TickOK([tick[k] EXCEPT !.rows = @ \ {s}, !.next = next])
         /\ s \in SnapshotRow /\ SnapshotOK(s, tick[k].now)
         /\ tick[k].now \in Nat /\ tick[k].now <= now
<1>1. TickOK(tick[k]) /\ now \in Nat
  BY DEF TicksOK, RowsOK
<1>2. ASSUME NEW next \in NextWrite, NextOK(next)
      PROVE  TickOK([tick[k] EXCEPT !.rows = @ \ {s}, !.next = next])
  BY <1>1, <1>2 DEF TickOK, TickState
<1>3. TickOK([tick[k] EXCEPT !.rows = @ \ {s}])
  BY <1>1 DEF TickOK, TickState
<1>4. TickOK(After(k, s))
  BY <1>1, <1>3, NoTickOK DEF After
<1>5. s \in SnapshotRow /\ SnapshotOK(s, tick[k].now) /\ tick[k].now \in Nat /\ tick[k].now <= now
  BY <1>1 DEF TickOK, TickState
<1> QED BY <1>2, <1>4, <1>5

\* The same when the write that was left is done.
LEMMA FinishedOK ==
  ASSUME NEW k \in Tickers, RowsOK, TicksOK
  PROVE  TickOK(Finished(k))
<1>1. TickOK(tick[k]) /\ now \in Nat
  BY DEF TicksOK, RowsOK
<1>2. TickOK([tick[k] EXCEPT !.next = Nothing])
  BY <1>1 DEF TickOK, TickState, Nothing, NextWrite, NextOK
<1> QED BY <1>1, <1>2, NoTickOK DEF Finished

\* A step of ticker k that moves neither the clock nor the response leaves
\* the other tickers as they are.
LEMMA TickerStep ==
  ASSUME NEW k \in Tickers, NEW t, TicksOK, TickOK(t),
         tick' = [tick EXCEPT ![k] = t], now' = now,
         history'.responses = history.responses
  PROVE  TicksOK'
<1>1. tick' \in [Tickers -> TickState]
  BY DEF TicksOK, TickOK
<1>2. \A j \in Tickers : TickOK(tick'[j])
  BY DEF TicksOK
<1>3. \A j \in Tickers : TickOK(tick[j])'
  BY <1>2 DEF TickOK, SnapshotOK
<1> QED BY <1>1, <1>3 DEF TicksOK

LEMMA ResumedShape ==
  ASSUME history \in HistoryRecord, NEW s, s.m \in Metrics
  PROVE  /\ Resumed(s) \in HistoryRecord
         /\ Resumed(s).responses = history.responses
         /\ Resumed(s).unrecorded = history.unrecorded
         /\ Resumed(s).rewound = IF clock[s.m].pausedAt # s.row.pausedAt
                                   \/ clock[s.m].dueAt # s.row.dueAt
                                THEN history.rewound \cup {s.m} ELSE history.rewound
         /\ Resumed(s).uncopied = IF s.m = "resolution" THEN CopyUnderWay ELSE history.uncopied
<1>1. CopyUnderWay \in BOOLEAN
  BY DEF CopyUnderWay
<1>. HIDE DEF CopyUnderWay
<1>. QED  BY <1>1 DEF Resumed, HistoryRecord

\* The inductive step, one case per action.
LEMMA TickerPreserves ==
  ASSUME SInv, NEW k \in Tickers, Work(k)
  PROVE  SInv'
<1> USE DEF Instance
<1>0. RowsOK /\ TicksOK /\ ResponseIsTimed
  BY Parts
<1>1. CASE TickBegin(k)
  <2>1. RowsOK'
    BY <1>0, <1>1 DEF TickBegin, RowsOK
  <2>2. PICK page \in SUBSET {m \in Metrics : Open(m)} :
          tick' = [tick EXCEPT ![k] =
            [rows |-> {Snapshot(m) : m \in page}, now |-> now, next |-> Nothing]]
    BY <1>1 DEF TickBegin
  <2>3. TickOK([rows |-> {Snapshot(m) : m \in page}, now |-> now, next |-> Nothing])
    <3>1. \A s \in {Snapshot(m) : m \in page} : s \in SnapshotRow /\ SnapshotOK(s, now)
      BY <1>0, SnapshotFacts
    <3>2. now \in Nat /\ Nothing \in NextWrite /\ Nothing.kind = "none"
      BY <1>0 DEF RowsOK, Nothing, NextWrite
    <3> QED BY <3>1, <3>2 DEF TickOK, TickState, NextOK
  <2>4. TicksOK'
    BY <1>0, <1>1, <2>2, <2>3, TickerStep DEF TickBegin
  <2>5. ResponseIsTimed'
    BY <1>0, <1>1 DEF TickBegin, ResponseIsTimed
  <2> QED BY <2>1, <2>4, <2>5, PartsNext
<1>2. ASSUME NEW s \in tick[k].rows, Takes(k, s),
             history'.responses = history.responses,
             now' = now, tick' = [tick EXCEPT ![k] = After(k, s)]
      PROVE  TicksOK'
  BY <1>0, <1>2, WhatIsLeft, TickerStep
<1>3. ASSUME NEW s \in tick[k].rows, Hold(k, s)
      PROVE  SInv'
  <2>1. s \in SnapshotRow /\ s.m \in Metrics /\ now \in Nat /\ clock[s.m] \in Instance
    BY <1>0, WhatIsLeft DEF SnapshotRow, RowsOK
  <2>2. [clock[s.m] EXCEPT !.pausedAt = now] \in Instance
    BY <2>1
  <2>3. RowsOK'
    <3>1. CASE clock' = clock
      BY <1>0, <1>3, <3>1 DEF Hold, RowsOK
    <3>2. CASE clock' = [clock EXCEPT ![s.m].pausedAt = now]
      BY <1>0, <1>3, <2>1, <2>2, <3>2 DEF Hold, RowsOK
    <3> QED BY <1>3, <3>1, <3>2 DEF Hold
  <2>4. TicksOK'
    BY <1>2, <1>3 DEF Hold
  <2>5. ResponseIsTimed'
    BY <1>0, <1>3, <2>1 DEF Hold, ResponseIsTimed, RowsOK
  <2> QED BY <2>3, <2>4, <2>5, PartsNext
<1>4. ASSUME NEW s \in tick[k].rows, Resume(k, s)
      PROVE  SInv'
  <2> DEFINE due == s.row.dueAt + (tick[k].now - s.row.pausedAt)
             copy == [Nothing EXCEPT !.kind = "due", !.m = s.m, !.at = due]
  <2>1. /\ s \in SnapshotRow /\ s.m \in Metrics /\ s.row \in Instance
        /\ s.row.pausedAt <= tick[k].now /\ tick[k].now \in Nat
    BY <1>0, WhatIsLeft DEF SnapshotRow, SnapshotOK
  <2>2. due \in Nat
    BY <2>1
  <2>3. RowsOK'
    <3>1. clock[s.m] \in Instance
      BY <1>0, <2>1 DEF RowsOK
    <3>2. [clock[s.m] EXCEPT !.pausedAt = Never, !.dueAt = due] \in Instance
      BY <2>2, <3>1
    <3>3. history' \in HistoryRecord /\ history'.responses = history.responses
      BY <1>0, <1>4, <2>1, ResumedShape DEF Resume, RowsOK
    <3> QED BY <1>0, <1>4, <2>1, <3>1, <3>2, <3>3 DEF Resume, RowsOK
  <2>3a. history'.responses = history.responses
    BY <1>0, <1>4, <2>1, ResumedShape DEF Resume, RowsOK
  <2>4. TicksOK'
    <3>1. CASE s.m = "resolution"
      <4>1. copy \in NextWrite /\ NextOK(copy)
        BY <2>1, <2>2 DEF Nothing, NextWrite, NextOK
      <4>2. TickOK([tick[k] EXCEPT !.rows = @ \ {s}, !.next = copy])
        <5> HIDE DEF copy
        <5> QED BY <1>0, <2>1, <4>1, WhatIsLeft
      <4>3. tick' = [tick EXCEPT ![k] = [tick[k] EXCEPT !.rows = @ \ {s}, !.next = copy]]
        BY <1>4, <3>1 DEF Resume
      <4>4. now' = now /\ history'.responses = history.responses
        BY <1>4, <2>3a DEF Resume
      <4> HIDE DEF copy
      <4> QED BY <1>0, <4>2, <4>3, <4>4, TickerStep
    <3>2. CASE s.m # "resolution"
      BY <1>2, <1>4, <2>3a, <3>2 DEF Resume
    <3> QED BY <3>1, <3>2
  <2>5. ResponseIsTimed'
    BY <1>0, <1>4, <2>1, <2>3a DEF Resume, ResponseIsTimed, RowsOK
  <2> QED BY <2>3, <2>4, <2>5, PartsNext
<1>5. ASSUME NEW s \in tick[k].rows, Stop(k, s)
      PROVE  SInv'
  <2>1. /\ s \in SnapshotRow /\ s.m \in Metrics /\ s.stopped \in Nat
        /\ SnapshotOK(s, tick[k].now) /\ clock[s.m] \in Instance
    BY <1>0, WhatIsLeft DEF SnapshotRow, RowsOK
  <2>2. [clock[s.m] EXCEPT !.completedAt = s.stopped] \in Instance
    BY <2>1
  <2>3. RowsOK'
    BY <1>0, <1>5, <2>1, <2>2 DEF Stop, RowsOK
  <2>4. TicksOK'
    BY <1>2, <1>5 DEF Stop
  <2>5. ResponseIsTimed'
    <3>1. ShowsAResponse'
      BY <1>0, <1>5, <2>1 DEF Stop, ResponseIsTimed, SnapshotOK, RowsOK, ShowsAResponse
    <3>. QED  BY <2>3, <3>1, TimedNext
  <2> QED BY <2>3, <2>4, <2>5, PartsNext
<1>6. \A s \in tick[k].rows, stored \in Nat : BreachedAfter(k, s, stored) \in Nat
  BY <1>0, WhatIsLeft DEF BreachedAfter, SnapshotRow, RowsOK
<1>7. ASSUME NEW s \in tick[k].rows, Consume(k, s)
      PROVE  SInv'
  <2>1. s.m \in Metrics /\ clock[s.m] \in Instance
    BY <1>0, WhatIsLeft DEF SnapshotRow, RowsOK
  <2>2. PICK at \in Nat : clock' = [clock EXCEPT ![s.m].breachedAt = at]
    BY <1>6, <1>7, <2>1 DEF Consume
  <2>3. [clock[s.m] EXCEPT !.breachedAt = at] \in Instance
    BY <2>1
  <2>4. RowsOK'
    BY <1>0, <1>7, <2>1, <2>2, <2>3 DEF Consume, RowsOK
  <2>5. TicksOK'
    BY <1>2, <1>7 DEF Consume
  <2>6. ResponseIsTimed'
    BY <1>0, <1>7, <2>1, <2>2 DEF Consume, ResponseIsTimed, RowsOK
  <2> QED BY <2>4, <2>5, <2>6, PartsNext
<1>8. ASSUME NEW s \in tick[k].rows, Escalate(k, s)
      PROVE  SInv'
  <2>1. PICK p \in Thresholds :
          /\ ticket' = [ticket EXCEPT !.team =
               IF p \in Reassigning /\ s.team # "escalation" THEN "escalation" ELSE @]
          /\ sent' = sent \cup {<<s.m, p>>}
          /\ repeated' = repeated \cup ({<<s.m, p>>} \cap sent)
          /\ tick' = [tick EXCEPT ![k] =
               [tick[k] EXCEPT !.rows = @ \ {s},
                               !.next = [kind |-> "row", m |-> s.m, level |-> p,
                                         at |-> BreachedAfter(k, s, Never)]]]
          /\ UNCHANGED <<clock, attach, comments, history, now>>
    BY <1>8 DEF Escalate
  <2>2. s.m \in Metrics /\ p \in Nat
    <3>1. s \in SnapshotRow
      BY <1>0, WhatIsLeft
    <3>2. p \in 1..200
      OBVIOUS
    <3> QED BY <3>1, <3>2 DEF SnapshotRow
  <2>3. ticket' \in TicketColumns /\ ticket'.firstResponseAt = ticket.firstResponseAt
        /\ ticket'.status = ticket.status
    BY <1>0, <2>1 DEF RowsOK, TicketColumns
  <2>4. RowsOK'
    BY <1>0, <2>1, <2>2, <2>3 DEF RowsOK
  <2>5. TicksOK'
    <3> DEFINE next == [kind |-> "row", m |-> s.m, level |-> p,
                        at |-> BreachedAfter(k, s, Never)]
    <3>1. next \in NextWrite /\ NextOK(next)
      BY <1>6, <2>2 DEF NextWrite, NextOK
    <3>2. tick' = [tick EXCEPT ![k] = [tick[k] EXCEPT !.rows = @ \ {s}, !.next = next]]
      BY <2>1
    <3> HIDE DEF next
    <3>3. TickOK([tick[k] EXCEPT !.rows = @ \ {s}, !.next = next])
      BY <1>0, <3>1, WhatIsLeft
    <3> QED BY <1>0, <2>1, <2>3, <3>2, <3>3, TickerStep
  <2>6. ResponseIsTimed'
    BY <1>0, <2>1, <2>3 DEF ResponseIsTimed
  <2> QED BY <2>4, <2>5, <2>6, PartsNext
<1>9. TickOK(tick[k]) /\ TickOK(Finished(k))
  BY <1>0, FinishedOK DEF TicksOK
<1>10. CASE CopyDue(k)
  <2>1. ticket' \in TicketColumns /\ ticket'.firstResponseAt = ticket.firstResponseAt
        /\ ticket'.status = ticket.status
    BY <1>0, <1>9, <1>10 DEF CopyDue, RowsOK, TicketColumns, TickOK, TickState, NextWrite
  <2>2. RowsOK'
    BY <1>0, <1>10, <2>1 DEF CopyDue, RowsOK
  <2>3. TicksOK'
    BY <1>0, <1>9, <1>10, <2>1, TickerStep DEF CopyDue
  <2>4. ResponseIsTimed'
    BY <1>0, <1>10, <2>1 DEF CopyDue, ResponseIsTimed
  <2> QED BY <2>2, <2>3, <2>4, PartsNext
<1>11. CASE Record(k)
  <2> DEFINE next == tick[k].next
  <2>1. next.m \in Metrics /\ next.level \in Nat /\ next.at \in Nat
        /\ clock[next.m] \in Instance
    BY <1>0, <1>9, <1>11 DEF Record, TickOK, TickState, NextWrite, NextOK, RowsOK
  <2> DEFINE at == IF next.at = Never THEN clock[next.m].breachedAt ELSE next.at
  <2>2. at \in Nat /\ clock' = [clock EXCEPT ![next.m] =
          [clock[next.m] EXCEPT !.level = next.level, !.breachedAt = at]]
    BY <1>11, <2>1 DEF Record
  <2>3. [clock[next.m] EXCEPT !.level = next.level, !.breachedAt = at] \in Instance
    BY <2>1
  <2>4. RowsOK'
    BY <1>0, <1>11, <2>1, <2>2, <2>3 DEF Record, RowsOK
  <2>5. TicksOK'
    BY <1>0, <1>9, <1>11, TickerStep DEF Record
  <2>6. ResponseIsTimed'
    BY <1>0, <1>11, <2>1, <2>2 DEF Record, ResponseIsTimed, RowsOK
  <2> QED BY <2>4, <2>5, <2>6, PartsNext
<1> QED BY <1>1, <1>3, <1>4, <1>5, <1>7, <1>8, <1>10, <1>11 DEF Work

\* What happens to the ticket, and to processes, between two steps of a tick.
LEMMA OthersPreserve ==
  ASSUME SInv,
         \/ AttachRows \/ AttachDue
         \/ \E k \in Tickers : Crash(k)
         \/ \E target \in Targets : Move(target)
         \/ BeginComment \/ Respond \/ MergeAway \/ Pass
  PROVE  SInv'
<1>0. RowsOK /\ TicksOK /\ ResponseIsTimed
  BY Parts
<1>1. ASSUME tick' = tick, now <= now', now' \in Nat, now \in Nat,
             history.responses \subseteq history'.responses
      PROVE  TicksOK'
  <2>1. \A k \in Tickers : \A s \in tick[k].rows :
          SnapshotOK(s, tick[k].now) => SnapshotOK(s, tick[k].now)'
    BY <1>1 DEF SnapshotOK
  <2>2. \A k \in Tickers : tick[k].now \in Nat
    BY <1>0 DEF TicksOK, TickState
  <2> QED BY <1>0, <1>1, <2>1, <2>2 DEF TicksOK, TickOK
<1>2. CASE AttachRows
  <2>1. clock' = [m \in Metrics |-> [Unattached EXCEPT !.startedAt = now,
                                                      !.dueAt = now + Target[m]]]
    BY <1>2 DEF AttachRows
  <2>2. /\ attach' = "due" /\ ticket' = ticket /\ tick' = tick
        /\ sent' = sent /\ repeated' = repeated /\ now' = now
        /\ comments' = comments /\ history' = history
    BY <1>2 DEF AttachRows
  <2>3. ASSUME NEW m \in Metrics
        PROVE  /\ clock'[m] \in Instance
               /\ clock'[m].completedAt = Never /\ clock'[m].pausedAt = Never
    <3>1. now \in Nat /\ Target[m] \in Nat
      BY <1>0 DEF RowsOK
    <3>2. clock'[m] = [startedAt |-> now, dueAt |-> now + Target[m], pausedAt |-> Never,
                       completedAt |-> Never, breachedAt |-> Never, level |-> 0]
      BY <2>1 DEF Unattached
    <3> QED BY <3>1, <3>2 DEF Instance
  <2>4. RowsOK'
    <3>1. clock' \in [Metrics -> Instance]
      BY <2>1, <2>3
    <3> QED BY <1>0, <2>2, <2>3, <3>1 DEF RowsOK
  <2>5. TicksOK'
    <3>1. now \in Nat
      BY <1>0 DEF RowsOK
    <3> QED BY <1>1, <2>2, <3>1
  <2>6. ResponseIsTimed'
    BY <2>3 DEF ResponseIsTimed
  <2> QED BY <2>4, <2>5, <2>6, PartsNext
<1>3. CASE AttachDue
  <2>1. "resolution" \in Metrics => clock["resolution"].startedAt + Target["resolution"] \in Nat
    BY <1>0 DEF RowsOK, Instance
  <2>2. ticket' \in TicketColumns /\ ticket'.firstResponseAt = ticket.firstResponseAt
        /\ ticket'.status = ticket.status
    BY <1>0, <1>3, <2>1 DEF AttachDue, RowsOK, TicketColumns
  <2>3. RowsOK'
    BY <1>0, <1>3, <2>2 DEF AttachDue, RowsOK
  <2>4. TicksOK'
    BY <1>0, <1>1, <1>3, <2>2 DEF AttachDue, RowsOK
  <2>5. ResponseIsTimed'
    BY <1>0, <1>3, <2>2 DEF AttachDue, ResponseIsTimed
  <2> QED BY <2>3, <2>4, <2>5, PartsNext
<1>4. ASSUME NEW k \in Tickers, Crash(k)
      PROVE  SInv'
  <2>. DEFINE next == tick[k].next
  <2>0. history' \in HistoryRecord /\ history'.responses = history.responses
    <3>1. next.kind = "row" => next.m \in Metrics /\ next.level \in Thresholds
      BY <1>0 DEF TicksOK, TickOK, NextOK
    <3>2. next.kind = "row" => <<next.m, next.level>> \in Metrics \X Thresholds
      BY <3>1
    <3>3. PICK u \in SUBSET (Metrics \X Thresholds), c \in BOOLEAN :
            history' = [history EXCEPT !.unrecorded = u, !.uncopied = c]
      BY <1>0, <1>4, <3>2 DEF Crash, RowsOK, HistoryRecord
    <3>. QED  BY <1>0, <3>3 DEF RowsOK, HistoryRecord
  <2>1. RowsOK'
    BY <1>0, <1>4, <2>0 DEF Crash, RowsOK
  <2>2. TickOK(NoTick) /\ now' = now /\ tick' = [tick EXCEPT ![k] = NoTick]
    BY <1>0, <1>4, NoTickOK DEF Crash, RowsOK
  <2>3. TicksOK'
    <3> HIDE DEF NoTick
    <3> QED BY <1>0, <2>0, <2>2, TickerStep
  <2>4. ResponseIsTimed'
    BY <1>0, <1>4, <2>0 DEF Crash, ResponseIsTimed
  <2> QED BY <2>1, <2>3, <2>4, PartsNext
<1>5. ASSUME NEW target \in Targets, Move(target)
      PROVE  SInv'
  <2>1. ticket' \in TicketColumns /\ ticket'.firstResponseAt = ticket.firstResponseAt
    BY <1>0, <1>5 DEF Move, RowsOK, TicketColumns
  <2>2. ticket.status # "merged"
    BY <1>5, MergedStays DEF Move
  <2>3. RowsOK'
    BY <1>0, <1>5, <2>1 DEF Move, RowsOK
  <2>4. TicksOK'
    <3>1. now \in Nat /\ now' = now /\ tick' = tick /\ history' = history
      BY <1>0, <1>5 DEF Move, RowsOK
    <3> QED BY <1>1, <2>1, <3>1
  <2>5. ResponseIsTimed'
    BY <1>0, <1>5, <2>1, <2>2 DEF Move, ResponseIsTimed
  <2> QED BY <2>3, <2>4, <2>5, PartsNext
<1>6. CASE BeginComment \/ Respond
  <2>1. CASE BeginComment
    <3>1. RowsOK' /\ ResponseIsTimed'
      BY <1>0, <2>1 DEF BeginComment, RowsOK, ResponseIsTimed
    <3>2. TicksOK'
      BY <1>0, <1>1, <2>1 DEF BeginComment, RowsOK
    <3>. QED  BY <3>1, <3>2, PartsNext
  <2>2. CASE Respond
    <3>1. /\ ticket' \in TicketColumns /\ ticket'.firstResponseAt = now
          /\ ticket'.status = ticket.status
          /\ history' \in HistoryRecord
          /\ history'.responses = history.responses \cup {now}
      BY <1>0, <2>2 DEF Respond, RowsOK, TicketColumns, HistoryRecord
    <3>2. RowsOK'
      BY <1>0, <2>2, <3>1 DEF Respond, RowsOK
    <3>3. TicksOK'
      BY <1>0, <1>1, <2>2, <3>1 DEF Respond, RowsOK
    <3>4. ResponseIsTimed'
      BY <1>0, <2>2, <3>1 DEF Respond, ResponseIsTimed
    <3>. QED  BY <3>2, <3>3, <3>4, PartsNext
  <2>. QED  BY <1>6, <2>1, <2>2
<1>7. CASE MergeAway
  <2>1. /\ ticket' \in TicketColumns /\ ticket'.firstResponseAt = ticket.firstResponseAt
        /\ ticket'.status = "merged"
    BY <1>0, <1>7 DEF MergeAway, RowsOK, TicketColumns, Statuses, Terminal
  <2>2. ASSUME NEW m \in Metrics
        PROVE  clock'[m] \in Instance /\ clock'[m].pausedAt = clock[m].pausedAt
    BY <1>0, <1>7 DEF MergeAway, RowsOK, Instance
  <2>3. RowsOK'
    BY <1>0, <1>7, <2>1, <2>2 DEF MergeAway, RowsOK
  <2>4. TicksOK'
    BY <1>0, <1>1, <1>7, <2>1 DEF MergeAway, RowsOK
  <2>5. ResponseIsTimed'
    BY <2>1 DEF ResponseIsTimed
  <2> QED BY <2>3, <2>4, <2>5, PartsNext
<1>8. CASE Pass
  <2>1. RowsOK'
    BY <1>0, <1>8 DEF Pass, RowsOK, Instance
  <2>2. TicksOK'
    BY <1>0, <1>1, <1>8 DEF Pass, RowsOK
  <2>3. ResponseIsTimed'
    BY <1>0, <1>8 DEF Pass, ResponseIsTimed
  <2> QED BY <2>1, <2>2, <2>3, PartsNext
<1> QED BY <1>2, <1>3, <1>4, <1>5, <1>6, <1>7, <1>8

\* Before the rows exist there is nothing to get wrong.
LEMMA InitialSInv == SlaInit => SInv
<1> SUFFICES ASSUME SlaInit PROVE SInv
  OBVIOUS
<1>1. RowsOK
  BY DEF SlaInit, RowsOK, TicketColumns, Statuses, Unattached, Instance, HistoryRecord, NoHistory
<1>2. TicksOK
  <2>1. TickOK(NoTick)
    BY NoTickOK DEF SlaInit
  <2>2. NoTick \in TickState
    BY <2>1 DEF TickOK
  <2> QED BY <2>1, <2>2 DEF SlaInit, TicksOK
<1>3. ResponseIsTimed
  BY DEF SlaInit, ResponseIsTimed, Unattached
<1> QED BY <1>1, <1>2, <1>3, Parts

LEMMA SlaStep == SInv /\ [SlaNext]_slaVars => SInv'
<1> SUFFICES ASSUME SInv, [SlaNext]_slaVars PROVE SInv'
  OBVIOUS
<1>1. CASE \E k \in Tickers : Work(k)
  BY <1>1, TickerPreserves
<1>2. CASE \/ AttachRows \/ AttachDue
           \/ \E k \in Tickers : Crash(k)
           \/ \E target \in Targets : Move(target)
           \/ BeginComment \/ Respond \/ MergeAway \/ Pass
  BY <1>2, OthersPreserve
<1>3. CASE UNCHANGED slaVars
  <2>1. RowsOK /\ TicksOK /\ ResponseIsTimed
    BY Parts
  <2>2. RowsOK' /\ ResponseIsTimed'
    BY <1>3, <2>1 DEF slaVars, RowsOK, ResponseIsTimed
  <2>3. TicksOK'
    BY <1>3, <2>1 DEF slaVars, TicksOK, TickOK, SnapshotOK
  <2> QED BY <2>2, <2>3, PartsNext
<1> QED BY <1>1, <1>2, <1>3 DEF SlaNext

\* SInv is inductive: it holds however ticks, comments, merges and restarts
\* interleave.
THEOREM SlaInvariance == SlaSpec => []SInv
BY SlaStep, InitialSInv, PTL DEF SlaSpec

\* Rows, snapshots and the memory of a tick keep their shape, however ticks,
\* requests, merges and restarts interleave.
THEOREM SlaTypeCorrect == SlaSpec => []SlaTypeOK
<1>1. SInv => SlaTypeOK
  BY DEF SInv
<1> QED BY <1>1, SlaInvariance, PTL

\* A first-response clock that has stopped shows when a response was written,
\* unless the ticket was merged away, and the ticket shows the same time or
\* that of a comment which overlapped the first: although several processes
\* stop the clock from rows they read earlier, and comments write over each
\* other, none can write another time.
THEOREM StoppedByAResponse == SlaSpec => []ResponseIsTimed
<1>1. SInv => ResponseIsTimed
  BY DEF SInv
<1> QED BY <1>1, SlaInvariance, PTL

(***************************************************************************)
(* However ticks overlap, a row keeps its start, and its due date stays    *)
(* behind it; so does whatever a tick remembers of the row.                *)
(***************************************************************************)
Ordered ==
  /\ attach = "rows" =>
       /\ sent = {} /\ ticket.dueAt = Never
       /\ \A k \in Tickers : tick[k] = NoTick
       /\ \A m \in Metrics : clock[m] = Unattached
  /\ \A m \in Metrics : clock[m].startedAt # Never => clock[m].startedAt < clock[m].dueAt
  /\ \A k \in Tickers : \A s \in tick[k].rows :
       s.row.startedAt = clock[s.m].startedAt /\ s.row.startedAt < s.row.dueAt

LEMMA NoTickShape ==
  NoTick.rows = {} /\ NoTick.next = Nothing /\ NoTick.next.kind = "none"
BY DEF NoTick, Nothing

LEMMA AfterShape ==
  ASSUME NEW k \in Tickers, tick[k] \in TickState, tick[k].next = Nothing, NEW s
  PROVE  /\ After(k, s).next = Nothing
         /\ After(k, s).rows \subseteq tick[k].rows \ {s}
         /\ After(k, s).rows # {} => After(k, s).now = tick[k].now
<1>1. CASE tick[k].rows \ {s} = {}
  BY <1>1, NoTickShape DEF After
<1>2. CASE tick[k].rows \ {s} # {}
  <2>1. After(k, s) = [tick[k] EXCEPT !.rows = tick[k].rows \ {s}]
    BY <1>2 DEF After
  <2>. QED  BY <2>1 DEF TickState
<1>. QED  BY <1>1, <1>2

LEMMA FinishedShape ==
  ASSUME NEW k \in Tickers, tick[k] \in TickState
  PROVE  /\ Finished(k).next = Nothing /\ Finished(k).rows \subseteq tick[k].rows
         /\ Finished(k).rows # {} => Finished(k).now = tick[k].now
BY NoTickShape DEF Finished, TickState

(* The steps of ticker k, seen from outside: what becomes of its memory. *)
LEMMA TickMoves ==
  ASSUME SInv, NEW k \in Tickers, Work(k)
  PROVE  /\ \A j \in Tickers \ {k} : tick'[j] = tick[j]
         /\ TickBegin(k) \/ ( /\ tick'[k].rows \subseteq tick[k].rows
                              /\ tick'[k].rows # {} => tick'[k].now = tick[k].now )
<1>1. TicksOK
  BY Parts
<1>2. tick[k] \in TickState /\ tick \in [Tickers -> TickState]
  BY <1>1 DEF TicksOK
<1>3. ASSUME NEW s \in tick[k].rows,
             Hold(k, s) \/ Resume(k, s) \/ Stop(k, s) \/ Consume(k, s) \/ Escalate(k, s)
      PROVE  /\ \A j \in Tickers \ {k} : tick'[j] = tick[j]
             /\ tick'[k].rows \subseteq tick[k].rows
             /\ tick'[k].rows # {} => tick'[k].now = tick[k].now
  <2>1. tick[k].next = Nothing
    BY <1>3 DEF Hold, Resume, Stop, Consume, Escalate, Takes
  <2>2. \/ tick' = [tick EXCEPT ![k] = After(k, s)]
        \/ \E n : tick' = [tick EXCEPT ![k] = [tick[k] EXCEPT !.rows = @ \ {s}, !.next = n]]
    <3>1. CASE Hold(k, s) \/ Stop(k, s) \/ Consume(k, s)
      BY <3>1 DEF Hold, Stop, Consume
    <3>2. CASE Resume(k, s)
      BY <3>2 DEF Resume
    <3>3. CASE Escalate(k, s)
      BY <3>3 DEF Escalate
    <3>. QED  BY <1>3, <3>1, <3>2, <3>3
  <2>3. CASE tick' = [tick EXCEPT ![k] = After(k, s)]
    BY <1>2, <2>1, <2>3, AfterShape
  <2>4. ASSUME NEW n,
               tick' = [tick EXCEPT ![k] = [tick[k] EXCEPT !.rows = @ \ {s}, !.next = n]]
        PROVE  /\ \A j \in Tickers \ {k} : tick'[j] = tick[j]
               /\ tick'[k].rows \subseteq tick[k].rows
               /\ tick'[k].now = tick[k].now
    BY <1>2, <2>4 DEF TickState
  <2>. QED  BY <2>2, <2>3, <2>4
<1>4. CASE CopyDue(k) \/ Record(k)
  BY <1>2, <1>4, FinishedShape DEF CopyDue, Record
<1>5. CASE TickBegin(k)
  BY <1>2, <1>5 DEF TickBegin
<1>. QED  BY <1>3, <1>4, <1>5 DEF Work

LEMMA BeginShape ==
  ASSUME SInv, Ordered, NEW k \in Tickers, TickBegin(k)
  PROVE  /\ attach # "rows"
         /\ tick[k] = NoTick /\ tick'[k].next = Nothing /\ tick'[k].now = now
         /\ UNCHANGED <<ticket, clock, attach, comments, sent, repeated, history, now>>
         /\ \A s \in tick'[k].rows : \E m \in Metrics : s = Snapshot(m) /\ Open(m)
<1>1. tick \in [Tickers -> TickState]
  BY Parts DEF TicksOK
<1>2. PICK page \in SUBSET {m \in Metrics : Open(m)} :
        /\ page # {}
        /\ tick' = [tick EXCEPT ![k] =
             [rows |-> {Snapshot(m) : m \in page}, now |-> now, next |-> Nothing]]
  BY DEF TickBegin
<1>3. /\ tick'[k].rows = {Snapshot(m) : m \in page}
      /\ tick'[k].next = Nothing /\ tick'[k].now = now
  BY <1>1, <1>2
<1>4. attach # "rows"
  <2>. SUFFICES ASSUME attach = "rows" PROVE FALSE
    OBVIOUS
  <2>1. PICK m \in Metrics : Open(m)
    BY <1>2
  <2>2. clock[m] = Unattached
    BY DEF Ordered
  <2>. QED  BY <2>1, <2>2 DEF Open, Unattached
<1>. QED  BY <1>2, <1>3, <1>4 DEF TickBegin

(* What the handling of a row makes of the rows: everything but Resume leaves
   the due date. *)
LEMMA RowWrites ==
  ASSUME SInv, NEW k \in Tickers, NEW s \in tick[k].rows, NEW m \in Metrics
  PROVE  /\ Hold(k, s) =>
              /\ clock'[m].startedAt = clock[m].startedAt /\ clock'[m].dueAt = clock[m].dueAt
              /\ clock'[m].level = clock[m].level
              /\ clock'[m].pausedAt = clock[m].pausedAt \/ clock'[m].pausedAt = now
         /\ Resume(k, s) =>
              /\ clock'[m].startedAt = clock[m].startedAt /\ clock'[m].level = clock[m].level
              /\ s.m # m => clock'[m] = clock[m]
         /\ Stop(k, s) \/ Consume(k, s) =>
              /\ clock'[m].startedAt = clock[m].startedAt /\ clock'[m].dueAt = clock[m].dueAt
              /\ clock'[m].pausedAt = clock[m].pausedAt /\ clock'[m].level = clock[m].level
<1>1. RowsOK /\ TicksOK
  BY Parts
<1>2. clock \in [Metrics -> Instance] /\ clock[m] \in Instance /\ now \in Nat
  BY <1>1 DEF RowsOK
<1>3. s \in SnapshotRow /\ s.m \in Metrics
  BY <1>1, WhatIsLeft DEF SnapshotRow
<1>4. ASSUME Hold(k, s)
      PROVE  clock'[m] = clock[m] \/ clock'[m] = [clock[m] EXCEPT !.pausedAt = now]
  <2>1. clock' = clock \/ clock' = [clock EXCEPT ![s.m].pausedAt = now]
    BY <1>4 DEF Hold
  <2>. QED  BY <1>2, <1>3, <2>1
<1>5. ASSUME Resume(k, s)
      PROVE  /\ clock'[m].startedAt = clock[m].startedAt /\ clock'[m].level = clock[m].level
             /\ s.m # m => clock'[m] = clock[m]
  <2>1. PICK d : clock' = [clock EXCEPT ![s.m] = [@ EXCEPT !.pausedAt = Never, !.dueAt = d]]
    BY <1>5 DEF Resume
  <2>. QED  BY <1>2, <1>3, <2>1 DEF Instance
<1>6. ASSUME Stop(k, s) \/ Consume(k, s)
      PROVE  /\ clock'[m].startedAt = clock[m].startedAt /\ clock'[m].dueAt = clock[m].dueAt
             /\ clock'[m].pausedAt = clock[m].pausedAt /\ clock'[m].level = clock[m].level
  <2>1. \/ \E c : clock' = [clock EXCEPT ![s.m].completedAt = c]
        \/ \E b : clock' = [clock EXCEPT ![s.m].breachedAt = b]
    BY <1>6, <1>3, <1>2 DEF Stop, Consume
  <2>2. ASSUME NEW c, clock' = [clock EXCEPT ![s.m].completedAt = c]
        PROVE  /\ clock'[m].startedAt = clock[m].startedAt /\ clock'[m].dueAt = clock[m].dueAt
               /\ clock'[m].pausedAt = clock[m].pausedAt /\ clock'[m].level = clock[m].level
    BY <1>2, <1>3, <2>2 DEF Instance
  <2>3. ASSUME NEW c, clock' = [clock EXCEPT ![s.m].breachedAt = c]
        PROVE  /\ clock'[m].startedAt = clock[m].startedAt /\ clock'[m].dueAt = clock[m].dueAt
               /\ clock'[m].pausedAt = clock[m].pausedAt /\ clock'[m].level = clock[m].level
    BY <1>2, <1>3, <2>3 DEF Instance
  <2>. QED  BY <2>1, <2>2, <2>3
<1>7. Hold(k, s) =>
        /\ clock'[m].startedAt = clock[m].startedAt /\ clock'[m].dueAt = clock[m].dueAt
        /\ clock'[m].level = clock[m].level
        /\ clock'[m].pausedAt = clock[m].pausedAt \/ clock'[m].pausedAt = now
  BY <1>2, <1>4 DEF Instance
<1>. QED  BY <1>5, <1>6, <1>7

LEMMA RecordWrites ==
  ASSUME SInv, NEW k \in Tickers, Record(k), NEW m \in Metrics
  PROVE  /\ tick[k].next.m \in Metrics
         /\ clock'[m].startedAt = clock[m].startedAt /\ clock'[m].dueAt = clock[m].dueAt
         /\ clock'[m].pausedAt = clock[m].pausedAt
         /\ tick[k].next.m # m => clock'[m] = clock[m]
         /\ tick[k].next.m = m => clock'[m].level = tick[k].next.level
<1>1. clock \in [Metrics -> Instance] /\ TicksOK
  BY Parts DEF RowsOK
<1>2. tick[k].next.m \in Metrics
  BY <1>1 DEF Record, TicksOK, TickOK, NextOK
<1>3. PICK b : clock' = [clock EXCEPT ![tick[k].next.m] =
        [clock[tick[k].next.m] EXCEPT !.level = tick[k].next.level, !.breachedAt = b]]
  BY DEF Record
<1>. QED  BY <1>1, <1>2, <1>3 DEF Instance

LEMMA MergeWrites ==
  ASSUME SInv, MergeAway, NEW m \in Metrics
  PROVE  /\ clock'[m].startedAt = clock[m].startedAt /\ clock'[m].dueAt = clock[m].dueAt
         /\ clock'[m].pausedAt = clock[m].pausedAt /\ clock'[m].level = clock[m].level
<1>1. clock[m] \in Instance
  BY Parts DEF RowsOK
<1>. QED  BY <1>1 DEF MergeAway, Instance

(* What any step makes of a row. *)
LEMMA RowMoves ==
  ASSUME SInv, [SlaNext]_slaVars, ~AttachRows, NEW m \in Metrics
  PROVE  /\ clock'[m].startedAt = clock[m].startedAt
         /\ \/ clock'[m].dueAt = clock[m].dueAt
            \/ \E k \in Tickers : \E s \in tick[k].rows : Resume(k, s) /\ s.m = m
<1>1. ASSUME NEW k \in Tickers, Work(k)
      PROVE  \/ UNCHANGED clock
             \/ Record(k)
             \/ \E s \in tick[k].rows : \/ Hold(k, s) \/ Resume(k, s)
                                        \/ Stop(k, s) \/ Consume(k, s)
  BY <1>1 DEF Work, TickBegin, CopyDue, Escalate
<1>2. ASSUME NEW k \in Tickers, Work(k)
      PROVE  /\ clock'[m].startedAt = clock[m].startedAt
             /\ \/ clock'[m].dueAt = clock[m].dueAt
                \/ \E s \in tick[k].rows : Resume(k, s) /\ s.m = m
  BY <1>1, <1>2, RowWrites, RecordWrites
<1>3. CASE \/ AttachDue \/ BeginComment \/ Respond \/ Pass \/ UNCHANGED slaVars
           \/ \E k \in Tickers : Crash(k)
           \/ \E target \in Targets : Move(target)
  BY <1>3 DEF AttachDue, BeginComment, Respond, Pass, Crash, Move, slaVars
<1>. QED  BY <1>2, <1>3, MergeWrites DEF SlaNext

LEMMA RowsAttached ==
  ASSUME SInv, Ordered, AttachRows, NEW m \in Metrics
  PROVE  /\ clock'[m].startedAt = now /\ clock'[m].dueAt = now + Target[m]
         /\ clock'[m].dueAt \in Nat /\ now < clock'[m].dueAt
         /\ clock'[m].level = 0 /\ clock'[m].pausedAt = Never
<1>1. now \in Nat /\ Target[m] \in Nat \ {0}
  BY Parts DEF RowsOK
<1>2. clock'[m] = [startedAt |-> now, dueAt |-> now + Target[m], pausedAt |-> Never,
                   completedAt |-> Never, breachedAt |-> Never, level |-> 0]
  BY DEF AttachRows, Unattached
<1>. QED  BY <1>1, <1>2

(* The row that ticker k resumes runs later than it started. *)
LEMMA ResumedRow ==
  ASSUME SInv, Ordered, NEW k \in Tickers, NEW s \in tick[k].rows, Resume(k, s)
  PROVE  LET held == tick[k].now - s.row.pausedAt IN
         /\ s.m \in Metrics /\ held \in Nat /\ s.row \in Instance
         /\ tick[k].now \in Nat /\ tick[k].now <= now
         /\ clock'[s.m].dueAt = s.row.dueAt + held
         /\ clock'[s.m].pausedAt = Never
         /\ clock[s.m].startedAt < clock'[s.m].dueAt
         /\ \A m \in Metrics : m # s.m => clock'[m] = clock[m]
<1>1. RowsOK /\ TicksOK
  BY Parts
<1>2. /\ s \in SnapshotRow /\ SnapshotOK(s, tick[k].now)
      /\ tick[k].now \in Nat /\ tick[k].now <= now
  BY <1>1, WhatIsLeft
<1>3. /\ s.m \in Metrics /\ s.row \in Instance /\ s.row.pausedAt <= tick[k].now
      /\ clock \in [Metrics -> Instance]
  BY <1>1, <1>2 DEF SnapshotRow, SnapshotOK, RowsOK
<1>4. s.row.startedAt = clock[s.m].startedAt /\ s.row.startedAt < s.row.dueAt
  BY DEF Ordered
<1>. DEFINE held == tick[k].now - s.row.pausedAt
<1>5. held \in Nat /\ s.row.dueAt \in Nat /\ s.row.startedAt \in Nat
  BY <1>2, <1>3 DEF Instance
<1>6. clock' = [clock EXCEPT ![s.m] = [@ EXCEPT !.pausedAt = Never, !.dueAt = s.row.dueAt + held]]
  BY DEF Resume
<1>. HIDE DEF held
<1>7. /\ clock'[s.m].dueAt = s.row.dueAt + held /\ clock'[s.m].pausedAt = Never
      /\ \A m \in Metrics : m # s.m => clock'[m] = clock[m]
  BY <1>3, <1>6 DEF Instance
<1>8. s.row.startedAt < s.row.dueAt + held
  BY <1>4, <1>5
<1>. QED  BY <1>2, <1>3, <1>4, <1>5, <1>7, <1>8 DEF held

LEMMA OrderedStep == SInv /\ Ordered /\ [SlaNext]_slaVars => Ordered'
<1>. SUFFICES ASSUME SInv, Ordered, [SlaNext]_slaVars PROVE Ordered'
  OBVIOUS
<1>1. RowsOK /\ TicksOK
  BY Parts
<1>2. clock \in [Metrics -> Instance] /\ now \in Nat /\ tick \in [Tickers -> TickState]
  BY <1>1 DEF RowsOK, TicksOK
<1>3. CASE AttachRows
  <2>1. attach = "rows" /\ attach' = "due" /\ tick' = tick
    BY <1>3 DEF AttachRows
  <2>2. \A k \in Tickers : tick'[k].rows = {}
    BY <2>1, NoTickShape DEF Ordered
  <2>3. \A m \in Metrics : clock'[m].startedAt < clock'[m].dueAt
    BY <1>3, RowsAttached
  <2>. QED  BY <2>1, <2>2, <2>3 DEF Ordered
<1>4. ASSUME ~AttachRows
      PROVE  \A m \in Metrics : clock'[m].startedAt # Never =>
               clock'[m].startedAt < clock'[m].dueAt
  <2>. TAKE m \in Metrics
  <2>1. clock'[m].startedAt = clock[m].startedAt
        /\ (clock[m].startedAt # Never => clock[m].startedAt < clock[m].dueAt)
    BY <1>4, RowMoves DEF Ordered
  <2>2. CASE clock'[m].dueAt = clock[m].dueAt
    BY <2>1, <2>2
  <2>3. ASSUME NEW k \in Tickers, NEW s \in tick[k].rows, Resume(k, s), s.m = m
        PROVE  clock[m].startedAt < clock'[m].dueAt
    BY <2>3, ResumedRow
  <2>. QED  BY <1>4, <2>1, <2>2, <2>3, RowMoves
<1>5. ASSUME ~AttachRows, NEW k \in Tickers, NEW s \in tick'[k].rows
      PROVE  s.row.startedAt = clock'[s.m].startedAt /\ s.row.startedAt < s.row.dueAt
  <2>1. \A m \in Metrics : clock'[m].startedAt = clock[m].startedAt
    BY <1>5, RowMoves
  <2>2. ASSUME s \in tick[k].rows
        PROVE  s.row.startedAt = clock'[s.m].startedAt /\ s.row.startedAt < s.row.dueAt
    <3>1. s.m \in Metrics
      BY <1>1, <2>2, WhatIsLeft DEF SnapshotRow
    <3>. QED  BY <2>1, <2>2, <3>1 DEF Ordered
  <2>3. CASE TickBegin(k)
    <3>1. PICK m \in Metrics : s = Snapshot(m) /\ Open(m)
      BY <1>5, <2>3, BeginShape
    <3>2. s.m = m /\ s.row = clock[m] /\ clock[m].startedAt # Never
      BY <3>1 DEF Snapshot, Open
    <3>. QED  BY <2>1, <3>2 DEF Ordered
  <2>4. ASSUME NEW j \in Tickers, Work(j), ~TickBegin(k)
        PROVE  s \in tick[k].rows
    BY <1>5, <2>4, TickMoves
  <2>5. ASSUME NEW j \in Tickers, Crash(j)
        PROVE  s \in tick[k].rows
    BY <1>2, <1>5, <2>5, NoTickShape DEF Crash
  <2>6. CASE UNCHANGED tick
    BY <1>5, <2>2, <2>6
  <2>7. CASE \/ AttachDue \/ BeginComment \/ Respond \/ Pass \/ MergeAway \/ UNCHANGED slaVars
             \/ \E target \in Targets : Move(target)
    BY <2>6, <2>7 DEF AttachDue, BeginComment, Respond, Pass, MergeAway, Move, slaVars
  <2>. QED  BY <1>5, <2>2, <2>3, <2>4, <2>5, <2>7 DEF SlaNext
<1>6. ASSUME attach' = "rows"
      PROVE  /\ sent' = {} /\ ticket'.dueAt = Never
             /\ \A k \in Tickers : tick'[k] = NoTick
             /\ \A m \in Metrics : clock'[m] = Unattached
  <2>0. attach = "rows"
    <3>1. ASSUME NEW k \in Tickers, Work(k) PROVE attach' = attach
      <4>1. CASE TickBegin(k) \/ CopyDue(k) \/ Record(k)
        BY <4>1 DEF TickBegin, CopyDue, Record
      <4>2. ASSUME NEW s \in tick[k].rows,
                   \/ Hold(k, s) \/ Resume(k, s) \/ Stop(k, s)
                   \/ Consume(k, s) \/ Escalate(k, s)
            PROVE  attach' = attach
        BY <4>2 DEF Hold, Resume, Stop, Consume, Escalate
      <4>. QED  BY <3>1, <4>1, <4>2 DEF Work
    <3>2. ~AttachRows /\ ~AttachDue
      BY <1>6 DEF AttachRows, AttachDue
    <3>3. CASE \E k \in Tickers : Crash(k)
      BY <1>6, <3>3 DEF Crash
    <3>4. CASE \/ BeginComment \/ Respond \/ Pass \/ MergeAway \/ UNCHANGED slaVars
               \/ \E target \in Targets : Move(target)
      BY <1>6, <3>4 DEF BeginComment, Respond, Pass, MergeAway, Move, slaVars
    <3>. QED  BY <1>6, <3>1, <3>2, <3>3, <3>4 DEF SlaNext
  <2>1. /\ sent = {} /\ ticket.dueAt = Never /\ ticket \in TicketColumns
        /\ \A k \in Tickers : tick[k] = NoTick
        /\ \A m \in Metrics : clock[m] = Unattached
    BY <1>1, <2>0 DEF Ordered, RowsOK
  <2>2. ASSUME NEW k \in Tickers PROVE ~Work(k)
    <3>1. ~TickBegin(k)
      BY <2>0, BeginShape
    <3>. QED  BY <2>1, <3>1, NoTickShape DEF Work, CopyDue, Record
  <2>3. ~AttachRows /\ ~AttachDue /\ ~MergeAway
    BY <1>6, <2>0 DEF AttachRows, AttachDue, MergeAway
  <2>4. ASSUME NEW k \in Tickers, Crash(k)
        PROVE  UNCHANGED <<sent, ticket, clock>> /\ \A j \in Tickers : tick'[j] = NoTick
    BY <1>2, <2>1, <2>4 DEF Crash
  <2>5. CASE (\E target \in Targets : Move(target)) \/ Respond
    BY <2>1, <2>5 DEF Move, Respond, TicketColumns
  <2>6. CASE BeginComment \/ Pass \/ UNCHANGED slaVars
    BY <2>1, <2>6 DEF BeginComment, Pass, slaVars
  <2>. QED  BY <2>1, <2>2, <2>3, <2>4, <2>5, <2>6 DEF SlaNext
<1>7. CASE ~AttachRows
  <2>. QED  BY <1>4, <1>5, <1>6, <1>7 DEF Ordered
<1>. QED  BY <1>3, <1>7

LEMMA OrderedAlways == SlaSpec => []Ordered
<1>1. SlaInit => Ordered
  BY NoTickShape DEF SlaInit, Ordered, Unattached
<1>. QED  BY <1>1, OrderedStep, SlaInvariance, PTL DEF SlaSpec

(***************************************************************************)
(* The due date on its way to the ticket.                                  *)
(***************************************************************************)
DueCopied == "resolution" \in Metrics /\ ~history.uncopied =>
  LET due == clock["resolution"].dueAt IN
  /\ attach = "due" =>
       /\ due = clock["resolution"].startedAt + Target["resolution"]
       /\ \A k \in Tickers : tick[k].next.kind # "due"
  /\ \A k \in Tickers : tick[k].next.kind = "due" => tick[k].next.at = due
  /\ \A j, k \in Tickers : tick[j].next.kind = "due" /\ tick[k].next.kind = "due" => j = k
  /\ ~CopyUnderWay => ticket.dueAt = due

(* A step that moves neither due date nor anybody's copy of it. *)
LEMMA DueKept ==
  ASSUME DueCopied, ticket'.dueAt = ticket.dueAt, attach' = attach,
         "resolution" \in Metrics =>
           /\ clock'["resolution"].dueAt = clock["resolution"].dueAt
           /\ clock'["resolution"].startedAt = clock["resolution"].startedAt,
         \A k \in Tickers : \/ tick'[k].next = tick[k].next
                            \/ tick'[k].next.kind # "due" /\ tick[k].next.kind # "due",
         history'.uncopied = history.uncopied
  PROVE  DueCopied'
BY DEF DueCopied, CopyUnderWay

(* The row is handled, and nothing is owed for it. *)
LEMMA NothingOwed ==
  ASSUME SInv, NEW k \in Tickers, NEW s, Takes(k, s),
         tick' = [tick EXCEPT ![k] = After(k, s)]
  PROVE  \A j \in Tickers : tick'[j].next = tick[j].next
<1>1. tick \in [Tickers -> TickState] /\ tick[k].next = Nothing
  BY Parts DEF TicksOK, Takes
<1>2. After(k, s).next = Nothing
  BY <1>1, AfterShape
<1>. QED  BY <1>1, <1>2

LEMMA DueRow ==
  ASSUME SInv, Ordered, DueCopied, NEW k \in Tickers, NEW s \in tick[k].rows,
         \/ Hold(k, s) \/ Stop(k, s) \/ Consume(k, s) \/ Escalate(k, s)
  PROVE  DueCopied'
<1>1. RowsOK /\ TicksOK
  BY Parts
<1>3. UNCHANGED <<attach, history>> /\ ticket'.dueAt = ticket.dueAt
  BY <1>1 DEF Hold, Stop, Consume, Escalate, RowsOK, TicketColumns
<1>4. \A j \in Tickers : \/ tick'[j].next = tick[j].next
                         \/ tick'[j].next.kind # "due" /\ tick[j].next.kind # "due"
  <2>1. CASE Hold(k, s) \/ Stop(k, s) \/ Consume(k, s)
    BY <2>1, NothingOwed DEF Hold, Stop, Consume
  <2>2. CASE Escalate(k, s)
    <3>1. PICK p : tick' = [tick EXCEPT ![k] =
            [tick[k] EXCEPT !.rows = @ \ {s},
                            !.next = [kind |-> "row", m |-> s.m, level |-> p,
                                      at |-> BreachedAfter(k, s, Never)]]]
      BY <2>2 DEF Escalate
    <3>2. tick[k].next.kind # "due" /\ tick \in [Tickers -> TickState]
      BY <1>1, <2>2, NoTickShape DEF Escalate, Takes, TicksOK
    <3>. QED  BY <3>1, <3>2 DEF TickState
  <2>. QED  BY <2>1, <2>2
<1>5. \A m \in Metrics : clock'[m].dueAt = clock[m].dueAt /\ clock'[m].startedAt = clock[m].startedAt
  BY RowWrites DEF Escalate
<1>. QED  BY <1>3, <1>4, <1>5, DueKept

LEMMA DueResume ==
  ASSUME SInv, Ordered, DueCopied, NEW k \in Tickers, NEW s \in tick[k].rows, Resume(k, s)
  PROVE  DueCopied'
<1>. DEFINE due == s.row.dueAt + (tick[k].now - s.row.pausedAt)
            copy == [Nothing EXCEPT !.kind = "due", !.m = s.m, !.at = due]
<1>1. RowsOK /\ TicksOK
  BY Parts
<1>2. /\ tick \in [Tickers -> TickState] /\ tick[k].next = Nothing /\ history \in HistoryRecord
      /\ s.m \in Metrics
  BY <1>1, ResumedRow DEF TicksOK, RowsOK, Resume, Takes
<1>3. UNCHANGED <<ticket, attach>> /\ history' = Resumed(s)
  BY DEF Resume
<1>4. CASE s.m # "resolution"
  <2>1. tick' = [tick EXCEPT ![k] = After(k, s)] /\ Takes(k, s)
    BY <1>4 DEF Resume
  <2>2. \A j \in Tickers : tick'[j].next = tick[j].next
    BY <2>1, NothingOwed
  <2>3. history'.uncopied = history.uncopied
    BY <1>2, <1>3, <1>4, ResumedShape
  <2>4. "resolution" \in Metrics => clock'["resolution"] = clock["resolution"]
    BY <1>4, RowWrites
  <2>. QED  BY <1>3, <2>2, <2>3, <2>4, DueKept
<1>5. CASE s.m = "resolution"
  <2>1. history'.uncopied = CopyUnderWay
    BY <1>2, <1>3, <1>5, ResumedShape
  <2>. SUFFICES ASSUME ~CopyUnderWay PROVE DueCopied'
    BY <2>1 DEF DueCopied
  <2>2. attach # "due" /\ \A j \in Tickers : tick[j].next.kind # "due"
    BY DEF CopyUnderWay
  <2>3. clock'["resolution"].dueAt = due
    BY <1>5, ResumedRow
  <2>. HIDE DEF due
  <2>4. copy.kind = "due" /\ copy.at = due
    BY DEF Nothing
  <2>5. tick' = [tick EXCEPT ![k] = [tick[k] EXCEPT !.rows = @ \ {s}, !.next = copy]]
    BY <1>5 DEF Resume, due
  <2>. HIDE DEF copy
  <2>6. tick'[k].next = copy /\ \A j \in Tickers \ {k} : tick'[j] = tick[j]
    BY <1>2, <2>5 DEF TickState
  <2>7. CopyUnderWay'
    BY <2>4, <2>6 DEF CopyUnderWay
  <2>. QED  BY <1>3, <2>2, <2>3, <2>4, <2>6, <2>7 DEF DueCopied
<1>. QED  BY <1>4, <1>5

LEMMA DueStep == SInv /\ Ordered /\ DueCopied /\ [SlaNext]_slaVars => DueCopied'
<1>. SUFFICES ASSUME SInv, Ordered, DueCopied, [SlaNext]_slaVars PROVE DueCopied'
  OBVIOUS
<1>1. RowsOK /\ TicksOK
  BY Parts
<1>2. /\ tick \in [Tickers -> TickState] /\ ticket \in TicketColumns
      /\ history \in HistoryRecord
  BY <1>1 DEF RowsOK, TicksOK
<1>3. CASE AttachRows
  <2>1. attach' = "due" /\ tick' = tick /\ \A k \in Tickers : tick[k].next.kind # "due"
    BY <1>3, NoTickShape DEF AttachRows, Ordered
  <2>2. CopyUnderWay'
    BY <2>1 DEF CopyUnderWay
  <2>3. "resolution" \in Metrics =>
          clock'["resolution"].dueAt = clock'["resolution"].startedAt + Target["resolution"]
    BY <1>3, RowsAttached
  <2>. QED  BY <2>1, <2>2, <2>3 DEF DueCopied
<1>4. CASE AttachDue
  <2>1. /\ attach = "due" /\ attach' = "done" /\ UNCHANGED <<clock, tick, history>>
        /\ "resolution" \in Metrics =>
             ticket'.dueAt = clock["resolution"].startedAt + Target["resolution"]
    BY <1>2, <1>4 DEF AttachDue, TicketColumns
  <2>. QED  BY <2>1 DEF DueCopied, CopyUnderWay
<1>5. ASSUME NEW k \in Tickers, TickBegin(k)
      PROVE  DueCopied'
  <2>1. /\ tick'[k].next = tick[k].next /\ UNCHANGED <<ticket, clock, attach, history>>
    BY <1>5, BeginShape, NoTickShape
  <2>2. \A j \in Tickers \ {k} : tick'[j] = tick[j]
    BY <1>5, TickMoves DEF Work
  <2>. QED  BY <2>1, <2>2, DueKept
<1>6. ASSUME NEW k \in Tickers, CopyDue(k)
      PROVE  DueCopied'
  <2>1. /\ tick[k].next.kind = "due" /\ UNCHANGED <<clock, attach, history>>
        /\ ticket'.dueAt = tick[k].next.at
    BY <1>2, <1>6 DEF CopyDue, TicketColumns
  <2>2. tick'[k].next.kind = "none" /\ \A j \in Tickers \ {k} : tick'[j] = tick[j]
    BY <1>2, <1>6, FinishedShape, NoTickShape DEF CopyDue
  <2>. QED  BY <2>1, <2>2 DEF DueCopied, CopyUnderWay
<1>7. ASSUME NEW k \in Tickers, Record(k)
      PROVE  DueCopied'
  <2>1. tick[k].next.kind = "row" /\ UNCHANGED <<ticket, attach, history>>
    BY <1>7 DEF Record
  <2>2. tick'[k].next.kind = "none" /\ \A j \in Tickers \ {k} : tick'[j] = tick[j]
    BY <1>2, <1>7, FinishedShape, NoTickShape DEF Record
  <2>. QED  BY <1>7, <2>1, <2>2, DueKept, RecordWrites
<1>8. ASSUME NEW k \in Tickers, Crash(k)
      PROVE  DueCopied'
  <2>1. /\ tick' = [tick EXCEPT ![k] = NoTick] /\ UNCHANGED <<ticket, clock>>
        /\ attach' \in {attach, "done"}
        /\ history'.uncopied = (history.uncopied \/ tick[k].next.kind = "due"
                                 \/ (k \in Escalators /\ attach = "due"))
        /\ k \notin Escalators => attach' = attach
    BY <1>2, <1>8 DEF Crash, HistoryRecord
  <2>. SUFFICES ASSUME ~history.uncopied, tick[k].next.kind # "due", attach = "due" => attach' = attach
                PROVE  DueCopied'
    BY <2>1 DEF DueCopied
  <2>2. tick'[k].next.kind = "none" /\ \A j \in Tickers \ {k} : tick'[j] = tick[j]
    BY <1>2, <2>1, NoTickShape
  <2>. QED  BY <2>1, <2>2 DEF DueCopied, CopyUnderWay
<1>9. CASE MergeAway
  <2>1. UNCHANGED <<attach, tick, history>> /\ ticket'.dueAt = ticket.dueAt
    BY <1>2, <1>9 DEF MergeAway, TicketColumns
  <2>. QED  BY <1>9, <2>1, DueKept, MergeWrites
<1>10. CASE \/ BeginComment \/ Respond \/ Pass \/ UNCHANGED slaVars
            \/ \E target \in Targets : Move(target)
  <2>1. /\ UNCHANGED <<clock, attach, tick>> /\ ticket'.dueAt = ticket.dueAt
        /\ history'.uncopied = history.uncopied
    BY <1>2, <1>10 DEF BeginComment, Respond, Pass, Move, slaVars, TicketColumns, HistoryRecord
  <2>. QED  BY <2>1, DueKept
<1>11. ASSUME NEW k \in Tickers, Work(k)
       PROVE  DueCopied'
  BY <1>5, <1>6, <1>7, <1>11, DueRow, DueResume DEF Work
<1>. QED  BY <1>3, <1>4, <1>8, <1>9, <1>10, <1>11 DEF SlaNext

\* However many tickers overlap and restart: when nobody is copying it, the due
\* date that lists and reports read from the ticket is the one the resolution
\* clock goes by, unless its last move was cut short or crossed by another.
THEOREM DueDatesAgree == SlaSpec => []DueAgrees
<1>1. SlaInit => DueCopied
  BY NoTickShape DEF SlaInit, DueCopied, Unattached
<1>2. DueCopied => DueAgrees
  BY DEF DueCopied, DueAgrees
<1>. QED  BY <1>1, <1>2, DueStep, OrderedAlways, SlaInvariance, PTL DEF SlaSpec

(***************************************************************************)
(* Shares of the time used up.                                             *)
(***************************************************************************)
(* The time up to which a row has run, at a given time. *)
RunUntil(row, time) == IF row.pausedAt = Never THEN time ELSE row.pausedAt

(* The row had then used up p percent of its time, or all of it.  A pause does
   not undo that: it adds the same to both sides. *)
Reached(row, p, time) ==
  100 * (RunUntil(row, time) - row.startedAt) >= Smaller(p, 100) * (row.dueAt - row.startedAt)

(* Whatever row a had reached at time x, row b has at time y. *)
Ahead(a, x, b, y) == \A p \in Thresholds : Reached(a, p, x) => Reached(b, p, y)

LEMMA DivBound ==
  ASSUME NEW x \in Int, NEW d \in Nat \ {0}, NEW p \in Nat
  PROVE  x \div d >= p <=> x >= p * d
<1>. DEFINE q == x \div d
<1>1. q \in Int /\ x = d * q + (x % d) /\ x % d \in 0..(d - 1)
  OBVIOUS
<1>2. CASE q >= p
  <2>1. d * q >= d * p
    BY <1>1, <1>2
  <2>. QED  BY <1>1, <1>2, <2>1
<1>3. CASE q < p
  <2>1. d * (q + 1) <= d * p
    BY <1>1, <1>3
  <2>2. d * (q + 1) = d * q + d
    BY <1>1
  <2>. QED  BY <1>1, <1>3, <2>1, <2>2
<1>. QED  BY <1>1, <1>2, <1>3

(* Whether p percent are used up, without the division. *)
LEMMA PercentReaches ==
  ASSUME NEW row \in Instance, row.startedAt < row.dueAt, NEW time \in Nat, NEW p \in 0..200
  PROVE  Percent(row, time) >= p <=>
           100 * (time - row.startedAt) >= p * (row.dueAt - row.startedAt)
<1>. DEFINE d == row.dueAt - row.startedAt
            x == (time - row.startedAt) * 100
<1>1. d \in Nat \ {0} /\ x \in Int /\ x = 100 * (time - row.startedAt)
  BY DEF Instance
<1>2. Percent(row, time) = Smaller(200, x \div d)
  BY <1>1 DEF Percent, Larger
<1>. HIDE DEF d, x
<1>3. x \div d \in Int /\ (x \div d >= p <=> x >= p * d)
  BY <1>1, DivBound
<1>4. Percent(row, time) >= p <=> x \div d >= p
  BY <1>2, <1>3 DEF Smaller
<1>. QED  BY <1>1, <1>3, <1>4 DEF d

(* A running row that has reached p shows p percent, or at least 100. *)
LEMMA ReachedShows ==
  ASSUME NEW row \in Instance, row.startedAt < row.dueAt, row.pausedAt = Never,
         NEW time \in Nat, NEW p \in 1..200
  PROVE  Reached(row, p, time) <=> Percent(row, time) >= Smaller(p, 100)
<1>1. Smaller(p, 100) \in 0..200
  BY DEF Smaller
<1>. QED  BY <1>1, PercentReaches DEF Reached, RunUntil

LEMMA PercentIsNumber ==
  ASSUME NEW row \in Instance, row.startedAt < row.dueAt, NEW time \in Nat
  PROVE  Percent(row, time) \in Int
<1>. DEFINE d == row.dueAt - row.startedAt
            x == (time - row.startedAt) * 100
<1>1. d \in Nat \ {0} /\ x \in Int
  BY DEF Instance
<1>2. Percent(row, time) = Smaller(200, x \div d)
  BY <1>1 DEF Percent, Larger
<1>. HIDE DEF d, x
<1>3. x \div d \in Int
  BY <1>1
<1>. QED  BY <1>2, <1>3 DEF Smaller

(* A pause does not undo a threshold. *)
LEMMA PauseKeeps ==
  ASSUME NEW p \in 0..100, NEW used \in Int, NEW total \in Int, NEW held \in Nat,
         100 * used >= p * total
  PROVE  100 * (used + held) >= p * (total + held)
<1>1. p * held <= 100 * held
  OBVIOUS
<1>2. p * (total + held) = p * total + p * held
  OBVIOUS
<1>. QED  BY <1>1, <1>2

LEMMA LaterReaches ==
  ASSUME NEW st \in Int, NEW b \in Int, NEW x \in Int, NEW y \in Int,
         100 * (x - st) >= b, x <= y
  PROVE  100 * (y - st) >= b
OBVIOUS

(* The same row, run for longer. *)
LEMMA RunsOn ==
  ASSUME NEW a \in Instance, NEW b \in Instance, NEW x \in Nat, NEW y \in Nat,
         b.startedAt = a.startedAt, b.dueAt = a.dueAt,
         RunUntil(a, x) <= RunUntil(b, y)
  PROVE  Ahead(a, x, b, y)
<1>. SUFFICES ASSUME NEW p \in Thresholds, Reached(a, p, x) PROVE Reached(b, p, y)
  BY DEF Ahead
<1>1. /\ RunUntil(a, x) \in Int /\ RunUntil(b, y) \in Int /\ a.startedAt \in Int
      /\ Smaller(p, 100) \in Int /\ a.dueAt \in Int
  BY DEF RunUntil, Instance, Smaller
<1>. DEFINE w == Smaller(p, 100) * (a.dueAt - a.startedAt)
<1>2. w \in Int /\ 100 * (RunUntil(a, x) - a.startedAt) >= w
  BY <1>1 DEF Reached
<1>. HIDE DEF w
<1>3. 100 * (RunUntil(b, y) - a.startedAt) >= w
  BY <1>1, <1>2, LaterReaches
<1>. QED  BY <1>3 DEF Reached, w

(* The same row after a pause, with its due date moved by its length. *)
LEMMA ResumesOn ==
  ASSUME NEW a \in Instance, NEW b \in Instance, NEW x \in Nat, NEW y \in Nat, NEW held \in Nat,
         a.pausedAt # Never, b.pausedAt = Never,
         b.startedAt = a.startedAt, b.dueAt = a.dueAt + held, a.pausedAt + held <= y
  PROVE  Ahead(a, x, b, y)
<1>. SUFFICES ASSUME NEW p \in Thresholds, Reached(a, p, x) PROVE Reached(b, p, y)
  BY DEF Ahead
<1>. DEFINE used == a.pausedAt - a.startedAt
            total == a.dueAt - a.startedAt
            q == Smaller(p, 100)
<1>1. /\ used \in Int /\ total \in Int /\ q \in 0..100 /\ a.startedAt \in Nat
      /\ a.pausedAt \in Nat /\ a.dueAt \in Nat
  BY DEF Instance, Smaller
<1>2. 100 * used >= q * total
  BY DEF Reached, RunUntil
<1>3. b.dueAt - b.startedAt = total + held /\ a.startedAt + used + held <= y
  BY <1>1
<1>4. RunUntil(b, y) = y
  BY DEF RunUntil
<1>. HIDE DEF used, total, q
<1>5. 100 * (used + held) >= q * (total + held)
  BY <1>1, <1>2, PauseKeeps
<1>. DEFINE w == q * (total + held)
<1>6. w \in Int
  BY <1>1
<1>7. 100 * (a.startedAt + used + held - a.startedAt) >= w
  BY <1>1, <1>5
<1>. HIDE DEF w
<1>8. 100 * (y - a.startedAt) >= w
  BY <1>1, <1>3, <1>6, <1>7, LaterReaches
<1>. QED  BY <1>3, <1>4, <1>8 DEF Reached, w, q

(* A step leaves every row ahead of where it was, unless it resumes the row
   from a state it was no longer in. *)
LEMMA StepsAhead ==
  ASSUME SInv, Ordered, [SlaNext]_slaVars, ~AttachRows, NEW m \in Metrics, m \notin history'.rewound
  PROVE  Ahead(clock[m], now, clock'[m], now')
<1>1. RowsOK /\ TicksOK
  BY Parts
<1>2. SInv'
  BY SlaStep
<1>3. /\ clock[m] \in Instance /\ now \in Nat /\ clock[m].pausedAt <= now
      /\ history \in HistoryRecord
  BY <1>1 DEF RowsOK
<1>4. clock'[m] \in Instance /\ now' \in Nat
  BY <1>2 DEF SInv, SlaTypeOK
<1>5. clock'[m].startedAt = clock[m].startedAt
  BY RowMoves
<1>6. ASSUME clock'[m].dueAt = clock[m].dueAt, now <= now',
             clock'[m].pausedAt = clock[m].pausedAt \/ clock'[m].pausedAt = now
      PROVE  Ahead(clock[m], now, clock'[m], now')
  <2>1. RunUntil(clock[m], now) <= RunUntil(clock'[m], now')
    BY <1>3, <1>4, <1>6 DEF RunUntil, Instance
  <2>. QED  BY <1>3, <1>4, <1>5, <1>6, <2>1, RunsOn
<1>7. ASSUME NEW k \in Tickers, NEW s \in tick[k].rows, Resume(k, s)
      PROVE  Ahead(clock[m], now, clock'[m], now')
  <2>1. now' = now /\ history' = Resumed(s) /\ s.row.pausedAt # Never
    BY <1>7 DEF Resume
  <2>2. CASE s.m # m
    <3>1. clock'[m] = clock[m]
      BY <1>7, <2>2, RowWrites
    <3>. QED  BY <1>3, <1>6, <2>1, <3>1
  <2>3. CASE s.m = m
    <3>1. clock[m].pausedAt = s.row.pausedAt /\ clock[m].dueAt = s.row.dueAt
      BY <1>3, <2>1, <2>3, ResumedShape
    <3>. DEFINE held == tick[k].now - s.row.pausedAt
    <3>2. /\ held \in Nat /\ clock'[m].dueAt = clock[m].dueAt + held
          /\ clock'[m].pausedAt = Never /\ s.row \in Instance
          /\ tick[k].now \in Nat /\ tick[k].now <= now
      BY <1>7, <2>3, <3>1, ResumedRow
    <3>3. clock[m].pausedAt + held <= now'
      BY <2>1, <3>1, <3>2, <1>3 DEF Instance
    <3>. HIDE DEF held
    <3>. QED  BY <1>3, <1>4, <1>5, <2>1, <3>1, <3>2, <3>3, ResumesOn
  <2>. QED  BY <2>2, <2>3
<1>8. ASSUME NEW k \in Tickers, Work(k)
      PROVE  Ahead(clock[m], now, clock'[m], now')
  <2>1. CASE Record(k)
    <3>1. now' = now
      BY <2>1 DEF Record
    <3>2. clock'[m].dueAt = clock[m].dueAt /\ clock'[m].pausedAt = clock[m].pausedAt
      BY <2>1, RecordWrites
    <3>3. now <= now'
      BY <1>3, <3>1
    <3>. QED  BY <1>6, <3>2, <3>3
  <2>2. ASSUME NEW s \in tick[k].rows, Hold(k, s) \/ Stop(k, s) \/ Consume(k, s)
        PROVE  Ahead(clock[m], now, clock'[m], now')
    <3>1. now' = now
      BY <2>2 DEF Hold, Stop, Consume
    <3>. QED  BY <1>3, <1>6, <2>2, <3>1, RowWrites
  <2>3. ASSUME TickBegin(k) \/ CopyDue(k) \/ \E s \in tick[k].rows : Escalate(k, s)
        PROVE  Ahead(clock[m], now, clock'[m], now')
    <3>1. UNCHANGED <<clock, now>>
      BY <2>3 DEF TickBegin, CopyDue, Escalate
    <3>. QED  BY <1>3, <1>6, <3>1
  <2>. QED  BY <1>7, <1>8, <2>1, <2>2, <2>3 DEF Work
<1>9. CASE MergeAway
  <2>1. now' = now
    BY <1>9 DEF MergeAway
  <2>. QED  BY <1>3, <1>6, <1>9, <2>1, MergeWrites
<1>10. CASE \/ AttachDue \/ BeginComment \/ Respond \/ Pass \/ UNCHANGED slaVars
            \/ \E k \in Tickers : Crash(k)
            \/ \E target \in Targets : Move(target)
  <2>1. clock' = clock /\ now' \in {now, now + 1}
    BY <1>10 DEF AttachDue, BeginComment, Respond, Pass, Crash, Move, slaVars
  <2>. QED  BY <1>3, <1>6, <2>1
<1>. QED  BY <1>8, <1>9, <1>10 DEF SlaNext

(***************************************************************************)
(* The one process that escalates.                                         *)
(***************************************************************************)
(* What was announced of metric m ... *)
Told(m) == {p \in Thresholds : <<m, p>> \in sent}

(* ... was reached, and is recorded or about to be, unless its sender stopped
   or a larger share can fall back over it. *)
Kept(e, m) ==
  LET next == tick[e].next IN
  /\ \A p \in Told(m) : Reached(clock[m], p, now)
  /\ \A s \in tick[e].rows : s.m = m =>
       /\ \A p \in Told(m) : Reached(s.row, p, tick[e].now)
       /\ Ahead(s.row, tick[e].now, clock[m], now)
  /\ \A p \in Told(m) : \/ FallsBack(p) \/ p <= clock[m].level
                        \/ <<m, p>> \in history.unrecorded
                        \/ next.kind = "row" /\ next.m = m /\ next.level = p
  /\ next.kind = "row" /\ next.m = m =>
       \A p \in Told(m) : FallsBack(p) \/ p <= next.level

EscalatorKeeps(e) ==
  LET next == tick[e].next IN
  /\ \A k \in Tickers \ {e} : tick[k].next.kind # "row"
  /\ \A s \in tick[e].rows : s.row.level = clock[s.m].level
  /\ \A s, u \in tick[e].rows : s.m = u.m => s = u
  /\ next.kind = "row" =>
       /\ next.level \in Told(next.m)
       /\ \A s \in tick[e].rows : s.m # next.m
  /\ \A m \in Metrics : clock[m].level # 0 => clock[m].level \in Told(m)
  /\ \A m \in Metrics \ history.rewound : Kept(e, m)
  /\ EscalatesOnce

(* A step that announces nothing, records nothing, and adds no row to what the
   escalating process remembers. *)
LEMMA EscalatorKept ==
  ASSUME NEW e \in Tickers, SInv, EscalatorKeeps(e),
         UNCHANGED <<sent, repeated>>,
         \A m \in Metrics : clock'[m].level = clock[m].level,
         history.rewound \subseteq history'.rewound,
         history.unrecorded \subseteq history'.unrecorded,
         \A m \in Metrics : m \notin history'.rewound => Ahead(clock[m], now, clock'[m], now'),
         \A k \in Tickers \ {e} : tick'[k].next.kind # "row",
         tick'[e].rows \subseteq tick[e].rows,
         tick'[e].rows # {} => tick'[e].now = tick[e].now,
         tick'[e].next.kind = "row" => tick'[e].next = tick[e].next,
         tick[e].next.kind = "row" =>
           \/ tick'[e].next = tick[e].next
           \/ <<tick[e].next.m, tick[e].next.level>> \in history'.unrecorded
  PROVE  EscalatorKeeps(e)'
<1>1. \A s \in tick[e].rows : s.m \in Metrics
  BY Parts DEF TicksOK, TickState, SnapshotRow
<1>2. \A m : Told(m)' = Told(m)
  BY DEF Told
<1>3. ASSUME NEW m \in Metrics, m \notin history'.rewound
      PROVE  Kept(e, m)'
  <2>1. m \notin history.rewound /\ Kept(e, m)
    BY <1>3 DEF EscalatorKeeps
  <2>2. Ahead(clock[m], now, clock'[m], now')
    BY <1>3
  <2>3. \A p \in Told(m) : Reached(clock'[m], p, now')
    BY <2>1, <2>2 DEF Kept, Ahead, Told
  <2>4. ASSUME NEW s \in tick'[e].rows, s.m = m
        PROVE  /\ \A p \in Told(m) : Reached(s.row, p, tick'[e].now)
               /\ Ahead(s.row, tick'[e].now, clock'[m], now')
    <3>1. s \in tick[e].rows /\ tick'[e].now = tick[e].now
      BY <2>4
    <3>. QED  BY <2>1, <2>2, <2>4, <3>1 DEF Kept, Ahead
  <2>5. \A p \in Told(m) :
          \/ FallsBack(p) \/ p <= clock'[m].level \/ <<m, p>> \in history'.unrecorded
          \/ tick'[e].next.kind = "row" /\ tick'[e].next.m = m /\ tick'[e].next.level = p
    BY <1>3, <2>1 DEF Kept
  <2>6. tick'[e].next.kind = "row" /\ tick'[e].next.m = m =>
          \A p \in Told(m) : FallsBack(p) \/ p <= tick'[e].next.level
    BY <2>1 DEF Kept
  <2>7. \A p : Reached(clock[m], p, now)' <=> Reached(clock'[m], p, now')
    BY DEF Reached, RunUntil
  <2>8. \A s \in tick'[e].rows : s.m = m =>
          /\ \A p \in Told(m) : Reached(s.row, p, tick[e].now)'
          /\ Ahead(s.row, tick[e].now, clock[m], now)'
    BY <2>4 DEF Reached, RunUntil, Ahead
  <2>. QED  BY <1>2, <2>3, <2>5, <2>6, <2>7, <2>8 DEF Kept, FallsBack
<1>4. EscalatesOnce'
  BY DEF EscalatorKeeps, EscalatesOnce, FallsBack
<1>5. \A m \in Metrics : clock'[m].level # 0 => clock'[m].level \in Told(m)'
  BY <1>2 DEF EscalatorKeeps
<1>6. \A s \in tick'[e].rows : s.row.level = clock'[s.m].level
  BY <1>1 DEF EscalatorKeeps
<1>7. tick'[e].next.kind = "row" =>
        /\ tick'[e].next.level \in Told(tick[e].next.m)'
        /\ \A s \in tick'[e].rows : s.m # tick'[e].next.m
  BY <1>2 DEF EscalatorKeeps
<1>8. \A s, u \in tick'[e].rows : s.m = u.m => s = u
  BY DEF EscalatorKeeps
<1>. QED  BY <1>3, <1>4, <1>5, <1>6, <1>7, <1>8 DEF EscalatorKeeps

(* What a ticker does that neither announces nor records. *)
LEMMA QuietWork ==
  ASSUME SInv, Ordered, NEW k \in Tickers, Work(k), ~Record(k),
         \A s \in tick[k].rows : ~Escalate(k, s)
  PROVE  /\ UNCHANGED <<sent, repeated>>
         /\ tick[k].next.kind # "row" /\ tick'[k].next.kind # "row"
         /\ \A m \in Metrics : clock'[m].level = clock[m].level
         /\ history.rewound \subseteq history'.rewound
         /\ history.unrecorded \subseteq history'.unrecorded
<1>1. /\ tick \in [Tickers -> TickState] /\ tick[k] \in TickState
      /\ history \in HistoryRecord
  BY Parts DEF TicksOK, RowsOK
<1>2. CASE TickBegin(k)
  BY <1>2, BeginShape, NoTickShape
<1>3. CASE CopyDue(k)
  BY <1>1, <1>3, FinishedShape, NoTickShape DEF CopyDue
<1>4. ASSUME NEW s \in tick[k].rows, Hold(k, s) \/ Stop(k, s) \/ Consume(k, s)
      PROVE  /\ UNCHANGED <<sent, repeated, history>>
             /\ tick[k].next.kind # "row" /\ tick'[k].next.kind # "row"
             /\ \A m \in Metrics : clock'[m].level = clock[m].level
  <2>1. tick' = [tick EXCEPT ![k] = After(k, s)] /\ Takes(k, s)
        /\ UNCHANGED <<sent, repeated, history>>
    BY <1>4 DEF Hold, Stop, Consume
  <2>2. tick[k].next = Nothing /\ tick'[k].next = Nothing
    BY <1>1, <2>1, AfterShape DEF Takes
  <2>. QED  BY <1>4, <2>1, <2>2, RowWrites, NoTickShape
<1>5. ASSUME NEW s \in tick[k].rows, Resume(k, s)
      PROVE  /\ UNCHANGED <<sent, repeated>>
             /\ tick[k].next.kind # "row" /\ tick'[k].next.kind # "row"
             /\ \A m \in Metrics : clock'[m].level = clock[m].level
             /\ history.rewound \subseteq history'.rewound
             /\ history.unrecorded \subseteq history'.unrecorded
  <2>1. UNCHANGED <<sent, repeated>> /\ tick[k].next = Nothing /\ history' = Resumed(s)
    BY <1>5 DEF Resume, Takes
  <2>2. s.m \in Metrics
    BY <1>5, ResumedRow
  <2>3. tick'[k].next.kind # "row"
    <3>1. CASE s.m # "resolution"
      <4>1. tick' = [tick EXCEPT ![k] = After(k, s)]
        BY <1>5, <3>1 DEF Resume
      <4>. QED  BY <1>1, <2>1, <4>1, AfterShape, NoTickShape
    <3>2. CASE s.m = "resolution"
      <4>1. PICK at : tick' = [tick EXCEPT ![k] =
              [tick[k] EXCEPT !.rows = @ \ {s},
                              !.next = [Nothing EXCEPT !.kind = "due", !.m = s.m, !.at = at]]]
        BY <1>5, <3>2 DEF Resume
      <4>. DEFINE copy == [Nothing EXCEPT !.kind = "due", !.m = s.m, !.at = at]
      <4>2. copy.kind = "due"
        BY DEF Nothing
      <4>3. tick' = [tick EXCEPT ![k] = [tick[k] EXCEPT !.rows = @ \ {s}, !.next = copy]]
        BY <4>1
      <4>. HIDE DEF copy
      <4>4. tick'[k].next = copy
        BY <1>1, <4>3 DEF TickState
      <4>. QED  BY <4>2, <4>4
    <3>. QED  BY <3>1, <3>2
  <2>4. history.rewound \subseteq history'.rewound /\ history.unrecorded \subseteq history'.unrecorded
    BY <1>1, <2>1, <2>2, ResumedShape
  <2>. QED  BY <1>5, <2>1, <2>3, <2>4, RowWrites, NoTickShape
<1>. QED  BY <1>2, <1>3, <1>4, <1>5 DEF Work

(* The escalating process reads its page. *)
LEMMA EscalatorBegins ==
  ASSUME NEW e \in Tickers, SInv, Ordered, EscalatorKeeps(e), TickBegin(e)
  PROVE  EscalatorKeeps(e)'
<1>1. /\ tick[e] = NoTick /\ tick'[e].next = Nothing /\ tick'[e].now = now
      /\ UNCHANGED <<clock, sent, repeated, history, now>>
      /\ \A s \in tick'[e].rows : \E m \in Metrics : s = Snapshot(m)
  BY BeginShape
<1>2. \A k \in Tickers \ {e} : tick'[k] = tick[k]
  BY TickMoves DEF Work
<1>3. \A s \in tick'[e].rows : s.m \in Metrics /\ s = Snapshot(s.m) /\ s.row = clock[s.m]
  BY <1>1 DEF Snapshot
<1>4. \A m : Told(m)' = Told(m)
  BY <1>1 DEF Told
<1>5. ASSUME NEW m \in Metrics, m \notin history.rewound
      PROVE  Kept(e, m)'
  <2>1. Kept(e, m)
    BY <1>5 DEF EscalatorKeeps
  <2>2. \A p : Reached(clock[m], p, now)' <=> Reached(clock[m], p, now)
    BY <1>1
  <2>3. \A s \in tick'[e].rows : s.m = m =>
          /\ \A p \in Told(m) : Reached(s.row, p, tick[e].now)'
          /\ Ahead(s.row, tick[e].now, clock[m], now)'
    BY <1>1, <1>3, <2>1 DEF Kept, Ahead, Reached, RunUntil
  <2>. QED  BY <1>1, <1>4, <2>1, <2>2, <2>3, NoTickShape DEF Kept, FallsBack
<1>6. EscalatesOnce'
  BY <1>1 DEF EscalatorKeeps, EscalatesOnce, FallsBack
<1>. QED  BY <1>1, <1>2, <1>3, <1>4, <1>5, <1>6, NoTickShape DEF EscalatorKeeps

(* What the thresholds that were announced have to do with the one that is. *)
LEMMA HitsAll ==
  ASSUME NEW row \in Instance, row.startedAt < row.dueAt, row.pausedAt = Never,
         NEW time \in Nat, NEW p \in Thresholds, Hit(p, Percent(row, time)),
         NEW q \in Thresholds, Reached(row, q, time)
  PROVE  /\ FallsBack(q) \/ q <= p
         /\ p < q => FallsBack(p)
<1>1. p \in 1..200 /\ q \in 1..200
  OBVIOUS
<1>2. Percent(row, time) >= Smaller(q, 100) /\ Percent(row, time) \in Int
  BY <1>1, ReachedShows, PercentIsNumber
<1>3. CASE q <= 100
  BY <1>1, <1>2, <1>3 DEF Hit, Smaller
<1>4. CASE q > 100
  <2>1. FallsBack(q)
    BY <1>1, <1>4 DEF FallsBack
  <2>2. \A r \in Thresholds : r <= 100 => r <= p
    BY <1>1, <1>2, <1>4 DEF Hit, Smaller
  <2>. QED  BY <1>1, <1>4, <2>1, <2>2 DEF FallsBack
<1>. QED  BY <1>1, <1>3, <1>4

LEMMA EscalatorAnnounces ==
  ASSUME NEW e \in Tickers, SInv, Ordered, EscalatorKeeps(e),
         NEW s \in tick[e].rows, Escalate(e, s)
  PROVE  EscalatorKeeps(e)'
<1>1. RowsOK /\ TicksOK
  BY Parts
<1>2. PICK p \in Thresholds :
        /\ Takes(e, s) /\ Runs(s) /\ Escalates(e, s, p)
        /\ sent' = sent \cup {<<s.m, p>>}
        /\ repeated' = repeated \cup ({<<s.m, p>>} \cap sent)
        /\ tick' = [tick EXCEPT ![e] =
             [tick[e] EXCEPT !.rows = @ \ {s},
                             !.next = [kind |-> "row", m |-> s.m, level |-> p,
                                       at |-> BreachedAfter(e, s, Never)]]]
        /\ UNCHANGED <<clock, history, now>>
  BY DEF Escalate
<1>3. tick \in [Tickers -> TickState] /\ tick[e].next = Nothing /\ tick[e] \in TickState
  BY <1>1, <1>2 DEF TicksOK, Takes
<1>4. /\ tick'[e].rows = tick[e].rows \ {s} /\ tick'[e].now = tick[e].now
      /\ tick'[e].next.kind = "row" /\ tick'[e].next.m = s.m /\ tick'[e].next.level = p
      /\ \A k \in Tickers \ {e} : tick'[k] = tick[k]
  BY <1>2, <1>3 DEF TickState
<1>5. /\ s \in SnapshotRow /\ s.row \in Instance /\ s.m \in Metrics
      /\ tick[e].now \in Nat /\ tick[e].now <= now
  BY <1>1, WhatIsLeft DEF SnapshotRow
<1>6. /\ s.row.startedAt < s.row.dueAt /\ s.row.pausedAt = Never
      /\ Hit(p, Percent(s.row, tick[e].now)) /\ p # s.row.level
      /\ s.row.level = clock[s.m].level
  BY <1>2 DEF Ordered, Runs, Escalates, EscalatorKeeps
<1>7. Reached(s.row, p, tick[e].now)
  <2>1. Percent(s.row, tick[e].now) >= p /\ Percent(s.row, tick[e].now) \in Int /\ p \in 1..200
    BY <1>5, <1>6, PercentIsNumber DEF Hit
  <2>2. Percent(s.row, tick[e].now) >= Smaller(p, 100)
    BY <2>1 DEF Smaller
  <2>. QED  BY <1>5, <1>6, <2>1, <2>2, ReachedShows
<1>8. /\ \A m : m # s.m => Told(m)' = Told(m)
      /\ Told(s.m)' = Told(s.m) \cup {p}
  BY <1>2 DEF Told
<1>9. \A u \in tick'[e].rows : u \in tick[e].rows /\ u.m # s.m
  BY <1>4 DEF EscalatorKeeps
<1>10. \A k \in Tickers \ {e} : tick'[k].next.kind # "row"
  BY <1>4 DEF EscalatorKeeps
<1>11. ASSUME NEW m \in Metrics, m \notin history.rewound
       PROVE  Kept(e, m)'
  <2>1. Kept(e, m)
    BY <1>11 DEF EscalatorKeeps
  <2>2. \A q : Reached(clock[m], q, now)' <=> Reached(clock[m], q, now)
    BY <1>2
  <2>3. CASE m # s.m
    <3>1. \A u \in tick'[e].rows : u.m = m =>
            /\ \A q \in Told(m) : Reached(u.row, q, tick[e].now)'
            /\ Ahead(u.row, tick[e].now, clock[m], now)'
      BY <1>2, <1>4, <1>9, <2>1 DEF Kept, Ahead, Reached, RunUntil
    <3>2. \A q \in Told(m) : FallsBack(q) \/ q <= clock'[m].level
                             \/ <<m, q>> \in history'.unrecorded
      BY <1>2, <1>3, <2>1, NoTickShape DEF Kept
    <3>3. Told(m)' = Told(m)
      BY <1>8, <2>3
    <3>. QED  BY <1>4, <2>1, <2>2, <2>3, <3>1, <3>2, <3>3 DEF Kept, FallsBack
  <2>4. CASE m = s.m
    <3>1. \A q \in Told(m) : Reached(clock[m], q, now) /\ Reached(s.row, q, tick[e].now)
      BY <2>1, <2>4 DEF Kept
    <3>2. Reached(clock[m], p, now)
      BY <1>7, <2>1, <2>4 DEF Kept, Ahead
    <3>3. Told(m)' = Told(m) \cup {p}
      BY <1>8, <2>4
    <3>4. \A q \in Told(m)' : Reached(clock[m], q, now)'
      BY <2>2, <3>1, <3>2, <3>3
    <3>5. \A q \in Told(m) : FallsBack(q) \/ q <= clock'[m].level
                             \/ <<m, q>> \in history'.unrecorded
      BY <1>2, <1>3, <2>1, NoTickShape DEF Kept
    <3>6. \A q \in Told(m)' : FallsBack(q) \/ q <= p
      <4>1. \A q \in Told(m) : FallsBack(q) \/ q <= p
        BY <1>5, <1>6, <3>1, HitsAll DEF Told
      <4>2. p <= p
        OBVIOUS
      <4>. QED  BY <3>3, <4>1, <4>2
    <3>7. \A u \in tick'[e].rows : u.m # m
      BY <1>9, <2>4
    <3>. QED  BY <1>4, <2>4, <3>3, <3>4, <3>5, <3>6, <3>7 DEF Kept, FallsBack
  <2>. QED  BY <2>3, <2>4
<1>12. ASSUME s.m \notin history.rewound, p \in Told(s.m)
       PROVE  FallsBack(p) \/ <<s.m, p>> \in history.unrecorded
  <2>1. Kept(e, s.m)
    BY <1>5, <1>12 DEF EscalatorKeeps
  <2>2. \/ FallsBack(p) \/ <<s.m, p>> \in history.unrecorded
        \/ p <= clock[s.m].level
    BY <1>3, <1>12, <2>1, NoTickShape DEF Kept
  <2>3. CASE p <= clock[s.m].level
    <3>. DEFINE q == clock[s.m].level
    <3>1. p \in 1..200 /\ q \in Nat /\ p # q
      BY <1>5, <1>6 DEF Instance
    <3>2. q # 0 /\ p < q
      BY <2>3, <3>1
    <3>3. q \in Told(s.m)
      BY <1>5, <3>2 DEF EscalatorKeeps
    <3>4. q \in Thresholds /\ Reached(s.row, q, tick[e].now)
      BY <2>1, <3>3 DEF Kept, Told
    <3>. HIDE DEF q
    <3>. QED  BY <1>5, <1>6, <3>2, <3>4, HitsAll
  <2>. QED  BY <2>2, <2>3
<1>13. EscalatesOnce'
  <2>. SUFFICES ASSUME NEW m \in Metrics, NEW q \in Thresholds, <<m, q>> \in repeated'
                PROVE  FallsBack(q) \/ <<m, q>> \in history'.unrecorded \/ m \in history'.rewound
    BY DEF EscalatesOnce, FallsBack
  <2>1. CASE <<m, q>> \in repeated
    BY <1>2, <2>1 DEF EscalatorKeeps, EscalatesOnce
  <2>2. CASE <<m, q>> \notin repeated
    <3>1. m = s.m /\ q = p /\ p \in Told(s.m)
      BY <1>2, <2>2 DEF Told
    <3>. QED  BY <1>2, <1>12, <3>1
  <2>. QED  BY <2>1, <2>2
<1>14. /\ (tick[e].next.level \in Told(tick[e].next.m))'
       /\ \A u \in tick'[e].rows : u.m # tick'[e].next.m
       /\ \A u \in tick'[e].rows : u.row.level = clock'[u.m].level
       /\ \A m \in Metrics : clock'[m].level # 0 => clock'[m].level \in Told(m)'
  <2>1. p \in Told(s.m)'
    BY <1>8
  <2>2. (tick[e].next.level \in Told(tick[e].next.m))'
    BY <1>2, <1>4 DEF Told
  <2>3. \A m \in Metrics : Told(m) \subseteq Told(m)'
    BY <1>2 DEF Told
  <2>. QED  BY <1>2, <1>4, <1>9, <2>2, <2>3 DEF EscalatorKeeps
<1>15. \A u, v \in tick'[e].rows : u.m = v.m => u = v
  BY <1>9 DEF EscalatorKeeps
<1>. QED  BY <1>2, <1>10, <1>11, <1>13, <1>14, <1>15 DEF EscalatorKeeps

LEMMA EscalatorRecords ==
  ASSUME NEW e \in Tickers, SInv, Ordered, EscalatorKeeps(e), Record(e)
  PROVE  EscalatorKeeps(e)'
<1>1. RowsOK /\ TicksOK /\ SInv'
  <2>1. [SlaNext]_slaVars
    BY DEF SlaNext, Work
  <2>. QED  BY <2>1, Parts, SlaStep
<1>. DEFINE m0 == tick[e].next.m
<1>2. /\ tick \in [Tickers -> TickState] /\ tick[e].next.kind = "row"
      /\ UNCHANGED <<sent, repeated, history, now>>
      /\ tick' = [tick EXCEPT ![e] = Finished(e)]
      /\ now \in Nat
  BY <1>1 DEF TicksOK, RowsOK, Record
<1>3. /\ tick'[e].next = Nothing /\ tick'[e].rows \subseteq tick[e].rows
      /\ tick'[e].rows # {} => tick'[e].now = tick[e].now
      /\ \A k \in Tickers \ {e} : tick'[k] = tick[k]
  BY <1>2, FinishedShape
<1>4. /\ m0 \in Metrics /\ clock'[m0].level = tick[e].next.level
      /\ \A m \in Metrics : m # m0 => clock'[m] = clock[m]
  <2>1. m0 \in Metrics
    BY <1>1, <1>2 DEF TicksOK, TickOK, NextOK
  <2>. QED  BY <2>1, RecordWrites
<1>5. /\ tick[e].next.level \in Told(m0)
      /\ \A s \in tick[e].rows : s.m # m0 /\ s.m \in Metrics
  BY <1>1, <1>2 DEF EscalatorKeeps, TicksOK, TickState, SnapshotRow
<1>6. \A m : Told(m)' = Told(m)
  BY <1>2 DEF Told
<1>7. ASSUME NEW m \in Metrics, m \notin history.rewound
      PROVE  Kept(e, m)'
  <2>1. Kept(e, m)
    BY <1>7 DEF EscalatorKeeps
  <2>2. Ahead(clock[m], now, clock'[m], now')
    <3>1. [SlaNext]_slaVars /\ ~AttachRows
      BY <1>2 DEF SlaNext, Work, AttachRows, Ordered, Record, NoTick, Nothing
    <3>. QED  BY <1>2, <1>7, <3>1, StepsAhead
  <2>3. \A p \in Told(m) : Reached(clock'[m], p, now')
    BY <2>1, <2>2 DEF Kept, Ahead, Told
  <2>4. ASSUME NEW s \in tick'[e].rows, s.m = m
        PROVE  /\ \A p \in Told(m) : Reached(s.row, p, tick'[e].now)
               /\ Ahead(s.row, tick'[e].now, clock'[m], now')
    <3>1. s \in tick[e].rows /\ tick'[e].now = tick[e].now
      BY <1>3, <2>4
    <3>. QED  BY <2>1, <2>2, <2>4, <3>1 DEF Kept, Ahead
  <2>5. \A p \in Told(m) : \/ FallsBack(p) \/ p <= clock'[m].level
                           \/ <<m, p>> \in history'.unrecorded
    <3>1. CASE m = m0
      BY <1>2, <1>4, <2>1, <3>1 DEF Kept
    <3>2. CASE m # m0
      BY <1>2, <1>4, <2>1, <3>2 DEF Kept
    <3>. QED  BY <3>1, <3>2
  <2>7. \A p : Reached(clock[m], p, now)' <=> Reached(clock'[m], p, now')
    BY DEF Reached, RunUntil
  <2>8. \A s \in tick'[e].rows : s.m = m =>
          /\ \A p \in Told(m) : Reached(s.row, p, tick[e].now)'
          /\ Ahead(s.row, tick[e].now, clock[m], now)'
    BY <2>4 DEF Reached, RunUntil, Ahead
  <2>. QED  BY <1>3, <1>6, <2>3, <2>5, <2>7, <2>8, NoTickShape DEF Kept, FallsBack
<1>8. EscalatesOnce'
  BY <1>2 DEF EscalatorKeeps, EscalatesOnce, FallsBack
<1>9. \A m \in Metrics : clock'[m].level # 0 => clock'[m].level \in Told(m)'
  BY <1>4, <1>5, <1>6 DEF EscalatorKeeps
<1>10. \A s \in tick'[e].rows : s.row.level = clock'[s.m].level
  BY <1>3, <1>4, <1>5 DEF EscalatorKeeps
<1>11. \A s, u \in tick'[e].rows : s.m = u.m => s = u
  BY <1>3 DEF EscalatorKeeps
<1>12. \A k \in Tickers \ {e} : tick'[k].next.kind # "row"
  BY <1>3 DEF EscalatorKeeps
<1>. QED  BY <1>2, <1>3, <1>7, <1>8, <1>9, <1>10, <1>11, <1>12, NoTickShape DEF EscalatorKeeps

LEMMA EscalatorStep ==
  ASSUME NEW e \in Tickers, Escalators = {e}
  PROVE  SInv /\ Ordered /\ EscalatorKeeps(e) /\ [SlaNext]_slaVars => EscalatorKeeps(e)'
<1>. SUFFICES ASSUME SInv, Ordered, EscalatorKeeps(e), [SlaNext]_slaVars
              PROVE  EscalatorKeeps(e)'
  OBVIOUS
<1>1. RowsOK /\ TicksOK
  BY Parts
<1>2. tick \in [Tickers -> TickState] /\ history \in HistoryRecord
  BY <1>1 DEF TicksOK, RowsOK
<1>3. CASE AttachRows
  <2>1. /\ sent = {} /\ UNCHANGED <<sent, repeated, tick>>
        /\ \A k \in Tickers : tick[k] = NoTick
    BY <1>3 DEF AttachRows, Ordered
  <2>2. repeated = {}
    BY <1>1, <2>1 DEF RowsOK
  <2>3. \A m : Told(m)' = {}
    BY <2>1 DEF Told
  <2>4. \A k \in Tickers : tick'[k].rows = {} /\ tick'[k].next.kind = "none"
    BY <2>1, NoTickShape
  <2>5. \A m \in Metrics : clock'[m].level = 0
    BY <1>3, RowsAttached
  <2>6. EscalatesOnce'
    BY <2>1, <2>2 DEF EscalatesOnce
  <2>7. \A m \in Metrics : Kept(e, m)'
    BY <2>3, <2>4 DEF Kept
  <2>. QED  BY <2>3, <2>4, <2>5, <2>6, <2>7 DEF EscalatorKeeps
<1>4. ASSUME ~AttachRows
      PROVE  \A m \in Metrics : m \notin history'.rewound => Ahead(clock[m], now, clock'[m], now')
  BY <1>4, StepsAhead
<1>5. ASSUME NEW k \in Tickers, Work(k)
      PROVE  EscalatorKeeps(e)'
  <2>1. ~AttachRows
    <3>1. CASE TickBegin(k)
      BY <3>1, BeginShape DEF AttachRows
    <3>2. CASE ~TickBegin(k)
      <4>1. tick[k] # NoTick
        BY <1>5, <3>2, NoTickShape DEF Work, CopyDue, Record
      <4>. QED  BY <4>1 DEF AttachRows, Ordered
    <3>. QED  BY <3>1, <3>2
  <2>2. \A j \in Tickers \ {k} : tick'[j] = tick[j]
    BY <1>5, TickMoves
  <2>3. CASE k # e
    <3>1. ~Record(k) /\ \A s \in tick[k].rows : ~Escalate(k, s)
      BY <2>3 DEF EscalatorKeeps, Record, Escalate, Escalates
    <3>2. tick'[k].next.kind # "row" /\ tick'[e] = tick[e]
      BY <1>5, <2>2, <2>3, <3>1, QuietWork
    <3>3. \A j \in Tickers \ {e} : tick'[j].next.kind # "row"
      BY <2>2, <3>2 DEF EscalatorKeeps
    <3>4. /\ UNCHANGED <<sent, repeated>>
          /\ \A m \in Metrics : clock'[m].level = clock[m].level
          /\ history.rewound \subseteq history'.rewound
          /\ history.unrecorded \subseteq history'.unrecorded
      BY <1>5, <3>1, QuietWork
    <3>. QED  BY <1>4, <2>1, <3>2, <3>3, <3>4, EscalatorKept
  <2>4. CASE k = e /\ ~Record(k) /\ ~TickBegin(k) /\ \A s \in tick[k].rows : ~Escalate(k, s)
    <3>1. /\ UNCHANGED <<sent, repeated>>
          /\ \A m \in Metrics : clock'[m].level = clock[m].level
          /\ history.rewound \subseteq history'.rewound
          /\ history.unrecorded \subseteq history'.unrecorded
          /\ tick[e].next.kind # "row" /\ tick'[e].next.kind # "row"
      BY <1>5, <2>4, QuietWork
    <3>2. /\ tick'[e].rows \subseteq tick[e].rows
          /\ tick'[e].rows # {} => tick'[e].now = tick[e].now
      BY <1>5, <2>4, TickMoves
    <3>3. \A j \in Tickers \ {e} : tick'[j].next.kind # "row"
      BY <2>2, <2>4 DEF EscalatorKeeps
    <3>. QED  BY <1>4, <2>1, <3>1, <3>2, <3>3, EscalatorKept
  <2>. QED  BY <2>3, <2>4, EscalatorBegins, EscalatorAnnounces, EscalatorRecords
<1>6. ASSUME NEW k \in Tickers, Crash(k)
      PROVE  EscalatorKeeps(e)'
  <2>1. /\ UNCHANGED <<clock, sent, repeated>> /\ tick' = [tick EXCEPT ![k] = NoTick]
        /\ history'.rewound = history.rewound
        /\ history'.unrecorded = IF tick[k].next.kind = "row"
             THEN history.unrecorded \cup {<<tick[k].next.m, tick[k].next.level>>}
             ELSE history.unrecorded
    BY <1>2, <1>6 DEF Crash, HistoryRecord
  <2>2. tick'[k] = NoTick /\ \A j \in Tickers \ {k} : tick'[j] = tick[j]
    BY <1>2, <2>1
  <2>3. ~AttachRows
    <3>. SUFFICES ASSUME AttachRows PROVE FALSE
      OBVIOUS
    <3>1. attach = "rows" /\ attach' = "due"
      BY DEF AttachRows
    <3>. QED  BY <1>6, <3>1 DEF Crash
  <2>4. \A j \in Tickers \ {e} : tick'[j].next.kind # "row"
    BY <2>2, NoTickShape DEF EscalatorKeeps
  <2>5. /\ tick'[e].rows \subseteq tick[e].rows
        /\ tick'[e].rows # {} => tick'[e].now = tick[e].now
        /\ tick'[e].next.kind = "row" => tick'[e].next = tick[e].next
        /\ tick[e].next.kind = "row" =>
             \/ tick'[e].next = tick[e].next
             \/ <<tick[e].next.m, tick[e].next.level>> \in history'.unrecorded
    <3>1. CASE k = e
      BY <2>1, <2>2, <3>1, NoTickShape
    <3>2. CASE k # e
      BY <2>2, <3>2
    <3>. QED  BY <3>1, <3>2
  <2>6. /\ history.rewound \subseteq history'.rewound
        /\ history.unrecorded \subseteq history'.unrecorded
    BY <2>1
  <2>7. UNCHANGED <<sent, repeated>> /\ \A m \in Metrics : clock'[m].level = clock[m].level
    BY <2>1
  <2>. QED  BY <1>4, <2>3, <2>4, <2>5, <2>6, <2>7, EscalatorKept
<1>7. CASE \/ AttachDue \/ BeginComment \/ Respond \/ Pass \/ MergeAway \/ UNCHANGED slaVars
           \/ \E target \in Targets : Move(target)
  <2>1. UNCHANGED <<tick, sent, repeated>>
    BY <1>7 DEF AttachDue, BeginComment, Respond, Pass, MergeAway, Move, slaVars
  <2>2. history'.rewound = history.rewound /\ history'.unrecorded = history.unrecorded
    BY <1>2, <1>7 DEF AttachDue, BeginComment, Respond, Pass, MergeAway, Move, slaVars, HistoryRecord
  <2>3. \A m \in Metrics : clock'[m].level = clock[m].level
    <3>1. CASE MergeAway
      BY <3>1, MergeWrites
    <3>2. CASE ~MergeAway
      BY <1>7, <3>2 DEF AttachDue, BeginComment, Respond, Pass, Move, slaVars
    <3>. QED  BY <3>1, <3>2
  <2>4. ~AttachRows
    <3>. SUFFICES ASSUME AttachRows PROVE FALSE
      OBVIOUS
    <3>1. attach = "rows" /\ attach' = "due"
      BY DEF AttachRows
    <3>. QED  BY <1>7, <3>1 DEF AttachDue, BeginComment, Respond, Pass, MergeAway, Move, slaVars
  <2>5. \A j \in Tickers \ {e} : tick'[j].next.kind # "row"
    BY <2>1 DEF EscalatorKeeps
  <2>. QED  BY <1>4, <2>1, <2>2, <2>3, <2>4, <2>5, EscalatorKept
<1>. QED  BY <1>3, <1>5, <1>6, <1>7 DEF SlaNext

\* With one process that escalates, as the API's poller is the only one: each
\* threshold of a clock is announced once, whatever thresholds the policy has,
\* however the worker's ticks, merges and restarts come between; except where
\* the share falls back over it, its sender stopped before it was recorded, or
\* a tick resumed the clock from a state it had left.
THEOREM AnnouncedOnce ==
  ASSUME NEW e \in Tickers, Escalators = {e}
  PROVE  SlaSpec => []EscalatesOnce
<1>1. SlaInit => EscalatorKeeps(e)
  <2>. SUFFICES ASSUME SlaInit PROVE EscalatorKeeps(e)
    OBVIOUS
  <2>1. \A k \in Tickers : tick[k].rows = {} /\ tick[k].next.kind = "none"
    BY NoTickShape DEF SlaInit
  <2>2. \A m \in Metrics : clock[m].level = 0 /\ Told(m) = {}
    BY DEF SlaInit, Unattached, Told
  <2>3. EscalatesOnce
    BY DEF SlaInit, EscalatesOnce
  <2>4. \A m \in Metrics : Kept(e, m)
    BY <2>1, <2>2 DEF Kept
  <2>. QED  BY <2>1, <2>2, <2>3, <2>4 DEF EscalatorKeeps
<1>2. EscalatorKeeps(e) => EscalatesOnce
  BY DEF EscalatorKeeps
<1>. QED  BY <1>1, <1>2, EscalatorStep, OrderedAlways, SlaInvariance, PTL DEF SlaSpec

(***************************************************************************)
(* One tick at a time: what a tick has read of a row is what the row says  *)
(* until the tick has written it.                                          *)
(***************************************************************************)
(* What ticker k remembers of the rows it has still to handle. *)
Current(k) ==
  /\ \A s \in tick[k].rows : s.row = clock[s.m]
  /\ \A s, u \in tick[k].rows : s.m = u.m => s = u
  /\ tick[k].next.kind # "none" => \A s \in tick[k].rows : s.m # tick[k].next.m

(* The breach ticker k has still to record. *)
Owed(k) == LET next == tick[k].next IN
  next.kind = "row" =>
    /\ clock[next.m].pausedAt = Never /\ clock[next.m].completedAt = Never
    /\ next.at # Never => clock[next.m].dueAt <= now

SerialTicks ==
  /\ \A j, k \in Tickers : tick[j] # NoTick /\ tick[k] # NoTick => j = k
  /\ attach # "done" => \A k \in Tickers : tick[k] = NoTick
  /\ \A k \in Tickers : Current(k) /\ Owed(k)

LEMMA FreeTick ==
  ASSUME MaxInFlight <= 1, IsFiniteSet(Tickers), Room
  PROVE  attach # "due" /\ \A k \in Tickers : tick[k] = NoTick
<1>. DEFINE B == {k \in Tickers : tick[k] # NoTick}
<1>1. IsFiniteSet(B) /\ Cardinality(B) \in Nat
  BY FS_Subset, FS_CardinalityType
<1>2. Cardinality(B) + (IF attach = "due" THEN 1 ELSE 0) < MaxInFlight
  BY DEF Room
<1>3. Cardinality(B) = 0 /\ attach # "due"
  BY <1>1, <1>2
<1>. QED  BY <1>1, <1>3, FS_EmptySet

(* No tick is left, or one: ticker k's. *)
LEMMA SerialStep ==
  ASSUME SerialTicks, NEW k \in Tickers, attach' = "done",
         \A j \in Tickers \ {k} : tick'[j] = NoTick, Current(k)', Owed(k)'
  PROVE  SerialTicks'
<1>1. \A j \in Tickers \ {k} : Current(j)' /\ Owed(j)'
  BY NoTickShape DEF Current, Owed
<1>. QED  BY <1>1 DEF SerialTicks

(* The row is handled: the rows that are left are as the table has them. *)
LEMMA RowDone ==
  ASSUME SerialTicks, NEW k \in Tickers, NEW s \in tick[k].rows,
         tick'[k].rows \subseteq tick[k].rows \ {s},
         tick'[k].next.kind # "none" => tick'[k].next.m = s.m,
         \A m \in Metrics : m # s.m => clock'[m] = clock[m],
         \A u \in tick[k].rows : u.m \in Metrics
  PROVE  Current(k)'
<1>1. Current(k)
  BY DEF SerialTicks
<1>2. \A u \in tick[k].rows \ {s} : u.m # s.m
  BY <1>1 DEF Current
<1>3. ASSUME NEW u \in tick'[k].rows
      PROVE  /\ u.m \in Metrics /\ u.m # s.m /\ u \in tick[k].rows
             /\ clock'[u.m] = clock[u.m]
  BY <1>2
<1>. QED  BY <1>1, <1>2, <1>3 DEF Current

(* What is known of a row that is taken up. *)
LEMMA TakenRow ==
  ASSUME SInv, Ordered, SerialTicks, NEW k \in Tickers, NEW s \in tick[k].rows, Takes(k, s)
  PROVE  /\ s \in SnapshotRow /\ s.m \in Metrics /\ s.row = clock[s.m]
         /\ clock \in [Metrics -> Instance] /\ now \in Nat
         /\ tick[k].now \in Nat /\ tick[k].now <= now
         /\ clock[s.m].completedAt = Never /\ clock[s.m].startedAt < clock[s.m].dueAt
         /\ attach = "done" /\ tick \in [Tickers -> TickState] /\ tick[k].next = Nothing
         /\ \A j \in Tickers \ {k} : tick[j] = NoTick
         /\ \A u \in tick[k].rows : u.m \in Metrics
<1>1. RowsOK /\ TicksOK
  BY Parts
<1>2. /\ s \in SnapshotRow /\ SnapshotOK(s, tick[k].now)
      /\ tick[k].now \in Nat /\ tick[k].now <= now
  BY <1>1, WhatIsLeft
<1>3. tick[k] # NoTick
  BY NoTickShape
<1>4. attach = "done" /\ \A j \in Tickers \ {k} : tick[j] = NoTick
  BY <1>3 DEF SerialTicks
<1>5. s.row = clock[s.m] /\ s.m \in Metrics /\ s.row.startedAt < s.row.dueAt
  BY <1>2 DEF SerialTicks, Current, SnapshotRow, Ordered
<1>6. \A u \in tick[k].rows : u.m \in Metrics
  BY <1>1 DEF TicksOK, TickState, SnapshotRow
<1>. QED  BY <1>1, <1>2, <1>4, <1>5, <1>6 DEF SnapshotOK, RowsOK, TicksOK, Takes

LEMMA SerialRow ==
  ASSUME SInv, Ordered, SerialTicks, NEW k \in Tickers, NEW s \in tick[k].rows,
         Hold(k, s) \/ Stop(k, s) \/ Consume(k, s) \/ Resume(k, s) \/ Escalate(k, s)
  PROVE  SerialTicks'
<1>1. Takes(k, s) /\ attach' = attach
  BY DEF Hold, Stop, Consume, Resume, Escalate
<1>2. /\ s.m \in Metrics /\ clock \in [Metrics -> Instance] /\ s.row = clock[s.m]
      /\ attach = "done" /\ tick \in [Tickers -> TickState] /\ tick[k].next = Nothing
      /\ \A j \in Tickers \ {k} : tick[j] = NoTick
      /\ \A u \in tick[k].rows : u.m \in Metrics
  BY <1>1, TakenRow
<1>3. \A m \in Metrics : m # s.m => clock'[m] = clock[m]
  <2>1. CASE Hold(k, s)
    BY <1>2, <2>1 DEF Hold
  <2>2. CASE Stop(k, s) \/ Consume(k, s) \/ Escalate(k, s)
    BY <1>2, <2>2 DEF Stop, Consume, Escalate
  <2>3. CASE Resume(k, s)
    BY <2>3, RowWrites
  <2>. QED  BY <2>1, <2>2, <2>3
<1>4. \A j \in Tickers \ {k} : tick'[j] = NoTick
  BY <1>1, <1>2, TickMoves DEF Work
<1>5. CASE tick' = [tick EXCEPT ![k] = After(k, s)]
  <2>1. tick'[k].next = Nothing /\ tick'[k].rows \subseteq tick[k].rows \ {s}
    BY <1>2, <1>5, AfterShape
  <2>2. Current(k)' /\ Owed(k)'
    BY <1>2, <1>3, <2>1, NoTickShape, RowDone DEF Owed
  <2>. QED  BY <1>1, <1>2, <1>4, <2>2, SerialStep
<1>6. ASSUME NEW n, n.m = s.m,
             tick' = [tick EXCEPT ![k] = [tick[k] EXCEPT !.rows = @ \ {s}, !.next = n]],
             n.kind = "row" =>
               /\ clock'[s.m].pausedAt = Never /\ clock'[s.m].completedAt = Never
               /\ n.at # Never => clock'[s.m].dueAt <= now'
      PROVE  SerialTicks'
  <2>1. tick'[k].next = n /\ tick'[k].rows = tick[k].rows \ {s}
    BY <1>2, <1>6 DEF TickState
  <2>2. Current(k)'
    BY <1>2, <1>3, <1>6, <2>1, RowDone
  <2>3. Owed(k)'
    BY <1>6, <2>1 DEF Owed
  <2>. QED  BY <1>1, <1>2, <1>4, <2>2, <2>3, SerialStep
<1>7. CASE Hold(k, s) \/ Stop(k, s) \/ Consume(k, s)
  BY <1>5, <1>7 DEF Hold, Stop, Consume
<1>8. CASE Resume(k, s)
  <2>. DEFINE due == s.row.dueAt + (tick[k].now - s.row.pausedAt)
              copy == [Nothing EXCEPT !.kind = "due", !.m = s.m, !.at = due]
  <2>1. tick' = [tick EXCEPT ![k] =
          IF s.m = "resolution"
          THEN [tick[k] EXCEPT !.rows = @ \ {s}, !.next = copy]
          ELSE After(k, s)]
    BY <1>8 DEF Resume
  <2>2. copy.kind = "due" /\ copy.m = s.m
    BY DEF Nothing
  <2>. HIDE DEF copy
  <2>. QED  BY <1>5, <1>6, <2>1, <2>2
<1>9. CASE Escalate(k, s)
  <2>1. PICK p \in Thresholds :
          /\ Runs(s) /\ Escalates(k, s, p) /\ UNCHANGED <<clock, now>>
          /\ tick' = [tick EXCEPT ![k] =
               [tick[k] EXCEPT !.rows = @ \ {s},
                               !.next = [kind |-> "row", m |-> s.m, level |-> p,
                                         at |-> BreachedAfter(k, s, Never)]]]
    BY <1>9 DEF Escalate
  <2>. DEFINE n == [kind |-> "row", m |-> s.m, level |-> p, at |-> BreachedAfter(k, s, Never)]
  <2>2. /\ clock[s.m] \in Instance /\ clock[s.m].startedAt < clock[s.m].dueAt
        /\ clock[s.m].completedAt = Never /\ clock[s.m].pausedAt = Never
        /\ now \in Nat /\ tick[k].now \in Nat /\ tick[k].now <= now /\ k \in Escalators
    BY <1>1, <1>2, <2>1, TakenRow DEF Runs, Escalates
  <2>3. n.at # Never => Percent(clock[s.m], tick[k].now) >= 100
    BY <1>2, <2>2 DEF BreachedAfter
  <2>4. Percent(clock[s.m], tick[k].now) >= 100 =>
          100 * (tick[k].now - clock[s.m].startedAt)
            >= 100 * (clock[s.m].dueAt - clock[s.m].startedAt)
    BY <2>2, PercentReaches
  <2>5. n.at # Never => clock[s.m].dueAt <= now
    <3>. HIDE DEF n
    <3>. QED  BY <2>2, <2>3, <2>4 DEF Instance
  <2>6. n.m = s.m /\ tick' = [tick EXCEPT ![k] = [tick[k] EXCEPT !.rows = @ \ {s}, !.next = n]]
    BY <2>1
  <2>. HIDE DEF n
  <2>. QED  BY <1>6, <2>1, <2>2, <2>5, <2>6
<1>. QED  BY <1>7, <1>8, <1>9

LEMMA SerialWork ==
  ASSUME MaxInFlight <= 1, IsFiniteSet(Tickers), SInv, Ordered, SerialTicks,
         NEW k \in Tickers, Work(k)
  PROVE  SerialTicks'
<1>1. RowsOK /\ TicksOK
  BY Parts
<1>2. \A j \in Tickers \ {k} : tick'[j] = tick[j]
  BY TickMoves
<1>3. CASE TickBegin(k)
  <2>1. /\ attach # "due" /\ \A j \in Tickers : tick[j] = NoTick
    BY <1>3, FreeTick DEF TickBegin
  <2>2. /\ attach # "rows" /\ tick'[k].next = Nothing
        /\ UNCHANGED <<clock, attach>>
        /\ \A s \in tick'[k].rows : \E m \in Metrics : s = Snapshot(m) /\ Open(m)
    BY <1>3, BeginShape
  <2>3. \A s \in tick'[k].rows : s = Snapshot(s.m) /\ s.row = clock[s.m]
    BY <2>2 DEF Snapshot
  <2>4. Current(k)' /\ Owed(k)'
    BY <2>2, <2>3, NoTickShape DEF Current, Owed
  <2>5. attach' = "done"
    BY <1>1, <2>1, <2>2 DEF RowsOK
  <2>. QED  BY <1>2, <2>1, <2>4, <2>5, SerialStep
<1>4. CASE CopyDue(k) \/ Record(k)
  <2>1. /\ tick[k].next.kind \in {"due", "row"} /\ UNCHANGED attach
        /\ tick' = [tick EXCEPT ![k] = Finished(k)]
    BY <1>4 DEF CopyDue, Record
  <2>2. tick[k] \in TickState /\ tick \in [Tickers -> TickState]
        /\ \A s \in tick[k].rows : s.m \in Metrics
    BY <1>1 DEF TicksOK, TickState, SnapshotRow
  <2>3. attach = "done" /\ \A j \in Tickers \ {k} : tick'[j] = NoTick
    BY <1>2, <2>1, NoTickShape DEF SerialTicks
  <2>4. tick'[k].next = Nothing /\ tick'[k].rows \subseteq tick[k].rows
    BY <2>1, <2>2, FinishedShape
  <2>5. Current(k)
    BY DEF SerialTicks
  <2>6. \A s \in tick[k].rows : clock'[s.m] = clock[s.m]
    <3>1. CASE CopyDue(k)
      BY <3>1 DEF CopyDue
    <3>2. CASE Record(k)
      BY <2>1, <2>2, <2>5, <3>2, RecordWrites DEF Current
    <3>. QED  BY <1>4, <3>1, <3>2
  <2>7. Current(k)' /\ Owed(k)'
    BY <2>4, <2>5, <2>6, NoTickShape DEF Current, Owed
  <2>. QED  BY <2>1, <2>3, <2>7, SerialStep
<1>. QED  BY <1>3, <1>4, SerialRow DEF Work

LEMMA SerialSlaNext ==
  ASSUME MaxInFlight <= 1, IsFiniteSet(Tickers)
  PROVE  SInv /\ Ordered /\ SerialTicks /\ [SlaNext]_slaVars => SerialTicks'
<1>. SUFFICES ASSUME SInv, Ordered, SerialTicks, [SlaNext]_slaVars PROVE SerialTicks'
  OBVIOUS
<1>1. RowsOK /\ TicksOK
  BY Parts
<1>2. ASSUME UNCHANGED <<clock, tick>>, attach' \in {attach, "done"}, now' \in {now, now + 1}
      PROVE  SerialTicks'
  <2>1. ASSUME NEW k \in Tickers
        PROVE  Current(k)' /\ Owed(k)'
    <3>1. Current(k) /\ Owed(k) /\ TickOK(tick[k])
      BY <1>1 DEF SerialTicks, TicksOK
    <3>2. tick[k].next.kind = "row" => clock[tick[k].next.m].dueAt \in Nat
      BY <1>1, <3>1 DEF TickOK, NextOK, RowsOK, Instance
    <3>. QED  BY <1>1, <1>2, <3>1, <3>2 DEF Current, Owed, RowsOK
  <2>. QED  BY <1>2, <2>1 DEF SerialTicks
<1>3. ASSUME attach' \in {"due", attach}, \A k \in Tickers : tick[k] = NoTick /\ tick'[k] = NoTick
      PROVE  SerialTicks'
  <2>1. \A k \in Tickers : Current(k)' /\ Owed(k)'
    BY <1>3, NoTickShape DEF Current, Owed
  <2>. QED  BY <1>3, <2>1 DEF SerialTicks
<1>4. CASE AttachRows
  BY <1>3, <1>4 DEF AttachRows, Ordered
<1>5. CASE MergeAway
  BY <1>3, <1>5, FreeTick DEF MergeAway
<1>6. ASSUME NEW k \in Tickers, Crash(k)
      PROVE  SerialTicks'
  <2>1. /\ tick' = [tick EXCEPT ![k] = NoTick] /\ attach' \in {attach, "done"}
        /\ UNCHANGED <<clock, now>> /\ tick \in [Tickers -> TickState]
    BY <1>1, <1>6 DEF Crash, TicksOK
  <2>2. \A j \in Tickers : tick'[j] = tick[j] \/ tick'[j] = NoTick
    BY <2>1
  <2>3. ASSUME NEW j \in Tickers
        PROVE  Current(j)' /\ Owed(j)'
    <3>1. Current(j) /\ Owed(j)
      BY DEF SerialTicks
    <3>2. CASE tick'[j] = NoTick
      BY <3>2, NoTickShape DEF Current, Owed
    <3>3. CASE tick'[j] = tick[j]
      BY <2>1, <3>1, <3>3 DEF Current, Owed
    <3>. QED  BY <2>2, <3>2, <3>3
  <2>. QED  BY <2>1, <2>2, <2>3 DEF SerialTicks
<1>7. CASE \/ AttachDue \/ BeginComment \/ Respond \/ Pass \/ UNCHANGED slaVars
           \/ \E target \in Targets : Move(target)
  BY <1>2, <1>7 DEF AttachDue, BeginComment, Respond, Pass, Move, slaVars
<1>. QED  BY <1>4, <1>5, <1>6, <1>7, SerialWork DEF SlaNext

BreachStep == \A m \in Metrics :
  clock[m].breachedAt = Never /\ clock'[m].breachedAt # Never =>
    now >= clock[m].dueAt /\ clock[m].pausedAt = Never /\ clock[m].completedAt = Never

LEMMA StepsBreachWhenDue ==
  ASSUME SInv, Ordered, SerialTicks, [SlaNext]_slaVars
  PROVE  BreachStep
<1>1. RowsOK /\ TicksOK
  BY Parts
<1>2. clock \in [Metrics -> Instance] /\ now \in Nat
  BY <1>1 DEF RowsOK
<1>3. ASSUME NEW k \in Tickers, NEW s \in tick[k].rows, Consume(k, s)
      PROVE  BreachStep
  <2>1. /\ s.m \in Metrics /\ s.row = clock[s.m] /\ clock[s.m] \in Instance
        /\ clock[s.m].completedAt = Never /\ clock[s.m].startedAt < clock[s.m].dueAt
        /\ tick[k].now \in Nat /\ tick[k].now <= now
    BY <1>2, <1>3, TakenRow DEF Consume
  <2>. PICK m \in Metrics : m = s.m
    BY <2>1
  <2>2. clock[m].pausedAt = Never
    BY <1>3, <2>1 DEF Consume, Runs
  <2>3. /\ \A n \in Metrics : n # m => clock'[n] = clock[n]
        /\ clock'[m].breachedAt = BreachedAfter(k, s, clock[m].breachedAt)
    BY <1>2, <1>3, <2>1 DEF Consume, Instance
  <2>4. clock[m].breachedAt = Never /\ clock'[m].breachedAt # Never =>
          Percent(clock[m], tick[k].now) >= 100
    BY <2>1, <2>3 DEF BreachedAfter
  <2>5. Percent(clock[m], tick[k].now) >= 100 => clock[m].dueAt <= now
    <3>1. Percent(clock[m], tick[k].now) >= 100 =>
            100 * (tick[k].now - clock[m].startedAt) >= 100 * (clock[m].dueAt - clock[m].startedAt)
      BY <2>1, PercentReaches
    <3>. QED  BY <1>2, <2>1, <3>1 DEF Instance
  <2>6. now >= clock[m].dueAt <=> clock[m].dueAt <= now
    BY <1>2, <2>1 DEF Instance
  <2>. QED  BY <2>1, <2>2, <2>3, <2>4, <2>5, <2>6 DEF BreachStep
<1>4. ASSUME NEW k \in Tickers, Record(k)
      PROVE  BreachStep
  <2>. DEFINE next == tick[k].next
  <2>1. TickOK(tick[k]) /\ Owed(k) /\ next.kind = "row"
    BY <1>1, <1>4 DEF TicksOK, SerialTicks, Record
  <2>. PICK m \in Metrics : m = next.m
    BY <2>1 DEF TickOK, NextOK
  <2>2. clock[m] \in Instance
    BY <1>2
  <2>3. /\ \A n \in Metrics : n # m => clock'[n] = clock[n]
        /\ clock'[m].breachedAt = IF next.at = Never THEN clock[m].breachedAt ELSE next.at
    BY <1>2, <1>4, <2>2 DEF Record, Instance
  <2>4. /\ clock[m].pausedAt = Never /\ clock[m].completedAt = Never
        /\ next.at # Never => now >= clock[m].dueAt
    BY <1>2, <2>1, <2>2 DEF Owed, Instance
  <2>. QED  BY <2>3, <2>4 DEF BreachStep
<1>5. ASSUME \A m \in Metrics : clock'[m].breachedAt \in {clock[m].breachedAt, Never}
      PROVE  BreachStep
  BY <1>5 DEF BreachStep
<1>6. ASSUME NEW k \in Tickers,
             \/ TickBegin(k) \/ CopyDue(k) \/ Crash(k)
             \/ \E s \in tick[k].rows :
                  Hold(k, s) \/ Resume(k, s) \/ Stop(k, s) \/ Escalate(k, s)
      PROVE  BreachStep
  <2>1. CASE TickBegin(k) \/ CopyDue(k) \/ Crash(k) \/ \E s \in tick[k].rows : Escalate(k, s)
    BY <1>5, <2>1 DEF TickBegin, CopyDue, Crash, Escalate
  <2>2. ASSUME NEW s \in tick[k].rows, Hold(k, s) \/ Resume(k, s) \/ Stop(k, s)
        PROVE  BreachStep
    <3>1. CASE Hold(k, s)
      BY <1>2, <1>5, <3>1 DEF Hold, Instance
    <3>2. CASE Resume(k, s)
      BY <1>2, <1>5, <3>2 DEF Resume, Instance
    <3>3. CASE Stop(k, s)
      BY <1>2, <1>5, <3>3 DEF Stop, Instance
    <3>. QED  BY <2>2, <3>1, <3>2, <3>3
  <2>. QED  BY <1>6, <2>1, <2>2
<1>7. CASE AttachRows
  BY <1>5, <1>7 DEF AttachRows, Unattached
<1>8. CASE MergeAway
  BY <1>2, <1>5, <1>8 DEF MergeAway, Instance
<1>9. CASE \/ AttachDue \/ BeginComment \/ Respond \/ Pass \/ UNCHANGED slaVars
           \/ \E target \in Targets : Move(target)
  BY <1>5, <1>9 DEF AttachDue, BeginComment, Respond, Pass, Move, slaVars
<1>. QED  BY <1>3, <1>4, <1>6, <1>7, <1>8, <1>9 DEF SlaNext, Work

\* While no tick runs beside another: a breach is recorded only when the due
\* date is over and the clock neither held nor stopped, whatever happened to
\* the ticket since the tick read its row, and whoever restarts.
THEOREM BreachesAreDue ==
  ASSUME MaxInFlight <= 1, IsFiniteSet(Tickers)
  PROVE  SlaSpec => BreachIsDue
<1>1. SInv /\ Ordered /\ SerialTicks /\ [SlaNext]_slaVars => BreachStep
  BY StepsBreachWhenDue
<1>2. ASSUME BreachStep
      PROVE  [\A m \in Metrics :
               clock[m].breachedAt = Never /\ clock'[m].breachedAt # Never =>
                 now >= clock[m].dueAt /\ clock[m].pausedAt = Never
                 /\ clock[m].completedAt = Never]_slaVars
  BY <1>2 DEF BreachStep
<1>3. SlaInit => SerialTicks
  BY NoTickShape DEF SlaInit, SerialTicks, Current, Owed
<1>4. SInv /\ Ordered /\ SerialTicks /\ [SlaNext]_slaVars => SerialTicks'
  BY SerialSlaNext
<1>. QED  BY <1>1, <1>2, <1>3, <1>4, OrderedAlways, SlaInvariance, PTL DEF SlaSpec, BreachIsDue
=============================================================================
