---------------------------- MODULE PollerProofs ----------------------------
(***************************************************************************)
(* What the server does beside the requests it serves: the digest, the     *)
(* IMAP poller with the mail webhook, the export schedules, and the        *)
(* deliveries of outgoing webhooks. Each section proves the promises of    *)
(* one job from that component's module, for any number of users,          *)
(* notifications, mails, schedules and deliveries; they share no variable. *)
(***************************************************************************)
EXTENDS Digest, InboundMail, ExportSchedules, Webhooks, FiniteSetTheorems,
        WellFoundedInduction, TLAPS

-----------------------------------------------------------------------------
(***************************************************************************)
(* The digest: its watermark passes over no unread notification, for any   *)
(* clock and any settings, with restarts, refused letters and slow ticks.  *)
(***************************************************************************)

USE DigestAssumption DEF DigestAssumption

TickRow == [u : Readers, s : Settings, age : Nat]

TickState == [busy : BOOLEAN, rows : SUBSET TickRow, began : Nat, to : SUBSET Readers,
         letter : SUBSET Notes, late : [Readers -> SUBSET Notes]]

(* What the argument needs of the types. *)
DigestShape ==
  /\ note \in [Readers -> [Notes -> {"absent", "unread", "read"}]]
  /\ newer \in [Readers -> SUBSET Notes]
  /\ mark \in [Readers -> Nat] /\ setting \in [Readers -> Settings]
  /\ mailed \in [Readers -> SUBSET Notes] /\ cut \in [Readers -> SUBSET Notes]
  /\ digest \in TickState

(* One user at a time is mailed, and only while a tick is at work. *)
OneLetter ==
  /\ digest.to # {} => digest.busy
  /\ \A u, v \in digest.to : u = v

(* What is newer than the watermark of the user who is being mailed, and
   unread, is in the letter, came after the tick began, or was dealt with. *)
LetterCovers == \A u \in digest.to : \A n \in newer[u] :
  note[u][n] = "unread" => n \in digest.letter \cup digest.late[u] \cup mailed[u] \cup cut[u]

(* The inductive invariant: LetterCovers is what lets MoveMark leave all but
   the late notifications behind. *)
DigestInv == DigestShape /\ OneLetter /\ LetterCovers /\ NothingSkipped

(* A week has a number of hours. *)
LEMMA AgesAreNat == Ages \in Nat
BY DEF Ages

(* No tick is at work at the start. *)
LEMMA DigestStarts == DigestInit => DigestInv
BY AgesAreNat DEF DigestInit, DigestInv, DigestShape, TickState, NoDigest, OneLetter, LetterCovers, NothingSkipped

(* A tick at rest is a tick. *)
LEMMA NoDigestIsTick == NoDigest \in TickState
BY DEF NoDigest, TickState

(* Every step keeps the invariant. *)
LEMMA DigestKept == DigestInv /\ [DigestNext]_digestVars => DigestInv'
<1> SUFFICES ASSUME DigestInv, [DigestNext]_digestVars PROVE DigestInv'
  OBVIOUS
<1> USE DEF DigestInv
<1>1. ASSUME NEW u \in Readers, Notify(u) PROVE DigestInv'
  <2>1. PICK n \in Notes :
          /\ note[u][n] = "absent"
          /\ note' = [note EXCEPT ![u] = [note[u] EXCEPT ![n] = "unread"]]
          /\ newer' = [newer EXCEPT ![u] = newer[u] \cup {n}]
          /\ digest' = IF digest.busy THEN [digest EXCEPT !.late = [digest.late EXCEPT ![u] = digest.late[u] \cup {n}]]
                       ELSE digest
          /\ UNCHANGED <<mark, setting, mailed, cut>>
    BY <1>1 DEF Notify
  <2>2. /\ digest' \in TickState /\ digest'.to = digest.to /\ digest'.letter = digest.letter
        /\ digest'.busy = digest.busy
        /\ digest.busy => digest'.late = [digest.late EXCEPT ![u] = digest.late[u] \cup {n}]
    BY <2>1 DEF DigestShape, TickState
  <2>3. note' \in [Readers -> [Notes -> {"absent", "unread", "read"}]] /\ newer' \in [Readers -> SUBSET Notes]
    BY <2>1 DEF DigestShape
  <2>4. DigestShape'
    BY <2>1, <2>2, <2>3 DEF DigestShape
  <2>5. \A v \in Readers, k \in Notes :
          \/ v = u /\ k = n
          \/ note'[v][k] = note[v][k] /\ (k \in newer'[v] <=> k \in newer[v])
    BY <2>1 DEF DigestShape
  <2>6. n \in newer'[u]
    BY <2>1 DEF DigestShape
  <2>7. NothingSkipped'
    BY <2>1, <2>5, <2>6 DEF NothingSkipped
  <2>8. LetterCovers'
    <3>1. ASSUME NEW v \in digest.to PROVE digest.late[v] \subseteq digest'.late[v] /\ (v = u => n \in digest'.late[v])
      BY <2>2 DEF OneLetter, DigestShape, TickState
    <3>2. \A v \in digest.to : v \in Readers /\ newer'[v] \subseteq Notes
      BY <2>3 DEF DigestShape, TickState
    <3> QED BY <2>1, <2>2, <2>5, <3>1, <3>2 DEF LetterCovers
  <2> QED BY <2>2, <2>4, <2>7, <2>8 DEF OneLetter
<1>2. ASSUME NEW u \in Readers, NEW n \in Notes, MarkRead(u, n) PROVE DigestInv'
  <2>1. /\ note' = [note EXCEPT ![u] = [note[u] EXCEPT ![n] = "read"]]
        /\ UNCHANGED <<newer, mark, setting, mailed, cut, digest>>
    BY <1>2 DEF MarkRead
  <2>2. DigestShape'
    BY <2>1 DEF DigestShape
  <2>3. \A v \in Readers, k \in Notes : note'[v][k] = "unread" => note[v][k] = "unread"
    BY <2>1 DEF DigestShape
  <2>4. LetterCovers' /\ NothingSkipped'
    BY <2>1, <2>3 DEF LetterCovers, NothingSkipped, DigestShape, TickState
  <2> QED BY <2>1, <2>2, <2>4 DEF OneLetter
<1>3. ASSUME NEW u \in Readers, NEW s \in Settings, UpdateSettings(u, s) PROVE DigestInv'
  BY <1>3 DEF UpdateSettings, DigestShape, OneLetter, LetterCovers, NothingSkipped
<1>4. CASE DigestTick
  <2>1. /\ digest' \in TickState /\ digest'.to = {}
        /\ UNCHANGED <<note, newer, mark, setting, mailed, cut>>
    <3>1. {[u |-> u, s |-> setting[u], age |-> mark[u]] : u \in {v \in Readers : setting[v].freq # "none"}} \in SUBSET TickRow
      BY DEF DigestShape, TickRow
    <3> QED BY <1>4, <3>1, NoDigestIsTick DEF DigestTick, TickState, NoDigest
  <2> QED BY <2>1 DEF DigestShape, OneLetter, LetterCovers, NothingSkipped
<1>5. ASSUME NEW row \in digest.rows, NotDue(row) PROVE DigestInv'
  <2>1. /\ digest' \in TickState /\ digest'.to = {}
        /\ UNCHANGED <<note, newer, mark, setting, mailed, cut>>
    BY <1>5 DEF NotDue, DigestShape, TickState
  <2> QED BY <2>1 DEF DigestShape, OneLetter, LetterCovers, NothingSkipped
<1>6. ASSUME NEW row \in digest.rows, MarkEmpty(row) PROVE DigestInv'
  <2>1. /\ digest' \in TickState /\ digest'.to = {} /\ row.u \in Readers
        /\ digest.late[row.u] \in SUBSET Notes /\ digest.began \in Nat
    BY <1>6 DEF MarkEmpty, DigestShape, TickState, TickRow
  <2>2. /\ mark' = [mark EXCEPT ![row.u] = digest.began]
        /\ newer' = [newer EXCEPT ![row.u] = digest.late[row.u]]
        /\ \A n \in newer[row.u] : note[row.u][n] # "unread"
        /\ UNCHANGED <<note, setting, mailed, cut>>
    BY <1>6 DEF MarkEmpty, Unread
  <2>3. DigestShape'
    BY <2>1, <2>2 DEF DigestShape
  <2>4. NothingSkipped'
    BY <2>1, <2>2 DEF NothingSkipped, DigestShape
  <2> QED BY <2>1, <2>3, <2>4 DEF OneLetter, LetterCovers
<1>7. ASSUME NEW row \in digest.rows, Compose(row) PROVE DigestInv'
  <2>1. row.u \in Readers /\ Unread(row.u) \in SUBSET Notes
    BY DEF DigestShape, TickState, TickRow, Unread
  <2>2. /\ digest' \in TickState /\ digest'.to = {row.u} /\ digest'.busy /\ digest'.letter = Unread(row.u)
        /\ UNCHANGED <<note, newer, mark, setting, mailed, cut>>
    BY <1>7, <2>1 DEF Compose, DigestShape, TickState
  <2> QED BY <2>1, <2>2 DEF DigestShape, OneLetter, LetterCovers, NothingSkipped, Unread
<1>8. ASSUME NEW u \in Readers, Post(u) PROVE DigestInv'
  <2>1. /\ mailed' = [mailed EXCEPT ![u] = mailed[u] \cup Newest(digest.letter)]
        /\ cut' = [cut EXCEPT ![u] = cut[u] \cup (digest.letter \ Newest(digest.letter))]
        /\ digest' = [digest EXCEPT !.letter = {}]
        /\ UNCHANGED <<note, newer, mark, setting>> /\ u \in digest.to
    BY <1>8 DEF Post
  <2>2. digest.letter \in SUBSET Notes /\ Newest(digest.letter) \subseteq digest.letter
    BY DEF DigestShape, TickState, Newest
  <2>3. /\ digest' \in TickState /\ digest'.to = digest.to /\ digest'.busy = digest.busy
        /\ digest'.late = digest.late /\ digest'.letter = {}
    BY <2>1 DEF DigestShape, TickState
  <2>4. \A v \in Readers : mailed[v] \subseteq mailed'[v] /\ cut[v] \subseteq cut'[v]
    BY <2>1 DEF DigestShape
  <2>5. digest.letter \subseteq mailed'[u] \cup cut'[u]
    BY <2>1 DEF DigestShape
  <2>6. DigestShape'
    BY <2>1, <2>2, <2>3 DEF DigestShape
  <2>7. NothingSkipped'
    BY <2>1, <2>4 DEF NothingSkipped
  <2>8. LetterCovers'
    BY <2>1, <2>3, <2>4, <2>5 DEF LetterCovers, OneLetter, DigestShape, TickState
  <2> QED BY <2>3, <2>6, <2>7, <2>8 DEF OneLetter
<1>9. ASSUME NEW u \in Readers, PostFails(u) PROVE DigestInv'
  <2>1. /\ digest' \in TickState /\ digest'.to = {}
        /\ UNCHANGED <<note, newer, mark, setting, mailed, cut>>
    BY <1>9 DEF PostFails, DigestShape, TickState
  <2> QED BY <2>1 DEF DigestShape, OneLetter, LetterCovers, NothingSkipped
<1>10. ASSUME NEW u \in Readers, MoveMark(u) PROVE DigestInv'
  <2>1. /\ digest' \in TickState /\ digest'.to = {} /\ u \in digest.to
        /\ digest.late[u] \in SUBSET Notes /\ digest.began \in Nat /\ digest.letter = {}
    BY <1>10 DEF MoveMark, DigestShape, TickState
  <2>2. /\ mark' = [mark EXCEPT ![u] = digest.began]
        /\ newer' = [newer EXCEPT ![u] = digest.late[u]]
        /\ UNCHANGED <<note, setting, mailed, cut>>
    BY <1>10 DEF MoveMark
  <2>3. DigestShape'
    BY <2>1, <2>2 DEF DigestShape
  <2>4. NothingSkipped'
    BY <2>1, <2>2 DEF NothingSkipped, LetterCovers, DigestShape
  <2> QED BY <2>1, <2>3, <2>4 DEF OneLetter, LetterCovers
<1>11. CASE EndTick \/ DigestCrash
  <2>1. digest' = NoDigest /\ UNCHANGED <<note, newer, mark, setting, mailed, cut>>
    BY <1>11 DEF EndTick, DigestCrash
  <2>2. digest' \in TickState /\ digest'.to = {}
    BY <2>1, NoDigestIsTick DEF NoDigest
  <2> QED BY <2>1, <2>2 DEF DigestShape, OneLetter, LetterCovers, NothingSkipped
<1>12. CASE HourPasses
  <2>1. /\ digest' \in TickState /\ digest'.to = digest.to /\ digest'.busy = digest.busy
        /\ digest'.letter = digest.letter /\ digest'.late = digest.late
    <3>1. CASE digest.busy
      <4>1. digest' = [digest EXCEPT !.began = digest.began + 1]
        BY <1>12, <3>1 DEF HourPasses
      <4>2. digest \in TickState /\ digest.began + 1 \in Nat
        BY DEF DigestShape, TickState
      <4> QED BY <4>1, <4>2 DEF TickState
    <3>2. CASE ~digest.busy
      <4>1. digest' = IF digest.busy THEN [digest EXCEPT !.began = digest.began + 1] ELSE digest
        BY <1>12, Zenon DEF HourPasses
      <4> QED BY <3>2, <4>1 DEF DigestShape
    <3> QED BY <3>1, <3>2
  <2>2. mark' \in [Readers -> Nat] /\ UNCHANGED <<note, newer, setting, mailed, cut>>
    BY <1>12, AgesAreNat DEF HourPasses, DigestShape
  <2> QED BY <2>1, <2>2 DEF DigestShape, OneLetter, LetterCovers, NothingSkipped
<1>13. CASE UNCHANGED digestVars
  BY <1>13 DEF digestVars, DigestShape, OneLetter, LetterCovers, NothingSkipped
<1> QED BY <1>1, <1>2, <1>3, <1>4, <1>5, <1>6, <1>7, <1>8, <1>9, <1>10, <1>11, <1>12, <1>13
        DEF DigestNext, DigestWork

(* An unread notification is newer than its reader's watermark unless it was
   in a letter or found no room in a full one: in particular a restart
   between a letter and its watermark, or a refused letter, loses nothing. *)
THEOREM TheMarkSkipsNothing == DigestSpec => []NothingSkipped
<1>1. DigestInv => NothingSkipped
  BY DEF DigestInv
<1> QED BY <1>1, DigestStarts, DigestKept, PTL DEF DigestSpec

(* A watermark is as old as a week at most, a tick began in this hour or the
   one before, and what it is about to mail or to leave for the next letter is
   newer than the watermark. *)
DigestBounds ==
  /\ mark \in [Readers -> 0..Ages]
  /\ \A row \in digest.rows : row.age \in 0..Ages
  /\ digest.began \in {0, 1}
  /\ \A u \in Readers : digest.late[u] \subseteq newer[u]
  /\ \A u \in digest.to : digest.letter \subseteq newer[u]
  /\ hour \in 0..Ages - 1 /\ ticked \in BOOLEAN

LEMMA AgesArePositive == Ages \in Nat \ {0}
<1>1. WeekDays * DayHours = DayHours + (WeekDays - 1) * DayHours /\ WeekDays - 1 \in Nat
  OBVIOUS
<1>2. (WeekDays - 1) * DayHours \in Nat
  BY <1>1
<1> QED BY <1>1, <1>2 DEF Ages

LEMMA DigestBoundsStart == DigestInit => DigestBounds
<1> SUFFICES ASSUME DigestInit PROVE DigestBounds
  OBVIOUS
<1>1. 0 \in 0..Ages - 1 /\ Ages \in 0..Ages
  BY AgesArePositive
<1>2. /\ digest.rows = {} /\ digest.began = 0 /\ digest.to = {}
      /\ digest.late = [u \in Readers |-> {}]
  BY DEF DigestInit, NoDigest
<1> QED BY <1>1, <1>2 DEF DigestInit, DigestBounds

LEMMA DigestBoundsStay ==
  DigestInv /\ DigestBounds /\ [DigestNext]_digestVars => DigestBounds'
<1> SUFFICES ASSUME DigestInv, DigestBounds, [DigestNext]_digestVars PROVE DigestBounds'
  OBVIOUS
<1>a. DigestShape /\ OneLetter /\ digest \in TickState
  BY DEF DigestInv, DigestShape
<1>1. ASSUME NEW u \in Readers, Notify(u) PROVE DigestBounds'
  <2>1. PICK n \in Notes :
          /\ newer' = [newer EXCEPT ![u] = newer[u] \cup {n}]
          /\ digest' = IF digest.busy THEN [digest EXCEPT !.late = [digest.late EXCEPT ![u] = digest.late[u] \cup {n}]]
                       ELSE digest
          /\ UNCHANGED <<mark, hour, ticked>>
    BY <1>1 DEF Notify
  <2>2. /\ digest'.rows = digest.rows /\ digest'.began = digest.began /\ digest'.to = digest.to
        /\ digest'.letter = digest.letter
        /\ digest'.late \in {digest.late, [digest.late EXCEPT ![u] = digest.late[u] \cup {n}]}
    BY <1>a, <2>1 DEF TickState
  <2>3. newer[u] \subseteq newer'[u] /\ n \in newer'[u] /\ \A v \in Readers \ {u} : newer'[v] = newer[v]
    BY <1>a, <2>1 DEF DigestShape
  <2>4. \A v \in Readers : digest'.late[v] \subseteq newer'[v]
    BY <1>a, <2>2, <2>3 DEF DigestBounds, TickState
  <2>5. digest.to \subseteq Readers
    BY <1>a DEF TickState
  <2> QED BY <2>1, <2>2, <2>3, <2>4, <2>5 DEF DigestBounds
<1>2. ASSUME NEW u \in Readers, NEW n \in Notes, MarkRead(u, n) PROVE DigestBounds'
  BY <1>2 DEF MarkRead, DigestBounds
<1>12. ASSUME NEW u \in Readers, NEW s \in Settings, UpdateSettings(u, s) PROVE DigestBounds'
  BY <1>12 DEF UpdateSettings, DigestBounds
<1>3. CASE DigestTick
  <2>1. PICK rows : rows = {[u |-> u, s |-> setting[u], age |-> mark[u]] : u \in {v \in Readers : setting[v].freq # "none"}}
    OBVIOUS
  <2>2. \A row \in rows : row.age \in 0..Ages
    BY <2>1 DEF DigestBounds
  <2>3. /\ digest'.rows = rows /\ digest'.began = 0 /\ digest'.to = {} /\ digest'.letter = {}
        /\ digest'.late = [u \in Readers |-> {}]
        /\ ticked' = TRUE /\ UNCHANGED <<newer, mark, hour>>
    BY <1>3, <2>1 DEF DigestTick, NoDigest
  <2> QED BY <2>2, <2>3 DEF DigestBounds
<1>4. ASSUME NEW row \in digest.rows, NotDue(row) PROVE DigestBounds'
  <2>1. /\ digest'.rows \subseteq digest.rows /\ digest'.began = digest.began /\ digest'.to = digest.to
        /\ digest'.letter = digest.letter /\ digest'.late = digest.late
        /\ UNCHANGED <<newer, mark, hour, ticked>>
    BY <1>4, <1>a DEF NotDue, TickState
  <2> QED BY <2>1 DEF DigestBounds
<1>5. ASSUME NEW row \in digest.rows, MarkEmpty(row) PROVE DigestBounds'
  <2>1. PICK u \in Readers : u = row.u
    BY <1>a DEF TickState, TickRow
  <2>2. /\ digest'.rows \subseteq digest.rows /\ digest'.began = digest.began /\ digest'.to = {}
        /\ digest'.late = digest.late
        /\ mark' = [mark EXCEPT ![u] = digest.began]
        /\ newer' = [newer EXCEPT ![u] = digest.late[u]]
        /\ UNCHANGED <<hour, ticked>>
    BY <1>5, <1>a, <2>1 DEF MarkEmpty, TickState
  <2>3. mark' \in [Readers -> 0..Ages]
    BY <2>2, AgesArePositive DEF DigestBounds
  <2>4. \A v \in Readers : digest'.late[v] \subseteq newer'[v]
    BY <1>a, <2>2 DEF DigestBounds, DigestShape
  <2> QED BY <2>2, <2>3, <2>4 DEF DigestBounds
<1>6. ASSUME NEW row \in digest.rows, Compose(row) PROVE DigestBounds'
  <2>1. /\ digest'.rows \subseteq digest.rows /\ digest'.began = digest.began /\ digest'.to = {row.u}
        /\ digest'.letter = Unread(row.u) /\ digest'.late = digest.late
        /\ UNCHANGED <<newer, mark, hour, ticked>>
    BY <1>6, <1>a DEF Compose, TickState
  <2> QED BY <2>1 DEF DigestBounds, Unread
<1>7. ASSUME NEW u \in Readers, Post(u) \/ PostFails(u) PROVE DigestBounds'
  <2>1. /\ digest'.rows = digest.rows /\ digest'.began = digest.began /\ digest'.to \subseteq digest.to
        /\ digest'.letter = {} /\ digest'.late = digest.late
        /\ UNCHANGED <<newer, mark, hour, ticked>>
    BY <1>7, <1>a DEF Post, PostFails, TickState
  <2> QED BY <2>1 DEF DigestBounds
<1>8. ASSUME NEW u \in Readers, MoveMark(u) PROVE DigestBounds'
  <2>1. /\ digest'.rows = digest.rows /\ digest'.began = digest.began /\ digest'.to = {}
        /\ digest'.late = digest.late
        /\ mark' = [mark EXCEPT ![u] = digest.began]
        /\ newer' = [newer EXCEPT ![u] = digest.late[u]]
        /\ UNCHANGED <<hour, ticked>>
    BY <1>8, <1>a DEF MoveMark, TickState
  <2>2. mark' \in [Readers -> 0..Ages]
    BY <2>1, AgesArePositive DEF DigestBounds
  <2>3. \A v \in Readers : digest'.late[v] \subseteq newer'[v]
    BY <1>a, <2>1 DEF DigestBounds, DigestShape
  <2> QED BY <2>1, <2>2, <2>3 DEF DigestBounds
<1>9. CASE EndTick \/ DigestCrash
  <2>1. digest' = NoDigest /\ ticked' \in BOOLEAN /\ UNCHANGED <<newer, mark, hour>>
    BY <1>9 DEF EndTick, DigestCrash, DigestBounds
  <2> QED BY <2>1 DEF DigestBounds, NoDigest
<1>10. CASE HourPasses
  <2>1. hour' \in 0..Ages - 1
    BY <1>10, AgesArePositive DEF HourPasses, DigestBounds
  <2>2. mark' \in [Readers -> 0..Ages]
    BY <1>10, AgesArePositive DEF HourPasses, DigestBounds
  <2>3. ticked' \in BOOLEAN /\ newer' = newer
    BY <1>10, <1>a DEF HourPasses, TickState
  <2>4. /\ digest'.rows = digest.rows /\ digest'.to = digest.to
        /\ digest'.letter = digest.letter /\ digest'.late = digest.late /\ digest'.began \in {0, 1}
    <3>1. CASE digest.busy
      <4>1. digest' = [digest EXCEPT !.began = digest.began + 1] /\ digest.began = 0
        BY <1>10, <3>1 DEF HourPasses
      <4>2. digest'.began = 1
        BY <1>a, <4>1 DEF TickState
      <4> QED BY <1>a, <4>1, <4>2 DEF TickState
    <3>2. CASE ~digest.busy
      <4>1. digest' = IF digest.busy THEN [digest EXCEPT !.began = digest.began + 1] ELSE digest
        BY <1>10, Zenon DEF HourPasses
      <4> QED BY <3>2, <4>1 DEF DigestBounds
    <3> QED BY <3>1, <3>2
  <2> QED BY <2>1, <2>2, <2>3, <2>4 DEF DigestBounds
<1>11. CASE UNCHANGED digestVars
  BY <1>11 DEF digestVars, DigestBounds
<1> QED BY <1>1, <1>2, <1>3, <1>4, <1>5, <1>6, <1>7, <1>8, <1>9, <1>10, <1>11, <1>12
        DEF DigestNext, DigestWork

(* What is about to be mailed, and what arrived since the tick began, is newer
   than the watermark it will move; one letter is written at a time; rows,
   watermarks and clock stay within their bounds. *)
THEOREM DigestTypeCorrect == DigestSpec => []DigestTypeOK
<1>1. DigestInv /\ DigestBounds => DigestTypeOK
  <2> SUFFICES ASSUME DigestInv, DigestBounds PROVE DigestTypeOK
    OBVIOUS
  <2>1. DigestShape /\ digest \in TickState
    BY DEF DigestInv, DigestShape
  <2>2. digest \in [busy : BOOLEAN, rows : SUBSET [u : Readers, s : Settings, age : 0..Ages],
                    began : {0, 1}, to : SUBSET Readers, letter : SUBSET Notes,
                    late : [Readers -> SUBSET Notes]]
    <3>1. digest.rows \subseteq [u : Readers, s : Settings, age : 0..Ages]
      BY <2>1 DEF TickState, TickRow, DigestBounds
    <3>2. PICK d \in TickState : d = digest
      BY <2>1
    <3>3. d.rows \subseteq [u : Readers, s : Settings, age : 0..Ages] /\ d.began \in {0, 1}
      BY <3>1, <3>2 DEF DigestBounds
    <3> QED BY <3>2, <3>3 DEF TickState
  <2>3. Cardinality(digest.to) <= 1
    <3>1. CASE digest.to = {}
      BY <3>1, FS_EmptySet
    <3>2. ASSUME NEW u \in digest.to PROVE Cardinality(digest.to) <= 1
      <4>1. digest.to = {u}
        BY DEF DigestInv, OneLetter
      <4>2. Cardinality({u}) = 1
        BY FS_Singleton
      <4> QED BY <4>1, <4>2
    <3> QED BY <3>1, <3>2
  <2> QED BY <2>1, <2>2, <2>3 DEF DigestTypeOK, DigestShape, DigestBounds
<1> QED BY <1>1, DigestStarts, DigestKept, DigestBoundsStart, DigestBoundsStay, PTL DEF DigestSpec

HIDE DigestAssumption DEF DigestAssumption

-----------------------------------------------------------------------------
(***************************************************************************)
(* Inbound mail: with one courier at work, a mail whose row is written is  *)
(* filed no more, for any threads and senders, with restarts, rejected     *)
(* mails and rows that could not be written.                               *)
(***************************************************************************)

USE MailAssumption DEF MailAssumption

(* The IMAP poller or the webhook, whichever the deployment uses, and one
   call of it at a time. *)
OneCourier == \A j, k \in Couriers : j = k

MailTask == [op : {"idle", "thread", "comment", "open", "record", "flag"},
         m : Mails \cup {NoMail}, t : {0} \cup MailTickets]

(* A courier at work has a mail, and a ticket to comment on. *)
TaskFits(task) ==
  /\ task.op # "idle" => task.m \in Mails
  /\ task.op = "comment" => task.t \in MailTickets

(* What the argument needs of the types. *)
MailShape ==
  /\ arrived \subseteq Mails /\ batch \subseteq Mails
  /\ known \in [Mails \cup Outgoing -> {0} \cup MailTickets]
  /\ filed \in [Mails -> Seq(MailTickets)]
  /\ about \in [Outgoing -> {0} \cup MailTickets]
  /\ courier \in [Couriers -> MailTask]
  /\ \A k \in Couriers : TaskFits(courier[k])

(* A mail that is about to be filed has no row. *)
RowComesLast == \A k \in Couriers :
  courier[k].op \in {"thread", "comment", "open"} => known[courier[k].m] = 0

(* The inductive invariant. *)
MailInv == MailShape /\ RowComesLast

(* Nobody is at work at the start. *)
LEMMA MailStarts == MailInit => MailInv
BY DEF MailInit, MailInv, MailShape, RowComesLast, MailTask, NoTask, TaskFits

(* The header search finds tickets. *)
LEMMA HeadersFindTickets ==
  ASSUME MailShape, NEW m \in Mails PROVE ByHeader(m) \subseteq MailTickets
<1>1. \A i \in DOMAIN Headers[m] : Headers[m][i] \in Mails \cup Outgoing
  BY DEF MailShape
<1> QED BY <1>1 DEF ByHeader, MailShape

(* A step that leaves rows and filings alone and lets one courier go on. *)
LEMMA CourierGoesOn ==
  ASSUME MailInv, NEW k \in Couriers, NEW task \in MailTask,
         courier' = [courier EXCEPT ![k] = task],
         arrived' \subseteq Mails, batch' \subseteq Mails, UNCHANGED <<known, filed, about>>,
         TaskFits(task),
         task.op \in {"thread", "comment", "open"} => known[task.m] = 0
  PROVE  MailInv'
BY DEF MailInv, MailShape, RowComesLast

(* Every step keeps the invariant, and files a mail only while it has no row. *)
LEMMA MailKept ==
  ASSUME OneCourier
  PROVE  MailInv /\ [MailNext]_mailVars => MailInv' /\ \A m \in Mails : known[m] # 0 => filed'[m] = filed[m]
<1> DEFINE Goal == MailInv' /\ \A m \in Mails : known[m] # 0 => filed'[m] = filed[m]
<1> SUFFICES ASSUME MailInv, [MailNext]_mailVars PROVE Goal
  OBVIOUS
<1>0. MailShape /\ RowComesLast /\ NoTask \in MailTask
  BY DEF MailInv, MailTask, NoTask
<1>1. ASSUME NEW m \in Mails, Arrive(m) PROVE Goal
  BY <1>0, <1>1 DEF Arrive, MailInv, MailShape, RowComesLast
<1>2. ASSUME NEW t \in MailTickets, DiscardTicket(t) PROVE Goal
  BY <1>0, <1>2 DEF DiscardTicket, MailInv, MailShape, RowComesLast
<1>3. ASSUME NEW t \in MailTickets, NEW o \in Outgoing, SendOut(o, t) PROVE Goal
  <2>1. /\ known' \in [Mails \cup Outgoing -> {0} \cup MailTickets]
        /\ \A m \in Mails : known'[m] = known[m]
    <3>1. \A m \in Mails : m # o
      OBVIOUS
    <3>2. CASE known' = [known EXCEPT ![o] = t]
      BY <1>0, <3>1, <3>2 DEF MailShape
    <3>3. CASE known' = known
      BY <1>0, <3>3 DEF MailShape
    <3> QED BY <1>3, <3>2, <3>3 DEF SendOut
  <2>2. about' \in [Outgoing -> {0} \cup MailTickets] /\ UNCHANGED <<arrived, filed, batch, courier>>
    BY <1>0, <1>3 DEF SendOut, MailShape
  <2> QED BY <1>0, <2>1, <2>2 DEF MailInv, MailShape, RowComesLast, TaskFits
<1>4. CASE FetchUnseen
  BY <1>0, <1>4 DEF FetchUnseen, MailInv, MailShape, RowComesLast
<1>5. ASSUME NEW k \in Couriers, NEW m \in Mails, Take(k, m) PROVE Goal
  <2> DEFINE task == [op |-> IF known[m] # 0 THEN "flag" ELSE "thread", m |-> m, t |-> 0]
  <2>1. task \in MailTask /\ TaskFits(task) /\ (task.op = "thread" => known[task.m] = 0)
        /\ task.op \notin {"comment", "open"}
    BY DEF MailTask, TaskFits
  <2>2. courier' = [courier EXCEPT ![k] = task] /\ batch' \subseteq Mails
        /\ UNCHANGED <<arrived, known, filed, about>>
    BY <1>0, <1>5 DEF Take, MailShape
  <2> HIDE DEF task
  <2> QED BY <1>0, <2>1, <2>2, CourierGoesOn DEF MailShape
<1>6. ASSUME NEW k \in Couriers, Thread(k) PROVE Goal
  <2>1. courier[k] \in MailTask /\ courier[k].m \in Mails /\ known[courier[k].m] = 0
    BY <1>0, <1>6 DEF Thread, Doing, MailShape, RowComesLast, TaskFits
  <2>2. UNCHANGED <<arrived, known, filed, about, batch>>
    BY <1>6 DEF Thread
  <2>3. PICK op \in {"comment", "open"}, t \in {0} \cup MailTickets :
              Goes(k, op, t) /\ (op = "comment" => t \in MailTickets)
    BY <1>0, <1>6, <2>1, HeadersFindTickets DEF Thread, BySubject
  <2> DEFINE task == [courier[k] EXCEPT !.op = op, !.t = t]
  <2>4. task \in MailTask /\ TaskFits(task) /\ task.m = courier[k].m
    BY <2>1, <2>3 DEF MailTask, TaskFits
  <2>5. courier' = [courier EXCEPT ![k] = task]
    BY <2>3 DEF Goes
  <2> HIDE DEF task
  <2> QED BY <1>0, <2>1, <2>2, <2>4, <2>5, CourierGoesOn DEF MailShape
<1>7. ASSUME NEW k \in Couriers, NEW t \in {0} \cup MailTickets, courier[k].op \in {"comment", "open"},
             filed' \in [Mails -> Seq(MailTickets)],
             \A m \in Mails \ {courier[k].m} : filed'[m] = filed[m],
             Goes(k, "record", t), UNCHANGED <<arrived, known, about, batch>>
      PROVE  Goal
  <2> DEFINE task == [courier[k] EXCEPT !.op = "record", !.t = t]
  <2>1. courier[k].m \in Mails /\ known[courier[k].m] = 0 /\ courier[k] \in MailTask
    BY <1>0, <1>7 DEF MailShape, RowComesLast, TaskFits
  <2>2. task \in MailTask /\ task.op = "record" /\ TaskFits(task)
    BY <2>1 DEF MailTask, TaskFits
  <2>3. courier' = [courier EXCEPT ![k] = task]
    BY <1>7 DEF Goes
  <2> HIDE DEF task
  <2>4. MailInv'
    BY <1>0, <1>7, <2>2, <2>3 DEF MailInv, MailShape, RowComesLast
  <2> QED BY <1>7, <2>1, <2>4
<1>8. ASSUME NEW k \in Couriers, FileComment(k) PROVE Goal
  <2>1. courier[k].m \in Mails /\ courier[k].t \in MailTickets /\ courier[k].op = "comment"
    BY <1>0, <1>8 DEF FileComment, Doing, MailShape, TaskFits
  <2>2. filed' \in [Mails -> Seq(MailTickets)]
    <3>1. Append(filed[courier[k].m], courier[k].t) \in Seq(MailTickets)
      BY <1>0, <2>1 DEF MailShape
    <3> QED BY <1>0, <1>8, <3>1 DEF FileComment, MailShape
  <2>3. \A m \in Mails \ {courier[k].m} : filed'[m] = filed[m]
    BY <1>0, <1>8 DEF FileComment, MailShape
  <2> QED BY <1>7, <1>8, <2>1, <2>2, <2>3 DEF FileComment
<1>9. ASSUME NEW k \in Couriers, NEW t \in MailTickets, OpenTicket(k, t) PROVE Goal
  <2>1. courier[k].m \in Mails /\ courier[k].op = "open"
    BY <1>0, <1>9 DEF OpenTicket, Doing, MailShape, TaskFits
  <2> QED BY <1>0, <1>7, <1>9, <2>1 DEF OpenTicket, MailShape
<1>10. ASSUME NEW k \in Couriers, RecordMail(k) PROVE Goal
  <2> DEFINE task == [courier[k] EXCEPT !.op = "flag", !.t = courier[k].t]
  <2>1. courier[k] \in MailTask /\ courier[k].m \in Mails
    BY <1>0, <1>10 DEF RecordMail, Doing, MailShape, TaskFits
  <2>2. task \in MailTask /\ task.op = "flag" /\ TaskFits(task)
    BY <2>1 DEF MailTask, TaskFits
  <2>3. courier' = [courier EXCEPT ![k] = task] /\ UNCHANGED <<arrived, filed, about, batch>>
    BY <1>10 DEF RecordMail, Goes
  <2>4. known' \in [Mails \cup Outgoing -> {0} \cup MailTickets]
    BY <1>0, <1>10, <2>1 DEF RecordMail, MailShape, MailTask
  <2> HIDE DEF task
  <2>5. \A j \in Couriers : courier'[j] = task
    BY <1>0, <2>3 DEF OneCourier, MailShape
  <2> QED BY <1>0, <2>2, <2>3, <2>4, <2>5 DEF MailInv, MailShape, RowComesLast
<1>11. ASSUME NEW k \in Couriers, FlagSeen(k) PROVE Goal
  BY <1>0, <1>11, CourierGoesOn DEF FlagSeen, MailShape, NoTask, TaskFits
<1>12. ASSUME NEW k \in Couriers, FailMail(k) PROVE Goal
  BY <1>0, <1>12, CourierGoesOn DEF FailMail, MailShape, NoTask, TaskFits
<1>13. CASE MailCrash
  BY <1>0, <1>13 DEF MailCrash, MailInv, MailShape, RowComesLast, NoTask, TaskFits
<1>14. CASE UNCHANGED mailVars
  BY <1>0, <1>14 DEF mailVars, MailInv, MailShape, RowComesLast
<1> QED BY <1>1, <1>2, <1>3, <1>4, <1>5, <1>6, <1>8, <1>9, <1>10, <1>11, <1>12, <1>13, <1>14
        DEF MailNext, MailWork

(* However often a restart or a rejection makes the courier take a mail
   again, a mail whose row is there becomes no second comment or ticket. *)
THEOREM FilingEndsWithTheRow ==
  ASSUME OneCourier PROVE MailSpec => RowEndsFiling
<1>1. MailInv /\ [MailNext]_mailVars => MailInv'
  BY MailKept
<1>2. MailInv /\ [MailNext]_mailVars => [\A m \in Mails : known[m] # 0 => filed'[m] = filed[m]]_mailVars
  BY MailKept
<1> QED BY <1>1, <1>2, MailStarts, PTL DEF MailSpec, RowEndsFiling

(* What a courier holds: a mail that arrived, and a ticket that was opened. *)
MailTaskFits(task, come, tickets) ==
  /\ task \in [op : {"idle", "thread", "comment", "open", "record", "flag"},
               m : come \cup {NoMail}, t : {0} \cup tickets]
  /\ task.op # "idle" => task.m \in come
  /\ task.op = "comment" => task.t \in tickets

MailRows(tickets) ==
  /\ known \in [Mails \cup Outgoing -> {0} \cup tickets]
  /\ filed \in [Mails -> Seq(tickets)]
  /\ discarded \subseteq tickets
  /\ about \in [Outgoing -> {0} \cup tickets]

MailTypeInv ==
  /\ arrived \subseteq Mails /\ flagged \subseteq arrived /\ batch \subseteq arrived
  /\ opener \in [MailTickets -> Mails \cup {NoMail}]
  /\ MailRows(Opened)
  /\ courier \in [Couriers -> [op : {"idle", "thread", "comment", "open", "record", "flag"},
                               m : arrived \cup {NoMail}, t : {0} \cup Opened]]
  /\ \A k \in Couriers : MailTaskFits(courier[k], arrived, Opened)

(* Mails only arrive, and tickets are only opened: what fits goes on fitting. *)
LEMMA MailTaskGrows ==
  ASSUME NEW task, NEW come, NEW come2, NEW tickets, NEW tickets2,
         come \subseteq come2, tickets \subseteq tickets2, MailTaskFits(task, come, tickets)
  PROVE  MailTaskFits(task, come2, tickets2)
BY DEF MailTaskFits

LEMMA MailRowsGrow ==
  ASSUME NEW tickets, NEW tickets2, tickets \subseteq tickets2, MailRows(tickets)
  PROVE  MailRows(tickets2)
<1>1. ASSUME NEW s \in Seq(tickets) PROVE s \in Seq(tickets2)
  OBVIOUS
<1> QED BY <1>1 DEF MailRows

(* A step that opens no ticket and lets at most one courier go on. *)
LEMMA MailTypesGoOn ==
  ASSUME MailTypeInv, NEW k \in Couriers, NEW task, courier' = [courier EXCEPT ![k] = task],
         arrived' = arrived, flagged' \subseteq arrived, batch' \subseteq arrived,
         NEW tickets, opener' \in [MailTickets -> Mails \cup {NoMail}],
         Opened \subseteq tickets, Opened' = tickets, MailRows(tickets)',
         MailTaskFits(task, arrived, tickets)
  PROVE  MailTypeInv'
<1>1. ASSUME NEW j \in Couriers PROVE MailTaskFits(courier'[j], arrived, tickets)
  <2>1. CASE j = k
    BY <2>1 DEF MailTypeInv
  <2>2. CASE j # k
    BY <2>2, MailTaskGrows DEF MailTypeInv
  <2> QED BY <2>1, <2>2
<1>2. courier' \in [Couriers -> [op : {"idle", "thread", "comment", "open", "record", "flag"},
                               m : arrived \cup {NoMail}, t : {0} \cup tickets]]
  <2>1. DOMAIN courier' = Couriers /\ \A j \in Couriers : courier'[j] \in
          [op : {"idle", "thread", "comment", "open", "record", "flag"}, m : arrived \cup {NoMail}, t : {0} \cup tickets]
    BY <1>1 DEF MailTypeInv, MailTaskFits
  <2>2. courier' = [j \in Couriers |-> courier'[j]]
    BY DEF MailTypeInv
  <2> QED BY <2>1, <2>2
<1> QED BY <1>1, <1>2 DEF MailTypeInv, MailTaskFits

LEMMA MailTypesStart == MailInit => MailTypeInv
BY DEF MailInit, MailTypeInv, MailRows, MailTaskFits, NoTask, Opened

LEMMA HeadersFindOpened ==
  ASSUME MailTypeInv, NEW m \in Mails
  PROVE  ByHeader(m) \subseteq Opened /\ BySubject(m) \subseteq Opened
<1>1. \A i \in DOMAIN Headers[m] : Headers[m][i] \in Mails \cup Outgoing
  OBVIOUS
<1>2. \A t \in Opened : t \in MailTickets /\ t # 0
  BY DEF Opened
<1>3. \A i \in DOMAIN Headers[m] : known[Headers[m][i]] \in {0} \cup Opened
  BY <1>1 DEF MailTypeInv, MailRows
<1>4. \A i \in DOMAIN Headers[m] : Headers[m][i] \in Outgoing => about[Headers[m][i]] \in {0} \cup Opened
  BY DEF MailTypeInv, MailRows
<1>5. ByHeader(m) \subseteq Opened
  BY <1>3 DEF ByHeader
<1>6. 0 \notin MailTickets
  OBVIOUS
<1>7. BySubject(m) \subseteq Opened
  BY <1>4, <1>6 DEF BySubject
<1> QED BY <1>5, <1>7

LEMMA MailTypesStay == MailTypeInv /\ [MailNext]_mailVars => MailTypeInv'
<1> SUFFICES ASSUME MailTypeInv, [MailNext]_mailVars PROVE MailTypeInv'
  OBVIOUS
<1>a. ASSUME UNCHANGED opener PROVE Opened' = Opened
  BY <1>a DEF Opened
<1>b. ASSUME UNCHANGED <<known, filed, discarded, about>> PROVE MailRows(Opened)'  <=> MailRows(Opened')
  BY <1>b DEF MailRows
<1>n. MailTaskFits(NoTask, arrived, Opened)
  BY DEF MailTaskFits, NoTask
<1>r. ASSUME UNCHANGED <<known, filed, opener, discarded, about>> PROVE MailRows(Opened)'
  BY <1>r, <1>a DEF MailRows, MailTypeInv
<1>1. ASSUME NEW m \in Mails, Arrive(m) PROVE MailTypeInv'
  <2>1. Opened' = Opened /\ MailRows(Opened)' /\ courier' = courier /\ arrived \subseteq arrived'
    BY <1>1, <1>a, <1>r DEF Arrive
  <2>2. \A j \in Couriers : MailTaskFits(courier[j], arrived', Opened)
    BY <2>1, MailTaskGrows DEF MailTypeInv
  <2>3. \A j \in Couriers : MailTaskFits(courier[j], arrived, Opened)'
    BY <2>1, <2>2 DEF MailTaskFits
  <2>4. (courier \in [Couriers -> [op : {"idle", "thread", "comment", "open", "record", "flag"},
                               m : arrived \cup {NoMail}, t : {0} \cup Opened]])'
    BY <2>1 DEF MailTypeInv
  <2> QED BY <1>1, <2>1, <2>3, <2>4 DEF Arrive, MailTypeInv
<1>2. ASSUME NEW t \in MailTickets, DiscardTicket(t) PROVE MailTypeInv'
  <2>1. Opened' = Opened
    BY <1>2, <1>a DEF DiscardTicket
  <2>2. MailRows(Opened)'
    BY <1>2, <2>1 DEF DiscardTicket, MailRows, MailTypeInv
  <2> QED BY <1>2, <2>1, <2>2 DEF DiscardTicket, MailTypeInv, MailTaskFits
<1>3. ASSUME NEW t \in MailTickets, NEW o \in Outgoing, SendOut(o, t) PROVE MailTypeInv'
  <2>1. Opened' = Opened /\ t \in Opened
    BY <1>3, <1>a DEF SendOut
  <2>2. known' \in [Mails \cup Outgoing -> {0} \cup Opened]
    <3>1. CASE known' = [known EXCEPT ![o] = t]
      BY <2>1, <3>1 DEF MailRows, MailTypeInv
    <3>2. CASE known' = known
      BY <3>2 DEF MailRows, MailTypeInv
    <3> QED BY <1>3, <3>1, <3>2 DEF SendOut
  <2>3. MailRows(Opened)'
    BY <1>3, <2>1, <2>2 DEF SendOut, MailRows, MailTypeInv
  <2> QED BY <1>3, <2>1, <2>3 DEF SendOut, MailTypeInv, MailTaskFits
<1>4. CASE FetchUnseen
  <2>1. Opened' = Opened /\ MailRows(Opened)'
    BY <1>4, <1>a, <1>r DEF FetchUnseen
  <2> QED BY <1>4, <2>1 DEF FetchUnseen, MailTypeInv, MailTaskFits
<1>5. ASSUME NEW k \in Couriers, NEW m \in Mails, Take(k, m) PROVE MailTypeInv'
  <2>1. PICK task : task = [op |-> IF known[m] # 0 THEN "flag" ELSE "thread", m |-> m, t |-> 0]
    OBVIOUS
  <2>2. m \in arrived
    BY <1>5 DEF Take, MailTypeInv
  <2>3. MailTaskFits(task, arrived, Opened)
    BY <2>1, <2>2 DEF MailTaskFits
  <2>4. Opened' = Opened /\ MailRows(Opened)'
    BY <1>5, <1>a, <1>r DEF Take
  <2>5. /\ courier' = [courier EXCEPT ![k] = task] /\ batch' \subseteq arrived
        /\ UNCHANGED <<arrived, flagged, opener>>
    BY <1>5, <2>1 DEF Take, MailTypeInv
  <2> QED BY <2>3, <2>4, <2>5, MailTypesGoOn DEF MailTypeInv
<1>6. ASSUME NEW k \in Couriers, NEW op \in {"comment", "open", "flag", "record"}, NEW t,
             NEW tickets, t \in {0} \cup tickets, op = "comment" => t \in tickets,
             Goes(k, op, t), courier[k].op # "idle"
      PROVE  \E task : courier' = [courier EXCEPT ![k] = task] /\ MailTaskFits(task, arrived, tickets)
  <2>1. PICK task : task = [courier[k] EXCEPT !.op = op, !.t = t]
    OBVIOUS
  <2>2. courier[k] \in [op : {"idle", "thread", "comment", "open", "record", "flag"},
                        m : arrived \cup {NoMail}, t : {0} \cup Opened] /\ courier[k].m \in arrived
    BY <1>6 DEF MailTypeInv, MailTaskFits
  <2>3. task = [op |-> op, m |-> courier[k].m, t |-> t]
    BY <2>1, <2>2
  <2>4. courier' = [courier EXCEPT ![k] = task]
    BY <1>6, <2>1 DEF Goes
  <2>5. MailTaskFits(task, arrived, tickets)
    BY <1>6, <2>2, <2>3 DEF MailTaskFits
  <2> QED BY <2>4, <2>5
<1>7. ASSUME NEW k \in Couriers, Thread(k) PROVE MailTypeInv'
  <2>1. courier[k].m \in Mails /\ courier[k].op # "idle"
    BY <1>7 DEF Thread, Doing, MailTypeInv, MailTaskFits
  <2>2. PICK op \in {"comment", "open"}, t \in {0} \cup Opened :
              Goes(k, op, t) /\ (op = "comment" => t \in Opened)
    BY <1>7, <2>1, HeadersFindOpened DEF Thread
  <2>3. PICK task : courier' = [courier EXCEPT ![k] = task] /\ MailTaskFits(task, arrived, Opened)
    <3>1. op \in {"comment", "open", "flag", "record"} /\ t \in {0} \cup Opened
      OBVIOUS
    <3>2. Goes(k, op, t) /\ (op = "comment" => t \in Opened) /\ courier[k].op # "idle"
      BY <2>1, <2>2
    <3> QED BY <1>6, <3>1, <3>2
  <2>4. Opened' = Opened /\ MailRows(Opened)' /\ UNCHANGED <<arrived, flagged, batch, opener>>
    BY <1>7, <1>a, <1>r DEF Thread
  <2> QED BY <2>3, <2>4, MailTypesGoOn DEF MailTypeInv
<1>8. ASSUME NEW k \in Couriers, FileComment(k) PROVE MailTypeInv'
  <2>1. courier[k].m \in Mails /\ courier[k].t \in Opened /\ courier[k].op # "idle"
    BY <1>8 DEF FileComment, Doing, MailTypeInv, MailTaskFits
  <2>2. PICK task : courier' = [courier EXCEPT ![k] = task] /\ MailTaskFits(task, arrived, Opened)
    BY <1>6, <1>8, <2>1 DEF FileComment
  <2>3. Opened' = Opened
    BY <1>8, <1>a DEF FileComment
  <2>4. Append(filed[courier[k].m], courier[k].t) \in Seq(Opened)
    BY <2>1 DEF MailTypeInv, MailRows
  <2>5. MailRows(Opened)'
    BY <1>8, <2>3, <2>4 DEF FileComment, MailTypeInv, MailRows
  <2> QED BY <1>8, <2>2, <2>3, <2>5, MailTypesGoOn DEF FileComment, MailTypeInv
<1>9. ASSUME NEW k \in Couriers, NEW t \in MailTickets, OpenTicket(k, t) PROVE MailTypeInv'
  <2>1. courier[k].m \in arrived /\ courier[k].m \in Mails /\ courier[k].op # "idle"
    BY <1>9 DEF OpenTicket, Doing, MailTypeInv, MailTaskFits
  <2>2. PICK tickets : tickets = Opened \cup {t}
    OBVIOUS
  <2>3. /\ opener' = [opener EXCEPT ![t] = courier[k].m]
        /\ filed' = [filed EXCEPT ![courier[k].m] = Append(filed[courier[k].m], t)]
        /\ UNCHANGED <<arrived, flagged, known, discarded, about, batch>>
    BY <1>9 DEF OpenTicket
  <2>4. Opened' = tickets /\ opener' \in [MailTickets -> Mails \cup {NoMail}]
    BY <2>1, <2>2, <2>3 DEF Opened, MailTypeInv
  <2>5. MailRows(tickets)
    BY <2>2, MailRowsGrow DEF MailTypeInv
  <2>6. Append(filed[courier[k].m], t) \in Seq(tickets)
    BY <2>1, <2>2, <2>5 DEF MailRows
  <2>7. MailRows(tickets)'
    BY <2>3, <2>5, <2>6 DEF MailRows
  <2>8. PICK task : courier' = [courier EXCEPT ![k] = task] /\ MailTaskFits(task, arrived, tickets)
    BY <1>6, <1>9, <2>1, <2>2 DEF OpenTicket
  <2> QED BY <2>2, <2>3, <2>4, <2>7, <2>8, MailTypesGoOn DEF MailTypeInv
<1>10. ASSUME NEW k \in Couriers, RecordMail(k) PROVE MailTypeInv'
  <2>1. courier[k].m \in Mails /\ courier[k].t \in {0} \cup Opened /\ courier[k].op # "idle"
    BY <1>10 DEF RecordMail, Doing, MailTypeInv, MailTaskFits
  <2>2. PICK task : courier' = [courier EXCEPT ![k] = task] /\ MailTaskFits(task, arrived, Opened)
    BY <1>6, <1>10, <2>1 DEF RecordMail
  <2>3. Opened' = Opened
    BY <1>10, <1>a DEF RecordMail
  <2>4. known' \in [Mails \cup Outgoing -> {0} \cup Opened]
    BY <1>10, <2>1 DEF RecordMail, MailTypeInv, MailRows
  <2>5. MailRows(Opened)'
    BY <1>10, <2>3, <2>4 DEF RecordMail, MailTypeInv, MailRows
  <2> QED BY <1>10, <2>2, <2>3, <2>5, MailTypesGoOn DEF RecordMail, MailTypeInv
<1>11. ASSUME NEW k \in Couriers, FlagSeen(k) PROVE MailTypeInv'
  <2>1. courier[k].m \in arrived
    BY <1>11 DEF FlagSeen, Doing, MailTypeInv, MailTaskFits
  <2>2. Opened' = Opened /\ MailRows(Opened)'
    BY <1>11, <1>a, <1>r DEF FlagSeen
  <2> QED BY <1>11, <1>n, <2>1, <2>2, MailTypesGoOn DEF FlagSeen, MailTypeInv
<1>12. ASSUME NEW k \in Couriers, FailMail(k) PROVE MailTypeInv'
  <2>2. Opened' = Opened /\ MailRows(Opened)'
    BY <1>12, <1>a, <1>r DEF FailMail
  <2> QED BY <1>12, <1>n, <2>2, MailTypesGoOn DEF FailMail, MailTypeInv
<1>13. CASE MailCrash
  <2>2. Opened' = Opened /\ MailRows(Opened)'
    BY <1>13, <1>a, <1>r DEF MailCrash
  <2> QED BY <1>13, <1>n, <2>2 DEF MailCrash, MailTypeInv, MailTaskFits
<1>14. CASE UNCHANGED mailVars
  <2>2. Opened' = Opened /\ MailRows(Opened)'
    BY <1>14, <1>a, <1>r DEF mailVars
  <2> QED BY <1>14, <2>2 DEF mailVars, MailTypeInv, MailTaskFits
<1> QED BY <1>1, <1>2, <1>3, <1>4, <1>5, <1>7, <1>8, <1>9, <1>10, <1>11, <1>12, <1>13, <1>14
        DEF MailNext, MailWork

(* However many couriers overlap: what a row, a filing or an outgoing mail
   points to is a ticket that was opened, and only a mail that arrived is
   handled or counted as seen. *)
THEOREM MailTypeCorrect == MailSpec => []MailTypeOK
<1>1. MailTypeInv => MailTypeOK
  BY DEF MailTypeInv, MailRows, MailTypeOK
<1> QED BY <1>1, MailTypesStart, MailTypesStay, PTL DEF MailSpec

HIDE MailAssumption DEF MailAssumption

-----------------------------------------------------------------------------
(***************************************************************************)
(* Scheduled exports: as long as a poll is over before the next one is     *)
(* due, a schedule is mailed once a day, however often it is edited, sent  *)
(* by hand or interrupted by a failed mark or a restart.                   *)
(***************************************************************************)

PlanRow == [state : {"absent", "active", "paused", "deleted"}, cadence : {"daily", "weekly"},
            ran : 0..Never0]

ExportJob == [op : {"idle", "next", "send", "mark"}, s : SUBSET Schedules, queue : SUBSET Schedules]

(* Rows and jobs; a job sends or marks one schedule, no longer listed. *)
SchedulesShape ==
  /\ plan \in [Schedules -> PlanRow]
  /\ job \in [Jobs -> ExportJob]
  /\ \A j \in Jobs : /\ job[j].op \in {"send", "mark"} => \E s \in Schedules : job[j].s = {s}
                     /\ job[j].op \in {"idle", "next"} => job[j].s = {}
                     /\ job[j].s \cap job[j].queue = {}
                     /\ job[j].op = "idle" => job[j] = NoJob
  /\ \A j \in Hands : job[j].queue = {} /\ job[j].op # "next"
  /\ poll \in 0..DayPolls - 1
  /\ exported \in [Schedules -> 0..MaxOdd + 1] /\ odd \in [Schedules -> 0..MaxOdd + 1]

(* The runs by hand that have still to mail s: `odd` counts them already. *)
Senders(s) == {j \in Hands : job[j].op = "send" /\ s \in job[j].s}

Sent(s) == exported[s] + Cardinality(Senders(s))

(* The runner has listed s and not mailed it. *)
Listed(s) == s \in job["runner"].queue \/ (job["runner"].op = "send" /\ s \in job["runner"].s)

(* One mail more than `odd` only when the runner is about to mark it, or has
   marked it today; and none when the runner is still to mail it. *)
MailedOnce(s) ==
  /\ Sent(s) <= odd[s] + 1
  /\ \/ Sent(s) <= odd[s]
     \/ job["runner"].op = "mark" /\ s \in job["runner"].s
     \/ ~HasPlan(s)
     \/ plan[s].ran <= poll
  /\ Listed(s) => Sent(s) <= odd[s]
  /\ plan[s].state = "absent" => Sent(s) = 0 /\ ~Listed(s)

ScheduleInv == SchedulesShape /\ \A s \in Schedules : MailedOnce(s)

LEMMA Never0IsNat == Never0 \in Nat /\ DayPolls <= Never0
<1>1. DayPolls \in Nat \ {0} /\ WeekLength \in Nat \ {0}
  BY SchedulesAssumption DEF SchedulesAssumption
<1>2. WeekLength = 1 + (WeekLength - 1) /\ WeekLength - 1 \in Nat
  BY <1>1
<1>3. WeekLength * DayPolls = DayPolls + (WeekLength - 1) * DayPolls
  BY <1>1, <1>2
<1>4. (WeekLength - 1) * DayPolls \in Nat
  BY <1>1, <1>2
<1> QED BY <1>1, <1>3, <1>4 DEF Never0

LEMMA NextPoll ==
  ASSUME NEW p \in 0..DayPolls - 1
  PROVE  /\ (p + 1) % DayPolls \in 0..DayPolls - 1
         /\ (p + 1) % DayPolls # 0 => (p + 1) % DayPolls = p + 1
<1>1. DayPolls \in Nat \ {0}
  BY SchedulesAssumption DEF SchedulesAssumption
<1> QED BY <1>1

LEMMA NoJobIsJob == NoJob \in ExportJob /\ NoJob.op = "idle" /\ NoJob.s = {} /\ NoJob.queue = {}
BY DEF NoJob, ExportJob

LEMMA SchedulesStart == SchedulesInit => SchedulesShape
<1> SUFFICES ASSUME SchedulesInit PROVE SchedulesShape
  OBVIOUS
<1>1. NoPlan \in PlanRow
  BY Never0IsNat DEF NoPlan, PlanRow
<1>2. DayPolls \in Nat \ {0} /\ MaxOdd \in Nat
  BY SchedulesAssumption DEF SchedulesAssumption
<1> QED BY <1>1, <1>2, NoJobIsJob DEF SchedulesInit, SchedulesShape, Jobs

LEMMA CountedCounts ==
  ASSUME NEW n \in 0..MaxOdd + 1
  PROVE  Counted(n) \in 0..MaxOdd + 1 /\ Counted(n) <= n + 1 /\ (n <= MaxOdd => Counted(n) = n + 1)
BY SchedulesAssumption DEF Counted, SchedulesAssumption

(* What a job becomes keeps the jobs in shape. *)
JobIsSound(j, f) ==
  /\ f \in ExportJob
  /\ f.op \in {"send", "mark"} => \E s \in Schedules : f.s = {s}
  /\ f.op \in {"idle", "next"} => f.s = {}
  /\ f.s \cap f.queue = {}
  /\ f.op = "idle" => f = NoJob
  /\ j \in Hands => f.queue = {} /\ f.op # "next"

LEMMA JobsAreSound ==
  ASSUME SchedulesShape, NEW j \in Jobs
  PROVE  JobIsSound(j, job[j])
BY DEF SchedulesShape, JobIsSound

LEMMA NoJobIsSound == \A j \in Jobs : JobIsSound(j, NoJob)
BY NoJobIsJob DEF JobIsSound

LEMMA RestIsSound ==
  ASSUME SchedulesShape, NEW j \in Jobs
  PROVE  JobIsSound(j, Rest(j)) /\ Rest(j).s = {} /\ Rest(j).op # "send" /\ Rest(j).queue = job[j].queue
<1>1. CASE j = "runner"
  <2>1. PICK f : f = [job[j] EXCEPT !.op = "next", !.s = {}]
    OBVIOUS
  <2>2. f \in ExportJob /\ f.op = "next" /\ f.s = {} /\ f.queue = job[j].queue
    BY <2>1 DEF SchedulesShape, ExportJob
  <2>3. j \notin Hands
    BY <1>1, SchedulesAssumption DEF SchedulesAssumption
  <2> QED BY <1>1, <2>1, <2>2, <2>3 DEF Rest, JobIsSound
<1>2. CASE j # "runner"
  <2>1. Rest(j) = NoJob /\ j \in Hands
    BY <1>2 DEF Rest, Jobs
  <2>2. job[j].queue = {}
    BY <2>1 DEF SchedulesShape
  <2> QED BY <2>1, <2>2, NoJobIsSound, NoJobIsJob
<1> QED BY <1>1, <1>2

LEMMA SchedulesShapeKept == SchedulesShape /\ [SchedulesNext]_scheduleVars => SchedulesShape'
<1> SUFFICES ASSUME SchedulesShape, [SchedulesNext]_scheduleVars PROVE SchedulesShape'
  OBVIOUS
<1>0. /\ plan \in [Schedules -> PlanRow] /\ job \in [Jobs -> ExportJob]
      /\ poll \in 0..DayPolls - 1
      /\ exported \in [Schedules -> 0..MaxOdd + 1] /\ odd \in [Schedules -> 0..MaxOdd + 1]
  BY DEF SchedulesShape
<1>h. "runner" \in Jobs /\ \A j \in Hands : j \in Jobs
  BY DEF Jobs
<1>a. ASSUME /\ plan' \in [Schedules -> PlanRow] /\ poll' \in 0..DayPolls - 1
             /\ exported' \in [Schedules -> 0..MaxOdd + 1] /\ odd' \in [Schedules -> 0..MaxOdd + 1],
             job' = job
      PROVE  SchedulesShape'
  BY <1>a DEF SchedulesShape
<1>c. ASSUME plan' \in [Schedules -> PlanRow], poll' \in 0..DayPolls - 1,
             exported' \in [Schedules -> 0..MaxOdd + 1], odd' \in [Schedules -> 0..MaxOdd + 1],
             job' \in [Jobs -> ExportJob], \A i \in Jobs : JobIsSound(i, job'[i])
      PROVE  SchedulesShape'
  BY <1>c, <1>h DEF SchedulesShape, JobIsSound
<1>b. ASSUME plan' \in [Schedules -> PlanRow], poll' = poll,
             exported' \in [Schedules -> 0..MaxOdd + 1], odd' \in [Schedules -> 0..MaxOdd + 1],
             NEW j \in Jobs, NEW f, JobIsSound(j, f), job' = [job EXCEPT ![j] = f]
      PROVE  SchedulesShape'
  <2>1. job' \in [Jobs -> ExportJob] /\ \A i \in Jobs : JobIsSound(i, job'[i])
    BY <1>b, <1>0, JobsAreSound DEF JobIsSound
  <2> QED BY <1>b, <1>c, <1>0, <2>1
<1>1. ASSUME NEW s \in Schedules, NEW cadence \in {"daily", "weekly"}, CreateSchedule(s, cadence) PROVE SchedulesShape'
  <2>1. [NoPlan EXCEPT !.state = "active", !.cadence = cadence] \in PlanRow
    <3>1. NoPlan \in PlanRow
      BY Never0IsNat DEF NoPlan, PlanRow
    <3> QED BY <3>1 DEF PlanRow
  <2> QED BY <1>0, <1>1, <1>a, <2>1 DEF CreateSchedule
<1>2. ASSUME NEW s \in Schedules, NEW cadence \in {"daily", "weekly"}, NEW state \in {"active", "paused"}, UpdateSchedule(s, state, cadence)
      PROVE SchedulesShape'
  <2>1. plan' \in [Schedules -> PlanRow]
    BY <1>0, <1>2 DEF UpdateSchedule, PlanRow
  <2> QED BY <1>0, <1>2, <1>a, <2>1 DEF UpdateSchedule
<1>3. ASSUME NEW s \in Schedules, DeleteSchedule(s) PROVE SchedulesShape'
  <2>1. plan' \in [Schedules -> PlanRow]
    BY <1>0, <1>3 DEF DeleteSchedule, PlanRow
  <2> QED BY <1>0, <1>3, <1>a, <2>1 DEF DeleteSchedule
<1>4. ASSUME NEW s \in Schedules, NEW j \in Hands, RunOne(j, s) PROVE SchedulesShape'
  <2>1. PICK f : f = [NoJob EXCEPT !.op = "send", !.s = {s}]
    OBVIOUS
  <2>2. f \in ExportJob /\ f.op = "send" /\ f.s = {s} /\ f.queue = {}
    BY <2>1 DEF NoJob, ExportJob
  <2>3. JobIsSound(j, f)
    BY <2>2 DEF JobIsSound
  <2>4. odd' \in [Schedules -> 0..MaxOdd + 1]
    BY <1>0, <1>4, CountedCounts DEF RunOne
  <2> QED BY <1>0, <1>4, <1>b, <1>h, <2>1, <2>3, <2>4 DEF RunOne
<1>5. CASE RunDue
  <2>1. CASE job' = job
    BY <1>0, <1>5, <1>a, <2>1 DEF RunDue
  <2>2. CASE job' # job
    <3>1. PICK due \in SUBSET Schedules : due = {s \in Schedules : plan[s].state = "active" /\ ScheduleIsDue(plan[s])}
      OBVIOUS
    <3>2. PICK f : f = [op |-> "next", s |-> {}, queue |-> due]
      OBVIOUS
    <3>3. f \in ExportJob /\ f.op = "next" /\ f.s = {}
      BY <3>2 DEF ExportJob
    <3>4. JobIsSound("runner", f)
      BY <3>3, SchedulesAssumption DEF JobIsSound, SchedulesAssumption
    <3>5. job' = [job EXCEPT !["runner"] = f]
      BY <1>5, <2>2, <3>1, <3>2 DEF RunDue
    <3> QED BY <1>0, <1>5, <1>b, <1>h, <3>4, <3>5 DEF RunDue
  <2> QED BY <2>1, <2>2
<1>6. ASSUME NEW s \in Schedules, NextExport(s) PROVE SchedulesShape'
  <2>1. PICK f : f = [op |-> "send", s |-> {s}, queue |-> job["runner"].queue \ {s}]
    OBVIOUS
  <2>2. f \in ExportJob /\ f.op = "send" /\ f.s = {s} /\ f.s \cap f.queue = {}
    BY <1>0, <1>h, <2>1 DEF ExportJob
  <2>3. JobIsSound("runner", f)
    BY <2>2, SchedulesAssumption DEF JobIsSound, SchedulesAssumption
  <2>4. job' = [job EXCEPT !["runner"] = f]
    BY <1>6, <2>1 DEF NextExport
  <2> QED BY <1>0, <1>6, <1>b, <1>h, <2>3, <2>4 DEF NextExport
<1>7. CASE EndRun
  BY <1>0, <1>7, <1>b, <1>h, NoJobIsSound DEF EndRun
<1>8. ASSUME NEW j \in Jobs, NEW s \in Schedules, SendExport(j, s) PROVE SchedulesShape'
  <2>1. PICK f : f = [job[j] EXCEPT !.op = "mark"]
    OBVIOUS
  <2>2. f \in ExportJob /\ f.op = "mark" /\ f.s = job[j].s /\ f.queue = job[j].queue
    BY <1>0, <2>1 DEF ExportJob
  <2>3. JobIsSound(j, f)
    BY <1>8, <2>2, JobsAreSound DEF JobIsSound, SendExport
  <2>4. exported' \in [Schedules -> 0..MaxOdd + 1]
    BY <1>0, <1>8, CountedCounts DEF SendExport
  <2>5. job' = [job EXCEPT ![j] = f]
    BY <1>8, <2>1 DEF SendExport
  <2> QED BY <1>0, <1>8, <1>b, <2>3, <2>4, <2>5 DEF SendExport
<1>9. ASSUME NEW j \in Jobs, NEW s \in Schedules, SendFails(j, s) PROVE SchedulesShape'
  BY <1>0, <1>9, <1>b, RestIsSound DEF SendFails
<1>10. ASSUME NEW j \in Jobs, NEW s \in Schedules, MarkRan(j, s) PROVE SchedulesShape'
  <2>1. 0 \in 0..Never0
    BY Never0IsNat
  <2>2. plan' \in [Schedules -> PlanRow]
    BY <1>0, <1>10, <2>1 DEF MarkRan, PlanRow
  <2> QED BY <1>0, <1>10, <1>b, <2>2, RestIsSound DEF MarkRan
<1>14. ASSUME NEW j \in Jobs, NEW s \in Schedules, MarkFails(j, s) PROVE SchedulesShape'
  <2>1. odd' \in [Schedules -> 0..MaxOdd + 1]
    BY <1>0, <1>14, CountedCounts DEF MarkFails
  <2> QED BY <1>0, <1>14, <1>b, <2>1, RestIsSound DEF MarkFails
<1>11. CASE ScheduleRestart
  <2>1. odd' \in [Schedules -> 0..MaxOdd + 1]
    BY <1>0, <1>11, CountedCounts DEF ScheduleRestart
  <2>2. job' \in [Jobs -> ExportJob] /\ \A j \in Jobs : JobIsSound(j, job'[j])
    BY <1>11, NoJobIsSound, NoJobIsJob DEF ScheduleRestart
  <2> QED BY <1>0, <1>11, <1>c, <2>1, <2>2 DEF ScheduleRestart
<1>12. CASE PollPasses
  <2>1. poll' \in 0..DayPolls - 1
    BY <1>0, <1>12, NextPoll DEF PollPasses
  <2>2. plan' \in [Schedules -> PlanRow]
    <3>1. ASSUME NEW s \in Schedules PROVE plan'[s] \in PlanRow
      <4>1. PICK n : n = IF plan[s].ran < Never0 THEN plan[s].ran + 1 ELSE plan[s].ran
        OBVIOUS
      <4>2. plan[s].ran \in 0..Never0
        BY <1>0 DEF PlanRow
      <4>3. n \in 0..Never0
        BY <4>1, <4>2, Never0IsNat
      <4>4. plan'[s] = [plan[s] EXCEPT !.ran = n]
        BY <1>12, <4>1 DEF PollPasses
      <4> QED BY <1>0, <4>3, <4>4 DEF PlanRow
    <3> QED BY <1>12, <3>1 DEF PollPasses
  <2>3. 0 \in 0..MaxOdd + 1
    BY SchedulesAssumption DEF SchedulesAssumption
  <2>4. exported' \in [Schedules -> 0..MaxOdd + 1] /\ odd' \in [Schedules -> 0..MaxOdd + 1]
    BY <1>0, <1>12, <2>3 DEF PollPasses
  <2> QED BY <1>12, <1>a, <2>1, <2>2, <2>4 DEF PollPasses
<1>13. CASE UNCHANGED scheduleVars
  BY <1>0, <1>13, <1>a DEF scheduleVars
<1> QED
  BY <1>1, <1>2, <1>3, <1>4, <1>5, <1>6, <1>7, <1>8, <1>9, <1>10, <1>11, <1>12, <1>13, <1>14, <1>h
     DEF SchedulesNext, RunnerWorks, Execute

(* What of a job decides who has still to mail s. *)
Sends(j, s) == job[j].op = "send" /\ s \in job[j].s

LEMMA SendersCount ==
  ASSUME IsFiniteSet(Hands), NEW s
  PROVE  IsFiniteSet(Senders(s)) /\ Cardinality(Senders(s)) \in Nat
<1>1. IsFiniteSet(Senders(s))
  BY FS_Subset DEF Senders
<1> QED BY <1>1, FS_CardinalityType

LEMMA SameSenders ==
  ASSUME NEW s, \A j \in Hands : Sends(j, s)' <=> Sends(j, s)
  PROVE  Senders(s)' = Senders(s)
BY DEF Senders, Sends

LEMMA OneSenderMore ==
  ASSUME IsFiniteSet(Hands), NEW s, NEW i \in Hands, ~Sends(i, s), Sends(i, s)',
         \A j \in Hands \ {i} : Sends(j, s)' <=> Sends(j, s)
  PROVE  Cardinality(Senders(s))' = Cardinality(Senders(s)) + 1
<1>1. Senders(s)' = Senders(s) \cup {i} /\ i \notin Senders(s)
  BY DEF Senders, Sends
<1> QED BY <1>1, SendersCount, FS_AddElement

LEMMA OneSenderLess ==
  ASSUME IsFiniteSet(Hands), NEW s, NEW i \in Hands, Sends(i, s), ~Sends(i, s)',
         \A j \in Hands \ {i} : Sends(j, s)' <=> Sends(j, s)
  PROVE  Cardinality(Senders(s))' = Cardinality(Senders(s)) - 1
<1>1. Senders(s)' = Senders(s) \ {i} /\ i \in Senders(s)
  BY DEF Senders, Sends
<1> QED BY <1>1, SendersCount, FS_RemoveElement

LEMMA MailedOnceKept ==
  ASSUME IsFiniteSet(Hands), "slow" \notin ScheduleFeatures, SchedulesShape,
         [SchedulesNext]_scheduleVars, NEW s \in Schedules, MailedOnce(s)
  PROVE  MailedOnce(s)'
<1>0. /\ plan \in [Schedules -> PlanRow] /\ job \in [Jobs -> ExportJob]
      /\ poll \in 0..DayPolls - 1
      /\ exported \in [Schedules -> 0..MaxOdd + 1] /\ odd \in [Schedules -> 0..MaxOdd + 1]
  BY DEF SchedulesShape
<1>h. "runner" \in Jobs /\ "runner" \notin Hands /\ \A j \in Hands : j \in Jobs
  BY SchedulesAssumption DEF Jobs, SchedulesAssumption
<1>n. /\ MaxOdd \in Nat /\ exported[s] \in 0..MaxOdd + 1 /\ odd[s] \in 0..MaxOdd + 1
      /\ Cardinality(Senders(s)) \in Nat /\ plan[s].ran \in 0..Never0 /\ plan[s] \in PlanRow
  BY <1>0, SendersCount, SchedulesAssumption DEF SchedulesAssumption, PlanRow
<1>l. \A j \in Jobs : Sends(j, s) => job[j].s = {s}
  BY DEF SchedulesShape, Sends
<1>a. ASSUME UNCHANGED <<exported, odd, plan, poll, job>> PROVE MailedOnce(s)'
  BY <1>a DEF MailedOnce, Sent, Senders, Listed, HasPlan
(* The jobs stay as they are. *)
<1>p. ASSUME UNCHANGED <<exported, odd, poll, job>>,
             /\ plan'[s].ran = plan[s].ran \/ Sent(s) <= odd[s]
             /\ HasPlan(s)' => HasPlan(s) \/ Sent(s) <= odd[s]
             /\ (plan'[s].state = "absent") => plan[s].state = "absent"
      PROVE  MailedOnce(s)'
  <2>1. Senders(s)' = Senders(s) /\ Sent(s)' = Sent(s) /\ (Listed(s)' <=> Listed(s))
    BY <1>p DEF Senders, Sent, Listed
  <2> QED BY <1>p, <2>1 DEF MailedOnce
<1>1. ASSUME NEW t \in Schedules, NEW cadence \in {"daily", "weekly"}, CreateSchedule(t, cadence) PROVE MailedOnce(s)'
  <2>1. CASE s = t
    <3>1. Sent(s) = 0 /\ 0 <= odd[s]
      BY <1>1, <1>n, <2>1 DEF CreateSchedule, MailedOnce
    <3>2. plan'[s].state = "active"
      BY <1>0, <1>1, <2>1 DEF CreateSchedule, NoPlan
    <3> QED BY <1>1, <1>p, <3>1, <3>2 DEF CreateSchedule
  <2>2. CASE s # t
    <3>1. plan'[s] = plan[s]
      BY <1>0, <1>1, <2>2 DEF CreateSchedule
    <3> QED BY <1>1, <1>p, <3>1 DEF CreateSchedule, HasPlan
  <2> QED BY <2>1, <2>2
<1>2. ASSUME NEW t \in Schedules, NEW cadence \in {"daily", "weekly"}, NEW state \in {"active", "paused"}, UpdateSchedule(t, state, cadence)
      PROVE MailedOnce(s)'
  <2>1. /\ plan'[s].ran = plan[s].ran
        /\ plan'[s].state = plan[s].state \/ (HasPlan(s) /\ plan'[s].state = state)
    BY <1>0, <1>2 DEF UpdateSchedule, PlanRow
  <2> QED BY <1>2, <1>p, <2>1 DEF UpdateSchedule, HasPlan
<1>3. ASSUME NEW t \in Schedules, DeleteSchedule(t) PROVE MailedOnce(s)'
  <2>1. /\ plan'[s].ran = plan[s].ran
        /\ plan'[s].state = plan[s].state \/ plan'[s].state = "deleted"
    BY <1>0, <1>3 DEF DeleteSchedule, PlanRow
  <2> QED BY <1>3, <1>p, <2>1 DEF DeleteSchedule, HasPlan
<1>4. ASSUME NEW t \in Schedules, NEW j \in Hands, RunOne(j, t) PROVE MailedOnce(s)'
  <2>1. PICK f : f = [NoJob EXCEPT !.op = "send", !.s = {t}]
    OBVIOUS
  <2>2. f.op = "send" /\ f.s = {t}
    BY <2>1 DEF NoJob
  <2>3. job' = [job EXCEPT ![j] = f] /\ job[j].op = "idle"
    BY <1>4, <2>1, NoJobIsJob DEF RunOne
  <2>4. \A i \in Hands \ {j} : Sends(i, s)' <=> Sends(i, s)
    BY <1>0, <1>h, <2>3 DEF Sends
  <2>5. ~Sends(j, s) /\ (Sends(j, s)' <=> s = t)
    BY <1>0, <1>h, <2>2, <2>3 DEF Sends
  <2>6. job'["runner"] = job["runner"] /\ UNCHANGED <<plan, poll>>
    BY <1>0, <1>h, <1>4, <2>3 DEF RunOne
  <2>7. (Listed(s)' <=> Listed(s)) /\ (HasPlan(s)' <=> HasPlan(s))
    BY <2>6 DEF Listed, HasPlan
  <2>8. CASE s = t
    <3>1. Cardinality(Senders(s))' = Cardinality(Senders(s)) + 1
      BY <2>4, <2>5, <2>8, OneSenderMore
    <3>2. odd'[s] = odd[s] + 1 /\ exported' = exported /\ plan[s].state # "absent"
      BY <1>0, <1>n, <1>4, <2>8, CountedCounts DEF RunOne, HasPlan
    <3>3. Sent(s)' = Sent(s) + 1
      BY <1>n, <3>1, <3>2 DEF Sent
    <3>4. Sent(s) \in Nat
      BY <1>n DEF Sent
    <3> QED BY <1>n, <2>6, <2>7, <3>2, <3>3, <3>4 DEF MailedOnce
  <2>9. CASE s # t
    <3>1. Senders(s)' = Senders(s)
      BY <2>4, <2>5, <2>9, SameSenders
    <3>2. odd'[s] = odd[s] /\ exported' = exported
      BY <1>0, <1>4, <2>9 DEF RunOne
    <3>3. Sent(s)' = Sent(s)
      BY <3>1, <3>2 DEF Sent
    <3> QED BY <2>6, <2>7, <3>2, <3>3 DEF MailedOnce
  <2> QED BY <2>8, <2>9
(* The hands stay as they are, and so does what was mailed. *)
<1>r. ASSUME UNCHANGED <<exported, odd, plan, poll>>,
             \A j \in Hands : Sends(j, s)' <=> Sends(j, s),
             Listed(s)' => Listed(s) \/ (Sent(s) <= odd[s] /\ HasPlan(s)),
             Sent(s) <= odd[s] \/ ~HasPlan(s) \/ plan[s].ran <= poll
      PROVE  MailedOnce(s)'
  <2>1. Senders(s)' = Senders(s)
    BY <1>r, SameSenders
  <2>2. Sent(s)' = Sent(s)
    BY <1>r, <2>1 DEF Sent
  <2>3. HasPlan(s)' <=> HasPlan(s)
    BY <1>r DEF HasPlan
  <2>4. plan[s].state = "absent" => ~HasPlan(s)
    BY DEF HasPlan
  <2> QED BY <1>r, <2>2, <2>3, <2>4 DEF MailedOnce
<1>5. CASE RunDue
  <2>1. CASE job' = job
    BY <1>5, <1>a, <2>1 DEF RunDue
  <2>2. CASE job' # job
    <3>1. PICK due \in SUBSET Schedules : due = {t \in Schedules : plan[t].state = "active" /\ ScheduleIsDue(plan[t])}
      OBVIOUS
    <3>2. PICK f : f = [op |-> "next", s |-> {}, queue |-> due]
      OBVIOUS
    <3>3. job' = [job EXCEPT !["runner"] = f] /\ job["runner"] = NoJob
      BY <1>5, <2>2, <3>1, <3>2 DEF RunDue
    <3>4. \A j \in Hands : Sends(j, s)' <=> Sends(j, s)
      BY <1>0, <1>h, <3>3 DEF Sends
    <3>5. Listed(s)' => s \in due
      BY <1>0, <1>h, <3>2, <3>3 DEF Listed
    <3>6. s \in due => plan[s].ran > poll /\ HasPlan(s)
      <4>1. poll < DayPolls /\ WeekLength * DayPolls = Never0
        BY <1>0, SchedulesAssumption DEF SchedulesAssumption, Never0
      <4>2. DayPolls <= Never0 /\ Never0 \in Nat /\ DayPolls \in Nat
        BY Never0IsNat, SchedulesAssumption DEF SchedulesAssumption
      <4>3. ScheduleIsDue(plan[s]) => plan[s].ran >= Never0 \/ plan[s].ran > poll
        BY <4>1 DEF ScheduleIsDue
      <4>4. ScheduleIsDue(plan[s]) => plan[s].ran > poll
        BY <1>0, <1>n, <4>1, <4>2, <4>3
      <4> QED BY <3>1, <4>4 DEF HasPlan
    <3>7. ~(job["runner"].op = "mark")
      BY <3>3, NoJobIsJob
    <3>8. Sent(s) <= odd[s] \/ ~HasPlan(s) \/ plan[s].ran <= poll
      BY <3>7 DEF MailedOnce
    <3>9. s \in due => Sent(s) <= odd[s]
      <4>1. plan[s].ran > poll => ~(plan[s].ran <= poll)
        BY <1>0, <1>n
      <4> QED BY <3>6, <3>8, <4>1
    <3> QED BY <1>5, <1>r, <3>4, <3>5, <3>6, <3>8, <3>9 DEF RunDue
  <2> QED BY <2>1, <2>2
<1>6. ASSUME NEW t \in Schedules, NextExport(t) PROVE MailedOnce(s)'
  <2>1. PICK f : f = [op |-> "send", s |-> {t}, queue |-> job["runner"].queue \ {t}]
    OBVIOUS
  <2>2. job' = [job EXCEPT !["runner"] = f] /\ f.op = "send" /\ f.s = {t} /\ f.queue \subseteq job["runner"].queue
    BY <1>6, <2>1 DEF NextExport
  <2>3. \A j \in Hands : Sends(j, s)' <=> Sends(j, s)
    BY <1>0, <1>h, <2>2 DEF Sends
  <2>4. Listed(s)' => Listed(s)
    BY <1>0, <1>h, <1>6, <2>2 DEF Listed, NextExport
  <2>5. Sent(s) <= odd[s] \/ ~HasPlan(s) \/ plan[s].ran <= poll
    BY <1>6 DEF MailedOnce, NextExport
  <2> QED BY <1>6, <1>r, <2>3, <2>4, <2>5 DEF NextExport
<1>7. CASE EndRun
  <2>1. job' = [job EXCEPT !["runner"] = NoJob] /\ job["runner"].op = "next"
    BY <1>7 DEF EndRun
  <2>2. (\A j \in Hands : Sends(j, s)' <=> Sends(j, s)) /\ ~Listed(s)'
    BY <1>0, <1>h, <2>1, NoJobIsJob DEF Sends, Listed
  <2>3. Sent(s) <= odd[s] \/ ~HasPlan(s) \/ plan[s].ran <= poll
    BY <2>1 DEF MailedOnce
  <2> QED BY <1>7, <1>r, <2>2, <2>3 DEF EndRun
<1>8. ASSUME NEW j \in Jobs, NEW t \in Schedules, SendExport(j, t) PROVE MailedOnce(s)'
  <2>1. PICK f : f = [job[j] EXCEPT !.op = "mark"]
    OBVIOUS
  <2>2. f.op = "mark" /\ f.s = job[j].s /\ f.queue = job[j].queue
    BY <1>0, <2>1 DEF ExportJob
  <2>3. job' = [job EXCEPT ![j] = f] /\ UNCHANGED <<plan, poll, odd>> /\ Sends(j, t)
    BY <1>8, <2>1 DEF SendExport, Sends
  <2>4. job[j].s = {t}
    BY <2>3 DEF SchedulesShape, Sends
  <2>5. \A i \in Jobs \ {j} : job'[i] = job[i] /\ (Sends(i, s)' <=> Sends(i, s))
    BY <1>0, <2>3 DEF Sends
  <2>6. ~Sends(j, s)' /\ job'[j] = f
    BY <1>0, <2>2, <2>3 DEF Sends
  <2>7. HasPlan(s)' <=> HasPlan(s)
    BY <2>3 DEF HasPlan
  <2>8. exported'[s] <= exported[s] + (IF s = t THEN 1 ELSE 0) /\ exported'[s] \in Nat
    BY <1>0, <1>n, <1>8, CountedCounts DEF SendExport
  <2>9. CASE j \in Hands
    <3>1. job'["runner"] = job["runner"]
      BY <1>h, <2>5, <2>9
    <3>2. Listed(s)' <=> Listed(s)
      BY <3>1 DEF Listed
    <3>3. Sent(s)' <= Sent(s) /\ Sent(s) \in Nat /\ Sent(s)' \in Nat
      <4>1. CASE s = t
        <5>1. Cardinality(Senders(s))' = Cardinality(Senders(s)) - 1
          BY <1>h, <2>3, <2>5, <2>6, <2>9, <4>1, OneSenderLess
        <5>2. j \in Senders(s)
          BY <2>3, <2>9, <4>1 DEF Senders, Sends
        <5>3. Cardinality(Senders(s)) # 0
          BY <5>2, SendersCount, FS_EmptySet
        <5> QED BY <1>n, <2>8, <4>1, <5>1, <5>3 DEF Sent
      <4>2. CASE s # t
        <5>1. ~Sends(j, s)
          BY <2>4, <4>2 DEF Sends
        <5>2. Senders(s)' = Senders(s)
          BY <1>h, <2>5, <2>6, <5>1, SameSenders
        <5> QED BY <1>n, <2>8, <4>2, <5>2 DEF Sent
      <4> QED BY <4>1, <4>2
    <3> QED BY <1>n, <2>3, <2>7, <3>1, <3>2, <3>3 DEF MailedOnce
  <2>10. CASE j = "runner"
    <3>1. Senders(s)' = Senders(s)
      BY <1>h, <2>5, <2>10, SameSenders
    <3>2. CASE s = t
      <4>1. Listed(s)
        BY <2>3, <2>10, <3>2 DEF Listed, Sends
      <4>2. Sent(s) <= odd[s] /\ Sent(s)' <= Sent(s) + 1 /\ Sent(s) \in Nat /\ Sent(s)' \in Nat
        BY <1>n, <2>8, <3>1, <3>2, <4>1 DEF MailedOnce, Sent
      <4>3. plan[s].state # "absent"
        BY <4>1 DEF MailedOnce
      <4>4. ~Listed(s)'
        BY <2>2, <2>4, <2>6, <2>10, <3>2 DEF Listed, SchedulesShape
      <4> QED BY <1>n, <2>2, <2>3, <2>4, <2>6, <2>10, <3>2, <4>2, <4>3, <4>4 DEF MailedOnce
    <3>3. CASE s # t
      <4>1. Sent(s)' <= Sent(s) /\ Sent(s) \in Nat /\ Sent(s)' \in Nat
        BY <1>n, <2>8, <3>1, <3>3 DEF Sent
      <4>2. (Listed(s)' <=> Listed(s)) /\ s \notin job["runner"].s
        BY <2>2, <2>4, <2>6, <2>10, <3>3 DEF Listed
      <4> QED BY <1>n, <2>3, <2>7, <4>1, <4>2 DEF MailedOnce
    <3> QED BY <3>2, <3>3
  <2> QED BY <2>9, <2>10 DEF Jobs
<1>9. ASSUME NEW j \in Jobs, NEW t \in Schedules, SendFails(j, t) PROVE MailedOnce(s)'
  <2>1. PICK f : f = Rest(j) /\ f.s = {} /\ f.op # "send" /\ f.queue = job[j].queue
    BY RestIsSound
  <2>2. job' = [job EXCEPT ![j] = f] /\ UNCHANGED <<plan, poll, odd, exported>> /\ Sends(j, t)
    BY <1>9, <2>1 DEF SendFails, Sends
  <2>3. job[j].s = {t}
    BY <2>2 DEF SchedulesShape, Sends
  <2>4. \A i \in Jobs \ {j} : job'[i] = job[i] /\ (Sends(i, s)' <=> Sends(i, s))
    BY <1>0, <2>2 DEF Sends
  <2>5. ~Sends(j, s)' /\ job'[j] = f
    BY <1>0, <2>1, <2>2 DEF Sends
  <2>6. HasPlan(s)' <=> HasPlan(s)
    BY <2>2 DEF HasPlan
  <2>7. CASE j \in Hands
    <3>1. job'["runner"] = job["runner"]
      BY <1>h, <2>4, <2>7
    <3>2. Listed(s)' <=> Listed(s)
      BY <3>1 DEF Listed
    <3>3. Sent(s)' <= Sent(s) /\ Sent(s) \in Nat /\ Sent(s)' \in Nat
      <4>1. CASE s = t
        <5>1. Cardinality(Senders(s))' = Cardinality(Senders(s)) - 1
          BY <1>h, <2>2, <2>4, <2>5, <2>7, <4>1, OneSenderLess
        <5>2. j \in Senders(s)
          BY <2>2, <2>7, <4>1 DEF Senders, Sends
        <5>3. Cardinality(Senders(s)) # 0
          BY <5>2, SendersCount, FS_EmptySet
        <5> QED BY <1>n, <2>2, <5>1, <5>3 DEF Sent
      <4>2. CASE s # t
        <5>1. ~Sends(j, s)
          BY <2>3, <4>2 DEF Sends
        <5>2. Senders(s)' = Senders(s)
          BY <1>h, <2>4, <2>5, <5>1, SameSenders
        <5> QED BY <1>n, <2>2, <5>2 DEF Sent
      <4> QED BY <4>1, <4>2
    <3> QED BY <1>n, <2>2, <2>6, <3>1, <3>2, <3>3 DEF MailedOnce
  <2>8. CASE j = "runner"
    <3>1. \A i \in Hands : Sends(i, s)' <=> Sends(i, s)
      BY <1>h, <2>4, <2>8
    <3>2. Listed(s)' => Listed(s)
      BY <2>1, <2>5, <2>8 DEF Listed
    <3>3. Sent(s) <= odd[s] \/ ~HasPlan(s) \/ plan[s].ran <= poll
      BY <2>2, <2>8 DEF MailedOnce, Sends
    <3> QED BY <1>r, <2>2, <3>1, <3>2, <3>3
  <2> QED BY <2>7, <2>8 DEF Jobs
<1>10. ASSUME NEW j \in Jobs, NEW t \in Schedules, MarkRan(j, t) PROVE MailedOnce(s)'
  <2>1. PICK f : f = Rest(j) /\ f.s = {} /\ f.op # "send" /\ f.queue = job[j].queue
    BY RestIsSound
  <2>2. /\ job' = [job EXCEPT ![j] = f] /\ UNCHANGED <<poll, odd, exported>>
        /\ job[j].op = "mark" /\ t \in job[j].s
    BY <1>10, <2>1 DEF MarkRan
  <2>3. job[j].s = {t}
    BY <2>2 DEF SchedulesShape
  <2>4. job'[j] = f /\ \A i \in Jobs \ {j} : job'[i] = job[i]
    BY <1>0, <2>2
  <2>5. \A i \in Hands : Sends(i, s)' <=> Sends(i, s)
    BY <1>h, <2>1, <2>2, <2>4 DEF Sends
  <2>6. Senders(s)' = Senders(s) /\ Sent(s)' = Sent(s)
    BY <2>2, <2>5, SameSenders DEF Sent
  <2>7. /\ plan'[s].state = plan[s].state
        /\ plan'[s].ran = plan[s].ran \/ plan'[s].ran = 0
        /\ s = t => ~HasPlan(s) \/ plan'[s].ran = 0
    BY <1>0, <1>10 DEF MarkRan, HasPlan, PlanRow
  <2>8. (HasPlan(s)' <=> HasPlan(s)) /\ (plan[s].ran <= poll => plan'[s].ran <= poll)
    BY <1>0, <2>7 DEF HasPlan
  <2>9. Listed(s)' => Listed(s)
    BY <1>h, <2>1, <2>2, <2>4 DEF Listed
  <2>10. job["runner"].op = "mark" /\ s \in job["runner"].s =>
           \/ job'["runner"].op = "mark" /\ s \in job'["runner"].s
           \/ ~HasPlan(s) \/ plan'[s].ran <= poll
    <3>1. CASE j = "runner" /\ s = t
      BY <1>0, <2>7, <3>1
    <3>2. CASE j = "runner" /\ s # t
      BY <2>3, <3>2
    <3>3. CASE j # "runner"
      BY <1>h, <2>4, <3>3
    <3> QED BY <3>1, <3>2, <3>3
  <2> QED BY <2>2, <2>6, <2>7, <2>8, <2>9, <2>10 DEF MailedOnce
<1>14. ASSUME NEW j \in Jobs, NEW t \in Schedules, MarkFails(j, t) PROVE MailedOnce(s)'
  <2>1. PICK f : f = Rest(j) /\ f.s = {} /\ f.op # "send" /\ f.queue = job[j].queue
    BY RestIsSound
  <2>2. /\ job' = [job EXCEPT ![j] = f] /\ UNCHANGED <<plan, poll, exported>>
        /\ job[j].op = "mark" /\ t \in job[j].s
    BY <1>14, <2>1 DEF MarkFails
  <2>3. job[j].s = {t}
    BY <2>2 DEF SchedulesShape
  <2>4. job'[j] = f /\ \A i \in Jobs \ {j} : job'[i] = job[i]
    BY <1>0, <2>2
  <2>5. \A i \in Hands : Sends(i, s)' <=> Sends(i, s)
    BY <1>h, <2>1, <2>2, <2>4 DEF Sends
  <2>6. Senders(s)' = Senders(s) /\ Sent(s)' = Sent(s) /\ Sent(s) \in Nat
    BY <1>n, <2>2, <2>5, SameSenders DEF Sent
  <2>7. (HasPlan(s)' <=> HasPlan(s)) /\ (Listed(s)' => Listed(s))
    BY <1>h, <2>1, <2>2, <2>4 DEF HasPlan, Listed
  <2>8. CASE j = "runner" /\ s = t
    <3>1. odd'[s] = odd[s] + 1
      BY <1>0, <1>n, <1>14, <2>8, CountedCounts DEF MarkFails
    <3> QED BY <1>n, <2>2, <2>6, <2>7, <3>1 DEF MailedOnce
  <2>9. CASE ~(j = "runner" /\ s = t)
    <3>1. odd'[s] = odd[s]
      BY <1>0, <1>14, <2>9 DEF MarkFails
    <3>2. job["runner"].op = "mark" /\ s \in job["runner"].s =>
            job'["runner"].op = "mark" /\ s \in job'["runner"].s
      BY <1>h, <2>3, <2>4, <2>9
    <3> QED BY <2>2, <2>6, <2>7, <3>1, <3>2 DEF MailedOnce
  <2> QED BY <2>8, <2>9
(* No job is at work afterwards. *)
<1>i. ASSUME \A j \in Jobs : job'[j] = NoJob, exported'[s] \in Nat
      PROVE  Sent(s)' = exported'[s] /\ ~Listed(s)'
  <2>1. Senders(s)' = {}
    BY <1>i, <1>h, NoJobIsJob DEF Senders
  <2>2. Cardinality(Senders(s))' = 0
    BY <2>1, FS_EmptySet
  <2>3. ~Listed(s)'
    BY <1>i, <1>h, NoJobIsJob DEF Listed
  <2> QED BY <1>i, <2>2, <2>3 DEF Sent
<1>11. CASE ScheduleRestart
  <2>1. /\ UNCHANGED <<plan, poll, exported>> /\ (\A j \in Jobs : job'[j] = NoJob)
        /\ odd[s] < MaxOdd
        /\ odd'[s] = IF job["runner"].op = "mark" /\ s \in job["runner"].s THEN Counted(odd[s]) ELSE odd[s]
    BY <1>11 DEF ScheduleRestart
  <2>2. Sent(s)' = exported[s] /\ ~Listed(s)' /\ exported[s] \in Nat
    BY <1>i, <1>n, <2>1
  <2>3. exported[s] <= Sent(s) /\ Sent(s) \in Nat
    BY <1>n DEF Sent
  <2>4. HasPlan(s)' <=> HasPlan(s)
    BY <2>1 DEF HasPlan
  <2>5. CASE job["runner"].op = "mark" /\ s \in job["runner"].s
    <3>1. odd'[s] = odd[s] + 1
      BY <1>n, <2>1, <2>5, CountedCounts
    <3> QED BY <1>n, <2>1, <2>2, <2>3, <3>1 DEF MailedOnce
  <2>6. CASE ~(job["runner"].op = "mark" /\ s \in job["runner"].s)
    <3>1. odd'[s] = odd[s]
      BY <2>1, <2>6
    <3> QED BY <1>n, <2>1, <2>2, <2>3, <2>4, <2>6, <3>1 DEF MailedOnce
  <2> QED BY <2>5, <2>6
<1>12. CASE PollPasses
  <2>1. job' = job /\ \A j \in Jobs : job[j] = NoJob
    BY <1>12 DEF PollPasses
  <2>2. Sent(s)' = exported'[s] /\ ~Listed(s)'
    <3>1. exported'[s] \in Nat
      BY <1>n, <1>12 DEF PollPasses
    <3> QED BY <1>i, <2>1, <3>1
  <2>3. CASE poll' = 0
    <3>1. exported'[s] = 0 /\ odd'[s] = 0
      BY <1>12, <2>3 DEF PollPasses
    <3> QED BY <2>2, <3>1 DEF MailedOnce
  <2>4. CASE poll' # 0
    <3>1. UNCHANGED <<exported, odd>> /\ poll' = poll + 1
      BY <1>0, <1>12, <2>4, NextPoll DEF PollPasses
    <3>2. Sent(s)' = Sent(s)
      <4>1. Senders(s)' = Senders(s)
        BY <2>1 DEF Senders
      <4> QED BY <3>1, <4>1 DEF Sent
    <3>3. plan'[s].state = plan[s].state /\ plan'[s].ran <= plan[s].ran + 1 /\ plan'[s].ran \in Nat
      <4>1. PICK n : n = IF plan[s].ran < Never0 THEN plan[s].ran + 1 ELSE plan[s].ran
        OBVIOUS
      <4>2. n \in Nat /\ n <= plan[s].ran + 1
        BY <1>n, <4>1, Never0IsNat
      <4>3. plan'[s] = [plan[s] EXCEPT !.ran = n]
        BY <1>12, <4>1 DEF PollPasses
      <4> QED BY <1>n, <4>2, <4>3 DEF PlanRow
    <3>4. HasPlan(s)' <=> HasPlan(s)
      BY <3>3 DEF HasPlan
    <3>5. plan[s].ran <= poll => plan'[s].ran <= poll'
      BY <1>0, <1>n, <3>1, <3>3
    <3>6. ~(job["runner"].op = "mark")
      BY <1>h, <2>1, NoJobIsJob
    <3> QED BY <2>2, <3>1, <3>2, <3>3, <3>4, <3>5, <3>6 DEF MailedOnce
  <2> QED BY <2>3, <2>4
<1>13. CASE UNCHANGED scheduleVars
  BY <1>13, <1>a DEF scheduleVars
<1> QED
  BY <1>1, <1>2, <1>3, <1>4, <1>5, <1>6, <1>7, <1>8, <1>9, <1>10, <1>11, <1>12, <1>13, <1>14, <1>h
     DEF SchedulesNext, RunnerWorks, Execute

(* A schedule is mailed once a day by the runner: every further mail of the
   day was asked for by hand, or follows a mail whose mark failed or was lost
   in a restart.  As long as a poll is over before the next one is due. *)
THEOREM ExportsAreMailedOnce ==
  ASSUME IsFiniteSet(Hands), "slow" \notin ScheduleFeatures
  PROVE  SchedulesSpec => []OncePerDay
<1>1. SchedulesInit => ScheduleInv
  <2> SUFFICES ASSUME SchedulesInit, NEW s \in Schedules PROVE MailedOnce(s)
    BY SchedulesStart DEF ScheduleInv
  <2>1. Senders(s) = {} /\ ~Listed(s) /\ exported[s] = 0 /\ odd[s] = 0 /\ plan[s] = NoPlan
    BY NoJobIsJob DEF SchedulesInit, Senders, Listed, Jobs
  <2>2. Sent(s) = 0
    BY <2>1, FS_EmptySet DEF Sent
  <2> QED BY <2>1, <2>2 DEF MailedOnce
<1>2. ScheduleInv /\ [SchedulesNext]_scheduleVars => ScheduleInv'
  BY SchedulesShapeKept, MailedOnceKept DEF ScheduleInv
<1>3. ScheduleInv => OncePerDay
  <2> SUFFICES ASSUME ScheduleInv, NEW s \in Schedules PROVE exported[s] <= odd[s] + 1
    BY DEF OncePerDay
  <2>1. exported[s] \in Nat /\ odd[s] \in Nat /\ Cardinality(Senders(s)) \in Nat
    BY SendersCount, SchedulesAssumption DEF ScheduleInv, SchedulesShape, SchedulesAssumption
  <2>2. Sent(s) <= odd[s] + 1
    BY DEF ScheduleInv, MailedOnce
  <2> QED BY <2>1, <2>2 DEF Sent
<1> QED BY <1>1, <1>2, <1>3, PTL DEF SchedulesSpec

(* Rows and jobs have their shape, also when polls overlap and jobs are slow. *)
THEOREM SchedulesTypeCorrect == SchedulesSpec => []SchedulesTypeOK
<1> DEFINE TypeInv == SchedulesShape /\ polled \in BOOLEAN
<1>1. SchedulesInit => TypeInv
  BY SchedulesStart DEF SchedulesInit
<1>2. TypeInv /\ [SchedulesNext]_scheduleVars => TypeInv'
  <2> SUFFICES ASSUME TypeInv, [SchedulesNext]_scheduleVars PROVE polled' \in BOOLEAN
    BY SchedulesShapeKept
  <2> QED BY DEF SchedulesNext, scheduleVars, CreateSchedule, UpdateSchedule, DeleteSchedule,
               RunOne, RunDue, RunnerWorks, EndRun, NextExport, Execute, SendExport, SendFails, MarkFails,
               MarkRan, ScheduleRestart, PollPasses
<1>3. TypeInv => SchedulesTypeOK
  <2> SUFFICES ASSUME TypeInv, NEW j \in Jobs
               PROVE  job[j].op \in {"send", "mark"} <=> Cardinality(job[j].s) = 1
    BY DEF SchedulesShape, SchedulesTypeOK, PlanRow, ExportJob
  <2>1. CASE job[j].op \in {"send", "mark"}
    <3>1. PICK s \in Schedules : job[j].s = {s}
      BY <2>1 DEF SchedulesShape
    <3>2. Cardinality({s}) = 1
      BY FS_Singleton
    <3> QED BY <2>1, <3>1, <3>2
  <2>2. CASE job[j].op \in {"idle", "next"}
    <3>1. job[j].s = {} /\ Cardinality({}) = 0
      BY <2>2, FS_EmptySet DEF SchedulesShape
    <3> QED BY <2>2, <3>1
  <2>3. job[j].op \in {"idle", "next", "send", "mark"}
    BY DEF SchedulesShape, ExportJob
  <2> QED BY <2>1, <2>2, <2>3
<1> QED BY <1>1, <1>2, <1>3, PTL DEF SchedulesSpec

-----------------------------------------------------------------------------
(***************************************************************************)
(* Webhooks: the log of an endpoint.                                       *)
(*                                                                         *)
(* The prover has no rule of induction that it can instantiate, but sets   *)
(* of numbers have least elements, and a least counterexample does.        *)
(***************************************************************************)
Below == OpToRel(<, Nat)

LEMMA BelowIs == Below = {p \in Nat \X Nat : p[1] < p[2]}
BY DEF Below, OpToRel

LEMMA BelowIsWellFounded == IsWellFoundedOn(Below, Nat)
BY NatLessThanWellFounded DEF Below

LEMMA LeastElement ==
  ASSUME NEW T, T \subseteq Nat, T # {}
  PROVE  \E n \in T : \A m \in T : n <= m
<1>1. PICK n \in T : \A m \in T : <<m, n>> \notin Below
  BY BelowIsWellFounded, WFMin
<1>2. \A m \in T : ~(m < n)
  BY <1>1, BelowIs
<1>. QED  BY <1>2

(* A finite set of numbers that is not empty has a greatest element. *)
LEMMA GreatestElement ==
  ASSUME NEW S, S \subseteq Nat, IsFiniteSet(S), S # {}
  PROVE  \E n \in S : \A m \in S : n >= m
<1>. DEFINE Bad == {X \in SUBSET Nat : /\ IsFiniteSet(X) /\ X # {}
                                       /\ ~ \E n \in X : \A m \in X : n >= m}
            Sizes == {Cardinality(X) : X \in Bad}
<1>. SUFFICES ASSUME S \in Bad PROVE FALSE
  OBVIOUS
<1>1. Sizes \subseteq Nat /\ Sizes # {}
  BY FS_CardinalityType
<1>2. PICK n \in Sizes : \A m \in Sizes : n <= m
  <2>. HIDE DEF Sizes
  <2>. QED  BY <1>1, LeastElement
<1>3. PICK X \in Bad : Cardinality(X) = n
  OBVIOUS
<1>4. PICK x : x \in X
  OBVIOUS
<1>. PICK Y : Y = X \ {x}
  OBVIOUS
<1>5. IsFiniteSet(Y) /\ Cardinality(Y) = Cardinality(X) - 1 /\ Y \subseteq Nat
  BY <1>4, FS_RemoveElement
<1>6. Y \notin Bad
  <2>1. n \in Nat /\ ~(n <= n - 1)
    BY <1>1
  <2>. QED  BY <1>2, <1>3, <1>5, <2>1
<1>7. CASE Y = {}
  <2>1. X = {x} /\ x \in Nat
    BY <1>4, <1>7
  <2>. QED  BY <2>1
<1>8. CASE \E y \in Y : \A m \in Y : y >= m
  <2>1. PICK y \in Y : \A m \in Y : y >= m
    BY <1>8
  <2>2. X = Y \cup {x} /\ x \in Nat /\ y \in Nat /\ X \subseteq Nat
    BY <1>4, <1>5
  <2>3. CASE x >= y
    BY <2>1, <2>2, <2>3
  <2>4. CASE y >= x
    BY <2>1, <2>2, <2>4
  <2>. QED  BY <2>2, <2>3, <2>4
<1>. QED  BY <1>5, <1>6, <1>7, <1>8

LEMMA MaxOfNumbers ==
  ASSUME NEW S, S \subseteq Nat, IsFiniteSet(S), S # {}
  PROVE  Max(S) \in S /\ \A m \in S : Max(S) >= m
BY GreatestElement DEF Max

USE HooksAssumption DEF HooksAssumption

PostOps == {"unsent", "post", "log", "find", "drop", "done", "lost", "cut"}
PostRow == [op : PostOps, e : SUBSET Endpoints, keep : SUBSET LogRow]

(* A delivery has one endpoint, and keeps no more rows than a log may hold. *)
PostIsRight(p) ==
  /\ IsFiniteSet(p.keep) /\ Cardinality(p.keep) <= KeepRows
  /\ \A e, f \in p.e : e = f
  /\ Cardinality(p.e) <= 1 /\ (p.op = "unsent" <=> p.e = {})

EndpointsRight ==
  /\ endpoint \in [Endpoints -> [state : {"absent", "on", "off"}, types : SUBSET Events]]
  /\ \A e \in Endpoints : endpoint[e].state = "absent" => logRows[e] = {}

LogsRight ==
  /\ logRows \in [Endpoints -> SUBSET LogRow]
  /\ \A e \in Endpoints : IsFiniteSet(logRows[e])

PostsRight == post \in [Deliveries -> PostRow] /\ \A d \in Deliveries : PostIsRight(post[d])

HooksInv == EndpointsRight /\ LogsRight /\ PostsRight /\ LogBounded

LEMMA HooksStart == HooksInit => HooksInv
<1>. SUFFICES ASSUME HooksInit PROVE HooksInv
  OBVIOUS
<1>1. EndpointsRight /\ LogsRight
  BY FS_EmptySet DEF HooksInit, EndpointsRight, LogsRight, NoEndpoint
<1>2. Unsent \in PostRow /\ PostIsRight(Unsent)
  BY FS_EmptySet DEF Unsent, PostRow, PostOps, PostIsRight
<1>3. PostsRight
  BY <1>2 DEF HooksInit, PostsRight
<1>4. \A e \in Endpoints : Trimming(e) = {} /\ logRows[e] = {}
  BY DEF HooksInit, Trimming, Unsent
<1>. QED  BY <1>1, <1>3, <1>4, FS_EmptySet DEF HooksInv, LogBounded

(* A delivery that goes on, with the same endpoint. *)
LEMMA PostGoesOn ==
  ASSUME PostsRight, NEW d \in Deliveries, NEW op \in PostOps \ {"unsent"}, NEW keep,
         post[d].op # "unsent",
         keep \subseteq LogRow, IsFiniteSet(keep), Cardinality(keep) <= KeepRows,
         post' = [post EXCEPT ![d].op = op, ![d].keep = keep]
  PROVE  /\ PostsRight'
         /\ post'[d].op = op /\ post'[d].e = post[d].e
         /\ \A c \in Deliveries \ {d} : post'[c] = post[c]
<1>. PICK p : p = [post[d] EXCEPT !.op = op, !.keep = keep]
  OBVIOUS
<1>1. post[d] \in PostRow /\ PostIsRight(post[d])
  BY DEF PostsRight
<1>2. p \in PostRow /\ p.op = op /\ p.e = post[d].e /\ p.keep = keep
  BY <1>1 DEF PostRow
<1>3. post' = [post EXCEPT ![d] = p]
  OBVIOUS
<1>4. PostIsRight(p)
  BY <1>1, <1>2 DEF PostIsRight
<1>5. post'[d] = p /\ \A c \in Deliveries \ {d} : post'[c] = post[c]
  BY <1>3 DEF PostsRight
<1>. QED  BY <1>2, <1>3, <1>4, <1>5 DEF PostsRight

LEMMA NothingKept == {} \subseteq LogRow /\ IsFiniteSet({}) /\ Cardinality({}) <= KeepRows
BY FS_EmptySet

LEMMA PostMoves ==
  ASSUME PostsRight, NEW d \in Deliveries, NEW op \in PostOps \ {"unsent"},
         post[d].op # "unsent", Moves(d, op)
  PROVE  /\ PostsRight'
         /\ post'[d].op = op /\ post'[d].e = post[d].e
         /\ \A c \in Deliveries \ {d} : post'[c] = post[c]
<1>. PICK keep : keep = post[d].keep
  OBVIOUS
<1>1. post[d] \in PostRow /\ PostIsRight(post[d]) /\ post \in [Deliveries -> PostRow]
  BY DEF PostsRight
<1>2. post' = [post EXCEPT ![d].op = op, ![d].keep = keep]
  BY <1>1 DEF Moves, PostRow
<1>. QED  BY <1>1, <1>2, PostGoesOn DEF PostRow, PostIsRight

(* The log of e stays within its bound while its rows become no more and its
   trimming deliveries no fewer. *)
LEMMA BoundStays ==
  ASSUME HooksInv, LogsRight', IsFiniteSet(Deliveries), NEW e \in Endpoints,
         logRows'[e] \subseteq logRows[e],
         \A d \in Deliveries : d \in Trimming(e) => d \in Trimming(e)'
  PROVE  Cardinality(logRows'[e]) <= KeepRows + Cardinality(Trimming(e)')
<1>1. IsFiniteSet(logRows[e]) /\ Cardinality(logRows'[e]) <= Cardinality(logRows[e])
  BY FS_Subset DEF HooksInv, LogsRight
<1>2. Trimming(e)' \subseteq Deliveries /\ Trimming(e) \subseteq Trimming(e)'
  BY DEF Trimming
<1>3. IsFiniteSet(Trimming(e)') /\ Cardinality(Trimming(e)) <= Cardinality(Trimming(e)')
      /\ IsFiniteSet(Trimming(e))
  <2>1. IsFiniteSet(Trimming(e)')
    BY <1>2, FS_Subset
  <2>. QED  BY <1>2, <2>1, FS_Subset
<1>4. /\ Cardinality(logRows[e]) \in Nat /\ Cardinality(logRows'[e]) \in Nat
      /\ Cardinality(Trimming(e)) \in Nat /\ Cardinality(Trimming(e)') \in Nat
  BY <1>1, <1>3, FS_CardinalityType, FS_Subset DEF LogsRight
<1>5. Cardinality(logRows[e]) <= KeepRows + Cardinality(Trimming(e))
  BY DEF HooksInv, LogBounded
<1>. QED  BY <1>1, <1>3, <1>4, <1>5

(* What the administration of endpoints does to logs and deliveries. *)
LEMMA EndpointStep ==
  ASSUME HooksInv, IsFiniteSet(Deliveries), NEW e \in Endpoints,
         \/ \E ts \in SUBSET Events :
              \/ CreateEndpoint(e, ts)
              \/ \E state \in {"on", "off"} : UpdateEndpoint(e, state, ts)
         \/ DeleteEndpoint(e)
  PROVE  HooksInv'
<1>1. /\ UNCHANGED post
      /\ \/ UNCHANGED logRows
         \/ logRows' = [logRows EXCEPT ![e] = {}]
  BY DEF CreateEndpoint, UpdateEndpoint, DeleteEndpoint
<1>2. LogsRight'
  BY <1>1, FS_EmptySet DEF HooksInv, LogsRight
<1>3. EndpointsRight'
  BY DEF HooksInv, EndpointsRight, LogsRight, CreateEndpoint, UpdateEndpoint, DeleteEndpoint, NoEndpoint
<1>4. PostsRight'
  BY <1>1 DEF HooksInv, PostsRight
<1>5. \A f \in Endpoints : /\ logRows'[f] \subseteq logRows[f]
                           /\ \A d \in Deliveries : d \in Trimming(f) => d \in Trimming(f)'
  BY <1>1 DEF HooksInv, LogsRight, Trimming
<1>6. LogBounded'
  BY <1>2, <1>5, BoundStays DEF LogBounded
<1>. QED  BY <1>2, <1>3, <1>4, <1>6 DEF HooksInv

(* Deliveries set out. *)
LEMMA SetOutStep ==
  ASSUME HooksInv, IsFiniteSet(Deliveries), UNCHANGED <<endpoint, logRows>>,
         post' \in [Deliveries -> PostRow],
         \A d \in Deliveries :
           \/ post'[d] = post[d]
           \/ post[d] = Unsent /\ \E e \in Endpoints : post'[d] = SetsOut(d, e)
  PROVE  HooksInv'
<1>1. LogsRight' /\ EndpointsRight'
  BY DEF HooksInv, LogsRight, EndpointsRight
<1>2. ASSUME NEW d, NEW e PROVE PostIsRight(SetsOut(d, e))
  <2>. PICK p : p = SetsOut(d, e)
    OBVIOUS
  <2>1. p.op = "post" /\ p.e = {e} /\ p.keep = {}
    BY DEF SetsOut, Unsent
  <2>2. Cardinality({e}) = 1
    BY FS_Singleton
  <2>3. Cardinality(p.e) <= 1
    BY <2>1, <2>2
  <2>. QED  BY <2>1, <2>3, NothingKept DEF PostIsRight
<1>3. PostsRight'
  BY <1>2 DEF HooksInv, PostsRight
<1>4. \A f \in Endpoints : \A d \in Deliveries : d \in Trimming(f) => d \in Trimming(f)'
  BY DEF Trimming, Unsent
<1>5. LogBounded'
  BY <1>1, <1>4, BoundStays DEF LogBounded
<1>. QED  BY <1>1, <1>3, <1>5 DEF HooksInv

LEMMA SetsOutIsRow ==
  ASSUME NEW d, NEW e \in Endpoints
  PROVE  SetsOut(d, e) \in PostRow
BY DEF SetsOut, Unsent, PostRow, PostOps

LEMMA EmitStep ==
  ASSUME HooksInv, IsFiniteSet(Deliveries), NEW type \in Events, EmitEvent(type)
  PROVE  HooksInv'
<1>. DEFINE wanted == {e \in Endpoints : endpoint[e].state = "on" /\ type \in endpoint[e].types}
<1>1. PICK of \in [wanted -> {d \in Deliveries : post[d] = Unsent}] :
        post' = [d \in Deliveries |->
                   IF \E e \in wanted : of[e] = d
                   THEN SetsOut(d, CHOOSE e \in wanted : of[e] = d) ELSE post[d]]
  BY DEF EmitEvent
<1>2. ASSUME NEW d \in Deliveries
      PROVE  \/ post'[d] = post[d]
             \/ post[d] = Unsent /\ \E e \in Endpoints : post'[d] = SetsOut(d, e)
  <2>1. CASE \E e \in wanted : of[e] = d
    <3>1. PICK f : f = CHOOSE e \in wanted : of[e] = d
      OBVIOUS
    <3>2. f \in wanted /\ of[f] = d
      BY <2>1, <3>1
    <3>3. post'[d] = SetsOut(d, f)
      BY <1>1, <2>1, <3>1
    <3>. QED  BY <3>2, <3>3
  <2>2. CASE ~ \E e \in wanted : of[e] = d
    BY <1>1, <2>2
  <2>. QED  BY <2>1, <2>2
<1>3. post' = [d \in Deliveries |-> post'[d]]
  BY <1>1
<1>4. \A d \in Deliveries : post'[d] \in PostRow
  BY <1>2, SetsOutIsRow DEF HooksInv, PostsRight
<1>5. post' \in [Deliveries -> PostRow]
  BY <1>3, <1>4
<1>. QED  BY <1>2, <1>5, SetOutStep DEF EmitEvent

LEMMA PingStep ==
  ASSUME HooksInv, IsFiniteSet(Deliveries), NEW d \in Deliveries, NEW e \in Endpoints, TestPing(d, e)
  PROVE  HooksInv'
<1>1. /\ post \in [Deliveries -> PostRow] /\ post[d] = Unsent
      /\ post' = [post EXCEPT ![d] = SetsOut(d, e)] /\ UNCHANGED <<endpoint, logRows>>
  BY DEF TestPing, HooksInv, PostsRight
<1>2. post' \in [Deliveries -> PostRow]
  BY <1>1, SetsOutIsRow
<1>3. \A c \in Deliveries : post'[c] = IF c = d THEN SetsOut(d, e) ELSE post[c]
  BY <1>1
<1>. QED  BY <1>1, <1>2, <1>3, SetOutStep

(* A delivery goes on, adds no row, and trims still if it was to. *)
LEMMA DeliveryStep ==
  ASSUME HooksInv, IsFiniteSet(Deliveries), NEW d \in Deliveries,
         UNCHANGED endpoint, PostsRight', LogsRight',
         \A e \in Endpoints : logRows'[e] \subseteq logRows[e],
         post'[d].e = post[d].e,
         \A c \in Deliveries \ {d} : post'[c] = post[c],
         post'[d].op \in {"find", "drop", "cut"} \/ post[d].op \notin {"find", "drop", "cut"}
  PROVE  HooksInv'
<1>1. EndpointsRight'
  BY DEF HooksInv, EndpointsRight
<1>2. \A e \in Endpoints : \A c \in Deliveries : c \in Trimming(e) => c \in Trimming(e)'
  BY DEF Trimming
<1>3. LogBounded'
  BY <1>2, BoundStays DEF LogBounded
<1>. QED  BY <1>1, <1>3 DEF HooksInv

(* A row is written: one more in the log, one more that is to trim it. *)
LEMMA LogStep ==
  ASSUME HooksInv, IsFiniteSet(Deliveries), NEW d \in Deliveries, NEW e \in Endpoints,
         LogDelivery(d, e)
  PROVE  HooksInv'
<1>1. /\ post[d].op = "log" /\ e \in post[d].e /\ PostsRight /\ LogsRight /\ UNCHANGED endpoint
      /\ EndpointsRight /\ LogBounded
  BY DEF LogDelivery, At, HooksInv
<1>2. CASE endpoint[e].state = "absent"
  <2>1. Moves(d, "lost") /\ UNCHANGED logRows
    BY <1>2 DEF LogDelivery
  <2>2. /\ PostsRight' /\ post'[d].op = "lost" /\ post'[d].e = post[d].e
        /\ \A c \in Deliveries \ {d} : post'[c] = post[c]
    BY <1>1, <2>1, PostMoves DEF PostOps
  <2>3. LogsRight' /\ \A f \in Endpoints : logRows'[f] \subseteq logRows[f]
    BY <1>1, <2>1 DEF LogsRight
  <2>. QED  BY <1>1, <2>2, <2>3, DeliveryStep
<1>3. CASE endpoint[e].state # "absent"
  <2>. PICK row : row = [d |-> d, at |-> NextAt(e)]
    OBVIOUS
  <2>1. Moves(d, "find") /\ logRows' = [logRows EXCEPT ![e] = @ \cup {row}]
    BY <1>3 DEF LogDelivery
  <2>2. /\ PostsRight' /\ post'[d].op = "find" /\ post'[d].e = post[d].e
        /\ \A c \in Deliveries \ {d} : post'[c] = post[c]
    BY <1>1, <2>1, PostMoves DEF PostOps
  <2>3. row \in LogRow
    <3>. DEFINE S == {r.at : r \in logRows[e]}
    <3>1. S \subseteq Nat /\ IsFiniteSet(S)
      <4>1. logRows[e] \subseteq LogRow /\ IsFiniteSet(logRows[e])
        BY <1>1 DEF LogsRight
      <4>2. S \subseteq Nat
        BY <4>1 DEF LogRow
      <4>3. [r \in logRows[e] |-> r.at] \in Surjection(logRows[e], S)
        BY DEF Surjection
      <4>. HIDE DEF S
      <4>. QED  BY <4>1, <4>2, <4>3, FS_Surjection
    <3>. HIDE DEF S
    <3>2. {0} \cup S \subseteq Nat /\ {0} \cup S # {} /\ IsFiniteSet({0} \cup S)
      <4>1. S \cup {0} = {0} \cup S
        OBVIOUS
      <4>. QED  BY <3>1, <4>1, FS_AddElement
    <3>3. Max({0} \cup S) \in Nat
      BY <3>2, MaxOfNumbers
    <3>. QED  BY <3>3 DEF NextAt, LogRow, S
  <2>4. LogsRight' /\ EndpointsRight'
    <3>1. IsFiniteSet(logRows[e] \cup {row})
      BY <1>1, FS_AddElement DEF LogsRight
    <3>2. LogsRight'
      BY <1>1, <2>1, <2>3, <3>1 DEF LogsRight
    <3>. QED  BY <1>1, <1>3, <2>1, <3>2 DEF EndpointsRight, LogsRight
  <2>5. ASSUME NEW f \in Endpoints
        PROVE  Cardinality(logRows'[f]) <= KeepRows + Cardinality(Trimming(f)')
    <3>1. CASE f # e
      <4>1. logRows'[f] \subseteq logRows[f]
        BY <1>1, <2>1, <3>1 DEF LogsRight
      <4>2. \A c \in Deliveries : c \in Trimming(f) => c \in Trimming(f)'
        BY <2>2 DEF Trimming
      <4>. QED  BY <2>4, <4>1, <4>2, BoundStays
    <3>2. CASE f = e
      <4>1. logRows'[e] = logRows[e] \cup {row}
        BY <1>1, <2>1 DEF LogsRight
      <4>2. Trimming(e)' = Trimming(e) \cup {d} /\ d \notin Trimming(e)
        BY <1>1, <2>2 DEF Trimming
      <4>3. IsFiniteSet(logRows[e]) /\ IsFiniteSet(Trimming(e))
        BY <1>1, FS_Subset DEF LogsRight, Trimming
      <4>4. Cardinality(logRows[e]) \in Nat /\ Cardinality(Trimming(e)) \in Nat
        BY <4>3, FS_CardinalityType
      <4>5. Cardinality(Trimming(e)') = Cardinality(Trimming(e)) + 1
        BY <4>2, <4>3, FS_AddElement
      <4>6. Cardinality(logRows'[e]) \in {Cardinality(logRows[e]), Cardinality(logRows[e]) + 1}
        BY <4>1, <4>3, FS_AddElement
      <4>7. Cardinality(logRows[e]) <= KeepRows + Cardinality(Trimming(e))
        BY <1>1 DEF LogBounded
      <4>. QED  BY <3>2, <4>4, <4>5, <4>6, <4>7
    <3>. QED  BY <3>1, <3>2
  <2>. QED  BY <2>2, <2>4, <2>5 DEF HooksInv, LogBounded
<1>. QED  BY <1>2, <1>3

(* The log of e is within the limit, whatever is still to trim it. *)
LEMMA TrimmedStep ==
  ASSUME HooksInv, IsFiniteSet(Deliveries), NEW d \in Deliveries, NEW e \in Endpoints,
         e \in post[d].e, UNCHANGED endpoint, PostsRight', LogsRight',
         \A f \in Endpoints : logRows'[f] \subseteq logRows[f],
         Cardinality(logRows'[e]) <= KeepRows,
         post'[d].e = post[d].e,
         \A c \in Deliveries \ {d} : post'[c] = post[c]
  PROVE  HooksInv'
<1>1. EndpointsRight'
  BY DEF HooksInv, EndpointsRight
<1>2. ASSUME NEW f \in Endpoints
      PROVE  Cardinality(logRows'[f]) <= KeepRows + Cardinality(Trimming(f)')
  <2>1. CASE f # e
    <3>1. f \notin post[d].e
      BY <2>1 DEF HooksInv, PostsRight, PostIsRight
    <3>2. \A c \in Deliveries : c \in Trimming(f) => c \in Trimming(f)'
      BY <3>1 DEF Trimming
    <3>. QED  BY <3>2, BoundStays
  <2>2. CASE f = e
    <3>1. Cardinality(Trimming(e)') \in Nat
      <4>1. Trimming(e)' \subseteq Deliveries
        BY DEF Trimming
      <4>. QED  BY <4>1, FS_Subset, FS_CardinalityType
    <3>2. Cardinality(logRows'[e]) \in Nat
      BY FS_CardinalityType DEF LogsRight
    <3>. QED  BY <2>2, <3>1, <3>2
  <2>. QED  BY <2>1, <2>2
<1>. QED  BY <1>1, <1>2 DEF HooksInv, LogBounded

LEMMA FindStep ==
  ASSUME HooksInv, IsFiniteSet(Deliveries), NEW d \in Deliveries, NEW e \in Endpoints,
         FindNewest(d, e)
  PROVE  HooksInv'
<1>1. /\ post[d].op = "find" /\ e \in post[d].e /\ PostsRight /\ LogsRight
      /\ UNCHANGED <<endpoint, logRows>>
  BY DEF FindNewest, At, HooksInv
<1>2. LogsRight' /\ \A f \in Endpoints : logRows'[f] \subseteq logRows[f]
  BY <1>1 DEF LogsRight
<1>3. CASE Cardinality(logRows[e]) < KeepRows /\ Moves(d, "done")
  <2>1. /\ PostsRight' /\ post'[d].e = post[d].e
        /\ \A c \in Deliveries \ {d} : post'[c] = post[c]
    BY <1>1, <1>3, PostMoves DEF PostOps
  <2>2. Cardinality(logRows'[e]) <= KeepRows
    <3>1. Cardinality(logRows[e]) \in Nat
      BY <1>1, FS_CardinalityType DEF LogsRight
    <3>. QED  BY <1>1, <1>3, <3>1
  <2>. QED  BY <1>1, <1>2, <2>1, <2>2, TrimmedStep
<1>4. ASSUME NEW rows \in SUBSET logRows[e], NewestRows(rows, e),
             post' = [post EXCEPT ![d].op = "drop", ![d].keep = rows]
      PROVE  HooksInv'
  <2>1. rows \subseteq LogRow /\ IsFiniteSet(rows) /\ Cardinality(rows) <= KeepRows
    BY <1>1, <1>4, FS_Subset DEF LogsRight, NewestRows
  <2>2. /\ PostsRight' /\ post'[d].op = "drop" /\ post'[d].e = post[d].e
        /\ \A c \in Deliveries \ {d} : post'[c] = post[c]
    BY <1>1, <1>4, <2>1, PostGoesOn DEF PostOps
  <2>. QED  BY <1>1, <1>2, <2>2, DeliveryStep
<1>. QED  BY <1>3, <1>4 DEF FindNewest

LEMMA DropStep ==
  ASSUME HooksInv, IsFiniteSet(Deliveries), NEW d \in Deliveries, NEW e \in Endpoints, Drop(d, e)
  PROVE  HooksInv'
<1>1. /\ post[d].op = "drop" /\ e \in post[d].e /\ PostsRight /\ LogsRight /\ UNCHANGED endpoint
      /\ logRows' = [logRows EXCEPT ![e] = @ \cap post[d].keep]
      /\ post' = [post EXCEPT ![d].op = "done", ![d].keep = {}]
  BY DEF Drop, At, HooksInv
<1>2. IsFiniteSet(post[d].keep) /\ Cardinality(post[d].keep) <= KeepRows
  BY <1>1 DEF PostsRight, PostIsRight
<1>3. /\ logRows'[e] = logRows[e] \cap post[d].keep
      /\ \A f \in Endpoints : logRows'[f] \subseteq logRows[f]
  BY <1>1 DEF LogsRight
<1>4. LogsRight'
  <2>1. \A f \in Endpoints : IsFiniteSet(logRows'[f])
    BY <1>1, <1>3, FS_Subset DEF LogsRight
  <2>. QED  BY <1>1, <2>1 DEF LogsRight
<1>5. Cardinality(logRows'[e]) <= KeepRows
  <2>1. /\ Cardinality(logRows'[e]) <= Cardinality(post[d].keep)
        /\ IsFiniteSet(logRows'[e])
    BY <1>2, <1>3, FS_Subset
  <2>2. Cardinality(logRows'[e]) \in Nat /\ Cardinality(post[d].keep) \in Nat
    BY <1>2, <2>1, FS_CardinalityType
  <2>. QED  BY <1>2, <2>1, <2>2
<1>6. /\ PostsRight' /\ post'[d].e = post[d].e
      /\ \A c \in Deliveries \ {d} : post'[c] = post[c]
  BY <1>1, NothingKept, PostGoesOn DEF PostOps
<1>. QED  BY <1>1, <1>3, <1>4, <1>5, <1>6, TrimmedStep

LEMMA FailStep ==
  ASSUME HooksInv, IsFiniteSet(Deliveries), NEW d \in Deliveries, LogFails(d) \/ Answer(d)
  PROVE  HooksInv'
<1>1. PostsRight /\ LogsRight /\ UNCHANGED <<endpoint, logRows>>
  BY DEF LogFails, Answer, HooksInv
<1>2. LogsRight' /\ \A f \in Endpoints : logRows'[f] \subseteq logRows[f]
  BY <1>1 DEF LogsRight
<1>3. CASE post[d].op \in {"log", "post"} /\ (Moves(d, "lost") \/ Moves(d, "log"))
  <2>1. /\ PostsRight' /\ post'[d].e = post[d].e
        /\ \A c \in Deliveries \ {d} : post'[c] = post[c]
    BY <1>1, <1>3, PostMoves DEF PostOps
  <2>. QED  BY <1>1, <1>2, <1>3, <2>1, DeliveryStep
<1>4. CASE post[d].op \in {"find", "drop"} /\ post' = [post EXCEPT ![d].op = "cut", ![d].keep = {}]
  <2>1. /\ PostsRight' /\ post'[d].op = "cut" /\ post'[d].e = post[d].e
        /\ \A c \in Deliveries \ {d} : post'[c] = post[c]
    BY <1>1, <1>4, NothingKept, PostGoesOn DEF PostOps
  <2>. QED  BY <1>1, <1>2, <2>1, DeliveryStep
<1>. QED  BY <1>3, <1>4 DEF LogFails, Answer

LEMMA CrashStep ==
  ASSUME HooksInv, IsFiniteSet(Deliveries), HookCrash
  PROVE  HooksInv'
<1>1. /\ PostsRight /\ LogsRight /\ EndpointsRight /\ UNCHANGED <<endpoint, logRows>>
      /\ post' = [d \in Deliveries |->
           IF ~OnTheWay(d) THEN post[d]
           ELSE [post[d] EXCEPT !.op = IF @ \in {"find", "drop"} THEN "cut" ELSE "lost", !.keep = {}]]
  BY DEF HookCrash, HooksInv
<1>2. LogsRight' /\ EndpointsRight'
  BY <1>1 DEF LogsRight, EndpointsRight
<1>3. ASSUME NEW d \in Deliveries
      PROVE  /\ post'[d] \in PostRow /\ PostIsRight(post'[d])
             /\ post'[d].e = post[d].e
             /\ post[d].op \in {"find", "drop", "cut"} => post'[d].op \in {"find", "drop", "cut"}
  <2>1. post[d] \in PostRow /\ PostIsRight(post[d])
    BY <1>1 DEF PostsRight
  <2>2. CASE ~OnTheWay(d)
    BY <1>1, <2>1, <2>2
  <2>3. CASE OnTheWay(d)
    <3>. PICK op : op = IF post[d].op \in {"find", "drop"} THEN "cut" ELSE "lost"
      OBVIOUS
    <3>1. post'[d] = [post[d] EXCEPT !.op = op, !.keep = {}]
      BY <1>1, <2>1, <2>3 DEF PostRow
    <3>2. /\ post'[d].op = op /\ post'[d].e = post[d].e /\ post'[d].keep = {}
          /\ post'[d] \in PostRow
      BY <2>1, <3>1 DEF PostRow, PostOps
    <3>3. PostIsRight(post'[d])
      BY <2>1, <2>3, <3>2, FS_EmptySet DEF PostIsRight, OnTheWay
    <3>. QED  BY <2>3, <3>2, <3>3 DEF OnTheWay
  <2>. QED  BY <2>2, <2>3
<1>4. PostsRight'
  BY <1>1, <1>3 DEF PostsRight
<1>5. \A f \in Endpoints : \A d \in Deliveries : d \in Trimming(f) => d \in Trimming(f)'
  BY <1>3 DEF Trimming
<1>6. LogBounded'
  BY <1>1, <1>2, <1>5, BoundStays DEF LogBounded
<1>. QED  BY <1>2, <1>4, <1>6 DEF HooksInv

LEMMA HooksStay ==
  ASSUME HooksInv, IsFiniteSet(Deliveries), [HooksNext]_hookVars
  PROVE  HooksInv'
<1>1. CASE UNCHANGED hookVars
  BY <1>1 DEF hookVars, HooksInv, EndpointsRight, LogsRight, PostsRight, LogBounded, Trimming
<1>. QED  BY <1>1, EndpointStep, EmitStep, PingStep, LogStep, FindStep, DropStep, FailStep, CrashStep
          DEF HooksNext, Deliver

LEMMA HooksInvariance ==
  ASSUME IsFiniteSet(Deliveries)
  PROVE  HooksSpec => []HooksInv
<1>1. HooksInv /\ [HooksNext]_hookVars => HooksInv'
  BY HooksStay
<1>. QED  BY <1>1, HooksStart, PTL DEF HooksSpec

(* Rows of endpoints and deliveries keep their shape, an endpoint that is gone
   has no log, and no delivery is about to keep more rows than a log may
   hold, for any number of endpoints and of deliveries at the same time. *)
THEOREM HooksTypeCorrect ==
  ASSUME IsFiniteSet(Deliveries)
  PROVE  HooksSpec => []HooksTypeOK
<1>1. HooksInv => HooksTypeOK
  BY DEF HooksInv, EndpointsRight, LogsRight, PostsRight, PostIsRight, PostRow, PostOps, HooksTypeOK
<1>. QED  BY <1>1, HooksInvariance, PTL

(* The log of an endpoint never holds more rows than its limit and one for
   each delivery that has still to trim it or was stopped before it could,
   with restarts, a failing database and endpoints that are deleted and
   created again under way. *)
THEOREM LogsAreBounded ==
  ASSUME IsFiniteSet(Deliveries)
  PROVE  HooksSpec => []LogBounded
<1>1. HooksInv => LogBounded
  BY DEF HooksInv
<1>. QED  BY <1>1, HooksInvariance, PTL
=============================================================================
