------------------------------- MODULE Digest -------------------------------
(***************************************************************************)
(* Notifications and the digest mails about them.  Once an hour a tick     *)
(* reads the users with their watermark (lastDigestAt), and for each whose *)
(* digest is due mails the unread notifications newer than the watermark   *)
(* and then moves the watermark to the time the tick began.                *)
(*                                                                         *)
(* Times are kept as what the code compares: which notifications are newer *)
(* than the watermark, which arrived since the tick began, and how many    *)
(* hours ago the watermark is.  Everybody lives in one time zone, the      *)
(* letters are not composed, and mails sent at once (deliverEmail) are     *)
(* left out.                                                               *)
(***************************************************************************)
EXTENDS Integers, FiniteSets

CONSTANTS
  Readers,          \* users with notifications
  Notes,            \* numbers of the notifications of one user, in order of arrival
  MaxItems,         \* notifications in one letter (40 in the code)
  DayHours,         \* hours of a day (24)
  WeekDays,         \* days of a week (7)
  SendHour,         \* DIGEST_SEND_HOUR
  LetterDay,        \* DIGEST_WEEKDAY, counted from 0
  Settings,         \* [freq, start, end] a user may choose; start = end: no quiet hours
  DigestFeatures    \* events the instance exercises

ASSUME DigestAssumption ==
  /\ Notes \subseteq Nat /\ IsFiniteSet(Notes)
  /\ MaxItems \in Nat \ {0} /\ DayHours \in Nat \ {0} /\ WeekDays \in Nat \ {0}
  /\ SendHour \in 0..DayHours - 1 /\ LetterDay \in 0..WeekDays - 1
  /\ Settings \subseteq [freq : {"none", "daily", "weekly"},
                         start : 0..DayHours - 1, end : 0..DayHours - 1]

VARIABLES
  note,     \* note[u][n]: "absent", "unread" or "read"
  newer,    \* newer[u]: notifications created after the watermark
  mark,     \* mark[u]: hours since the watermark, Ages if that is long ago or never
  setting,  \* setting[u]: frequency and quiet hours
  mailed,   \* mailed[u]: notifications that were in a letter
  cut,      \* cut[u]: those that found no room in a full letter
  digest,   \* the tick at work
  hour,     \* hours since the start of the week
  ticked    \* a tick has begun in this hour

digestVars == <<note, newer, mark, setting, mailed, cut, digest, hour, ticked>>

Ages == WeekDays * DayHours

(* A tick holds the users it has read, with their settings and watermarks,
   how long ago it began, who is being mailed and what arrived meanwhile. *)
NoDigest == [busy |-> FALSE, rows |-> {}, began |-> 0, to |-> {}, letter |-> {},
             late |-> [u \in Readers |-> {}]]

(***************************************************************************)
(* When a digest is due                                                    *)
(***************************************************************************)
Local(h) == h % DayHours

InQuietHours(h, s) ==
  \/ s.start < s.end /\ s.start <= h /\ h < s.end
  \/ s.start > s.end /\ (s.start <= h \/ h < s.end)

IsDigestDueLater(s, age, at) ==   \* wrong variant: the send hour itself is too early
  /\ s.freq # "none"
  /\ ~InQuietHours(Local(at), s)
  /\ Local(at) > SendHour
  /\ \/ s.freq = "daily" /\ age > Local(at)
     \/ s.freq = "weekly" /\ at \div DayHours = LetterDay /\ age >= (WeekDays - 1) * DayHours

(* `at` is the hour the tick began in, `age` the hours since the watermark
   at that time: an earlier day when it reaches back over midnight. *)
IsDigestDue(s, age, at) ==
  /\ s.freq # "none"
  /\ ~InQuietHours(Local(at), s)
  /\ Local(at) >= SendHour
  /\ \/ s.freq = "daily" /\ age > Local(at)
     \/ s.freq = "weekly" /\ at \div DayHours = LetterDay /\ age >= (WeekDays - 1) * DayHours

(***************************************************************************)
(* Users                                                                   *)
(***************************************************************************)
Notify(u) ==
  \E n \in Notes :
    /\ note[u][n] = "absent"
    /\ \A k \in Notes : note[u][k] = "absent" => n <= k
    /\ note' = [note EXCEPT ![u][n] = "unread"]
    /\ newer' = [newer EXCEPT ![u] = @ \cup {n}]
    /\ digest' = IF digest.busy THEN [digest EXCEPT !.late[u] = @ \cup {n}] ELSE digest
    /\ UNCHANGED <<mark, setting, mailed, cut, hour, ticked>>

MarkRead(u, n) ==
  /\ note[u][n] = "unread"
  /\ note' = [note EXCEPT ![u][n] = "read"]
  /\ UNCHANGED <<newer, mark, setting, mailed, cut, digest, hour, ticked>>

UpdateSettings(u, s) ==
  /\ "settings" \in DigestFeatures
  /\ setting[u] # s
  /\ setting' = [setting EXCEPT ![u] = s]
  /\ UNCHANGED <<note, newer, mark, mailed, cut, digest, hour, ticked>>

(***************************************************************************)
(* processDueDigests                                                       *)
(***************************************************************************)
DigestTick ==
  /\ ~digest.busy /\ ~ticked
  /\ digest' = [NoDigest EXCEPT !.busy = TRUE, !.rows =
       {[u |-> u, s |-> setting[u], age |-> mark[u]] : u \in {v \in Readers : setting[v].freq # "none"}}]
  /\ ticked' = TRUE
  /\ UNCHANGED <<note, newer, mark, setting, mailed, cut, hour>>

(* The hour the tick began in. *)
TickHour == (hour - digest.began) % Ages

NotDue(row) ==
  /\ digest.busy /\ digest.to = {} /\ row \in digest.rows
  /\ ~IsDigestDue(row.s, row.age, TickHour)
  /\ digest' = [digest EXCEPT !.rows = @ \ {row}]
  /\ UNCHANGED <<note, newer, mark, setting, mailed, cut, hour, ticked>>

UnreadEver(u) == {n \in Notes : note[u][n] = "unread"}   \* wrong variant: without the watermark

Unread(u) == {n \in newer[u] : note[u][n] = "unread"}

Newest(ns) == {n \in ns : Cardinality({k \in ns : k >= n}) <= MaxItems}

MarkEmpty(row) ==
  /\ digest.busy /\ digest.to = {} /\ row \in digest.rows
  /\ IsDigestDue(row.s, row.age, TickHour)
  /\ Unread(row.u) = {}
  /\ digest' = [digest EXCEPT !.rows = @ \ {row}]
  /\ mark' = [mark EXCEPT ![row.u] = digest.began]
  /\ newer' = [newer EXCEPT ![row.u] = digest.late[row.u]]
  /\ UNCHANGED <<note, setting, mailed, cut, hour, ticked>>

Compose(row) ==
  /\ digest.busy /\ digest.to = {} /\ row \in digest.rows
  /\ IsDigestDue(row.s, row.age, TickHour)
  /\ Unread(row.u) # {}
  /\ digest' = [digest EXCEPT !.rows = @ \ {row}, !.to = {row.u}, !.letter = Unread(row.u)]
  /\ UNCHANGED <<note, newer, mark, setting, mailed, cut, hour, ticked>>

Post(u) ==
  /\ u \in digest.to /\ digest.letter # {}
  /\ mailed' = [mailed EXCEPT ![u] = @ \cup Newest(digest.letter)]
  /\ cut' = [cut EXCEPT ![u] = @ \cup (digest.letter \ Newest(digest.letter))]
  /\ digest' = [digest EXCEPT !.letter = {}]
  /\ UNCHANGED <<note, newer, mark, setting, hour, ticked>>

(* The mail server refuses the letter: the next user's turn. *)
PostFails(u) ==
  /\ "smtp_down" \in DigestFeatures
  /\ u \in digest.to /\ digest.letter # {}
  /\ digest' = [digest EXCEPT !.to = {}, !.letter = {}]
  /\ UNCHANGED <<note, newer, mark, setting, mailed, cut, hour, ticked>>

MoveMarkToNow(u) ==   \* wrong variant: the watermark is the time of the letter
  /\ u \in digest.to /\ digest.letter = {}
  /\ mark' = [mark EXCEPT ![u] = 0]
  /\ newer' = [newer EXCEPT ![u] = {}]
  /\ digest' = [digest EXCEPT !.to = {}, !.late[u] = {}]
  /\ UNCHANGED <<note, setting, mailed, cut, hour, ticked>>

MoveMark(u) ==
  /\ u \in digest.to /\ digest.letter = {}
  /\ mark' = [mark EXCEPT ![u] = digest.began]
  /\ newer' = [newer EXCEPT ![u] = digest.late[u]]
  /\ digest' = [digest EXCEPT !.to = {}]
  /\ UNCHANGED <<note, setting, mailed, cut, hour, ticked>>

EndTick ==
  /\ digest.busy /\ digest.rows = {} /\ digest.to = {}
  /\ digest' = NoDigest
  /\ UNCHANGED <<note, newer, mark, setting, mailed, cut, hour, ticked>>

(* The process restarts, and ticks at once. *)
DigestCrash ==
  /\ "crash" \in DigestFeatures
  /\ digest.busy
  /\ digest' = NoDigest /\ ticked' = FALSE
  /\ UNCHANGED <<note, newer, mark, setting, mailed, cut, hour>>

(* A tick comes every hour, and none takes as long as one unless the instance
   has slow mail. *)
HourPasses ==
  /\ ticked
  /\ digest.busy => "slow" \in DigestFeatures /\ digest.began = 0
  /\ hour' = (hour + 1) % Ages
  /\ ticked' = digest.busy   \* the timer finds the old tick at work, and skips
  /\ mark' = [u \in Readers |-> IF mark[u] < Ages THEN mark[u] + 1 ELSE Ages]
  /\ digest' = IF digest.busy THEN [digest EXCEPT !.began = @ + 1] ELSE digest
  /\ UNCHANGED <<note, newer, setting, mailed, cut>>

(***************************************************************************)
(* The specification                                                       *)
(***************************************************************************)
DigestInit ==
  /\ note = [u \in Readers |-> [n \in Notes |-> "absent"]]
  /\ newer = [u \in Readers |-> {}]
  /\ mark = [u \in Readers |-> Ages]
  /\ setting \in [Readers -> Settings]
  /\ mailed = [u \in Readers |-> {}] /\ cut = [u \in Readers |-> {}]
  /\ digest = NoDigest
  /\ hour = 0 /\ ticked = FALSE

DigestWork ==
  \/ DigestTick
  \/ \E row \in digest.rows : NotDue(row) \/ MarkEmpty(row) \/ Compose(row)
  \/ \E u \in Readers : Post(u) \/ MoveMark(u)
  \/ EndTick

DigestNext ==
  \/ DigestWork
  \/ \E u \in Readers :
       \/ Notify(u)
       \/ \E n \in Notes : MarkRead(u, n)
       \/ \E s \in Settings : UpdateSettings(u, s)
       \/ PostFails(u)
  \/ DigestCrash
  \/ HourPasses

DigestSpec == DigestInit /\ [][DigestNext]_digestVars

(* setInterval ticks, a tick goes on, and time passes. *)
DigestFairSpec == DigestSpec /\ WF_digestVars(DigestWork) /\ WF_digestVars(HourPasses)

(***************************************************************************)
(* Properties                                                              *)
(***************************************************************************)
\* Rows and the tick have their shape; what is being mailed, and what arrived
\* since the tick began, is newer than the watermark.
DigestTypeOK ==
  /\ note \in [Readers -> [Notes -> {"absent", "unread", "read"}]]
  /\ newer \in [Readers -> SUBSET Notes] /\ mailed \in [Readers -> SUBSET Notes]
  /\ cut \in [Readers -> SUBSET Notes]
  /\ mark \in [Readers -> 0..Ages]
  /\ setting \in [Readers -> Settings]
  /\ digest \in [busy : BOOLEAN, rows : SUBSET [u : Readers, s : Settings, age : 0..Ages],
                 began : {0, 1}, to : SUBSET Readers, letter : SUBSET Notes,
                 late : [Readers -> SUBSET Notes]]
  /\ \A u \in Readers : digest.late[u] \subseteq newer[u]
  /\ \A u \in digest.to : digest.letter \subseteq newer[u]
  /\ Cardinality(digest.to) <= 1
  /\ hour \in 0..Ages - 1 /\ ticked \in BOOLEAN

\* The watermark never passes over a notification: what is older than it was
\* in a letter, was read before, or found no room among the newest of a full
\* letter.  So it is after restarts and refused mails, too.
NothingSkipped == \A u \in Readers, n \in Notes :
  note[u][n] = "unread" /\ n \notin newer[u] => n \in mailed[u] \cup cut[u]

(* There is an hour of the day in which a digest may be sent. *)
Reachable(s) == \E h \in SendHour..DayHours - 1 : ~InQuietHours(h, s)

\* Who wants a digest and leaves an hour of the day for it has every
\* notification mailed, read or cut from a full letter in the end.
UnreadIsMailed == \A u \in Readers, n \in Notes :
  (note[u][n] = "unread" /\ setting[u].freq # "none" /\ Reachable(setting[u]))
    ~> (n \in mailed[u] \cup cut[u] \/ note[u][n] = "read" \/ setting[u].freq = "none"
        \/ ~Reachable(setting[u]))
=============================================================================
