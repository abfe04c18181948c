---------------------------- MODULE InboundMail -----------------------------
(***************************************************************************)
(* Mail that becomes tickets and comments.  The IMAP poller and the mail   *)
(* provider's webhook hand each message to handleInboundEmail, which looks *)
(* its Message-ID up, finds the ticket it belongs to by the messages it    *)
(* refers to or by the number in its subject, writes a comment or a        *)
(* ticket, and only then the row that makes it known; the poller flags it  *)
(* as seen after that.                                                     *)
(*                                                                         *)
(* Every message has a Message-ID here and its sender is a requester; what *)
(* else Tickets.create and addComment do is left out.  The mailbox and the *)
(* provider are modelled by how the code uses them: an unseen mail is      *)
(* fetched again, a call without an answer is repeated.                    *)
(***************************************************************************)
EXTENDS Naturals, Sequences

CONSTANTS
  Mails,        \* messages that come in
  Outgoing,     \* messages about tickets that go out
  Headers,      \* Headers[m]: In-Reply-To and References of m, nearest first
  Tokened,      \* mails whose subject kept the ticket number of the outgoing mail they answer
  Sender,       \* Sender[m]: who wrote m
  MailTickets,  \* 1..n: tickets that mails may open
  NoMail,
  Couriers,     \* "imap", "webhook"
  MaxFilings,   \* bound: comments and tickets made from one mail
  MailFeatures  \* events the instance exercises

ASSUME MailAssumption ==
  /\ Headers \in [Mails -> Seq(Mails \cup Outgoing)] /\ Mails \cap Outgoing = {}
  /\ NoMail \notin Mails \cup Outgoing
  /\ Tokened \subseteq Mails /\ MailTickets \subseteq Nat \ {0} /\ MaxFilings \in Nat
  /\ DOMAIN Sender = Mails

VARIABLES
  arrived,    \* mails that were delivered to us
  flagged,    \* those the mailbox counts as seen or the provider as accepted
  known,      \* known[m]: ticket of the email_messages row of m, 0 without one
  filed,      \* filed[m]: tickets and comments made from m, one for each time
  opener,     \* opener[t]: the mail that opened ticket t
  discarded,  \* tickets that were soft deleted
  about,      \* about[o]: ticket of outgoing mail o, 0 before it is sent
  batch,      \* what is left of the page of unseen mails
  courier     \* courier[k]: the mail k is handling and how far it is

mailVars == <<arrived, flagged, known, filed, opener, discarded, about, batch, courier>>

NoTask == [op |-> "idle", m |-> NoMail, t |-> 0]

Opened == {t \in MailTickets : opener[t] # NoMail}

(***************************************************************************)
(* Threading                                                               *)
(***************************************************************************)
(* The ticket of the nearest message that is known and not deleted. *)
ByHeader(m) ==
  LET hits == {i \in DOMAIN Headers[m] :
                 known[Headers[m][i]] # 0 /\ known[Headers[m][i]] \notin discarded}
  IN  {known[Headers[m][i]] : i \in {j \in hits : \A k \in hits : j <= k}}

(* The ticket whose number the subject kept. *)
BySubject(m) ==
  {t \in MailTickets : m \in Tokened
     /\ \E i \in DOMAIN Headers[m] : Headers[m][i] \in Outgoing /\ about[Headers[m][i]] = t}

(* The ticket the sender may write to: the requester's own. *)
MayComment(m, t) == t \notin discarded /\ Sender[opener[t]] = Sender[m]

(***************************************************************************)
(* The outside: mails, tickets                                             *)
(***************************************************************************)
Arrive(m) ==
  /\ m \notin arrived
  /\ \A i \in DOMAIN Headers[m] : Headers[m][i] \in Outgoing => about[Headers[m][i]] # 0
  /\ arrived' = arrived \cup {m}
  /\ UNCHANGED <<flagged, known, filed, opener, discarded, about, batch, courier>>

(* A mail about t goes out; its row is written after it, or never. *)
SendOut(o, t) ==
  /\ about[o] = 0 /\ t \in Opened \ discarded
  /\ about' = [about EXCEPT ![o] = t]
  /\ \/ known' = [known EXCEPT ![o] = t]
     \/ "unrecorded" \in MailFeatures /\ UNCHANGED known
  /\ UNCHANGED <<arrived, flagged, filed, opener, discarded, batch, courier>>

DiscardTicket(t) ==
  /\ "delete" \in MailFeatures
  /\ t \in Opened \ discarded
  /\ discarded' = discarded \cup {t}
  /\ UNCHANGED <<arrived, flagged, known, filed, opener, about, batch, courier>>

(***************************************************************************)
(* pollOnce and handleInboundEmail                                         *)
(***************************************************************************)
FetchUnseen ==
  /\ "imap" \in Couriers
  /\ batch = {} /\ courier["imap"] = NoTask
  /\ arrived \ flagged # {}
  /\ batch' = arrived \ flagged
  /\ UNCHANGED <<arrived, flagged, known, filed, opener, discarded, about, courier>>

TakeAgain(k, m) ==   \* wrong variant: the Message-ID is not looked up
  /\ courier[k] = NoTask
  /\ m \in (IF k = "imap" THEN batch ELSE arrived \ flagged)
  /\ courier' = [courier EXCEPT ![k] = [op |-> "thread", m |-> m, t |-> 0]]
  /\ batch' = IF k = "imap" THEN batch \ {m} ELSE batch
  /\ UNCHANGED <<arrived, flagged, known, filed, opener, discarded, about>>

Take(k, m) ==
  /\ courier[k] = NoTask
  /\ m \in (IF k = "imap" THEN batch ELSE arrived \ flagged)
  /\ courier' = [courier EXCEPT ![k] = [op |-> IF known[m] # 0 THEN "flag" ELSE "thread",
                                        m |-> m, t |-> 0]]
  /\ batch' = IF k = "imap" THEN batch \ {m} ELSE batch
  /\ UNCHANGED <<arrived, flagged, known, filed, opener, discarded, about>>

Doing(k, op) == k \in Couriers /\ courier[k].op = op

Goes(k, op, t) == courier' = [courier EXCEPT ![k].op = op, ![k].t = t]

Thread(k) ==
  /\ Doing(k, "thread")
  /\ LET m == courier[k].m
     IN  \/ \E t \in ByHeader(m) : Goes(k, "comment", t)
         \/ ByHeader(m) = {} /\ \E t \in BySubject(m) \ discarded : Goes(k, "comment", t)
         \/ ByHeader(m) = {} /\ BySubject(m) = {} /\ Goes(k, "open", 0)
  /\ UNCHANGED <<arrived, flagged, known, filed, opener, discarded, about, batch>>

FileComment(k) ==
  /\ Doing(k, "comment")
  /\ MayComment(courier[k].m, courier[k].t)
  /\ Len(filed[courier[k].m]) < MaxFilings
  /\ filed' = [filed EXCEPT ![courier[k].m] = Append(@, courier[k].t)]
  /\ Goes(k, "record", courier[k].t)
  /\ UNCHANGED <<arrived, flagged, known, opener, discarded, about, batch>>

OpenTicketUnsaved(k, t) ==   \* wrong variant: the ticket is not created
  /\ Doing(k, "open")
  /\ t \notin Opened
  /\ filed' = [filed EXCEPT ![courier[k].m] = Append(@, t)]
  /\ Goes(k, "record", t)
  /\ UNCHANGED <<arrived, flagged, known, opener, discarded, about, batch>>

OpenTicket(k, t) ==
  /\ Doing(k, "open")
  /\ t \notin Opened
  /\ opener' = [opener EXCEPT ![t] = courier[k].m]
  /\ filed' = [filed EXCEPT ![courier[k].m] = Append(@, t)]
  /\ Goes(k, "record", t)
  /\ UNCHANGED <<arrived, flagged, known, discarded, about, batch>>

(* An upsert: the row that is there first stays.  A failure is swallowed. *)
RecordMail(k) ==
  /\ Doing(k, "record")
  /\ \/ known' = [known EXCEPT ![courier[k].m] = IF @ = 0 THEN courier[k].t ELSE @]
     \/ "unrecorded" \in MailFeatures /\ UNCHANGED known
  /\ Goes(k, "flag", courier[k].t)
  /\ UNCHANGED <<arrived, flagged, filed, opener, discarded, about, batch>>

FlagSeen(k) ==
  /\ Doing(k, "flag")
  /\ flagged' = flagged \cup {courier[k].m}
  /\ courier' = [courier EXCEPT ![k] = NoTask]
  /\ UNCHANGED <<arrived, known, filed, opener, discarded, about, batch>>

Refused(k) ==
  LET m == courier[k].m
  IN  \/ Doing(k, "thread") /\ ByHeader(m) = {}
         /\ BySubject(m) # {} /\ BySubject(m) \subseteq discarded
      \/ Doing(k, "comment") /\ ~MayComment(m, courier[k].t)

FailMailAndStop(k) ==   \* wrong variant: a mail that is rejected ends the poll
  /\ Refused(k)
  /\ courier' = [courier EXCEPT ![k] = NoTask] /\ batch' = {}
  /\ UNCHANGED <<arrived, flagged, known, filed, opener, discarded, about>>

(* NotFound or Forbidden: the mail stays unseen and is fetched again. *)
FailMail(k) ==
  /\ Refused(k)
  /\ courier' = [courier EXCEPT ![k] = NoTask]
  /\ UNCHANGED <<arrived, flagged, known, filed, opener, discarded, about, batch>>

MailCrash ==
  /\ "crash" \in MailFeatures
  /\ \E k \in Couriers : courier[k] # NoTask
  /\ courier' = [k \in Couriers |-> NoTask] /\ batch' = {}
  /\ UNCHANGED <<arrived, flagged, known, filed, opener, discarded, about>>

(***************************************************************************)
(* The specification                                                       *)
(***************************************************************************)
MailInit ==
  /\ arrived = {} /\ flagged = {} /\ discarded = {} /\ batch = {}
  /\ known = [m \in Mails \cup Outgoing |-> 0]
  /\ filed = [m \in Mails |-> <<>>]
  /\ opener = [t \in MailTickets |-> NoMail]
  /\ about = [o \in Outgoing |-> 0]
  /\ courier = [k \in Couriers |-> NoTask]

MailWork(k) ==
  \/ \E m \in Mails : Take(k, m)
  \/ Thread(k) \/ FileComment(k) \/ RecordMail(k) \/ FlagSeen(k) \/ FailMail(k)
  \/ \E t \in MailTickets : OpenTicket(k, t)

MailNext ==
  \/ \E m \in Mails : Arrive(m)
  \/ \E t \in MailTickets : DiscardTicket(t) \/ \E o \in Outgoing : SendOut(o, t)
  \/ FetchUnseen
  \/ \E k \in Couriers : MailWork(k)
  \/ MailCrash

MailSpec == MailInit /\ [][MailNext]_mailVars

(* setInterval polls, and a poll goes through its page. *)
MailFairSpec == MailSpec /\ WF_mailVars(FetchUnseen) /\ WF_mailVars(MailWork("imap"))

(***************************************************************************)
(* Properties                                                              *)
(***************************************************************************)
\* Rows and couriers have their shape; what is handled has arrived, and a
\* ticket that mails point to was opened.
MailTypeOK ==
  /\ arrived \subseteq Mails /\ flagged \subseteq arrived /\ batch \subseteq arrived
  /\ known \in [Mails \cup Outgoing -> {0} \cup Opened]
  /\ filed \in [Mails -> Seq(Opened)]
  /\ opener \in [MailTickets -> Mails \cup {NoMail}] /\ discarded \subseteq Opened
  /\ about \in [Outgoing -> {0} \cup Opened]
  /\ courier \in [Couriers -> [op : {"idle", "thread", "comment", "open", "record", "flag"},
                               m : arrived \cup {NoMail}, t : {0} \cup Opened]]

\* Once the row of a mail is there, the mail becomes no second ticket or
\* comment, however often a restart makes the poller fetch it again (one
\* courier).
RowEndsFiling == [][\A m \in Mails : known[m] # 0 => filed'[m] = filed[m]]_mailVars

(* A mail that handleInboundEmail rejects however often it comes. *)
Unwelcome(m) ==
  \E t \in BySubject(m) \cup ByHeader(m) : ~MayComment(m, t)

\* Every mail that arrives is filed, however many others are rejected again and
\* again, unless it is one of those (no crash).
MailIsFiled ==
  \A m \in Mails : (m \in arrived) ~> (filed[m] # <<>> \/ Unwelcome(m))
=============================================================================
