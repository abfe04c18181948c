------------------------------ MODULE Webhooks ------------------------------
(***************************************************************************)
(* Outgoing webhooks and their delivery log.  An event is posted to every  *)
(* active endpoint that subscribed to it, all at the same time and without *)
(* a wait by whoever caused it; whatever the answer, a delivery writes its *)
(* row and then trims the log of the endpoint to the newest rows, in two   *)
(* queries.                                                                *)
(*                                                                         *)
(* Left out: names, addresses, signatures, and the catalogue of events     *)
(* but for who subscribed to what.                                         *)
(***************************************************************************)
EXTENDS Naturals, FiniteSetsExt

CONSTANTS
  Endpoints,     \* rows of webhook_endpoints
  Events,        \* types of events
  Deliveries,    \* bound: deliveries of a behaviour
  KeepRows,      \* DELIVERIES_KEEP_PER_ENDPOINT
  HookFeatures   \* "overlap", "crash", "database"

ASSUME HooksAssumption == KeepRows \in Nat \ {0}

VARIABLES
  endpoint,  \* endpoint[e]: its row
  logRows,   \* logRows[e]: the rows of its deliveries, with their createdAt
  post       \* post[d]: where delivery d is

hookVars == <<endpoint, logRows, post>>

NoEndpoint == [state |-> "absent", types |-> {}]

Unsent == [op |-> "unsent", e |-> {}, keep |-> {}]

(* What d is doing, for endpoint e. *)
At(d, op, e) == post[d].op = op /\ e \in post[d].e

OnTheWay(d) == post[d].op \in {"post", "log", "find", "drop"}

MayBegin == "overlap" \in HookFeatures \/ \A d \in Deliveries : ~OnTheWay(d)

Moves(d, op) == post' = [post EXCEPT ![d].op = op]

(***************************************************************************)
(* Endpoints                                                               *)
(***************************************************************************)
CreateEndpoint(e, ts) ==
  /\ endpoint[e].state = "absent"
  /\ ts # {}
  /\ endpoint' = [endpoint EXCEPT ![e] = [state |-> "on", types |-> ts]]
  /\ UNCHANGED <<logRows, post>>

UpdateEndpoint(e, state, ts) ==
  /\ endpoint[e].state # "absent"
  /\ ts # {} /\ endpoint[e] # [state |-> state, types |-> ts]
  /\ endpoint' = [endpoint EXCEPT ![e] = [state |-> state, types |-> ts]]
  /\ UNCHANGED <<logRows, post>>

(* Its log goes with it, by a cascade. *)
DeleteEndpoint(e) ==
  /\ endpoint[e].state # "absent"
  /\ endpoint' = [endpoint EXCEPT ![e] = NoEndpoint]
  /\ logRows' = [logRows EXCEPT ![e] = {}]
  /\ UNCHANGED post

(***************************************************************************)
(* Deliveries                                                              *)
(***************************************************************************)
SetsOut(d, e) == [Unsent EXCEPT !.op = "post", !.e = {e}]

(* deliverAll: one delivery for each endpoint that wants the event. *)
EmitEvent(type) ==
  /\ MayBegin
  /\ LET wanted == {e \in Endpoints : endpoint[e].state = "on" /\ type \in endpoint[e].types}
     IN  /\ wanted # {}
         /\ \E of \in [wanted -> {d \in Deliveries : post[d] = Unsent}] :
              /\ \A e, f \in wanted : of[e] = of[f] => e = f
              /\ post' = [d \in Deliveries |->
                   IF \E e \in wanted : of[e] = d
                   THEN SetsOut(d, CHOOSE e \in wanted : of[e] = d) ELSE post[d]]
  /\ UNCHANGED <<endpoint, logRows>>

(* A ping goes to an endpoint that is off, too. *)
TestPing(d, e) ==
  /\ MayBegin
  /\ endpoint[e].state # "absent" /\ post[d] = Unsent
  /\ post' = [post EXCEPT ![d] = SetsOut(d, e)]
  /\ UNCHANGED <<endpoint, logRows>>

(* An answer, an error or the end of ten seconds: all are written down. *)
Answer(d) ==
  /\ post[d].op = "post"
  /\ Moves(d, "log")
  /\ UNCHANGED <<endpoint, logRows>>

(* A row is younger than those the endpoint has. *)
NextAt(e) == 1 + Max({0} \cup {row.at : row \in logRows[e]})

(* The row refers to its endpoint: it is refused once that is gone. *)
LogDelivery(d, e) ==
  /\ At(d, "log", e)
  /\ IF endpoint[e].state = "absent"
     THEN Moves(d, "lost") /\ UNCHANGED logRows
     ELSE /\ Moves(d, "find")
          /\ logRows' = [logRows EXCEPT ![e] = @ \cup {[d |-> d, at |-> NextAt(e)]}]
  /\ UNCHANGED endpoint

(* orderBy createdAt desc, take KeepRows: where there are as many. *)
NewestRows(rows, e) ==
  /\ rows \subseteq logRows[e] /\ Cardinality(rows) = KeepRows
  /\ \A row \in rows, older \in logRows[e] \ rows : older.at < row.at

FindNewestLate(d, e) ==   \* wrong variant: the log is trimmed one row too late
  /\ At(d, "find", e)
  /\ \/ Cardinality(logRows[e]) <= KeepRows + 1 /\ Moves(d, "done")
     \/ /\ Cardinality(logRows[e]) > KeepRows + 1
        /\ \E rows \in SUBSET logRows[e] :
             NewestRows(rows, e) /\ post' = [post EXCEPT ![d].op = "drop", ![d].keep = rows]
  /\ UNCHANGED <<endpoint, logRows>>

FindNewest(d, e) ==
  /\ At(d, "find", e)
  /\ \/ Cardinality(logRows[e]) < KeepRows /\ Moves(d, "done")
     \/ \E rows \in SUBSET logRows[e] :
          NewestRows(rows, e) /\ post' = [post EXCEPT ![d].op = "drop", ![d].keep = rows]
  /\ UNCHANGED <<endpoint, logRows>>

Drop(d, e) ==
  /\ At(d, "drop", e)
  /\ logRows' = [logRows EXCEPT ![e] = @ \cap post[d].keep]
  /\ post' = [post EXCEPT ![d].op = "done", ![d].keep = {}]
  /\ UNCHANGED endpoint

(* The database fails: a delivery that has written its row leaves the log
   untrimmed. *)
LogFails(d) ==
  /\ "database" \in HookFeatures
  /\ \/ post[d].op = "log" /\ Moves(d, "lost")
     \/ post[d].op \in {"find", "drop"}
        /\ post' = [post EXCEPT ![d].op = "cut", ![d].keep = {}]
  /\ UNCHANGED <<endpoint, logRows>>

HookCrash ==
  /\ "crash" \in HookFeatures
  /\ \E d \in Deliveries : OnTheWay(d)
  /\ post' = [d \in Deliveries |->
       IF ~OnTheWay(d) THEN post[d]
       ELSE [post[d] EXCEPT !.op = IF @ \in {"find", "drop"} THEN "cut" ELSE "lost", !.keep = {}]]
  /\ UNCHANGED <<endpoint, logRows>>

(***************************************************************************)
(* The specification                                                       *)
(***************************************************************************)
HooksInit ==
  /\ endpoint = [e \in Endpoints |-> NoEndpoint]
  /\ logRows = [e \in Endpoints |-> {}]
  /\ post = [d \in Deliveries |-> Unsent]

Deliver(d) ==
  Answer(d) \/ \E e \in Endpoints : LogDelivery(d, e) \/ FindNewest(d, e) \/ Drop(d, e)

HooksNext ==
  \/ \E e \in Endpoints :
       \/ \E ts \in SUBSET Events :
            CreateEndpoint(e, ts) \/ \E state \in {"on", "off"} : UpdateEndpoint(e, state, ts)
       \/ DeleteEndpoint(e)
       \/ \E d \in Deliveries : TestPing(d, e)
  \/ \E type \in Events : EmitEvent(type)
  \/ \E d \in Deliveries : Deliver(d) \/ LogFails(d)
  \/ HookCrash

HooksSpec == HooksInit /\ [][HooksNext]_hookVars

(***************************************************************************)
(* Properties                                                              *)
(***************************************************************************)
LogRow == [d : Deliveries, at : Nat]

\* Rows and deliveries have their shape: an endpoint that is gone has no log,
\* and what a delivery is about to keep is no more than a log may hold.
HooksTypeOK ==
  /\ endpoint \in [Endpoints -> [state : {"absent", "on", "off"}, types : SUBSET Events]]
  /\ logRows \in [Endpoints -> SUBSET LogRow]
  /\ post \in [Deliveries ->
       [op : {"unsent", "post", "log", "find", "drop", "done", "lost", "cut"},
        e : SUBSET Endpoints, keep : SUBSET LogRow]]
  /\ \A e \in Endpoints : endpoint[e].state = "absent" => logRows[e] = {}
  /\ \A d \in Deliveries :
       /\ Cardinality(post[d].e) <= 1 /\ (post[d].op = "unsent" <=> post[d].e = {})
       /\ Cardinality(post[d].keep) <= KeepRows

(* Deliveries that wrote a row and have not trimmed the log. *)
Trimming(e) ==
  {d \in Deliveries : e \in post[d].e /\ post[d].op \in {"find", "drop", "cut"}}

\* The log of an endpoint grows past its limit by no more than the deliveries
\* that are about to trim it or were stopped before they could.
LogBounded == \A e \in Endpoints :
  Cardinality(logRows[e]) <= KeepRows + Cardinality(Trimming(e))
=============================================================================
