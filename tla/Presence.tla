------------------------------ MODULE Presence ------------------------------
(***************************************************************************)
(* Who else has a ticket open.  The page of each viewer sends a heartbeat  *)
(* when it opens or changes its mode, and at every interval after that;    *)
(* the server keeps the entries of one ticket in Redis, as a key per user  *)
(* that expires and an index of users, and answers with the peers it       *)
(* finds.  The first call that fails makes the process use its memory from *)
(* then on.  A page that changes its mode also sends the `leave` of the    *)
(* old mode, and nothing orders the two requests.                          *)
(*                                                                         *)
(* Redis and the connection to it are modelled by how the code uses them.  *)
(* Time is counted in intervals of the page.                               *)
(***************************************************************************)
EXTENDS Naturals, FiniteSets

CONSTANTS
  Viewers,           \* users that may open the ticket
  PageModes,         \* "viewing", "composing"
  Calls,          \* bound: requests on their way or being handled
  KeyLife,           \* intervals a key outlives (TTL_SECONDS)
  StaleAge,          \* intervals an entry in memory counts for (STALE_MS)
  PresenceFeatures   \* "list", "redis_down", "restart"

ASSUME PresenceAssumption ==
  PageModes \subseteq {"viewing", "composing"} /\ KeyLife \in Nat /\ StaleAge \in Nat

VARIABLES
  viewer,   \* viewer[u]: "away", or the mode of u's page
  due,      \* pages that have a heartbeat to send
  shown,    \* shown[u]: the peers on u's page
  keys,     \* keys[u]: the Redis key of u
  index,    \* the Redis set of users
  redisUp,  \* Redis answers
  conn,     \* status of the client: "idle", "connecting", "ready"
  failed,   \* redisFailed
  memory,   \* memory[u]: the entry of the fallback
  request   \* request[r]: one request

presenceVars == <<viewer, due, shown, keys, index, redisUp, conn, failed, memory, request>>

NoEntry == [mode |-> "none", age |-> 0]

NoRequest == [kind |-> "none", op |-> "idle", u |-> {}, mode |-> "none", live |-> FALSE,
              ids |-> {}, peers |-> {}]

Request(kind, u, mode) ==
  [NoRequest EXCEPT !.kind = kind, !.op = "call", !.u = {u}, !.mode = mode, !.live = TRUE]

FreeSlot(r) == request[r] = NoRequest

(***************************************************************************)
(* The page                                                                *)
(***************************************************************************)
(* The old effect is cleaned up: its answers count no more, it says goodbye
   and the new one, if any, sends a heartbeat. *)
SwitchMode(r, u, mode) ==
  /\ FreeSlot(r) /\ viewer[u] # mode
  /\ viewer' = [viewer EXCEPT ![u] = mode]
  /\ due' = IF mode = "away" THEN due \ {u} ELSE due \cup {u}
  /\ shown' = IF mode = "away" THEN [shown EXCEPT ![u] = {}] ELSE shown
  /\ request' = [q \in Calls |->
       IF q = r /\ viewer[u] # "away" THEN Request("leave", u, "none")
       ELSE IF request[q].u = {u} THEN [request[q] EXCEPT !.live = FALSE] ELSE request[q]]
  /\ UNCHANGED <<keys, index, redisUp, conn, failed, memory>>

SendBeat(r, u) ==
  /\ FreeSlot(r) /\ u \in due
  /\ request' = [request EXCEPT ![r] = Request("beat", u, viewer[u])]
  /\ due' = due \ {u}
  /\ UNCHANGED <<viewer, shown, keys, index, redisUp, conn, failed, memory>>

SendList(r, u) ==
  /\ "list" \in PresenceFeatures
  /\ FreeSlot(r)
  /\ request' = [request EXCEPT ![r] = Request("list", u, "none")]
  /\ UNCHANGED <<viewer, due, shown, keys, index, redisUp, conn, failed, memory>>

Older(entry, life) ==
  IF entry = NoEntry \/ entry.age >= life THEN NoEntry ELSE [entry EXCEPT !.age = @ + 1]

(* An interval passes, and requests are answered within one.  Redis forgets
   the keys that have outlived theirs, and the index with the last of them. *)
IntervalPasses ==
  /\ due = {} /\ \A r \in Calls : FreeSlot(r)
  /\ due' = {u \in Viewers : viewer[u] # "away"}
  /\ keys' = [u \in Viewers |-> Older(keys[u], KeyLife)]
  /\ index' = IF \A u \in Viewers : keys'[u] = NoEntry THEN {} ELSE index
  /\ memory' = [u \in Viewers |->
       IF memory[u] # NoEntry /\ memory[u].age <= StaleAge
       THEN [memory[u] EXCEPT !.age = @ + 1] ELSE memory[u]]
  /\ UNCHANGED <<viewer, shown, redisUp, conn, failed, request>>

(***************************************************************************)
(* withRedis                                                               *)
(***************************************************************************)
FirstOp(kind) == IF kind = "beat" THEN "set" ELSE IF kind = "list" THEN "members" ELSE "delete"

Step(r, op) == request' = [request EXCEPT ![r].op = op]

GetRedis(r) ==
  /\ request[r].op = "call"
  /\ CASE failed -> Step(r, "fallback") /\ UNCHANGED <<conn, failed>>
       [] ~failed /\ conn = "ready" -> Step(r, FirstOp(request[r].kind)) /\ UNCHANGED <<conn, failed>>
       [] ~failed /\ conn = "idle" -> Step(r, "connect") /\ conn' = "connecting" /\ UNCHANGED failed
       \* the client refuses a second connect()
       [] ~failed /\ conn = "connecting" -> Step(r, "fallback") /\ failed' = TRUE /\ UNCHANGED conn
  /\ UNCHANGED <<viewer, due, shown, keys, index, redisUp, memory>>

Connected(r) ==
  /\ request[r].op = "connect" /\ redisUp
  /\ conn' = "ready"
  /\ Step(r, FirstOp(request[r].kind))
  /\ UNCHANGED <<viewer, due, shown, keys, index, redisUp, failed, memory>>

(* Whatever fails, the latch stays. *)
RedisFails(r) ==
  /\ request[r].op \in {"connect", "set", "members", "values", "clean", "delete"}
  /\ ~redisUp
  /\ failed' = TRUE
  /\ Step(r, "fallback")
  /\ UNCHANGED <<viewer, due, shown, keys, index, redisUp, conn, memory>>

(***************************************************************************)
(* heartbeat, list and leave                                               *)
(***************************************************************************)
(* The page takes the answer unless it has cleaned that effect up. *)
Reply(r, ps) ==
  /\ request' = [request EXCEPT ![r] = NoRequest]
  /\ shown' = [u \in Viewers |->
       IF request[r].kind = "beat" /\ request[r].u = {u} /\ request[r].live
       THEN ps ELSE shown[u]]

SetKeyAlone(r) ==   \* wrong variant: the index is forgotten
  /\ request[r].op = "set" /\ redisUp
  /\ keys' = [u \in Viewers |->
       IF u \in request[r].u THEN [mode |-> request[r].mode, age |-> 0] ELSE keys[u]]
  /\ Step(r, "members")
  /\ UNCHANGED <<viewer, due, shown, index, redisUp, conn, failed, memory>>

SetKey(r) ==
  /\ request[r].op = "set" /\ redisUp
  /\ keys' = [u \in Viewers |->
       IF u \in request[r].u THEN [mode |-> request[r].mode, age |-> 0] ELSE keys[u]]
  /\ index' = index \cup request[r].u
  /\ Step(r, "members")
  /\ UNCHANGED <<viewer, due, shown, redisUp, conn, failed, memory>>

Members(r) ==
  /\ request[r].op = "members" /\ redisUp
  /\ IF index = {} THEN Reply(r, {})
     ELSE /\ request' = [request EXCEPT ![r].op = "values", ![r].ids = index]
          /\ UNCHANGED shown
  /\ UNCHANGED <<viewer, due, keys, index, redisUp, conn, failed, memory>>

(* Those in the index without a key are stale. *)
Values(r) ==
  /\ request[r].op = "values" /\ redisUp
  /\ LET found == {v \in request[r].ids : keys[v] # NoEntry}
         ps == {<<v, keys[v].mode>> : v \in found \ request[r].u}
     IN  IF found = request[r].ids THEN Reply(r, ps)
         ELSE /\ request' = [request EXCEPT ![r].op = "clean", ![r].ids = @ \ found,
                                            ![r].peers = ps]
              /\ UNCHANGED shown
  /\ UNCHANGED <<viewer, due, keys, index, redisUp, conn, failed, memory>>

Clean(r) ==
  /\ request[r].op = "clean" /\ redisUp
  /\ keys' = [u \in Viewers |-> IF u \in request[r].ids THEN NoEntry ELSE keys[u]]
  /\ index' = index \ request[r].ids
  /\ Reply(r, request[r].peers)
  /\ UNCHANGED <<viewer, due, redisUp, conn, failed, memory>>

DeleteKey(r) ==
  /\ request[r].op = "delete" /\ redisUp
  /\ keys' = [u \in Viewers |-> IF u \in request[r].u THEN NoEntry ELSE keys[u]]
  /\ index' = index \ request[r].u
  /\ Step(r, "fallback")
  /\ UNCHANGED <<viewer, due, shown, redisUp, conn, failed, memory>>

FallbackReads(r) ==   \* wrong variant: a heartbeat leaves no entry in the memory
  /\ request[r].op = "fallback"
  /\ Reply(r, {<<v, memory[v].mode>> : v \in {w \in Viewers : memory[w] # NoEntry} \ request[r].u})
  /\ UNCHANGED <<viewer, due, keys, index, redisUp, conn, failed, memory>>

(* The part of a handler that uses the memory; a leave always comes here. *)
Fallback(r) ==
  /\ request[r].op = "fallback"
  /\ LET u == request[r].u
         put == [v \in Viewers |->
                   IF v \in u /\ request[r].kind = "beat" THEN [mode |-> request[r].mode, age |-> 0]
                   ELSE IF v \in u /\ request[r].kind = "leave" THEN NoEntry
                   ELSE memory[v]]
         kept == [v \in Viewers |-> IF put[v].age > StaleAge THEN NoEntry ELSE put[v]]
     IN  /\ memory' = IF request[r].kind = "leave" THEN put ELSE kept
         /\ Reply(r, {<<v, kept[v].mode>> : v \in {w \in Viewers : kept[w] # NoEntry} \ u})
  /\ UNCHANGED <<viewer, due, keys, index, redisUp, conn, failed>>

(***************************************************************************)
(* Failures                                                                *)
(***************************************************************************)
RedisStops ==
  /\ "redis_down" \in PresenceFeatures
  /\ redisUp /\ redisUp' = FALSE
  /\ keys' = [u \in Viewers |-> NoEntry] /\ index' = {}
  /\ UNCHANGED <<viewer, due, shown, conn, failed, memory, request>>

PresenceRestart ==
  /\ "restart" \in PresenceFeatures
  /\ memory' = [u \in Viewers |-> NoEntry]
  /\ failed' = FALSE /\ conn' = "idle"
  /\ request' = [r \in Calls |-> NoRequest]
  /\ UNCHANGED <<viewer, due, shown, keys, index, redisUp>>

(***************************************************************************)
(* The specification                                                       *)
(***************************************************************************)
PresenceInit ==
  /\ viewer = [u \in Viewers |-> "away"] /\ due = {}
  /\ shown = [u \in Viewers |-> {}]
  /\ keys = [u \in Viewers |-> NoEntry] /\ index = {}
  /\ redisUp = TRUE /\ conn = "idle" /\ failed = FALSE
  /\ memory = [u \in Viewers |-> NoEntry]
  /\ request = [r \in Calls |-> NoRequest]

Handle(r) ==
  \/ GetRedis(r) \/ Connected(r) \/ RedisFails(r)
  \/ SetKey(r) \/ Members(r) \/ Values(r) \/ Clean(r) \/ DeleteKey(r) \/ Fallback(r)

PresenceNext ==
  \/ \E u \in Viewers, r \in Calls :
       \/ \E mode \in {"away"} \cup PageModes : SwitchMode(r, u, mode)
       \/ SendBeat(r, u) \/ SendList(r, u)
  \/ \E r \in Calls : Handle(r)
  \/ IntervalPasses
  \/ RedisStops
  \/ PresenceRestart

PresenceSpec == PresenceInit /\ [][PresenceNext]_presenceVars

(***************************************************************************)
(* Properties                                                              *)
(***************************************************************************)
Entry(life) == {NoEntry} \cup [mode : PageModes, age : 0..life]

\* Entries and requests have their shape; a user with a key is in the index.
PresenceTypeOK ==
  /\ viewer \in [Viewers -> {"away"} \cup PageModes] /\ due \subseteq Viewers
  /\ shown \in [Viewers -> SUBSET (Viewers \X PageModes)]
  /\ keys \in [Viewers -> Entry(KeyLife)] /\ memory \in [Viewers -> Entry(StaleAge + 1)]
  /\ index \subseteq Viewers /\ \A u \in Viewers : keys[u] # NoEntry => u \in index
  /\ redisUp \in BOOLEAN /\ failed \in BOOLEAN /\ conn \in {"idle", "connecting", "ready"}
  /\ request \in [Calls ->
       [kind : {"none", "beat", "list", "leave"},
        op : {"idle", "call", "connect", "set", "members", "values", "clean", "delete", "fallback"},
        u : SUBSET Viewers, mode : {"none"} \cup PageModes, live : BOOLEAN,
        ids : SUBSET Viewers, peers : SUBSET (Viewers \X PageModes)]]
  /\ \A u \in Viewers : \A p \in shown[u] : p[1] # u

\* Two people who stay on a ticket come to see each other, each in the mode the
\* other is in, although a goodbye may overtake a heartbeat, a cleaning may
\* remove a fresh entry, and a failure may split the entries over two stores.
PeersMeet == \A u, v \in Viewers : \A mu, mv \in PageModes :
  u # v => (<>[](viewer[u] = mu /\ viewer[v] = mv) /\ <>[][~PresenceRestart]_presenceVars
              => <>[](<<v, mv>> \in shown[u]))
=============================================================================
