---------------------------- MODULE HandlerProofs ----------------------------
(***************************************************************************)
(* Components whose HTTP handlers read rows, decide and write: the login   *)
(* with its sessions, second factor and lockout, the hierarchy of tickets, *)
(* presence, major incidents and the routing of new tickets; and the       *)
(* calendar that due times are computed with.  Handlers overlap in all of  *)
(* them; what is proved of the hierarchy with one linker at work says so.  *)
(***************************************************************************)
EXTENDS Login, TicketTree, Presence, Incidents, Routing, BusinessHours, FiniteSetTheorems,
        TLAPS

-----------------------------------------------------------------------------
(***************************************************************************)
(* Login.                                                                  *)
(***************************************************************************)

USE LoginAssumption DEF LoginAssumption

FailCount == 0..MaxFailed - 1

AccountRow ==
  [active : BOOLEAN, deleted : BOOLEAN, local : BOOLEAN, password : Nat,
   failed : FailCount, locked : BOOLEAN,
   mfa : BOOLEAN, secret : Nat, proved : Nat, newest : Nat]

LoginOps == {"idle", "count", "clear", "challenge", "session", "consume", "mark",
             "identity", "password", "reset", "revoke"} \cup MfaOps

LoginTask == [op : LoginOps, seen : SUBSET AccountRow, via : Challenges \cup {NoChallenge},
              token : SUBSET ResetTokens]

SessionRow == [state : {"none", "live", "revoked"}, password : Nat,
               via : Challenges \cup {NoChallenge}, late : BOOLEAN]

Slips == [lost : Nat, crossed : BOOLEAN, cut : BOOLEAN]

(* LoginTypeOK, with the rows that the handlers hold. *)
LoginShape ==
  /\ account \in AccountRow
  /\ misses \in Nat
  /\ challenge \in [Challenges -> [state : {"none", "open", "consumed", "expired"},
                                   kind : {"mfa_login", "entra_oauth"}, password : Nat]]
  /\ resetToken \in [ResetTokens -> {"none", "open", "used"}]
  /\ session \in [Sessions -> SessionRow]
  /\ slips \in Slips
  /\ handler \in [Handlers -> LoginTask]
  /\ \A r \in Handlers : handler[r].op \in {"consume", "mark", "identity"} => handler[r].via \in Challenges

LEMMA RestingIsTask == Resting \in LoginTask
BY DEF Resting, LoginTask, LoginOps

(* What a step leaves in the handler that took it. *)
LEMMA HandlerMoves ==
  ASSUME handler \in [Handlers -> LoginTask],
         \A r \in Handlers : handler[r].op \in {"consume", "mark", "identity"} => handler[r].via \in Challenges,
         NEW r \in Handlers, NEW f \in LoginTask,
         f.op \in {"consume", "mark", "identity"} => f.via \in Challenges,
         handler' = [handler EXCEPT ![r] = f]
  PROVE  /\ handler' \in [Handlers -> LoginTask]
         /\ \A q \in Handlers : handler'[q].op \in {"consume", "mark", "identity"} => handler'[q].via \in Challenges
BY DEF LoginTask

LEMMA LoginShapeStarts == LoginInit => LoginShape
<1> SUFFICES ASSUME LoginInit PROVE LoginShape
  OBVIOUS
<1>1. account \in AccountRow
  <2>1. 0 \in FailCount
    BY DEF FailCount
  <2> QED BY <2>1 DEF LoginInit, AccountRow
<1>2. handler \in [Handlers -> LoginTask] /\ \A r \in Handlers : handler[r].op = "idle"
  BY RestingIsTask DEF LoginInit, Resting
<1> QED BY <1>1, <1>2 DEF LoginInit, LoginShape, Unissued, NoSession, SessionRow, NoSlips, Slips

LEMMA LoginShapeKept == LoginShape /\ [LoginNext]_loginVars => LoginShape'
<1> SUFFICES ASSUME LoginShape, [LoginNext]_loginVars PROVE LoginShape'
  OBVIOUS
<1> USE DEF LoginShape
<1>z. 0 \in FailCount
  BY DEF FailCount
<1>h. ASSUME NEW r \in Handlers, NEW f \in LoginTask,
             f.op \in {"consume", "mark", "identity"} => f.via \in Challenges,
             handler' = [handler EXCEPT ![r] = f],
             account' \in AccountRow, misses' \in Nat, slips' \in Slips,
             UNCHANGED <<challenge, resetToken, session>>
      PROVE  LoginShape'
  BY <1>h, HandlerMoves
<1>p. ASSUME NEW r \in Handlers, NEW op \in LoginOps \ {"consume", "mark", "identity"}
      PROVE  [handler[r] EXCEPT !.op = op] \in LoginTask
  BY <1>p DEF LoginTask
<1>q. ASSUME NEW op \in LoginOps
      PROVE  [Resting EXCEPT !.op = op, !.seen = {account}] \in LoginTask
  BY <1>q DEF LoginTask, Resting
<1>1. ASSUME NEW r \in Handlers, NEW op \in LoginOps \ {"consume", "mark", "identity"},
             Reads(r, op), account' \in AccountRow, UNCHANGED <<misses, challenge, resetToken, session, slips>>
      PROVE  LoginShape'
  <2>1. PICK f \in LoginTask : f = [Resting EXCEPT !.op = op, !.seen = {account}]
    BY <1>q
  <2>2. f.op = op
    BY <2>1 DEF Resting
  <2>3. handler' = [handler EXCEPT ![r] = f] /\ misses' \in Nat
    BY <1>1, <2>1 DEF Reads
  <2> QED BY <1>1, <1>h, <2>2, <2>3
<1>2. ASSUME NEW r \in Handlers, NEW op \in LoginOps \ {"consume", "mark", "identity"},
             Proceeds(r, op), account' \in AccountRow, misses' \in Nat, slips' \in Slips,
             UNCHANGED <<challenge, resetToken, session>>
      PROVE  LoginShape'
  <2>1. PICK f \in LoginTask : f = [handler[r] EXCEPT !.op = op]
    BY <1>p
  <2>2. f.op = op
    BY <2>1 DEF LoginTask
  <2>3. handler' = [handler EXCEPT ![r] = f]
    BY <1>2, <2>1 DEF Proceeds
  <2> QED BY <1>2, <1>h, <2>2, <2>3
<1>3. ASSUME NEW r \in Handlers, Rests(r)
      PROVE  /\ handler' \in [Handlers -> LoginTask]
             /\ \A q \in Handlers : handler'[q].op \in {"consume", "mark", "identity"} => handler'[q].via \in Challenges
  <2>1. Resting.op = "idle"
    BY DEF Resting
  <2> QED BY <1>3, <2>1, RestingIsTask, HandlerMoves DEF Rests
<1>c. [slips EXCEPT !.lost = 0] \in Slips
  BY DEF Slips
<1>4. ASSUME NEW r \in Handlers, NEW right \in BOOLEAN, BeginLogin(r, right) PROVE LoginShape'
  <2>1. PICK op \in {"clear", "count"} : Reads(r, op)
    BY <1>4 DEF BeginLogin
  <2> QED BY <1>1, <1>4, <2>1 DEF BeginLogin, LoginOps
<1>5. ASSUME NEW r \in Handlers, NEW row \in handler[r].seen, CountFailure(r, row) PROVE LoginShape'
  <2>1. row \in AccountRow /\ row.failed \in Nat
    BY DEF LoginTask, AccountRow, FailCount
  <2>2. PICK count \in Nat : count = row.failed + 1
    BY <2>1
  <2>5. account' \in AccountRow /\ misses' \in Nat
    <3>1. CASE count >= MaxFailed
      <4>1. account' = [account EXCEPT !.failed = 0, !.locked = TRUE] /\ misses' = 0
        BY <1>5, <2>2, <3>1 DEF CountFailure
      <4> QED BY <4>1, <1>z DEF AccountRow
    <3>2. CASE ~(count >= MaxFailed)
      <4>1. account' = [account EXCEPT !.failed = count] /\ misses' \in Nat
        BY <1>5, <2>2, <3>2 DEF CountFailure
      <4>2. count \in FailCount
        BY <3>2 DEF FailCount
      <4> QED BY <4>1, <4>2 DEF AccountRow
    <3> QED BY <3>1, <3>2
  <2>6. slips' \in Slips
    <3>1. \A k \in FailCount : row.failed < k => k - row.failed \in Nat
      BY <2>1 DEF FailCount
    <3>2. account.failed \in FailCount /\ slips.lost \in Nat
      BY DEF AccountRow, Slips
    <3>3. PICK lost \in Nat : slips' = [slips EXCEPT !.lost = lost]
      <4>1. CASE row.failed + 1 >= MaxFailed
        BY <1>5, <4>1 DEF CountFailure
      <4>2. CASE ~(row.failed + 1 >= MaxFailed) /\ row.failed < account.failed
        <5>1. slips' = [slips EXCEPT !.lost = slips.lost + (account.failed - row.failed)]
          BY <1>5, <4>2 DEF CountFailure, Slips
        <5>2. slips.lost + (account.failed - row.failed) \in Nat
          BY <3>1, <3>2, <4>2
        <5> QED BY <5>1, <5>2
      <4>3. CASE ~(row.failed + 1 >= MaxFailed) /\ ~(row.failed < account.failed)
        <5>1. slips' = [slips EXCEPT !.lost = slips.lost]
          BY <1>5, <4>3 DEF CountFailure, Slips
        <5> QED BY <3>2, <5>1
      <4> QED BY <4>1, <4>2, <4>3
    <3> QED BY <3>3 DEF Slips
  <2> QED BY <1>3, <1>5, <2>5, <2>6 DEF CountFailure
<1>6. ASSUME NEW r \in Handlers, NEW row \in handler[r].seen, ClearFailures(r, row) PROVE LoginShape'
  <2>1. account' \in AccountRow /\ misses' \in Nat
    BY <1>6, <1>z DEF ClearFailures, AccountRow
  <2>2. PICK op \in {"challenge", "session"} : Proceeds(r, op)
    BY <1>6 DEF ClearFailures
  <2> QED BY <1>2, <1>6, <1>c, <2>1, <2>2 DEF ClearFailures, LoginOps
<1>7. ASSUME NEW r \in Handlers, NEW row \in handler[r].seen, NEW c \in Challenges, IssueChallenge(r, c, row) PROVE LoginShape'
  <2>1. row \in AccountRow /\ row.password \in Nat
    BY DEF LoginTask, AccountRow
  <2>2. NewChallenge("mfa_login", row.password) \in [state : {"none", "open", "consumed", "expired"},
                                   kind : {"mfa_login", "entra_oauth"}, password : Nat]
    BY <2>1 DEF NewChallenge
  <2> QED BY <1>3, <1>7, <2>2 DEF IssueChallenge
<1>8. ASSUME NEW r \in Handlers, NEW row \in handler[r].seen, NEW s \in Sessions, CreateSession(r, s, row) PROVE LoginShape'
  <2>1. row.password \in Nat /\ handler[r].via \in Challenges \cup {NoChallenge}
    BY DEF LoginTask, AccountRow
  <2>2. [state |-> "live", password |-> row.password, via |-> handler[r].via,
         late |-> row.password # account.password] \in SessionRow
    BY <2>1 DEF SessionRow
  <2> QED BY <1>3, <1>8, <2>2 DEF CreateSession
<1>9. ASSUME NEW r \in Handlers, NEW row \in handler[r].seen, handler[r].op \in MfaOps, WriteMfa(r, row) PROVE LoginShape'
  <2>1. row.secret \in Nat /\ account.newest + 1 \in Nat
    BY DEF LoginTask, AccountRow
  <2>2. account' \in AccountRow
    BY <1>9, <2>1 DEF WriteMfa, AccountRow, MfaOps
  <2>3. slips' \in Slips
    BY <1>9 DEF WriteMfa, Slips
  <2> QED BY <1>3, <1>9, <2>2, <2>3 DEF WriteMfa
<1>10. ASSUME NEW r \in Handlers, NEW c \in Challenges, BeginMfaLogin(r, c) \/ ReturnFromEntra(r, c) PROVE LoginShape'
  <2>1. CASE BeginMfaLogin(r, c)
    <3>1. PICK f : f = [Resting EXCEPT !.op = "consume", !.seen = {account}, !.via = c]
      OBVIOUS
    <3>2. f \in LoginTask /\ f.via \in Challenges
      BY <3>1 DEF LoginTask, LoginOps, Resting
    <3> QED BY <1>h, <2>1, <3>1, <3>2 DEF BeginMfaLogin
  <2>2. CASE ReturnFromEntra(r, c)
    <3>1. PICK f : f = [Resting EXCEPT !.op = "consume", !.via = c]
      OBVIOUS
    <3>2. f \in LoginTask /\ f.via \in Challenges
      BY <3>1 DEF LoginTask, LoginOps, Resting
    <3> QED BY <1>h, <2>2, <3>1, <3>2 DEF ReturnFromEntra
  <2> QED BY <1>10, <2>1, <2>2
<1>11. ASSUME NEW r \in Handlers, ReadConsume(r) PROVE LoginShape'
  <2>1. CASE Rests(r)
    BY <1>3, <1>11, <2>1 DEF ReadConsume
  <2>2. CASE Proceeds(r, "mark")
    <3>1. PICK f : f = [handler[r] EXCEPT !.op = "mark"]
      OBVIOUS
    <3>2. f \in LoginTask /\ f.via \in Challenges
      BY <1>11, <3>1 DEF LoginTask, LoginOps, ReadConsume
    <3>3. handler' = [handler EXCEPT ![r] = f]
      BY <2>2, <3>1 DEF Proceeds
    <3> QED BY <1>11, <1>h, <3>2, <3>3 DEF ReadConsume
  <2> QED BY <1>11, <2>1, <2>2 DEF ReadConsume
<1>12. ASSUME NEW r \in Handlers, MarkConsumed(r) PROVE LoginShape'
  <2>1. PICK op \in {"session", "identity"} : Proceeds(r, op)
    BY <1>12 DEF MarkConsumed
  <2>2. PICK f : f = [handler[r] EXCEPT !.op = op]
    OBVIOUS
  <2>3. f \in LoginTask /\ f.via \in Challenges /\ handler[r].via \in Challenges
    BY <1>12, <2>2 DEF LoginTask, LoginOps, MarkConsumed
  <2>4. handler' = [handler EXCEPT ![r] = f]
    BY <2>1, <2>2 DEF Proceeds
  <2>5. /\ handler' \in [Handlers -> LoginTask]
        /\ \A q \in Handlers : handler'[q].op \in {"consume", "mark", "identity"} => handler'[q].via \in Challenges
    BY <2>3, <2>4, HandlerMoves
  <2>6. challenge' \in [Challenges -> [state : {"none", "open", "consumed", "expired"},
                                   kind : {"mfa_login", "entra_oauth"}, password : Nat]]
    BY <1>12 DEF MarkConsumed
  <2> QED BY <1>12, <2>5, <2>6 DEF MarkConsumed
<1>13. ASSUME NEW r \in Handlers, AcceptIdentity(r) PROVE LoginShape'
  <2>1. account' \in AccountRow /\ misses' \in Nat
    BY <1>13, <1>z DEF AcceptIdentity, AccountRow
  <2>2. PICK f : f = IF account.active THEN [handler[r] EXCEPT !.op = "session", !.seen = {account}] ELSE Resting
    OBVIOUS
  <2>3. f \in LoginTask /\ f.op \in {"session", "idle"}
    BY <2>2, RestingIsTask DEF LoginTask, LoginOps, Resting
  <2>4. handler' = [handler EXCEPT ![r] = f]
    BY <1>13, <2>2 DEF AcceptIdentity
  <2> QED BY <1>13, <1>c, <1>h, <2>1, <2>3, <2>4 DEF AcceptIdentity
<1>14. ASSUME NEW r \in Handlers, BeginChangePassword(r) \/ BeginAdminReset(r) PROVE LoginShape'
  <2>1. PICK op \in {"password", "reset"} : Reads(r, op)
    BY <1>14 DEF BeginChangePassword, BeginAdminReset
  <2> QED BY <1>1, <1>14, <2>1 DEF BeginChangePassword, BeginAdminReset, LoginOps
<1>15. ASSUME NEW r \in Handlers, NEW k \in ResetTokens, BeginReset(r, k) PROVE LoginShape'
  <2>1. PICK f : f = [Resting EXCEPT !.op = "reset", !.token = {k}]
    OBVIOUS
  <2>2. f \in LoginTask /\ f.op = "reset"
    BY <2>1 DEF LoginTask, LoginOps, Resting
  <2> QED BY <1>15, <1>h, <2>1, <2>2 DEF BeginReset
<1>16. ASSUME NEW r \in Handlers, WritePassword(r) \/ ResetPassword(r) PROVE LoginShape'
  <2>1. account' \in AccountRow /\ misses' \in Nat
    <3>1. account.password + 1 \in Nat
      BY DEF AccountRow
    <3>2. CASE WritePassword(r)
      BY <3>1, <3>2 DEF WritePassword, AccountRow
    <3>3. CASE ResetPassword(r)
      BY <1>z, <3>1, <3>3 DEF ResetPassword, AccountRow
    <3> QED BY <1>16, <3>2, <3>3
  <2>2. resetToken' \in [ResetTokens -> {"none", "open", "used"}]
    BY <1>16 DEF WritePassword, ResetPassword
  <2>3. PICK f : f = [handler[r] EXCEPT !.op = "revoke"]
    OBVIOUS
  <2>4. f \in LoginTask /\ f.op = "revoke" /\ handler' = [handler EXCEPT ![r] = f]
    BY <1>16, <2>3 DEF LoginTask, LoginOps, WritePassword, ResetPassword, Proceeds
  <2>5. /\ handler' \in [Handlers -> LoginTask]
        /\ \A q \in Handlers : handler'[q].op \in {"consume", "mark", "identity"} => handler'[q].via \in Challenges
    BY <2>4, HandlerMoves
  <2> QED BY <1>16, <1>c, <2>1, <2>2, <2>5 DEF WritePassword, ResetPassword
<1>17. ASSUME NEW r \in Handlers, RevokeAll(r) PROVE LoginShape'
  <2>1. session' \in [Sessions -> SessionRow] /\ slips' \in Slips
    BY <1>17 DEF RevokeAll, SessionRow, Slips
  <2> QED BY <1>3, <1>17, <2>1 DEF RevokeAll
<1>18. ASSUME NEW r \in Handlers, NEW op \in MfaOps, BeginMfaChange(r, op) PROVE LoginShape'
  <2>1. op \in LoginOps \ {"consume", "mark", "identity"}
    BY DEF LoginOps, MfaOps
  <2> QED BY <1>1, <1>18, <2>1 DEF BeginMfaChange
<1>19. ASSUME NEW r \in Handlers, SoftDeleteUser(r) PROVE LoginShape'
  <2>1. account' \in AccountRow
    BY <1>19 DEF SoftDeleteUser, AccountRow
  <2>2. "revoke" \in LoginOps \ {"consume", "mark", "identity"}
    BY DEF LoginOps
  <2> QED BY <1>1, <1>19, <2>1, <2>2 DEF SoftDeleteUser
<1>20. ASSUME NEW c \in Challenges, BeginEntra(c) \/ ChallengeExpires(c) PROVE LoginShape'
  BY <1>20 DEF BeginEntra, ChallengeExpires, NewChallenge
<1>21. ASSUME NEW k \in ResetTokens, RequestReset(k) PROVE LoginShape'
  BY <1>21 DEF RequestReset
<1>22. ASSUME NEW s \in Sessions, Logout(s) PROVE LoginShape'
  BY <1>22 DEF Logout, SessionRow
<1>23. ASSUME NEW active \in BOOLEAN, SetUserActive(active) PROVE LoginShape'
  BY <1>23 DEF SetUserActive, AccountRow
<1>24. CASE LockEnds
  BY <1>24 DEF LockEnds, AccountRow
<1>25. CASE LoginCrash
  <2>1. handler' \in [Handlers -> LoginTask] /\ \A r \in Handlers : handler'[r].op = "idle"
    BY <1>25, RestingIsTask DEF LoginCrash, Resting
  <2>2. slips' \in Slips
    BY <1>25 DEF LoginCrash, Slips
  <2> QED BY <1>25, <2>1, <2>2 DEF LoginCrash
<1>26. CASE UNCHANGED loginVars
  BY <1>26 DEF loginVars
<1> QED
  BY <1>4, <1>5, <1>6, <1>7, <1>8, <1>9, <1>10, <1>11, <1>12, <1>13, <1>14, <1>15, <1>16, <1>17,
     <1>18, <1>19, <1>20, <1>21, <1>22, <1>23, <1>24, <1>25, <1>26 DEF LoginNext

(* Rows, challenges, sessions and handlers keep their shape, however many
   handlers overlap: the counter of failures stays below the limit. *)
THEOREM LoginTypeCorrect == LoginSpec => []LoginTypeOK
<1>1. LoginShape => LoginTypeOK
  <2> SUFFICES ASSUME LoginShape PROVE LoginTypeOK
    OBVIOUS
  <2>1. ASSUME NEW r \in Handlers PROVE handler[r].op \in LoginOps /\ \A row \in handler[r].seen : row.failed < MaxFailed
    BY DEF LoginShape, LoginTask, AccountRow, FailCount
  <2> QED BY <2>1 DEF LoginShape, LoginTypeOK, AccountRow, FailCount, LoginOps, SessionRow, Slips
<1> QED BY <1>1, LoginShapeStarts, LoginShapeKept, PTL DEF LoginSpec

(***************************************************************************)
(* Any number of handlers                                                  *)
(***************************************************************************)
(* The counter says how often the password was wrong, but for the failures
   that a write by an older read took back from it. *)
CountsAgree == misses <= account.failed + slips.lost

(* Whoever is about to switch the factor on has read a secret, and whoever is
   about to replace or drop the secret has found the factor off. *)
MfaReads(h) ==
  \A row \in h.seen :
    /\ h.op = "enable" => row.secret # 0
    /\ h.op \in {"setup", "cancel"} => ~row.mfa

SecretsAgree == MfaIsUsable /\ \A r \in Handlers : MfaReads(handler[r])

LEMMA LoginAgreesAtFirst == LoginInit => CountsAgree /\ SecretsAgree /\ PasswordEndsSessions
<1> SUFFICES ASSUME LoginInit PROVE CountsAgree /\ SecretsAgree /\ PasswordEndsSessions
  OBVIOUS
<1>1. CountsAgree /\ MfaIsUsable /\ PasswordEndsSessions
  BY DEF LoginInit, CountsAgree, MfaIsUsable, PasswordEndsSessions, NoSession, NoSlips
<1>2. MfaReads(Resting)
  BY DEF MfaReads, Resting
<1> QED BY <1>1, <1>2 DEF LoginInit, SecretsAgree

LEMMA CountsKept ==
  ASSUME LoginShape, CountsAgree, [LoginNext]_loginVars
  PROVE  CountsAgree'
<1> USE DEF CountsAgree
<1>t. /\ account \in AccountRow /\ account.failed \in Nat /\ misses \in Nat
      /\ slips \in Slips /\ slips.lost \in Nat /\ handler \in [Handlers -> LoginTask]
  BY DEF LoginShape, AccountRow, FailCount, Slips
<1>a. ASSUME misses' = misses, account'.failed = account.failed, slips'.lost = slips.lost
      PROVE  CountsAgree'
  BY <1>a
<1>b. ASSUME misses' = 0, account'.failed = 0, slips' = [slips EXCEPT !.lost = 0]
      PROVE  CountsAgree'
  BY <1>b, <1>t DEF Slips
<1>1. ASSUME NEW r \in Handlers, NEW row \in handler[r].seen, CountFailure(r, row) PROVE CountsAgree'
  <2>1. row.failed \in Nat
    BY <1>t DEF LoginTask, AccountRow, FailCount
  <2>2. PICK count \in Nat : count = row.failed + 1
    BY <2>1
  <2>3. CASE count >= MaxFailed
    <3>1. account' = [account EXCEPT !.failed = 0, !.locked = TRUE] /\ misses' = 0
          /\ slips' = [slips EXCEPT !.lost = 0]
      BY <1>1, <2>2, <2>3 DEF CountFailure
    <3>2. account'.failed = 0
      BY <3>1, <1>t DEF AccountRow
    <3> QED BY <1>b, <3>1, <3>2
  <2>4. CASE ~(count >= MaxFailed)
    <3>1. account' = [account EXCEPT !.failed = count] /\ misses' = misses + 1
      BY <1>1, <2>2, <2>4 DEF CountFailure
    <3>2. account'.failed = row.failed + 1
      BY <2>2, <3>1, <1>t DEF AccountRow
    <3>3. CASE row.failed < account.failed
      <4>1. slips' = [slips EXCEPT !.lost = slips.lost + (account.failed - row.failed)]
        BY <1>1, <1>t, <2>2, <2>4, <3>3 DEF CountFailure, Slips
      <4>2. slips'.lost = slips.lost + (account.failed - row.failed)
        BY <4>1, <1>t DEF Slips
      <4> QED BY <1>t, <2>1, <3>1, <3>2, <4>2
    <3>4. CASE ~(row.failed < account.failed)
      <4>1. slips' = [slips EXCEPT !.lost = slips.lost]
        BY <1>1, <1>t, <2>2, <2>4, <3>4 DEF CountFailure, Slips
      <4>2. slips'.lost = slips.lost
        BY <4>1, <1>t DEF Slips
      <4> QED BY <1>t, <2>1, <3>1, <3>2, <3>4, <4>2
    <3> QED BY <3>3, <3>4
  <2> QED BY <2>3, <2>4
<1>2. ASSUME NEW r \in Handlers, NEW row \in handler[r].seen, ClearFailures(r, row) PROVE CountsAgree'
  BY <1>b, <1>2, <1>t DEF ClearFailures, AccountRow
<1>3. ASSUME NEW r \in Handlers, AcceptIdentity(r) \/ ResetPassword(r) PROVE CountsAgree'
  BY <1>b, <1>3, <1>t DEF AcceptIdentity, ResetPassword, AccountRow
<1>4. ASSUME NEW r \in Handlers, NEW row \in handler[r].seen, handler[r].op \in MfaOps, WriteMfa(r, row)
      PROVE  CountsAgree'
  <2>1. account'.failed = account.failed /\ slips'.lost = slips.lost
    BY <1>4, <1>t DEF WriteMfa, AccountRow, MfaOps, Slips
  <2> QED BY <1>a, <1>4, <2>1 DEF WriteMfa
<1>5. ASSUME NEW r \in Handlers,
             \/ \E right \in BOOLEAN : BeginLogin(r, right)
             \/ \E row \in handler[r].seen, c \in Challenges : IssueChallenge(r, c, row)
             \/ \E row \in handler[r].seen, s \in Sessions : CreateSession(r, s, row)
             \/ \E c \in Challenges : BeginMfaLogin(r, c) \/ ReturnFromEntra(r, c)
             \/ ReadConsume(r) \/ MarkConsumed(r) \/ BeginChangePassword(r) \/ BeginAdminReset(r)
             \/ \E k \in ResetTokens : BeginReset(r, k)
             \/ \E op \in MfaOps : BeginMfaChange(r, op)
      PROVE  CountsAgree'
  <2>1. UNCHANGED <<account, misses, slips>>
    BY <1>5 DEF BeginLogin, IssueChallenge, CreateSession, BeginMfaLogin, ReturnFromEntra, ReadConsume,
         MarkConsumed, BeginChangePassword, BeginAdminReset, BeginReset, BeginMfaChange
  <2> QED BY <1>a, <2>1
<1>6. ASSUME NEW r \in Handlers, WritePassword(r) \/ RevokeAll(r) \/ SoftDeleteUser(r) PROVE CountsAgree'
  <2>1. account'.failed = account.failed /\ misses' = misses /\ slips'.lost = slips.lost
    BY <1>6, <1>t DEF WritePassword, RevokeAll, SoftDeleteUser, AccountRow, Slips
  <2> QED BY <1>a, <2>1
<1>7. CASE \/ \E c \in Challenges : BeginEntra(c) \/ ChallengeExpires(c)
           \/ \E k \in ResetTokens : RequestReset(k)
           \/ \E s \in Sessions : Logout(s)
           \/ UNCHANGED loginVars
  BY <1>a, <1>7 DEF BeginEntra, ChallengeExpires, RequestReset, Logout, loginVars
<1>8. CASE LockEnds \/ \E active \in BOOLEAN : SetUserActive(active)
  <2>1. account'.failed = account.failed /\ UNCHANGED <<misses, slips>>
    BY <1>8, <1>t DEF LockEnds, SetUserActive, AccountRow
  <2> QED BY <1>a, <2>1
<1>9. CASE LoginCrash
  BY <1>a, <1>9, <1>t DEF LoginCrash, Slips
<1> QED BY <1>1, <1>2, <1>3, <1>4, <1>5, <1>6, <1>7, <1>8, <1>9 DEF LoginNext

LEMMA SecretsKept ==
  ASSUME LoginShape, SecretsAgree, [LoginNext]_loginVars
  PROVE  SecretsAgree'
<1> USE DEF SecretsAgree
<1>t. account \in AccountRow /\ handler \in [Handlers -> LoginTask] /\ slips \in Slips
  BY DEF LoginShape
<1>r. MfaReads(Resting)
  BY DEF MfaReads, Resting
<1>n. ASSUME NEW h, h.op \notin MfaOps PROVE MfaReads(h)
  BY <1>n DEF MfaReads, MfaOps
<1>a. ASSUME account'.mfa = account.mfa, account'.secret = account.secret, account'.proved = account.proved,
             slips'.crossed = slips.crossed,
             NEW r \in Handlers, NEW f, MfaReads(f), handler' = [handler EXCEPT ![r] = f]
      PROVE  SecretsAgree'
  BY <1>a, <1>t DEF MfaIsUsable, MfaReads
<1>b. ASSUME account'.mfa = account.mfa, account'.secret = account.secret, account'.proved = account.proved,
             slips'.crossed = slips.crossed,
             NEW r \in Handlers, NEW op \in LoginOps \ MfaOps, Proceeds(r, op) \/ Reads(r, op) \/ Rests(r)
      PROVE  SecretsAgree'
  <2>1. PICK f : handler' = [handler EXCEPT ![r] = f]
                 /\ f \in {[handler[r] EXCEPT !.op = op],
                           [Resting EXCEPT !.op = op, !.seen = {account}], Resting}
    BY <1>b DEF Proceeds, Reads, Rests
  <2>2. f.op = op \/ f = Resting
    BY <2>1, <1>t DEF LoginTask, Resting
  <2>3. MfaReads(f)
    BY <2>2, <1>n, <1>r
  <2> QED BY <1>a, <1>b, <2>1, <2>3
<1>k. ASSUME UNCHANGED <<account, slips>>
      PROVE  /\ account'.mfa = account.mfa /\ account'.secret = account.secret
             /\ account'.proved = account.proved /\ slips'.crossed = slips.crossed
  BY <1>k
<1>o. {"idle", "count", "clear", "challenge", "session", "mark", "identity", "password", "reset", "revoke"}
        \subseteq LoginOps \ MfaOps
  BY DEF LoginOps, MfaOps
<1>1. ASSUME NEW r \in Handlers,
             \/ \E right \in BOOLEAN : BeginLogin(r, right)
             \/ \E row \in handler[r].seen, c \in Challenges : IssueChallenge(r, c, row)
             \/ \E row \in handler[r].seen, s \in Sessions : CreateSession(r, s, row)
             \/ ReadConsume(r) \/ MarkConsumed(r) \/ BeginChangePassword(r) \/ BeginAdminReset(r)
      PROVE  SecretsAgree'
  <2>1. UNCHANGED <<account, slips>>
    BY <1>1 DEF BeginLogin, IssueChallenge, CreateSession, ReadConsume, MarkConsumed,
         BeginChangePassword, BeginAdminReset
  <2>2. PICK op \in {"count", "clear", "session", "mark", "identity", "password", "reset"} :
          Proceeds(r, op) \/ Reads(r, op) \/ Rests(r)
    <3>1. CASE \E right \in BOOLEAN : BeginLogin(r, right)
      BY <3>1 DEF BeginLogin
    <3>2. CASE \/ \E row \in handler[r].seen, c \in Challenges : IssueChallenge(r, c, row)
               \/ \E row \in handler[r].seen, s \in Sessions : CreateSession(r, s, row)
      BY <3>2 DEF IssueChallenge, CreateSession
    <3>3. CASE ReadConsume(r) \/ MarkConsumed(r)
      BY <3>3 DEF ReadConsume, MarkConsumed
    <3>4. CASE BeginChangePassword(r) \/ BeginAdminReset(r)
      BY <3>4 DEF BeginChangePassword, BeginAdminReset
    <3> QED BY <1>1, <3>1, <3>2, <3>3, <3>4
  <2> QED BY <1>b, <1>k, <1>o, <2>1, <2>2
<1>2. ASSUME NEW r \in Handlers, NEW row \in handler[r].seen, CountFailure(r, row) PROVE SecretsAgree'
  <2>1. PICK count : count = row.failed + 1
    OBVIOUS
  <2>2. \/ account' = [account EXCEPT !.failed = 0, !.locked = TRUE]
        \/ account' = [account EXCEPT !.failed = count]
    BY <1>2, <2>1 DEF CountFailure
  <2>3. account'.mfa = account.mfa /\ account'.secret = account.secret /\ account'.proved = account.proved
    BY <2>2, <1>t DEF AccountRow
  <2>4. PICK lost : slips' = [slips EXCEPT !.lost = lost]
    BY <1>2 DEF CountFailure
  <2>5. slips'.crossed = slips.crossed
    BY <2>4, <1>t DEF Slips
  <2> QED BY <1>b, <1>o, <1>2, <2>3, <2>5 DEF CountFailure
<1>3. ASSUME NEW r \in Handlers, NEW row \in handler[r].seen, ClearFailures(r, row) PROVE SecretsAgree'
  <2>1. PICK op \in {"challenge", "session"} : Proceeds(r, op)
    BY <1>3 DEF ClearFailures
  <2>2. account'.mfa = account.mfa /\ account'.secret = account.secret /\ account'.proved = account.proved
    BY <1>3, <1>t DEF ClearFailures, AccountRow
  <2>3. slips'.crossed = slips.crossed
    BY <1>3, <1>t DEF ClearFailures, Slips
  <2> QED BY <1>b, <1>o, <2>1, <2>2, <2>3
<1>4. ASSUME NEW r \in Handlers, NEW row \in handler[r].seen, handler[r].op \in MfaOps, WriteMfa(r, row)
      PROVE  SecretsAgree'
  <2>1. \A q \in Handlers : MfaReads(handler'[q])
    BY <1>4, <1>r, <1>t DEF WriteMfa, Rests
  <2>2. slips'.crossed <=> row.mfa # account.mfa \/ row.secret # account.secret
    BY <1>4, <1>t DEF WriteMfa, Slips
  <2>3. /\ handler[r].op = "enable" => row.secret # 0
        /\ handler[r].op \in {"setup", "cancel"} => ~row.mfa
    BY <1>4 DEF MfaReads
  <2>4. CASE handler[r].op = "setup"
    <3>1. account' = [account EXCEPT !.newest = @ + 1, !.secret = account.newest + 1, !.mfa = FALSE]
      BY <1>4, <2>4 DEF WriteMfa
    <3>2. ~account'.mfa
      BY <3>1, <1>t DEF AccountRow
    <3> QED BY <2>1, <3>2 DEF MfaIsUsable, MfaReads
  <2>5. CASE handler[r].op = "enable"
    <3>1. account' = [account EXCEPT !.mfa = TRUE, !.proved = row.secret]
      BY <1>4, <2>5 DEF WriteMfa
    <3>2. account'.secret = account.secret /\ account'.proved = row.secret
      BY <3>1, <1>t DEF AccountRow
    <3> QED BY <2>1, <2>2, <2>3, <2>5, <3>2 DEF MfaIsUsable, MfaReads
  <2>6. CASE handler[r].op = "disable"
    <3>1. account' = [account EXCEPT !.mfa = FALSE, !.secret = 0]
      BY <1>4, <2>6 DEF WriteMfa
    <3>2. ~account'.mfa
      BY <3>1, <1>t DEF AccountRow
    <3> QED BY <2>1, <3>2 DEF MfaIsUsable, MfaReads
  <2>7. CASE handler[r].op = "cancel"
    <3>1. account' = [account EXCEPT !.secret = 0]
      BY <1>4, <2>7 DEF WriteMfa
    <3>2. account'.mfa = account.mfa /\ account.mfa \in BOOLEAN /\ row.mfa \in BOOLEAN
      BY <3>1, <1>4, <1>t DEF AccountRow, LoginTask
    <3> QED BY <2>1, <2>2, <2>3, <2>7, <3>2 DEF MfaIsUsable, MfaReads
  <2> QED BY <1>4, <2>4, <2>5, <2>6, <2>7 DEF MfaOps
<1>5. ASSUME NEW r \in Handlers, NEW c \in Challenges, BeginMfaLogin(r, c) \/ ReturnFromEntra(r, c)
      PROVE  SecretsAgree'
  <2>1. PICK f : handler' = [handler EXCEPT ![r] = f] /\ UNCHANGED <<account, slips>>
                 /\ f \in {[Resting EXCEPT !.op = "consume", !.seen = {account}, !.via = c],
                           [Resting EXCEPT !.op = "consume", !.via = c]}
    BY <1>5 DEF BeginMfaLogin, ReturnFromEntra
  <2>2. f.op = "consume"
    BY <2>1 DEF Resting
  <2>3. MfaReads(f)
    BY <2>2, <1>n DEF MfaOps
  <2> QED BY <1>a, <1>k, <2>1, <2>3
<1>6. ASSUME NEW r \in Handlers, AcceptIdentity(r) PROVE SecretsAgree'
  <2>1. account'.mfa = account.mfa /\ account'.secret = account.secret /\ account'.proved = account.proved
    BY <1>6, <1>t DEF AcceptIdentity, AccountRow
  <2>2. slips'.crossed = slips.crossed
    BY <1>6, <1>t DEF AcceptIdentity, Slips
  <2>3. PICK f : f = IF account.active THEN [handler[r] EXCEPT !.op = "session", !.seen = {account}] ELSE Resting
    OBVIOUS
  <2>4. f.op = "session" \/ f = Resting
    BY <2>3, <1>t DEF LoginTask
  <2>5. MfaReads(f)
    BY <2>4, <1>n, <1>r DEF MfaOps
  <2>6. handler' = [handler EXCEPT ![r] = f]
    BY <1>6, <2>3 DEF AcceptIdentity
  <2> QED BY <1>a, <2>1, <2>2, <2>5, <2>6
<1>7. ASSUME NEW r \in Handlers, NEW k \in ResetTokens, BeginReset(r, k) PROVE SecretsAgree'
  <2>1. PICK f : f = [Resting EXCEPT !.op = "reset", !.token = {k}]
    OBVIOUS
  <2>2. f.op = "reset"
    BY <2>1 DEF Resting
  <2>3. MfaReads(f)
    BY <2>2, <1>n DEF MfaOps
  <2>4. handler' = [handler EXCEPT ![r] = f] /\ UNCHANGED <<account, slips>>
    BY <1>7, <2>1 DEF BeginReset
  <2> QED BY <1>a, <1>k, <2>3, <2>4
<1>8. ASSUME NEW r \in Handlers, WritePassword(r) \/ ResetPassword(r) PROVE SecretsAgree'
  <2>1. account'.mfa = account.mfa /\ account'.secret = account.secret /\ account'.proved = account.proved
    BY <1>8, <1>t DEF WritePassword, ResetPassword, AccountRow
  <2>2. slips'.crossed = slips.crossed /\ Proceeds(r, "revoke")
    BY <1>8, <1>t DEF WritePassword, ResetPassword, Slips
  <2> QED BY <1>b, <1>o, <2>1, <2>2
<1>9. ASSUME NEW r \in Handlers, RevokeAll(r) PROVE SecretsAgree'
  <2>1. slips'.crossed = slips.crossed /\ Rests(r) /\ UNCHANGED account
    BY <1>9, <1>t DEF RevokeAll, Slips
  <2> QED BY <1>b, <1>o, <2>1
<1>10. ASSUME NEW r \in Handlers, NEW op \in MfaOps, BeginMfaChange(r, op) PROVE SecretsAgree'
  <2>1. PICK f : f = [Resting EXCEPT !.op = op, !.seen = {account}]
    OBVIOUS
  <2>2. f.op = op /\ f.seen = {account}
    BY <2>1 DEF Resting
  <2>3. /\ op = "enable" => account.secret # 0
        /\ op \in {"setup", "cancel"} => ~account.mfa
    BY <1>10 DEF BeginMfaChange
  <2>4. MfaReads(f)
    BY <2>2, <2>3 DEF MfaReads
  <2>5. handler' = [handler EXCEPT ![r] = f] /\ UNCHANGED <<account, slips>>
    BY <1>10, <2>1 DEF BeginMfaChange, Reads
  <2> QED BY <1>a, <1>k, <2>4, <2>5
<1>11. ASSUME NEW r \in Handlers, SoftDeleteUser(r) PROVE SecretsAgree'
  <2>1. account'.mfa = account.mfa /\ account'.secret = account.secret /\ account'.proved = account.proved
    BY <1>11, <1>t DEF SoftDeleteUser, AccountRow
  <2> QED BY <1>b, <1>o, <1>11, <2>1 DEF SoftDeleteUser
<1>12. CASE \/ \E c \in Challenges : BeginEntra(c) \/ ChallengeExpires(c)
            \/ \E k \in ResetTokens : RequestReset(k)
            \/ \E s \in Sessions : Logout(s)
            \/ UNCHANGED loginVars
  <2>1. UNCHANGED <<account, handler, slips>>
    BY <1>12 DEF BeginEntra, ChallengeExpires, RequestReset, Logout, loginVars
  <2> QED BY <2>1 DEF MfaIsUsable, MfaReads
<1>13. CASE LockEnds \/ \E active \in BOOLEAN : SetUserActive(active)
  <2>1. /\ account'.mfa = account.mfa /\ account'.secret = account.secret /\ account'.proved = account.proved
        /\ UNCHANGED <<handler, slips>>
    BY <1>13, <1>t DEF LockEnds, SetUserActive, AccountRow
  <2> QED BY <2>1 DEF MfaIsUsable, MfaReads
<1>14. CASE LoginCrash
  <2>1. \A q \in Handlers : MfaReads(handler'[q])
    BY <1>14, <1>r DEF LoginCrash
  <2>2. slips'.crossed = slips.crossed /\ UNCHANGED account
    BY <1>14, <1>t DEF LoginCrash, Slips
  <2> QED BY <2>1, <2>2 DEF MfaIsUsable, MfaReads
<1> QED
  BY <1>1, <1>2, <1>3, <1>4, <1>5, <1>6, <1>7, <1>8, <1>9, <1>10, <1>11, <1>12, <1>13, <1>14 DEF LoginNext

LEMMA PasswordsKept ==
  ASSUME LoginShape, PasswordEndsSessions, [LoginNext]_loginVars
  PROVE  PasswordEndsSessions'
<1> USE DEF PasswordEndsSessions
<1>t. account \in AccountRow /\ handler \in [Handlers -> LoginTask] /\ slips \in Slips
      /\ session \in [Sessions -> SessionRow]
  BY DEF LoginShape
<1>a. ASSUME account'.password = account.password, UNCHANGED session, slips'.cut = slips.cut,
             NEW r \in Handlers, NEW f, handler' = [handler EXCEPT ![r] = f],
             handler[r].op # "revoke"
      PROVE  PasswordEndsSessions'
  BY <1>a, <1>t
<1>b. ASSUME NEW r \in Handlers, NEW f, handler' = [handler EXCEPT ![r] = f], f.op = "revoke"
      PROVE  PasswordEndsSessions'
  <2>1. handler'[r].op = "revoke"
    BY <1>b, <1>t
  <2> QED BY <2>1
<1>c. ASSUME UNCHANGED <<handler, slips>>, account'.password = account.password,
             \A s \in Sessions : session'[s].state = "live" => session'[s] = session[s]
      PROVE  PasswordEndsSessions'
  BY <1>c
<1>i. Resting.op = "idle"
  BY DEF Resting
<1>1. ASSUME NEW r \in Handlers,
             \/ \E right \in BOOLEAN : BeginLogin(r, right)
             \/ \E row \in handler[r].seen, c \in Challenges : IssueChallenge(r, c, row)
             \/ \E c \in Challenges : BeginMfaLogin(r, c) \/ ReturnFromEntra(r, c)
             \/ ReadConsume(r) \/ MarkConsumed(r) \/ BeginChangePassword(r) \/ BeginAdminReset(r)
             \/ \E k \in ResetTokens : BeginReset(r, k)
             \/ \E op \in MfaOps : BeginMfaChange(r, op)
      PROVE  PasswordEndsSessions'
  <2>1. UNCHANGED <<account, session, slips>> /\ handler[r].op # "revoke"
    BY <1>1, <1>i DEF BeginLogin, IssueChallenge, BeginMfaLogin, ReturnFromEntra, ReadConsume,
         MarkConsumed, BeginChangePassword, BeginAdminReset, BeginReset, BeginMfaChange
  <2>2. PICK f : handler' = [handler EXCEPT ![r] = f]
    <3>1. CASE \/ \E right \in BOOLEAN : BeginLogin(r, right)
               \/ BeginChangePassword(r) \/ BeginAdminReset(r)
               \/ \E op \in MfaOps : BeginMfaChange(r, op)
      BY <3>1 DEF BeginLogin, BeginChangePassword, BeginAdminReset, BeginMfaChange, Reads
    <3>2. CASE \/ \E row \in handler[r].seen, c \in Challenges : IssueChallenge(r, c, row)
               \/ ReadConsume(r) \/ MarkConsumed(r)
      <4>1. PICK op : Rests(r) \/ Proceeds(r, op)
        BY <3>2 DEF IssueChallenge, ReadConsume, MarkConsumed
      <4>2. CASE Rests(r)
        BY <4>2 DEF Rests
      <4>3. CASE Proceeds(r, op)
        <5>1. PICK f : f = [handler[r] EXCEPT !.op = op]
          OBVIOUS
        <5> QED BY <4>3, <5>1 DEF Proceeds
      <4> QED BY <4>1, <4>2, <4>3
    <3>3. CASE \/ \E c \in Challenges : BeginMfaLogin(r, c) \/ ReturnFromEntra(r, c)
               \/ \E k \in ResetTokens : BeginReset(r, k)
      BY <3>3 DEF BeginMfaLogin, ReturnFromEntra, BeginReset
    <3> QED BY <1>1, <3>1, <3>2, <3>3
  <2> QED BY <1>a, <2>1, <2>2
<1>2. ASSUME NEW r \in Handlers, NEW row \in handler[r].seen,
             \/ CountFailure(r, row) \/ ClearFailures(r, row)
             \/ handler[r].op \in MfaOps /\ WriteMfa(r, row)
      PROVE  PasswordEndsSessions'
  <2>1. UNCHANGED session /\ handler[r].op # "revoke"
    BY <1>2 DEF CountFailure, ClearFailures, WriteMfa, MfaOps
  <2>2. account'.password = account.password
    <3>1. CASE CountFailure(r, row)
      <4>1. PICK count : count = row.failed + 1
        OBVIOUS
      <4>2. \/ account' = [account EXCEPT !.failed = 0, !.locked = TRUE]
            \/ account' = [account EXCEPT !.failed = count]
        BY <3>1, <4>1 DEF CountFailure
      <4> QED BY <4>2, <1>t DEF AccountRow
    <3>2. CASE ClearFailures(r, row)
      BY <3>2, <1>t DEF ClearFailures, AccountRow
    <3>3. CASE handler[r].op \in MfaOps /\ WriteMfa(r, row)
      BY <3>3, <1>t DEF WriteMfa, AccountRow, MfaOps
    <3> QED BY <1>2, <3>1, <3>2, <3>3
  <2>3. slips'.cut = slips.cut
    <3>1. PICK x : slips' = [slips EXCEPT !.lost = x] \/ slips' = [slips EXCEPT !.crossed = x]
      BY <1>2 DEF CountFailure, ClearFailures, WriteMfa
    <3> QED BY <3>1, <1>t DEF Slips
  <2>4. PICK f : handler' = [handler EXCEPT ![r] = f]
    <3>1. PICK op : Rests(r) \/ Proceeds(r, op)
      BY <1>2 DEF CountFailure, ClearFailures, WriteMfa
    <3>2. CASE Rests(r)
      BY <3>2 DEF Rests
    <3>3. CASE Proceeds(r, op)
      <4>1. PICK f : f = [handler[r] EXCEPT !.op = op]
        OBVIOUS
      <4> QED BY <3>3, <4>1 DEF Proceeds
    <3> QED BY <3>1, <3>2, <3>3
  <2> QED BY <1>a, <2>1, <2>2, <2>3, <2>4
<1>3. ASSUME NEW r \in Handlers, NEW row \in handler[r].seen, NEW s \in Sessions, CreateSession(r, s, row)
      PROVE  PasswordEndsSessions'
  <2>1. PICK new \in SessionRow : new = [state |-> "live", password |-> row.password, via |-> handler[r].via,
                                         late |-> row.password # account.password]
    <3>1. row.password \in Nat /\ handler[r].via \in Challenges \cup {NoChallenge}
      BY <1>t DEF LoginTask, AccountRow
    <3>2. PICK b \in BOOLEAN : b = (row.password # account.password)
      OBVIOUS
    <3> QED BY <3>1, <3>2 DEF SessionRow
  <2>2. session' = [session EXCEPT ![s] = new] /\ Rests(r) /\ handler[r].op = "session"
        /\ UNCHANGED <<account, slips>>
    BY <1>3, <2>1 DEF CreateSession
  <2>3. ~new.late => new.password = account.password
    BY <2>1
  <2>4. \A q \in Handlers : handler[q].op = "revoke" => handler'[q].op = "revoke"
    BY <2>2, <1>t DEF Rests
  <2> QED BY <1>t, <2>2, <2>3, <2>4
<1>4. ASSUME NEW r \in Handlers, AcceptIdentity(r) PROVE PasswordEndsSessions'
  <2>1. account'.password = account.password
    BY <1>4, <1>t DEF AcceptIdentity, AccountRow
  <2>2. slips'.cut = slips.cut
    BY <1>4, <1>t DEF AcceptIdentity, Slips
  <2>3. PICK f : handler' = [handler EXCEPT ![r] = f]
    <3>1. PICK f : f = IF account.active THEN [handler[r] EXCEPT !.op = "session", !.seen = {account}] ELSE Resting
      OBVIOUS
    <3> QED BY <1>4, <3>1 DEF AcceptIdentity
  <2> QED BY <1>a, <1>4, <2>1, <2>2, <2>3 DEF AcceptIdentity
<1>5. ASSUME NEW r \in Handlers, WritePassword(r) \/ ResetPassword(r) \/ SoftDeleteUser(r)
      PROVE  PasswordEndsSessions'
  <2>1. PICK f : f \in {[handler[r] EXCEPT !.op = "revoke"],
                        [Resting EXCEPT !.op = "revoke", !.seen = {account}]}
                 /\ handler' = [handler EXCEPT ![r] = f]
    BY <1>5 DEF WritePassword, ResetPassword, SoftDeleteUser, Proceeds, Reads
  <2>2. f.op = "revoke"
    BY <2>1, <1>t DEF LoginTask, Resting
  <2> QED BY <1>b, <2>1, <2>2
<1>6. ASSUME NEW r \in Handlers, RevokeAll(r) PROVE PasswordEndsSessions'
  <2>1. \A s \in Sessions : session'[s].state # "live"
    BY <1>6, <1>t DEF RevokeAll, SessionRow
  <2> QED BY <2>1
<1>7. CASE \/ \E c \in Challenges : BeginEntra(c) \/ ChallengeExpires(c)
           \/ \E k \in ResetTokens : RequestReset(k)
           \/ UNCHANGED loginVars
  <2>1. UNCHANGED <<account, session, handler, slips>>
    BY <1>7 DEF BeginEntra, ChallengeExpires, RequestReset, loginVars
  <2> QED BY <1>c, <2>1
<1>8. ASSUME NEW s \in Sessions, Logout(s) PROVE PasswordEndsSessions'
  <2>1. \A x \in Sessions : session'[x].state = "live" => session'[x] = session[x]
    BY <1>8, <1>t DEF Logout, SessionRow
  <2> QED BY <1>c, <1>8, <2>1 DEF Logout
<1>9. CASE LockEnds \/ \E active \in BOOLEAN : SetUserActive(active)
  <2>1. account'.password = account.password /\ UNCHANGED <<handler, session, slips>>
    BY <1>9, <1>t DEF LockEnds, SetUserActive, AccountRow
  <2> QED BY <1>c, <2>1
<1>10. CASE LoginCrash
  <2>1. /\ slips'.cut <=> (slips.cut \/ \E r \in Handlers : handler[r].op = "revoke")
        /\ UNCHANGED <<account, session>>
    BY <1>10, <1>t DEF LoginCrash, Slips
  <2> QED BY <2>1
<1> QED
  BY <1>1, <1>2, <1>3, <1>4, <1>5, <1>6, <1>7, <1>8, <1>9, <1>10 DEF LoginNext

(* MaxFailed wrong passwords in a row lock the account, however many sign-ins
   overlap: a write by an older read puts the lock off by the failures it takes
   back from the counter, and by no more. *)
THEOREM AccountLocksInTime == LoginSpec => []LocksInTime
<1>1. LoginShape /\ CountsAgree => LocksInTime
  BY DEF LoginShape, CountsAgree, LocksInTime, AccountRow, FailCount, Slips
<1> QED BY LoginShapeStarts, LoginAgreesAtFirst, LoginShapeKept, CountsKept, <1>1, PTL DEF LoginSpec

(* The second factor is switched on only over a secret that is there and whose
   codes the user has shown, until a change is written over a row that another
   change had overtaken; the next change made on the row as it is puts it right. *)
THEOREM SecondFactorIsUsable == LoginSpec => []MfaIsUsable
<1>1. SecretsAgree => MfaIsUsable
  BY DEF SecretsAgree
<1> QED BY LoginShapeStarts, LoginAgreesAtFirst, LoginShapeKept, SecretsKept, <1>1, PTL DEF LoginSpec

(* Whoever changes a password at the same time, and wherever a process stops:
   once the sessions are revoked, those that are live hold the present password,
   but for the sessions of sign-ins that had checked the old one before and of
   challenges, and until a stop between the two writes is made good. *)
THEOREM NewPasswordEndsSessions == LoginSpec => []PasswordEndsSessions
BY LoginShapeStarts, LoginAgreesAtFirst, LoginShapeKept, PasswordsKept, PTL DEF LoginSpec

HIDE LoginAssumption DEF LoginAssumption

-----------------------------------------------------------------------------
(***************************************************************************)
(* The hierarchy of tickets.                                               *)
(***************************************************************************)

USE TreeAssumption DEF TreeAssumption

LinkTask ==
  [op : {"idle", "climb", "write", "raise", "fold"},
   parent : TreeTickets \cup {NoParent}, child : TreeTickets \cup {NoParent},
   cursor : TreeTickets \cup {NoParent}, seen : SUBSET TreeTickets,
   sources : SUBSET TreeTickets, kids : SUBSET (TreeTickets \X TreeTickets)]

(* A handler's task, and the rows it names were created. *)
Born(x) == x # NoParent => node[x].kind # "unborn"

TaskIsBorn(l) ==
  /\ l.op \in {"climb", "write", "raise"} => l.child \in TreeTickets /\ Born(l.child)
  /\ l.op \in {"climb", "fold"} => l.parent \in TreeTickets
  /\ Born(l.parent) /\ Born(l.cursor) /\ \A t \in l.seen : Born(t)
  /\ l.op = "fold" => \A s \in l.sources : Born(s)
  /\ \A t \in TreeTickets, s \in TreeTickets : <<t, s>> \in l.kids => Born(t)

RowsAreBorn ==
  /\ node \in [TreeTickets -> Node]
  /\ \A t \in TreeTickets : (node[t].kind = "unborn" => node[t] = Unborn) /\ Born(node[t].parent)

TreeShape ==
  /\ RowsAreBorn
  /\ link \in [Linkers -> LinkTask]
  /\ \A r \in Linkers : TaskIsBorn(link[r])

LEMMA TreeShapeIsTypeOK == TreeShape => TreeTypeOK
<1>1. \A t \in TreeTickets : Born(t) <=> node[t].kind # "unborn"
  BY DEF Born
<1>2. ASSUME NEW l \in LinkTask
      PROVE  TaskIsBorn(l) =>
               /\ l.op \in {"climb", "write", "raise"} =>
                    l.child \in TreeTickets /\ node[l.child].kind # "unborn"
               /\ l.op \in {"climb", "fold"} => l.parent \in TreeTickets
               /\ \A t \in {l.parent, l.cursor} \cup l.seen : t # NoParent => node[t].kind # "unborn"
               /\ l.op = "fold" => \A s \in l.sources : node[s].kind # "unborn"
  BY DEF TaskIsBorn, Born, LinkTask
<1> QED BY <1>1, <1>2, Zenon DEF TreeShape, TreeTypeOK, RowsAreBorn, Born, LinkTask

LEMMA NoLinkIsTask == NoLink \in LinkTask /\ TaskIsBorn(NoLink)
BY DEF NoLink, LinkTask, TaskIsBorn, Born

LEMMA TreeStarts == TreeInit => TreeShape
<1> SUFFICES ASSUME TreeInit PROVE TreeShape
  OBVIOUS
<1>1. Unborn \in Node /\ Unborn.parent = NoParent
  BY DEF Unborn, Node
<1>2. RowsAreBorn
  BY <1>1 DEF TreeInit, RowsAreBorn, Born
<1> QED BY <1>2, NoLinkIsTask DEF TreeInit, TreeShape

(* A step that keeps every row that was created, and gives no row a parent
   that was not, keeps the shape of the other handlers. *)
LEMMA RowsLast ==
  ASSUME RowsAreBorn, NEW l \in LinkTask, TaskIsBorn(l),
         \A t \in TreeTickets : node[t].kind # "unborn" => node'[t].kind # "unborn"
  PROVE  /\ l.op \in {"climb", "write", "raise"} => l.child \in TreeTickets /\ Born(l.child)'
         /\ l.op \in {"climb", "fold"} => l.parent \in TreeTickets
         /\ Born(l.parent)' /\ Born(l.cursor)' /\ \A t \in l.seen : Born(t)'
         /\ l.op = "fold" => \A s \in l.sources : Born(s)'
         /\ \A t \in TreeTickets, s \in TreeTickets : <<t, s>> \in l.kids => Born(t)'
BY DEF TaskIsBorn, Born, LinkTask

LEMMA SameNode ==
  ASSUME NEW n \in Node
  PROVE  n = [n EXCEPT !.parent = n.parent, !.merged = n.merged]
BY DEF Node

LEMMA TreeShapeKept == TreeShape /\ [TreeNext]_treeVars => TreeShape'
<1> SUFFICES ASSUME TreeShape, [TreeNext]_treeVars PROVE TreeShape'
  OBVIOUS
<1> USE DEF TreeShape
<1>a. ASSUME \A t \in TreeTickets : node[t].kind # "unborn" => node'[t].kind # "unborn",
             RowsAreBorn', link' = link
      PROVE  TreeShape'
  <2>1. ASSUME NEW r \in Linkers PROVE TaskIsBorn(link[r])'
    <3>1. PICK l \in LinkTask : l = link[r]
      OBVIOUS
    <3>2. TaskIsBorn(l)'
      BY <1>a, <3>1, RowsLast DEF TaskIsBorn
    <3> QED BY <1>a, <3>1, <3>2
  <2> QED BY <1>a, <2>1
<1>b. ASSUME NEW r \in Linkers, NEW f \in LinkTask, TaskIsBorn(f)',
             \A t \in TreeTickets : node[t].kind # "unborn" => node'[t].kind # "unborn",
             RowsAreBorn', link' = [link EXCEPT ![r] = f]
      PROVE  TreeShape'
  <2>1. ASSUME NEW q \in Linkers PROVE TaskIsBorn(link[q])'
    <3>1. CASE q = r
      BY <1>b, <3>1
    <3>2. CASE q # r
      <4>1. PICK l \in LinkTask : l = link[q]
        OBVIOUS
      <4>2. TaskIsBorn(l)'
        BY <1>b, <4>1, RowsLast DEF TaskIsBorn
      <4> QED BY <1>b, <3>2, <4>1, <4>2
    <3> QED BY <3>1, <3>2
  <2> QED BY <1>b, <2>1
<1>c. ASSUME UNCHANGED node PROVE RowsAreBorn' /\ \A x : Born(x)' <=> Born(x)
  BY <1>c DEF RowsAreBorn, Born
<1>n. TaskIsBorn(NoLink)'
  BY DEF NoLink, TaskIsBorn, Born
<1>1. ASSUME NEW t \in TreeTickets, NEW kind \in NewKinds, NEW p \in TreeTickets \cup {NoParent}, CreateUnder(t, kind, p)
      PROVE  TreeShape'
  <2>1. PICK n : n = [Unborn EXCEPT !.kind = kind, !.parent = p]
    OBVIOUS
  <2>2. n \in Node /\ n.kind # "unborn" /\ n.parent = p
    BY <2>1 DEF Unborn, Node
  <2>3. node' = [node EXCEPT ![t] = n] /\ link' = link /\ (p # NoParent => node[p].kind # "unborn")
    BY <1>1, <2>1 DEF CreateUnder, Live
  <2>4. RowsAreBorn'
    BY <2>2, <2>3 DEF RowsAreBorn, Born
  <2> QED BY <1>a, <2>2, <2>3, <2>4 DEF RowsAreBorn
<1>2. ASSUME NEW t \in TreeTickets, Discard(t) PROVE TreeShape'
  <2>1. \A u \in TreeTickets : node'[u].kind = node[u].kind /\ node'[u].parent = node[u].parent
    BY <1>2 DEF Discard, RowsAreBorn, Node
  <2>2. \A u \in TreeTickets : node[u].kind = "unborn" => node'[u] = node[u]
    BY <1>2 DEF Discard, Live, RowsAreBorn
  <2>3. node' \in [TreeTickets -> Node]
    BY <1>2 DEF Discard, RowsAreBorn, Node
  <2>4. RowsAreBorn'
    BY <2>1, <2>2, <2>3 DEF RowsAreBorn, Born, Node
  <2> QED BY <1>2, <1>a, <2>1, <2>4 DEF Discard
<1>3. ASSUME NEW r \in Linkers, NEW p \in TreeTickets, NEW c \in TreeTickets, BeginLink(r, p, c)
      PROVE  TreeShape'
  <2>1. PICK f : f = [NoLink EXCEPT !.op = "climb", !.parent = p, !.child = c, !.cursor = node[p].parent, !.seen = {p}]
    OBVIOUS
  <2>2. node[p].parent \in TreeTickets \cup {NoParent}
    BY DEF RowsAreBorn, Node
  <2>3. f \in LinkTask /\ f.op = "climb" /\ f.parent = p /\ f.child = c /\ f.cursor = node[p].parent /\ f.seen = {p} /\ f.kids = {}
    BY <2>1, <2>2 DEF NoLink, LinkTask
  <2>4. TaskIsBorn(f)'
    BY <1>3, <1>c, <2>3 DEF TaskIsBorn, Born, BeginLink, Live, RowsAreBorn
  <2> QED BY <1>3, <1>b, <1>c, <2>1, <2>3, <2>4 DEF BeginLink
<1>4. ASSUME NEW r \in Linkers, Climb(r) PROVE TreeShape'
  <2>1. PICK f : f = [link[r] EXCEPT !.seen = @ \cup {link[r].cursor}, !.cursor = node[link[r].cursor].parent]
    OBVIOUS
  <2>2. link[r] \in LinkTask /\ link[r].cursor \in TreeTickets
    BY <1>4 DEF Climb, WalkGoesOn, LinkTask
  <2>3. /\ f \in LinkTask /\ f.op = "climb" /\ f.parent = link[r].parent /\ f.child = link[r].child
        /\ f.cursor = node[link[r].cursor].parent /\ f.seen = link[r].seen \cup {link[r].cursor}
        /\ f.kids = link[r].kids
    BY <1>4, <2>1, <2>2 DEF LinkTask, RowsAreBorn, Node, Climb
  <2>4. TaskIsBorn(f)
    BY <1>4, <2>2, <2>3 DEF TaskIsBorn, RowsAreBorn, Climb
  <2>5. TaskIsBorn(f)' /\ link' = [link EXCEPT ![r] = f]
    BY <1>4, <1>c, <2>1, <2>4 DEF TaskIsBorn, Climb
  <2> QED BY <1>4, <1>b, <1>c, <2>3, <2>5 DEF Climb
<1>5. ASSUME NEW r \in Linkers, RefuseCycle(r) PROVE TreeShape'
  BY <1>5, <1>b, <1>c, <1>n, NoLinkIsTask DEF RefuseCycle, EndLink
<1>6. ASSUME NEW r \in Linkers, EndClimb(r) PROVE TreeShape'
  <2>1. PICK f : f = [link[r] EXCEPT !.op = "write"]
    OBVIOUS
  <2>2. /\ f \in LinkTask /\ f.op = "write" /\ f.parent = link[r].parent /\ f.child = link[r].child
        /\ f.cursor = link[r].cursor /\ f.seen = link[r].seen /\ f.kids = link[r].kids
    BY <2>1 DEF LinkTask
  <2>3. TaskIsBorn(f)
    BY <1>6, <2>2 DEF TaskIsBorn, EndClimb
  <2>4. TaskIsBorn(f)' /\ link' = [link EXCEPT ![r] = f]
    BY <1>6, <1>c, <2>1, <2>3 DEF TaskIsBorn, EndClimb
  <2> QED BY <1>6, <1>b, <1>c, <2>2, <2>4 DEF EndClimb
<1>7. ASSUME NEW r \in Linkers, WriteParent(r) PROVE TreeShape'
  <2>1. PICK c \in TreeTickets, p \in TreeTickets \cup {NoParent} :
          /\ c = link[r].child /\ p = link[r].parent /\ Born(c) /\ Born(p)
    BY <1>7 DEF WriteParent, TaskIsBorn, LinkTask
  <2>2. PICK n : n = [node[c] EXCEPT !.parent = p]
    OBVIOUS
  <2>3. n \in Node /\ n.kind = node[c].kind /\ n.parent = p
    BY <2>2 DEF RowsAreBorn, Node
  <2>4. node' = [node EXCEPT ![c] = n] /\ link' = [link EXCEPT ![r] = NoLink]
    BY <1>7, <2>1, <2>2 DEF WriteParent, WithParent, EndLink
  <2>5. RowsAreBorn'
    BY <2>1, <2>3, <2>4 DEF RowsAreBorn, Born
  <2> QED BY <1>b, <1>n, <2>3, <2>4, <2>5, NoLinkIsTask DEF RowsAreBorn
<1>8. ASSUME NEW r \in Linkers, NEW c \in TreeTickets, BeginUnlink(r, c) PROVE TreeShape'
  <2>1. PICK f : f = [NoLink EXCEPT !.op = "write", !.child = c]
    OBVIOUS
  <2>2. /\ f \in LinkTask /\ f.op = "write" /\ f.parent = NoParent /\ f.child = c
        /\ f.cursor = NoParent /\ f.seen = {} /\ f.kids = {}
    BY <2>1 DEF NoLink, LinkTask
  <2>3. TaskIsBorn(f)'
    BY <1>8, <1>c, <2>2 DEF TaskIsBorn, Born, BeginUnlink, Live
  <2> QED BY <1>8, <1>b, <1>c, <2>1, <2>2, <2>3 DEF BeginUnlink
<1>9. ASSUME NEW r \in Linkers, NEW c \in TreeTickets, BeginPromote(r, c) PROVE TreeShape'
  <2>1. PICK f : f = [NoLink EXCEPT !.op = "raise", !.child = c]
    OBVIOUS
  <2>2. /\ f \in LinkTask /\ f.op = "raise" /\ f.parent = NoParent /\ f.child = c
        /\ f.cursor = NoParent /\ f.seen = {} /\ f.kids = {}
    BY <2>1 DEF NoLink, LinkTask
  <2>3. TaskIsBorn(f)'
    BY <1>9, <1>c, <2>2 DEF TaskIsBorn, Born, BeginPromote, Live
  <2> QED BY <1>9, <1>b, <1>c, <2>1, <2>2, <2>3 DEF BeginPromote
<1>10. ASSUME NEW r \in Linkers, NEW q \in TreeTickets, RaiseParent(r, q) PROVE TreeShape'
  <2>1. PICK n : n = [Unborn EXCEPT !.kind = "problem"]
    OBVIOUS
  <2>2. n \in Node /\ n.kind = "problem" /\ n.parent = NoParent
    BY <2>1 DEF Unborn, Node
  <2>3. node' = [node EXCEPT ![q] = n]
    BY <1>10, <2>1 DEF RaiseParent
  <2>4. RowsAreBorn'
    BY <2>2, <2>3 DEF RowsAreBorn, Born
  <2>5. PICK f : f = [link[r] EXCEPT !.op = "write", !.parent = q]
    OBVIOUS
  <2>6. /\ f \in LinkTask /\ f.op = "write" /\ f.parent = q /\ f.child = link[r].child
        /\ f.cursor = link[r].cursor /\ f.seen = link[r].seen /\ f.kids = link[r].kids
    BY <2>5 DEF LinkTask
  <2>7. link[r].child \in TreeTickets /\ Born(link[r].child) /\ Born(link[r].cursor)
        /\ (\A t \in link[r].seen : Born(t))
        /\ \A t, s \in TreeTickets : <<t, s>> \in link[r].kids => Born(t)
    BY <1>10 DEF RaiseParent, TaskIsBorn
  <2>8. TaskIsBorn(f)'
    <3>1. \A t \in TreeTickets : Born(t) => Born(t)'
      BY <2>2, <2>3 DEF Born, RowsAreBorn
    <3>2. link[r].cursor \in TreeTickets \cup {NoParent} /\ link[r].seen \subseteq TreeTickets
      BY DEF LinkTask
    <3>3. Born(q)' /\ Born(NoParent)'
      BY <2>2, <2>3 DEF Born, RowsAreBorn
    <3> QED BY <2>6, <2>7, <3>1, <3>2, <3>3 DEF TaskIsBorn
  <2>9. link' = [link EXCEPT ![r] = f]
    BY <1>10, <2>5 DEF RaiseParent
  <2> QED BY <1>b, <2>2, <2>3, <2>4, <2>6, <2>8, <2>9 DEF RowsAreBorn
<1>11. ASSUME NEW r \in Linkers, NEW p \in TreeTickets, NEW ss \in SUBSET TreeTickets, BeginFold(r, p, ss)
       PROVE  TreeShape'
  <2>1. PICK kids : kids = {k \in TreeTickets \X ss : Live(k[1]) /\ node[k[1]].parent = k[2]}
    OBVIOUS
  <2>2. PICK f : f = [NoLink EXCEPT !.op = "fold", !.parent = p, !.sources = ss, !.kids = kids]
    OBVIOUS
  <2>3. kids \in SUBSET (TreeTickets \X TreeTickets)
    BY <2>1
  <2>4. /\ f \in LinkTask /\ f.op = "fold" /\ f.parent = p /\ f.sources = ss
        /\ f.cursor = NoParent /\ f.seen = {} /\ f.kids = kids
    BY <2>2, <2>3 DEF NoLink, LinkTask
  <2>5. TaskIsBorn(f)'
    <3>1. \A t, s \in TreeTickets : <<t, s>> \in kids => Born(t)
      BY <2>1 DEF Live, Born
    <3>2. \A s \in ss : Born(s)
      BY <1>11 DEF Born, BeginFold, Live
    <3>3. Born(p) /\ Born(NoParent)
      BY <1>11 DEF Born, BeginFold, Live
    <3>4. TaskIsBorn(f)
      BY <2>4, <3>1, <3>2, <3>3 DEF TaskIsBorn
    <3> QED BY <1>11, <1>c, <3>4 DEF TaskIsBorn, BeginFold
  <2> QED BY <1>11, <1>b, <1>c, <2>1, <2>2, <2>4, <2>5 DEF BeginFold
<1>12. ASSUME NEW r \in Linkers, Fold(r) PROVE TreeShape'
  <2>1. PICK turn : node' = [t \in TreeTickets |-> [node[t] EXCEPT
            !.parent = FoldedParent(r, turn, t), !.merged = @ \/ t \in link[r].sources]]
    BY <1>12 DEF Fold
  <2>2. PICK l \in LinkTask : l = link[r] /\ TaskIsBorn(l) /\ l.op = "fold"
    BY <1>12 DEF Fold
  <2>3. PICK p \in TreeTickets : p = l.parent /\ Born(p)
    BY <2>2 DEF TaskIsBorn
  <2>4. l.sources \subseteq TreeTickets /\ \A s \in l.sources : node[s].kind # "unborn"
    BY <2>2 DEF TaskIsBorn, LinkTask, Born
  <2>5. ASSUME NEW t \in TreeTickets
        PROVE  /\ FoldedParent(r, turn, t) \in {node[t].parent, p, NoParent}
               /\ node[t].kind = "unborn" => FoldedParent(r, turn, t) = NoParent /\ t \notin l.sources
    <3>1. PICK of : of = {s \in l.sources : <<t, s>> \in l.kids}
      OBVIOUS
    <3>2. FoldedParent(r, turn, t) =
            IF t \notin l.sources THEN IF of = {} THEN node[t].parent ELSE l.parent
            ELSE IF \E s \in of : turn[s] > turn[t] THEN l.parent ELSE NoParent
      BY <2>2, <3>1 DEF FoldedParent
    <3>3. ASSUME node[t].kind = "unborn" PROVE node[t].parent = NoParent /\ t \notin l.sources /\ of = {}
      <4>1. node[t].parent = NoParent /\ t \notin l.sources
        BY <2>4, <3>3 DEF RowsAreBorn, Unborn
      <4>2. ~Born(t)
        BY <3>3 DEF Born
      <4> QED BY <2>2, <2>4, <3>1, <4>1, <4>2 DEF TaskIsBorn
    <3> HIDE DEF FoldedParent
    <3> QED BY <2>3, <3>2, <3>3
  <2>6. ASSUME NEW t \in TreeTickets
        PROVE  /\ node'[t] \in Node /\ node'[t].kind = node[t].kind
               /\ node'[t].parent = FoldedParent(r, turn, t)
               /\ node[t].kind = "unborn" => node'[t] = node[t]
    <3>1. PICK x, m : x = FoldedParent(r, turn, t) /\ m = (node[t].merged \/ t \in l.sources)
      OBVIOUS
    <3>2. node'[t] = [node[t] EXCEPT !.parent = x, !.merged = m]
      BY <2>1, <2>2, <3>1
    <3>3. node[t] \in Node /\ x \in TreeTickets \cup {NoParent} /\ m \in BOOLEAN
      BY <2>3, <2>5, <3>1 DEF RowsAreBorn, Node
    <3>4. node'[t] \in Node /\ node'[t].kind = node[t].kind /\ node'[t].parent = x
      BY <3>2, <3>3 DEF Node
    <3>5. ASSUME node[t].kind = "unborn" PROVE node'[t] = node[t]
      <4>1. node[t] = Unborn /\ x = NoParent /\ t \notin l.sources
        BY <2>5, <3>1, <3>5 DEF RowsAreBorn
      <4>2. node[t].merged = FALSE /\ node[t].parent = NoParent
        BY <4>1 DEF Unborn
      <4>3. m = FALSE
        BY <3>1, <4>1, <4>2
      <4>4. node'[t] = [node[t] EXCEPT !.parent = node[t].parent, !.merged = node[t].merged]
        BY <3>2, <4>1, <4>2, <4>3
      <4> QED BY <3>3, <4>4, SameNode
    <3> QED BY <3>1, <3>4, <3>5
  <2>7. RowsAreBorn'
    <3>1. node' \in [TreeTickets -> Node]
      <4>1. DOMAIN node' = TreeTickets
        BY <2>1
      <4> QED BY <2>1, <2>6, <4>1
    <3>2. ASSUME NEW t \in TreeTickets
          PROVE  /\ node'[t].kind = "unborn" => node'[t] = Unborn
                 /\ node'[t].parent # NoParent => node'[node'[t].parent].kind # "unborn"
      <4>1. PICK x : x = node'[t].parent
        OBVIOUS
      <4>2. x \in {node[t].parent, p, NoParent} /\ node[t].parent \in TreeTickets \cup {NoParent}
        BY <2>5, <2>6, <4>1 DEF RowsAreBorn, Node
      <4>3. x # NoParent => x \in TreeTickets /\ node[x].kind # "unborn"
        BY <2>3, <4>2 DEF Born, RowsAreBorn
      <4> QED BY <2>6, <4>1, <4>3 DEF RowsAreBorn
    <3> QED BY <3>1, <3>2 DEF RowsAreBorn, Born
  <2>8. \A t \in TreeTickets : node[t].kind # "unborn" => node'[t].kind # "unborn"
    BY <2>6
  <2> QED BY <1>12, <1>b, <1>n, <2>7, <2>8, NoLinkIsTask DEF Fold, EndLink
<1>13. CASE TreeCrash
  BY <1>13, <1>c, <1>n, NoLinkIsTask DEF TreeCrash
<1>14. CASE UNCHANGED treeVars
  BY <1>14, <1>a, <1>c DEF treeVars
<1> QED
  BY <1>1, <1>2, <1>3, <1>4, <1>5, <1>6, <1>7, <1>8, <1>9, <1>10, <1>11, <1>12, <1>13, <1>14 DEF TreeNext

(* Rows and handlers have their shape, a parent is a row that was created and
   a handler names only rows that were, however many handlers overlap. *)
THEOREM TreeTypeCorrect == TreeSpec => []TreeTypeOK
BY TreeStarts, TreeShapeKept, TreeShapeIsTypeOK, PTL DEF TreeSpec

(* What the walk has seen: the parent it started from and what is above it as
   far as the cursor, without the child. *)
WalkIsSound(l) ==
  /\ l.child \notin l.seen /\ l.child # NoParent
  /\ l.parent \in l.seen
  /\ \A t \in l.seen : node[t].parent \in l.seen \cup {NoParent, l.cursor}

(* The child is not above its new parent. *)
WriteIsSound(l) ==
  l.parent = NoParent \/ \E ts \in Lineages(l.parent) : l.child \notin ts

(* The children that a merge read are still children of the sources. *)
KidsAreCurrent(l) ==
  \A t, s \in TreeTickets : <<t, s>> \in l.kids => node[t].parent = s

LinkIsSound ==
  \A r \in Linkers :
    /\ link[r].op = "climb" => WalkIsSound(link[r])
    /\ link[r].op = "write" => WriteIsSound(link[r])
    /\ link[r].op = "fold" => KidsAreCurrent(link[r])

LEMMA OnlyLink ==
  ASSUME \A r, q \in Linkers : r = q, TreeShape, NEW r \in Linkers, NEW f,
         link' = [link EXCEPT ![r] = f], NEW q \in Linkers
  PROVE  link'[q] = f
BY DEF TreeShape

LEMMA LinkSoundKept ==
  ASSUME \A r, q \in Linkers : r = q, TreeShape, LinkIsSound, [TreeNext]_treeVars
  PROVE  LinkIsSound'
<1> USE DEF LinkIsSound
<1>i. ASSUME \A q \in Linkers : link'[q].op \in {"idle", "raise"} PROVE LinkIsSound'
  BY <1>i
<1>n. NoLink.op = "idle"
  BY DEF NoLink
<1>1. ASSUME NEW t \in TreeTickets,
             \/ \E kind \in NewKinds, p \in TreeTickets \cup {NoParent} : CreateUnder(t, kind, p)
             \/ Discard(t)
      PROVE  LinkIsSound'
  <2>1. SlotFree /\ link' = link
    BY <1>1 DEF CreateUnder, Discard
  <2>2. \A q \in Linkers : link'[q].op = "idle"
    BY <2>1, <1>n DEF SlotFree
  <2> QED BY <1>i, <2>2
<1>2. ASSUME NEW r \in Linkers, NEW p \in TreeTickets, NEW c \in TreeTickets, BeginLink(r, p, c)
      PROVE  LinkIsSound'
  <2>1. PICK f : f = [NoLink EXCEPT !.op = "climb", !.parent = p, !.child = c, !.cursor = node[p].parent, !.seen = {p}]
    OBVIOUS
  <2>2. f.op = "climb" /\ f.parent = p /\ f.child = c /\ f.cursor = node[p].parent /\ f.seen = {p}
    BY <2>1 DEF NoLink
  <2>3. \A q \in Linkers : link'[q] = f
    BY <1>2, <2>1, OnlyLink DEF BeginLink
  <2>4. p # c /\ UNCHANGED node
    BY <1>2 DEF BeginLink
  <2>5. WalkIsSound(f)'
    BY <2>2, <2>4 DEF WalkIsSound
  <2> QED BY <2>2, <2>3, <2>5
<1>3. ASSUME NEW r \in Linkers, Climb(r) PROVE LinkIsSound'
  <2>1. PICK l \in LinkTask : l = link[r] /\ l.op = "climb" /\ WalkIsSound(l)
    BY <1>3 DEF Climb, TreeShape
  <2>2. PICK f : f = [l EXCEPT !.seen = @ \cup {l.cursor}, !.cursor = node[l.cursor].parent]
    OBVIOUS
  <2>3. /\ f.op = "climb" /\ f.parent = l.parent /\ f.child = l.child
        /\ f.cursor = node[l.cursor].parent /\ f.seen = l.seen \cup {l.cursor}
    BY <2>1, <2>2 DEF LinkTask
  <2>4. link' = [link EXCEPT ![r] = f]
    BY <1>3, <2>1, <2>2 DEF Climb
  <2>5. \A q \in Linkers : link'[q] = f
    BY <2>4, OnlyLink
  <2>6. l.cursor # l.child /\ UNCHANGED node
    BY <1>3, <2>1 DEF Climb
  <2>7. WalkIsSound(f)'
    BY <2>1, <2>3, <2>6 DEF WalkIsSound
  <2> QED BY <2>3, <2>5, <2>7
<1>4. ASSUME NEW r \in Linkers, RefuseCycle(r) \/ WriteParent(r) \/ Fold(r) PROVE LinkIsSound'
  <2>1. link' = [link EXCEPT ![r] = NoLink]
    BY <1>4 DEF RefuseCycle, WriteParent, Fold, EndLink
  <2> QED BY <1>i, <1>n, <2>1, OnlyLink
<1>5. ASSUME NEW r \in Linkers, EndClimb(r) PROVE LinkIsSound'
  <2>1. PICK l \in LinkTask : l = link[r] /\ l.op = "climb" /\ WalkIsSound(l)
    BY <1>5 DEF EndClimb, TreeShape
  <2>2. PICK f : f = [l EXCEPT !.op = "write"]
    OBVIOUS
  <2>3. f.op = "write" /\ f.parent = l.parent /\ f.child = l.child
    BY <2>1, <2>2 DEF LinkTask
  <2>4. link' = [link EXCEPT ![r] = f]
    BY <1>5, <2>1, <2>2 DEF EndClimb
  <2>5. \A q \in Linkers : link'[q] = f
    BY <2>4, OnlyLink
  <2>6. l.cursor = NoParent \/ l.cursor \in l.seen
    BY <1>5, <2>1 DEF EndClimb, WalkGoesOn
  <2>7. l.seen \in Lineages(l.parent) /\ l.child \notin l.seen
    BY <2>1, <2>6 DEF WalkIsSound, Lineages, LinkTask
  <2>8. UNCHANGED node
    BY <1>5 DEF EndClimb
  <2>9. WriteIsSound(f)'
    BY <2>3, <2>7, <2>8 DEF WriteIsSound, Lineages
  <2> QED BY <2>3, <2>5, <2>9
<1>6. ASSUME NEW r \in Linkers, NEW c \in TreeTickets, BeginUnlink(r, c) PROVE LinkIsSound'
  <2>1. PICK f : f = [NoLink EXCEPT !.op = "write", !.child = c]
    OBVIOUS
  <2>2. f.op = "write" /\ f.parent = NoParent
    BY <2>1 DEF NoLink
  <2>3. \A q \in Linkers : link'[q] = f
    BY <1>6, <2>1, OnlyLink DEF BeginUnlink
  <2>4. WriteIsSound(f)'
    BY <2>2 DEF WriteIsSound
  <2> QED BY <2>2, <2>3, <2>4
<1>7. ASSUME NEW r \in Linkers, NEW c \in TreeTickets, BeginPromote(r, c) PROVE LinkIsSound'
  <2>1. PICK f : f = [NoLink EXCEPT !.op = "raise", !.child = c]
    OBVIOUS
  <2>2. f.op = "raise"
    BY <2>1 DEF NoLink
  <2>3. \A q \in Linkers : link'[q] = f
    BY <1>7, <2>1, OnlyLink DEF BeginPromote
  <2> QED BY <1>i, <2>2, <2>3
<1>8. ASSUME NEW r \in Linkers, NEW q \in TreeTickets, RaiseParent(r, q) PROVE LinkIsSound'
  <2>1. PICK l \in LinkTask : l = link[r] /\ l.op = "raise" /\ TaskIsBorn(l)
    BY <1>8 DEF RaiseParent, TreeShape
  <2>2. PICK f : f = [l EXCEPT !.op = "write", !.parent = q]
    OBVIOUS
  <2>3. f.op = "write" /\ f.parent = q /\ f.child = l.child
    BY <2>1, <2>2 DEF LinkTask
  <2>4. link' = [link EXCEPT ![r] = f]
    BY <1>8, <2>1, <2>2 DEF RaiseParent
  <2>5. \A x \in Linkers : link'[x] = f
    BY <2>4, OnlyLink
  <2>6. l.child # q
    BY <1>8, <2>1 DEF RaiseParent, TaskIsBorn, Born
  <2>7. node'[q].parent = NoParent
    BY <1>8 DEF RaiseParent, TreeShape, RowsAreBorn, Unborn
  <2>8. WriteIsSound(f)'
    <3>1. {q} \in {ts \in SUBSET TreeTickets : q \in ts /\ \A t \in ts : node'[t].parent \in ts \cup {NoParent}}
      BY <2>7
    <3>2. {q} \in Lineages(q)' /\ l.child \notin {q}
      BY <2>6, <3>1 DEF Lineages
    <3>3. \E ts \in Lineages(f.parent)' : f.child \notin ts
      BY <2>3, <3>2
    <3> QED BY <3>3 DEF WriteIsSound
  <2> QED BY <2>3, <2>5, <2>8
<1>9. ASSUME NEW r \in Linkers, NEW p \in TreeTickets, NEW ss \in SUBSET TreeTickets, BeginFold(r, p, ss)
      PROVE  LinkIsSound'
  <2>1. PICK kids : kids = {k \in TreeTickets \X ss : Live(k[1]) /\ node[k[1]].parent = k[2]}
    OBVIOUS
  <2>2. PICK f : f = [NoLink EXCEPT !.op = "fold", !.parent = p, !.sources = ss, !.kids = kids]
    OBVIOUS
  <2>3. f.op = "fold" /\ f.kids = kids
    BY <2>2 DEF NoLink
  <2>4. link' = [link EXCEPT ![r] = f] /\ UNCHANGED node
    BY <1>9, <2>1, <2>2 DEF BeginFold
  <2>5. \A x \in Linkers : link'[x] = f
    BY <2>4, OnlyLink
  <2>6. KidsAreCurrent(f)'
    BY <2>1, <2>3, <2>4 DEF KidsAreCurrent
  <2> QED BY <2>3, <2>5, <2>6
<1>10. CASE TreeCrash
  BY <1>10, <1>i, <1>n DEF TreeCrash
<1>11. CASE UNCHANGED treeVars
  BY <1>11 DEF treeVars, WalkIsSound, WriteIsSound, KidsAreCurrent, Lineages
<1> QED
  BY <1>1, <1>2, <1>3, <1>4, <1>5, <1>6, <1>7, <1>8, <1>9, <1>10, <1>11 DEF TreeNext

(* A step after which every parent inside some set ts is an old one gives ts
   no cycle that was not there. *)
LEMMA OldParents ==
  ASSUME Forest, NEW ts \in SUBSET TreeTickets, ts # {},
         \A t \in ts : node'[t].parent \in ts => node[t].parent \in ts
  PROVE  \E t \in ts : node'[t].parent \notin ts
BY DEF Forest

LEMMA LinkingKeepsForest ==
  ASSUME TreeShape, LinkIsSound, Forest, [TreeNext]_treeVars
  PROVE  Forest' \/ \E r \in Linkers : FoldsDownward(r) /\ link'[r].op = "idle"
<1>0. node \in [TreeTickets -> Node] /\ \A t \in TreeTickets : node[t].parent \in TreeTickets \cup {NoParent}
  BY DEF TreeShape, RowsAreBorn, Node
<1>a. ASSUME \A t \in TreeTickets : node'[t].parent = node[t].parent PROVE Forest'
  BY <1>a DEF Forest
<1>1. ASSUME NEW t \in TreeTickets, NEW kind \in NewKinds, NEW p \in TreeTickets \cup {NoParent}, CreateUnder(t, kind, p)
      PROVE  Forest'
  <2>1. /\ node'[t].parent = p /\ p # t
        /\ \A u \in TreeTickets : u # t => node'[u].parent = node[u].parent
    BY <1>0, <1>1 DEF CreateUnder, Live, Unborn
  <2>2. \A u \in TreeTickets : node[u].parent # t
    BY <1>1 DEF CreateUnder, TreeShape, RowsAreBorn, Born
  <2>3. ASSUME NEW ts \in SUBSET TreeTickets, ts # {} PROVE \E u \in ts : node'[u].parent \notin ts
    <3>1. CASE t \notin ts
      BY <2>1, <2>3, <3>1 DEF Forest
    <3>2. CASE ts = {t}
      BY <2>1, <3>2
    <3>3. CASE t \in ts /\ ts # {t}
      <4>1. PICK us \in SUBSET TreeTickets : us = ts \ {t} /\ us # {}
        BY <3>3
      <4>2. PICK u \in us : node[u].parent \notin us
        BY <4>1 DEF Forest
      <4> QED BY <2>1, <2>2, <4>1, <4>2
    <3> QED BY <3>1, <3>2, <3>3
  <2> QED BY <2>3 DEF Forest
<1>2. ASSUME NEW t \in TreeTickets, Discard(t) PROVE Forest'
  <2>1. \A u \in TreeTickets : node'[u].parent = node[u].parent
    BY <1>0, <1>2 DEF Discard, Node
  <2> QED BY <1>a, <2>1
<1>3. ASSUME NEW r \in Linkers, WriteParent(r) PROVE Forest'
  <2>1. PICK c \in TreeTickets, p \in TreeTickets \cup {NoParent} : c = link[r].child /\ p = link[r].parent
    BY <1>3 DEF WriteParent, TreeShape, TaskIsBorn, LinkTask
  <2>2. p = NoParent \/ \E L \in Lineages(p) : c \notin L
    BY <1>3, <2>1 DEF WriteParent, LinkIsSound, WriteIsSound
  <2>3. node' = [node EXCEPT ![c].parent = p]
    BY <1>3, <2>1 DEF WriteParent, WithParent
  <2>4. node'[c].parent = p /\ \A u \in TreeTickets : u # c => node'[u].parent = node[u].parent
    BY <1>0, <2>3 DEF Node
  <2>5. ASSUME NEW ts \in SUBSET TreeTickets, ts # {} PROVE \E u \in ts : node'[u].parent \notin ts
    <3>1. CASE c \notin ts
      BY <2>4, <2>5, <3>1 DEF Forest
    <3>2. CASE c \in ts /\ p \notin ts
      BY <2>4, <3>2
    <3>3. CASE c \in ts /\ p \in ts
      <4>1. PICK L \in Lineages(p) : c \notin L
        BY <2>2, <3>3
      <4>2. PICK us \in SUBSET TreeTickets : us = ts \cap L
        OBVIOUS
      <4>3. p \in us /\ \A t \in us : node[t].parent \in L \cup {NoParent}
        BY <3>3, <4>1, <4>2 DEF Lineages
      <4>4. PICK u \in us : node[u].parent \notin us
        BY <4>3 DEF Forest
      <4>5. node[u].parent \notin ts
        BY <4>2, <4>3, <4>4
      <4> QED BY <2>4, <4>1, <4>2, <4>4, <4>5
    <3> QED BY <3>1, <3>2, <3>3
  <2> QED BY <2>5 DEF Forest
<1>4. ASSUME NEW r \in Linkers, NEW q \in TreeTickets, RaiseParent(r, q) PROVE Forest'
  <2>1. \A u \in TreeTickets : node'[u].parent = node[u].parent
    BY <1>0, <1>4 DEF RaiseParent, TreeShape, RowsAreBorn, Unborn
  <2> QED BY <1>a, <2>1
<1>5. ASSUME NEW r \in Linkers, Fold(r), ~(FoldsDownward(r) /\ link'[r].op = "idle") PROVE Forest'
  <2>1. PICK turn : node' = [t \in TreeTickets |-> [node[t] EXCEPT
            !.parent = FoldedParent(r, turn, t), !.merged = @ \/ t \in link[r].sources]]
    BY <1>5 DEF Fold
  <2>2. PICK l \in LinkTask : l = link[r] /\ l.op = "fold" /\ TaskIsBorn(l) /\ KidsAreCurrent(l)
    BY <1>5 DEF Fold, TreeShape, LinkIsSound
  <2>3. link'[r].op = "idle"
    BY <1>5 DEF Fold, EndLink, TreeShape, NoLink
  <2>4. PICK p \in TreeTickets : p = l.parent
    BY <2>2 DEF TaskIsBorn
  <2>5. PICK L \in Lineages(p) : L \cap l.sources = {}
    BY <1>5, <2>2, <2>3, <2>4 DEF FoldsDownward
  <2>6. ASSUME NEW t \in TreeTickets
        PROVE  /\ node'[t].parent \in {node[t].parent, p, NoParent}
               /\ t \in L => node'[t].parent = node[t].parent
    <3>1. PICK of : of = {s \in l.sources : <<t, s>> \in l.kids}
      OBVIOUS
    <3>2. FoldedParent(r, turn, t) =
            IF t \notin l.sources THEN IF of = {} THEN node[t].parent ELSE l.parent
            ELSE IF \E s \in of : turn[s] > turn[t] THEN l.parent ELSE NoParent
      BY <2>2, <3>1 DEF FoldedParent
    <3>3. node'[t].parent = FoldedParent(r, turn, t)
      <4>1. PICK x : x = FoldedParent(r, turn, t)
        OBVIOUS
      <4>2. node'[t] = [node[t] EXCEPT !.parent = x, !.merged = @ \/ t \in l.sources]
        BY <2>1, <2>2, <4>1
      <4> QED BY <1>0, <4>1, <4>2 DEF Node
    <3>4. t \in L => of = {}
      <4>1. ASSUME t \in L, NEW s \in l.sources, <<t, s>> \in l.kids PROVE FALSE
        <5>1. s \in TreeTickets
          BY DEF LinkTask
        <5>2. node[t].parent = s
          BY <2>2, <4>1, <5>1 DEF KidsAreCurrent
        <5>3. s \in L
          BY <4>1, <5>1, <5>2 DEF Lineages
        <5> QED BY <2>5, <5>3
      <4> QED BY <3>1, <4>1
    <3>5. t \in L => t \notin l.sources
      BY <2>5
    <3> HIDE DEF FoldedParent
    <3> QED BY <2>4, <3>2, <3>3, <3>4, <3>5
  <2>7. ASSUME NEW ts \in SUBSET TreeTickets, ts # {} PROVE \E u \in ts : node'[u].parent \notin ts
    <3>1. CASE p \notin ts
      <4>1. PICK u \in ts : node[u].parent \notin ts
        BY <2>7 DEF Forest
      <4> QED BY <2>6, <3>1, <4>1
    <3>2. CASE p \in ts
      <4>1. PICK us \in SUBSET TreeTickets : us = ts \cap L
        OBVIOUS
      <4>2. p \in us /\ \A t \in us : node[t].parent \in L \cup {NoParent}
        BY <3>2, <4>1 DEF Lineages
      <4>3. PICK u \in us : node[u].parent \notin us
        BY <4>2 DEF Forest
      <4>4. node[u].parent \notin ts
        BY <4>1, <4>2, <4>3
      <4> QED BY <2>6, <4>1, <4>3, <4>4
    <3> QED BY <3>1, <3>2
  <2> QED BY <2>7 DEF Forest
<1>6. CASE \/ UNCHANGED treeVars \/ TreeCrash
           \/ \E r \in Linkers :
                \/ \E p, c \in TreeTickets : BeginLink(r, p, c)
                \/ Climb(r) \/ RefuseCycle(r) \/ EndClimb(r)
                \/ \E c \in TreeTickets : BeginUnlink(r, c) \/ BeginPromote(r, c)
                \/ \E p \in TreeTickets, ss \in SUBSET TreeTickets \ {{}} : BeginFold(r, p, ss)
  <2>1. UNCHANGED node
    BY <1>6 DEF treeVars, TreeCrash, BeginLink, Climb, RefuseCycle, EndClimb, BeginUnlink, BeginPromote, BeginFold
  <2> QED BY <1>a, <2>1
<1> QED BY <1>1, <1>2, <1>3, <1>4, <1>5, <1>6 DEF TreeNext

(* Linking, promoting and creating never close a cycle of parents, one handler
   at a time: only a merge of a ticket into one below it does. *)
THEOREM OnlyMergesCloseCycles ==
  ASSUME \A r, q \in Linkers : r = q
  PROVE  TreeSpec => CyclesComeFromMerging
<1>1. TreeInit => TreeShape /\ LinkIsSound
  BY TreeStarts DEF TreeInit, LinkIsSound, NoLink
<1>2. TreeShape /\ LinkIsSound /\ [TreeNext]_treeVars => TreeShape' /\ LinkIsSound'
  BY TreeShapeKept, LinkSoundKept
<1>3. TreeShape /\ LinkIsSound /\ [TreeNext]_treeVars =>
        [Forest => Forest' \/ \E r \in Linkers : FoldsDownward(r) /\ link'[r].op = "idle"]_treeVars
  BY LinkingKeepsForest
<1> QED BY <1>1, <1>2, <1>3, PTL DEF TreeSpec, CyclesComeFromMerging

-----------------------------------------------------------------------------
(***************************************************************************)
(* Presence: what the two stores hold and what the pages show.             *)
(***************************************************************************)
USE PresenceAssumption DEF PresenceAssumption

PeerSet == SUBSET (Viewers \X PageModes)

PresenceRequest ==
  [kind : {"none", "beat", "list", "leave"},
   op : {"idle", "call", "connect", "set", "members", "values", "clean", "delete", "fallback"},
   u : SUBSET Viewers, mode : {"none"} \cup PageModes, live : BOOLEAN,
   ids : SUBSET Viewers, peers : PeerSet]

(* A heartbeat carries a mode, only a heartbeat sets a key, and nobody is his
   own peer. *)
CallFits(q) ==
  /\ q \in PresenceRequest
  /\ q.kind = "beat" => q.mode \in PageModes
  /\ q.op = "set" => q.kind = "beat"
  /\ \A p \in q.peers : p[1] \notin q.u

PagesFit ==
  /\ viewer \in [Viewers -> {"away"} \cup PageModes]
  /\ due \subseteq Viewers /\ \A u \in due : viewer[u] # "away"
  /\ shown \in [Viewers -> PeerSet]
  /\ \A u \in Viewers : \A p \in shown[u] : p[1] # u

StoresFit ==
  /\ keys \in [Viewers -> Entry(KeyLife)] /\ memory \in [Viewers -> Entry(StaleAge + 1)]
  /\ index \subseteq Viewers /\ \A u \in Viewers : keys[u] # NoEntry => u \in index

ClientFits == redisUp \in BOOLEAN /\ failed \in BOOLEAN /\ conn \in {"idle", "connecting", "ready"}

CallsFit == request \in [Calls -> PresenceRequest] /\ \A r \in Calls : CallFits(request[r])

PresenceInv == PagesFit /\ StoresFit /\ ClientFits /\ CallsFit

LEMMA NoRequestFits == CallFits(NoRequest)
BY DEF CallFits, NoRequest, PresenceRequest, PeerSet

LEMMA RequestFits ==
  ASSUME NEW kind \in {"beat", "list", "leave"}, NEW u \in Viewers,
         NEW mode \in {"none"} \cup PageModes, kind = "beat" => mode \in PageModes
  PROVE  CallFits(Request(kind, u, mode))
BY DEF CallFits, Request, NoRequest, PresenceRequest, PeerSet

(* What a call that changes one request leaves of the others. *)
LEMMA OneCallFits ==
  ASSUME CallsFit, NEW r \in Calls, NEW q, CallFits(q), request' = [request EXCEPT ![r] = q]
  PROVE  CallsFit'
BY DEF CallsFit, CallFits

(* A step to another operation. *)
LEMMA StepFits ==
  ASSUME CallsFit, NEW r \in Calls,
         NEW op \in {"call", "connect", "set", "members", "values", "delete", "fallback"},
         op = "set" => request[r].kind = "beat", Step(r, op)
  PROVE  CallsFit'
<1>1. PICK q : q = [request[r] EXCEPT !.op = op]
  OBVIOUS
<1>2. CallFits(request[r]) /\ request[r] \in PresenceRequest
  BY DEF CallsFit
<1>3. /\ q.kind = request[r].kind /\ q.op = op /\ q.u = request[r].u /\ q.mode = request[r].mode
      /\ q.peers = request[r].peers /\ q \in PresenceRequest
  BY <1>1, <1>2 DEF PresenceRequest
<1>4. CallFits(q)
  BY <1>2, <1>3 DEF CallFits
<1>5. request' = [request EXCEPT ![r] = q]
  BY <1>1 DEF Step
<1> QED BY <1>4, <1>5, OneCallFits

(* An answer ends its request, and shows nobody to himself. *)
LEMMA ReplyFits ==
  ASSUME PagesFit, CallsFit, NEW r \in Calls, NEW ps \in PeerSet,
         \A p \in ps : p[1] \notin request[r].u, Reply(r, ps), UNCHANGED <<viewer, due>>
  PROVE  PagesFit' /\ CallsFit'
<1>1. CallsFit'
  BY NoRequestFits, OneCallFits DEF Reply
<1>2. ASSUME NEW u \in Viewers
      PROVE  shown'[u] \in PeerSet /\ \A p \in shown'[u] : p[1] # u
  <2>1. (shown'[u] = ps /\ u \in request[r].u) \/ shown'[u] = shown[u]
    BY DEF Reply
  <2> QED BY <2>1 DEF PagesFit
<1>3. shown' \in [Viewers -> PeerSet]
  BY <1>2 DEF Reply
<1> QED BY <1>1, <1>2, <1>3 DEF PagesFit

LEMMA PresenceStarts == PresenceInit => PresenceInv
<1> SUFFICES ASSUME PresenceInit PROVE PresenceInv
  OBVIOUS
<1>1. CallsFit
  BY NoRequestFits DEF PresenceInit, CallsFit, CallFits
<1> QED
  BY <1>1 DEF PresenceInit, PresenceInv, PagesFit, StoresFit, ClientFits, Entry, PeerSet

(* The entries of others are peers. *)
LEMMA EntriesArePeers ==
  ASSUME NEW life, NEW f \in [Viewers -> Entry(life)], NEW S \in SUBSET Viewers,
         \A v \in S : f[v] # NoEntry, NEW me
  PROVE  /\ {<<v, f[v].mode>> : v \in S \ me} \in PeerSet
         /\ \A p \in {<<v, f[v].mode>> : v \in S \ me} : p[1] \notin me
<1>1. \A v \in S : v \in Viewers /\ f[v].mode \in PageModes
  BY DEF Entry
<1> QED BY <1>1 DEF PeerSet

LEMMA PageStepsFit ==
  ASSUME PresenceInv, NEW r \in Calls, NEW u \in Viewers,
         (\E mode \in {"away"} \cup PageModes : SwitchMode(r, u, mode))
           \/ SendBeat(r, u) \/ SendList(r, u)
  PROVE  PresenceInv'
<1> USE DEF PresenceInv
<1>1. ASSUME NEW mode \in {"away"} \cup PageModes, SwitchMode(r, u, mode) PROVE PresenceInv'
  <2>1. PagesFit'
    BY <1>1 DEF SwitchMode, PagesFit, PeerSet
  <2>2. ASSUME NEW q \in Calls PROVE CallFits(request'[q])
    <3>1. CallFits(Request("leave", u, "none"))
      BY RequestFits
    <3>2. CallFits([request[q] EXCEPT !.live = FALSE])
      BY DEF CallsFit, CallFits, PresenceRequest
    <3>3. request'[q] \in {Request("leave", u, "none"), [request[q] EXCEPT !.live = FALSE], request[q]}
      BY <1>1 DEF SwitchMode
    <3> QED BY <3>1, <3>2, <3>3 DEF CallsFit
  <2>3. CallsFit'
    BY <1>1, <2>2 DEF CallsFit, CallFits, SwitchMode
  <2> QED BY <1>1, <2>1, <2>3 DEF SwitchMode, StoresFit, ClientFits
<1>2. CASE SendBeat(r, u)
  <2>1. CallFits(Request("beat", u, viewer[u]))
    BY <1>2, RequestFits DEF SendBeat, PagesFit
  <2>2. CallsFit'
    BY <1>2, <2>1, OneCallFits DEF SendBeat
  <2> QED BY <1>2, <2>2 DEF SendBeat, PagesFit, StoresFit, ClientFits
<1>3. CASE SendList(r, u)
  <2>1. CallFits(Request("list", u, "none"))
    BY RequestFits
  <2>2. CallsFit'
    BY <1>3, <2>1, OneCallFits DEF SendList
  <2> QED BY <1>3, <2>2 DEF SendList, PagesFit, StoresFit, ClientFits
<1> QED BY <1>1, <1>2, <1>3

LEMMA TimeFits == ASSUME PresenceInv, IntervalPasses PROVE PresenceInv'
<1> USE DEF PresenceInv
<1>1. PagesFit' /\ ClientFits' /\ CallsFit'
  BY DEF IntervalPasses, PagesFit, ClientFits, CallsFit
<1>2. ASSUME NEW u \in Viewers
      PROVE  keys'[u] \in Entry(KeyLife) /\ (keys'[u] # NoEntry => keys[u] # NoEntry)
  <2>1. PICK e \in Entry(KeyLife) : e = keys[u]
    BY DEF StoresFit
  <2>2. keys'[u] = Older(e, KeyLife)
    BY <2>1 DEF IntervalPasses
  <2>3. CASE e = NoEntry \/ e.age >= KeyLife
    BY <2>1, <2>2, <2>3 DEF Older, Entry
  <2>4. CASE ~(e = NoEntry \/ e.age >= KeyLife)
    <3>1. e \in [mode : PageModes, age : 0..KeyLife] /\ e.age + 1 \in 0..KeyLife
      BY <2>4 DEF Entry
    <3> QED BY <2>1, <2>2, <2>4, <3>1 DEF Older, Entry
  <2> QED BY <2>3, <2>4
<1>3. ASSUME NEW u \in Viewers PROVE memory'[u] \in Entry(StaleAge + 1)
  <2>1. PICK e \in Entry(StaleAge + 1) : e = memory[u]
    BY DEF StoresFit
  <2>2. memory'[u] = IF e # NoEntry /\ e.age <= StaleAge THEN [e EXCEPT !.age = @ + 1] ELSE e
    BY <2>1 DEF IntervalPasses
  <2>3. CASE e # NoEntry /\ e.age <= StaleAge
    <3>1. e \in [mode : PageModes, age : 0..(StaleAge + 1)] /\ e.age + 1 \in 0..(StaleAge + 1)
      BY <2>3 DEF Entry
    <3> QED BY <2>2, <2>3, <3>1 DEF Entry
  <2> QED BY <2>2, <2>3
<1>4. StoresFit'
  BY <1>2, <1>3 DEF IntervalPasses, StoresFit
<1> QED BY <1>1, <1>4

(* The first answer of the client. *)
LEMMA GetRedisEffect ==
  ASSUME ClientFits, NEW r \in Calls, GetRedis(r)
  PROVE  /\ Step(r, "fallback") \/ Step(r, FirstOp(request[r].kind)) \/ Step(r, "connect")
         /\ conn' \in {conn, "connecting"}
         /\ failed' = failed \/ failed' = TRUE
<1>1. CASE failed
  BY <1>1, Zenon DEF GetRedis, ClientFits
<1>2. CASE ~failed /\ conn = "ready"
  BY <1>2, Zenon DEF GetRedis, ClientFits
<1>3. CASE ~failed /\ conn = "idle"
  BY <1>3 DEF GetRedis, ClientFits
<1>4. CASE ~failed /\ conn = "connecting"
  BY <1>4 DEF GetRedis, ClientFits
<1> QED BY <1>1, <1>2, <1>3, <1>4 DEF ClientFits

LEMMA HandlersFit == ASSUME PresenceInv, NEW r \in Calls, Handle(r) PROVE PresenceInv'
<1> USE DEF PresenceInv
<1>a. request[r] \in PresenceRequest /\ CallFits(request[r])
  BY DEF CallsFit
<1>b. FirstOp(request[r].kind) \in {"set", "members", "delete"}
      /\ (FirstOp(request[r].kind) = "set" => request[r].kind = "beat")
  BY DEF FirstOp
<1>1. CASE GetRedis(r)
  <2>1. /\ Step(r, "fallback") \/ Step(r, FirstOp(request[r].kind)) \/ Step(r, "connect")
        /\ conn' \in {conn, "connecting"}
    BY <1>1, GetRedisEffect
  <2>2. failed' \in BOOLEAN
    BY <1>1, GetRedisEffect DEF ClientFits
  <2>3. CallsFit'
    BY <1>b, <2>1, StepFits
  <2>4. UNCHANGED <<viewer, due, shown, keys, index, redisUp, memory>>
    BY <1>1 DEF GetRedis
  <2> QED BY <2>1, <2>2, <2>3, <2>4 DEF PagesFit, StoresFit, ClientFits
<1>2. CASE Connected(r)
  <2>1. CallsFit'
    BY <1>2, <1>b, StepFits DEF Connected
  <2> QED BY <1>2, <2>1 DEF Connected, PagesFit, StoresFit, ClientFits
<1>3. CASE RedisFails(r)
  <2>1. CallsFit'
    BY <1>3, StepFits DEF RedisFails
  <2> QED BY <1>3, <2>1 DEF RedisFails, PagesFit, StoresFit, ClientFits
<1>4. CASE SetKey(r)
  <2>1. CallsFit'
    BY <1>4, StepFits DEF SetKey
  <2>2. [mode |-> request[r].mode, age |-> 0] \in Entry(KeyLife)
    BY <1>4, <1>a DEF SetKey, CallFits, Entry
  <2>3. StoresFit'
    BY <1>4, <1>a, <2>2 DEF SetKey, StoresFit, PresenceRequest
  <2> QED BY <1>4, <2>1, <2>3 DEF SetKey, PagesFit, ClientFits
<1>5. CASE Members(r)
  <2>1. CASE index = {}
    BY <1>5, <2>1, ReplyFits DEF Members, StoresFit, ClientFits, PeerSet
  <2>2. CASE index # {}
    <3>1. PICK q : q = [request[r] EXCEPT !.op = "values", !.ids = index]
      OBVIOUS
    <3>2. /\ q.kind = request[r].kind /\ q.op = "values" /\ q.u = request[r].u
          /\ q.mode = request[r].mode /\ q.peers = request[r].peers /\ q \in PresenceRequest
      BY <1>a, <3>1 DEF PresenceRequest, StoresFit
    <3>3. CallFits(q)
      BY <1>a, <3>2 DEF CallFits
    <3>4. request' = [request EXCEPT ![r] = q]
      BY <1>5, <2>2, <3>1, <1>a DEF Members, PresenceRequest, CallsFit
    <3>5. CallsFit'
      BY <3>3, <3>4, OneCallFits
    <3> QED BY <1>5, <2>2, <3>5 DEF Members, PagesFit, StoresFit, ClientFits
  <2> QED BY <2>1, <2>2
<1>6. CASE Values(r)
  <2>1. PICK found : found = {v \in request[r].ids : keys[v] # NoEntry}
    OBVIOUS
  <2>2. PICK ps : ps = {<<v, keys[v].mode>> : v \in found \ request[r].u}
    OBVIOUS
  <2>3. ps \in PeerSet /\ \A p \in ps : p[1] \notin request[r].u
    BY <1>a, <2>1, <2>2, EntriesArePeers DEF StoresFit, PresenceRequest
  <2>4. CASE found = request[r].ids
    <3>1. Reply(r, ps) /\ UNCHANGED <<viewer, due, keys, index, redisUp, conn, failed, memory>>
      BY <1>6, <2>1, <2>2, <2>4 DEF Values
    <3> QED BY <2>3, <3>1, ReplyFits DEF StoresFit, ClientFits
  <2>5. CASE found # request[r].ids
    <3>1. PICK q : q = [request[r] EXCEPT !.op = "clean", !.ids = @ \ found, !.peers = ps]
      OBVIOUS
    <3>2. /\ q.kind = request[r].kind /\ q.op = "clean" /\ q.u = request[r].u
          /\ q.mode = request[r].mode /\ q.peers = ps /\ q \in PresenceRequest
      BY <1>a, <2>3, <3>1 DEF PresenceRequest
    <3>3. CallFits(q)
      BY <1>a, <2>3, <3>2 DEF CallFits
    <3>4. request' = [request EXCEPT ![r] = q]
      BY <1>6, <2>1, <2>2, <2>5, <3>1, <1>a DEF Values, PresenceRequest, CallsFit
    <3>5. CallsFit'
      BY <3>3, <3>4, OneCallFits
    <3>6. UNCHANGED <<viewer, due, shown, keys, index, redisUp, conn, failed, memory>>
      BY <1>6, <2>1, <2>5 DEF Values
    <3> QED BY <3>5, <3>6 DEF PagesFit, StoresFit, ClientFits
  <2> QED BY <2>4, <2>5
<1>7. CASE Clean(r)
  <2>1. PagesFit' /\ CallsFit'
    BY <1>7, <1>a, ReplyFits DEF Clean, CallFits, PresenceRequest
  <2>2. StoresFit'
    BY <1>7, <1>a DEF Clean, StoresFit, PresenceRequest, Entry
  <2> QED BY <1>7, <2>1, <2>2 DEF Clean, ClientFits
<1>8. CASE DeleteKey(r)
  <2>1. CallsFit'
    BY <1>8, StepFits DEF DeleteKey
  <2>2. StoresFit'
    BY <1>8, <1>a DEF DeleteKey, StoresFit, PresenceRequest, Entry
  <2> QED BY <1>8, <2>1, <2>2 DEF DeleteKey, PagesFit, ClientFits
<1>9. CASE Fallback(r)
  <2>1. PICK put : put = [v \in Viewers |->
          IF v \in request[r].u /\ request[r].kind = "beat" THEN [mode |-> request[r].mode, age |-> 0]
          ELSE IF v \in request[r].u /\ request[r].kind = "leave" THEN NoEntry
          ELSE memory[v]]
    OBVIOUS
  <2>2. PICK kept : kept = [v \in Viewers |-> IF put[v].age > StaleAge THEN NoEntry ELSE put[v]]
    OBVIOUS
  <2>3. put \in [Viewers -> Entry(StaleAge + 1)]
    <3>1. request[r].kind = "beat" => [mode |-> request[r].mode, age |-> 0] \in Entry(StaleAge + 1)
      BY <1>a DEF CallFits, Entry
    <3> QED BY <2>1, <3>1 DEF StoresFit, Entry
  <2>4. kept \in [Viewers -> Entry(StaleAge + 1)]
    BY <2>2, <2>3 DEF Entry
  <2>5. PICK ps : ps = {<<v, kept[v].mode>> : v \in {w \in Viewers : kept[w] # NoEntry} \ request[r].u}
    OBVIOUS
  <2>6. ps \in PeerSet /\ \A p \in ps : p[1] \notin request[r].u
    <3>1. PICK S \in SUBSET Viewers : S = {w \in Viewers : kept[w] # NoEntry}
      OBVIOUS
    <3> QED BY <2>4, <2>5, <3>1, EntriesArePeers
  <2>7. Reply(r, ps) /\ memory' \in {put, kept}
        /\ UNCHANGED <<viewer, due, keys, index, redisUp, conn, failed>>
    BY <1>9, <2>1, <2>2, <2>5 DEF Fallback
  <2>8. PagesFit' /\ CallsFit'
    BY <2>6, <2>7, ReplyFits
  <2> QED BY <2>3, <2>4, <2>7, <2>8 DEF StoresFit, ClientFits
<1> QED BY <1>1, <1>2, <1>3, <1>4, <1>5, <1>6, <1>7, <1>8, <1>9 DEF Handle

LEMMA PresenceStays == PresenceInv /\ [PresenceNext]_presenceVars => PresenceInv'
<1> SUFFICES ASSUME PresenceInv, [PresenceNext]_presenceVars PROVE PresenceInv'
  OBVIOUS
<1>1. CASE RedisStops
  BY <1>1 DEF RedisStops, PresenceInv, PagesFit, StoresFit, ClientFits, CallsFit, Entry
<1>2. CASE PresenceRestart
  <2>1. CallsFit'
    BY <1>2, NoRequestFits DEF PresenceRestart, CallsFit, CallFits
  <2> QED BY <1>2, <2>1 DEF PresenceRestart, PresenceInv, PagesFit, StoresFit, ClientFits, Entry
<1>3. CASE UNCHANGED presenceVars
  BY <1>3 DEF presenceVars, PresenceInv, PagesFit, StoresFit, ClientFits, CallsFit
<1> QED BY <1>1, <1>2, <1>3, PageStepsFit, HandlersFit, TimeFits DEF PresenceNext

(* Whoever has a key in Redis is in its index, nobody is shown to himself, and
   entries, pages and requests have their shape, although heartbeats, goodbyes
   and cleanings overlap, Redis stops and the process restarts. *)
THEOREM PresenceTypeCorrect == PresenceSpec => []PresenceTypeOK
<1>1. PresenceInv => PresenceTypeOK
  BY DEF PresenceInv, PagesFit, StoresFit, ClientFits, CallsFit, PresenceTypeOK, PresenceRequest, PeerSet
<1> QED BY <1>1, PresenceStarts, PresenceStays, PTL DEF PresenceSpec

-----------------------------------------------------------------------------
(***************************************************************************)
(* Incidents: numbers and commanders of major incidents, for any number of *)
(* incidents, people and handlers at work, with restarts at any moment.    *)
(***************************************************************************)

HIDE TreeAssumption DEF TreeAssumption
HIDE PresenceAssumption DEF PresenceAssumption
USE IncidentsAssumption DEF IncidentsAssumption

(* A handler works on one incident, and one that is about to write the
   commander's column has written the role row before. *)
RoleFirst(c) ==
  /\ \A i, j \in console[c].i : i = j
  /\ console[c].op = "commander" =>
       \A i \in console[c].i : <<console[c].who, "commander">> \in bridge[i].roles

RoleComesFirst == \A c \in Consoles : RoleFirst(c)

BridgeRow == [number : Nat, status : {"none"} \cup BridgeStatuses,
              resolved : BOOLEAN, commander : Responders \cup {Nobody},
              roles : SUBSET (Responders \X BridgeRoles), told : {"none"} \cup BridgeStatuses]

Command == [op : {"idle", "declare", "role", "commander", "status", "tell"}, i : SUBSET Bridges,
            who : Responders \cup {Nobody}, role : {"none"} \cup BridgeRoles, number : Nat,
            status : {"none"} \cup BridgeStatuses]

(* What a handler has in hand fits what it is about to write. *)
HandlerFits(c) ==
  /\ console[c].number \in 0..lastValue
  /\ \A i \in console[c].i : Declared(i)
  /\ console[c].op \in {"role", "commander", "declare"} => console[c].who \in Responders
  /\ console[c].op = "role" => console[c].role \in BridgeRoles
  /\ console[c].op \in {"status", "tell"} => console[c].status \in BridgeStatuses
  /\ console[c].op = "declare" => console[c].number > 0

(* The type invariant, with the bounds of the numbers apart. *)
IncidentsShape ==
  /\ bridge \in [Bridges -> BridgeRow] /\ console \in [Consoles -> Command]
  /\ lastValue \in 0..MaxNumber
  /\ \A i \in Bridges : bridge[i].number \in 0..lastValue
  /\ \A c \in Consoles : HandlerFits(c)

(* IncidentsShape says what the type invariant says, in the pieces the proof uses. *)
LEMMA IncidentsShapeIsType == IncidentsShape <=> IncidentsTypeOK
<1>1. ASSUME IncidentsShape PROVE IncidentsTypeOK
  <2>1. bridge \in [Bridges -> [number : 0..lastValue, status : {"none"} \cup BridgeStatuses,
       resolved : BOOLEAN, commander : Responders \cup {Nobody},
       roles : SUBSET (Responders \X BridgeRoles), told : {"none"} \cup BridgeStatuses]]
    BY <1>1 DEF IncidentsShape, BridgeRow
  <2>2. console \in [Consoles ->
       [op : {"idle", "declare", "role", "commander", "status", "tell"}, i : SUBSET Bridges,
        who : Responders \cup {Nobody}, role : {"none"} \cup BridgeRoles, number : 0..lastValue,
        status : {"none"} \cup BridgeStatuses]]
    BY <1>1 DEF IncidentsShape, Command, HandlerFits
  <2> QED BY <1>1, <2>1, <2>2 DEF IncidentsShape, HandlerFits, IncidentsTypeOK
<1>2. ASSUME IncidentsTypeOK PROVE IncidentsShape
  <2>1. bridge \in [Bridges -> BridgeRow] /\ \A i \in Bridges : bridge[i].number \in 0..lastValue
    BY <1>2 DEF IncidentsTypeOK, BridgeRow
  <2>2. console \in [Consoles -> Command] /\ \A c \in Consoles : console[c].number \in 0..lastValue
    BY <1>2 DEF IncidentsTypeOK, Command
  <2> QED BY <1>2, <2>1, <2>2 DEF IncidentsShape, HandlerFits, IncidentsTypeOK
<1> QED BY <1>1, <1>2

(* A row without a status is no row: "declared" can be read off the status. *)
RowsAreWhole == \A i \in Bridges : bridge[i].status = "none" => ~Declared(i)

(* A declared incident is one with a status. *)
LEMMA DeclaredByStatus ==
  ASSUME IncidentsShape, RowsAreWhole, NEW i \in Bridges
  PROVE  Declared(i) <=> bridge[i].status # "none"
BY DEF IncidentsShape, RowsAreWhole, Declared, Undeclared

(* The inductive invariant: a commander is written by a handler that has
   written the role (RoleComesFirst), and a number in a handler's hand lies
   at or below the sequence (IncidentsShape) and in no other hand (NumbersUnique). *)
CInv == IncidentsShape /\ RowsAreWhole /\ CommanderHasRole /\ RoleComesFirst /\ NumbersUnique

(* Nothing is declared and nobody is at work. *)
LEMMA IncidentsStart == IncidentsInit => CInv
BY DEF IncidentsInit, CInv, IncidentsShape, RowsAreWhole, BridgeRow, Command, CommanderHasRole, RoleComesFirst, RoleFirst, HandlerFits,
       NumbersUnique, Declared, Undeclared, NoCommand, BridgeStatuses

(* Every step of every handler, and a restart, keep the invariant. *)
LEMMA IncidentsKept == CInv /\ [IncidentsNext]_incidentVars => CInv'
<1> SUFFICES ASSUME CInv, [IncidentsNext]_incidentVars PROVE CInv'
  OBVIOUS
<1> USE DEF CInv
<1>0. /\ \A j \in Bridges : Declared(j) <=> bridge[j].status # "none"
      /\ lastValue \in Nat
  BY DeclaredByStatus DEF IncidentsShape
<1>1. ASSUME NEW c \in Consoles, NEW u \in Responders, DrawNumber(c, u)
      PROVE  CInv'
  <2>1. /\ console' \in [Consoles -> Command]
        /\ \A d \in Consoles \ {c} : console'[d] = console[d]
        /\ console'[c].op = "declare" /\ console'[c].i = {}
        /\ console'[c].who = u /\ console'[c].role = "none"
        /\ console'[c].number = lastValue + 1 /\ console'[c].status = "none"
    <3>1. [op |-> "declare", i |-> {}, who |-> u, role |-> "none", number |-> lastValue + 1,
           status |-> "none"] \in Command
      BY <1>0 DEF Command
    <3> QED BY <1>1, <3>1 DEF DrawNumber, NoCommand, IncidentsShape, Command
  <2>2. bridge' = bridge /\ lastValue' = lastValue + 1
    BY <1>1 DEF DrawNumber
  <2>3. lastValue < MaxNumber
    BY <1>1 DEF DrawNumber
  <2>4. RowsAreWhole' /\ \A j \in Bridges : bridge[j].status # "none" => bridge'[j].status # "none"
    BY <1>0, <2>1, <2>2, <2>3 DEF RowsAreWhole, Declared, Undeclared, IncidentsShape, HandlerFits, BridgeStatuses
  <2>5. \A j \in Bridges : (Declared(j)' <=> bridge'[j].status # "none") /\ (Declared(j) => Declared(j)')
    BY <1>0, <2>2, <2>4 DEF RowsAreWhole, Declared, Undeclared, IncidentsShape
  <2>6. \A j \in Bridges : Declared(j) => bridge[j].roles \subseteq bridge'[j].roles
    BY <2>2, <2>3 DEF IncidentsShape
  <2>8. IncidentsShape'
    <3>1. lastValue' \in 0..MaxNumber /\ \A j \in Bridges : bridge'[j].number \in 0..lastValue'
      BY <1>0, <2>2, <2>3 DEF IncidentsShape, HandlerFits
    <3>2. HandlerFits(c)'
      BY <1>0, <2>1, <2>2, <2>3, <2>5 DEF IncidentsShape, HandlerFits, Command, NoCommand, BridgeStatuses
    <3>3. ASSUME NEW d \in Consoles \ {c} PROVE HandlerFits(d)'
      BY <1>0, <2>1, <2>2, <2>5 DEF IncidentsShape, HandlerFits, Command
    <3>4. bridge' \in [Bridges -> BridgeRow]
      BY <2>2 DEF IncidentsShape
    <3> QED BY <2>1, <3>1, <3>2, <3>3, <3>4 DEF IncidentsShape
  <2>9. CommanderHasRole'
    BY <1>0, <2>2, <2>3, <2>5 DEF CommanderHasRole, RoleComesFirst, RoleFirst, IncidentsShape, HandlerFits
  <2>10. RoleComesFirst'
    <3>1. RoleFirst(c)'
      BY <2>1, <2>2, <2>3 DEF RoleFirst, NoCommand, IncidentsShape
    <3>2. ASSUME NEW d \in Consoles \ {c} PROVE RoleFirst(d)'
      <4>1. RoleFirst(d) /\ HandlerFits(d) /\ console[d].i \subseteq Bridges
        BY DEF RoleComesFirst, IncidentsShape, Command
      <4> QED BY <2>1, <2>6, <4>1 DEF RoleFirst, HandlerFits
    <3> QED BY <3>1, <3>2 DEF RoleComesFirst
  <2>11. NumbersUnique'
    BY <1>0, <2>1, <2>2 DEF NumbersUnique, Declared, IncidentsShape, HandlerFits
  <2> QED BY <2>4, <2>8, <2>9, <2>10, <2>11
<1>2. ASSUME NEW c \in Consoles, RefuseTicket(c)
      PROVE  CInv'
  <2>1. /\ console' \in [Consoles -> Command]
        /\ \A d \in Consoles \ {c} : console'[d] = console[d]
        /\ console'[c].op = "idle" /\ console'[c].i = {}
        /\ console'[c].who = Nobody /\ console'[c].role = "none"
        /\ console'[c].number = 0 /\ console'[c].status = "none"
    BY <1>2, <1>0 DEF RefuseTicket, Ends, IncidentsShape, Command, NoCommand, BridgeStatuses
  <2>2. bridge' = bridge /\ lastValue' = lastValue
    BY <1>2 DEF RefuseTicket
  <2>4. RowsAreWhole' /\ \A j \in Bridges : bridge[j].status # "none" => bridge'[j].status # "none"
    BY <1>0, <2>1, <2>2 DEF RowsAreWhole, Declared, Undeclared, IncidentsShape, HandlerFits, BridgeStatuses
  <2>5. \A j \in Bridges : (Declared(j)' <=> bridge'[j].status # "none") /\ (Declared(j) => Declared(j)')
    BY <1>0, <2>2, <2>4 DEF RowsAreWhole, Declared, Undeclared, IncidentsShape
  <2>6. \A j \in Bridges : Declared(j) => bridge[j].roles \subseteq bridge'[j].roles
    BY <2>2 DEF IncidentsShape
  <2>7. /\ \A j \in Bridges : bridge'[j].number = bridge[j].number /\ (Declared(j)' => Declared(j))
        /\ \A d \in Consoles : console'[d].op = "declare" =>
             console[d].op = "declare" /\ console'[d].number = console[d].number
    <3>1. ASSUME NEW j \in Bridges
          PROVE  bridge'[j].number = bridge[j].number /\ (Declared(j)' => Declared(j))
      BY <1>0, <2>2, <2>5 DEF IncidentsShape, HandlerFits
    <3>2. ASSUME NEW d \in Consoles
          PROVE  console'[d].op = "declare" =>
                   console[d].op = "declare" /\ console'[d].number = console[d].number
      BY <2>1 DEF NoCommand
    <3> QED BY <3>1, <3>2
  <2>8. IncidentsShape'
    <3>1. lastValue' \in 0..MaxNumber /\ \A j \in Bridges : bridge'[j].number \in 0..lastValue'
      BY <1>0, <2>2, <2>7 DEF IncidentsShape, HandlerFits
    <3>2. HandlerFits(c)'
      BY <1>0, <2>1, <2>2, <2>5 DEF IncidentsShape, HandlerFits, Command, NoCommand, BridgeStatuses
    <3>3. ASSUME NEW d \in Consoles \ {c} PROVE HandlerFits(d)'
      BY <1>0, <2>1, <2>2, <2>5 DEF IncidentsShape, HandlerFits, Command
    <3>4. bridge' \in [Bridges -> BridgeRow]
      BY <2>2 DEF IncidentsShape
    <3> QED BY <2>1, <3>1, <3>2, <3>3, <3>4 DEF IncidentsShape
  <2>9. CommanderHasRole'
    BY <1>0, <2>2, <2>5, <2>7 DEF CommanderHasRole, RoleComesFirst, RoleFirst, IncidentsShape, HandlerFits
  <2>10. RoleComesFirst'
    <3>1. RoleFirst(c)'
      BY <2>1, <2>2 DEF RoleFirst, NoCommand, IncidentsShape
    <3>2. ASSUME NEW d \in Consoles \ {c} PROVE RoleFirst(d)'
      <4>1. RoleFirst(d) /\ HandlerFits(d) /\ console[d].i \subseteq Bridges
        BY DEF RoleComesFirst, IncidentsShape, Command
      <4> QED BY <2>1, <2>6, <4>1 DEF RoleFirst, HandlerFits
    <3> QED BY <3>1, <3>2 DEF RoleComesFirst
  <2>11. NumbersUnique'
    BY <2>7 DEF NumbersUnique
  <2> QED BY <2>4, <2>8, <2>9, <2>10, <2>11
<1>3. ASSUME NEW c \in Consoles, NEW i \in Bridges, Declare(c, i)
      PROVE  CInv'
  <2>1. /\ console' \in [Consoles -> Command]
        /\ \A d \in Consoles \ {c} : console'[d] = console[d]
        /\ console'[c].op = "idle" /\ console'[c].i = {}
        /\ console'[c].who = Nobody /\ console'[c].role = "none"
        /\ console'[c].number = 0 /\ console'[c].status = "none"
    BY <1>3, <1>0 DEF Declare, Ends, IncidentsShape, Command, NoCommand, BridgeStatuses
  <2>2. /\ bridge' \in [Bridges -> BridgeRow] /\ lastValue' = lastValue
        /\ \A j \in Bridges \ {i} : bridge'[j] = bridge[j]
        /\ bridge'[i].number = console[c].number /\ bridge'[i].status = "declared"
        /\ bridge'[i].commander = console[c].who
        /\ bridge'[i].roles = {<<console[c].who, "commander">>}
    <3> DEFINE row == [Undeclared EXCEPT !.number = console[c].number, !.status = "declared", !.commander = console[c].who,
                    !.roles = {<<console[c].who, "commander">>}, !.told = "declared"]
    <3>1. bridge' = [bridge EXCEPT ![i] = row]
      BY <1>3 DEF Declare
    <3>2. row \in BridgeRow
      <4>1. console[c].number \in Nat /\ console[c].who \in Responders
        BY <1>3 DEF Declare, IncidentsShape, HandlerFits, Command
      <4>2. {<<console[c].who, "commander">>} \in SUBSET (Responders \X BridgeRoles)
        BY <4>1
      <4> QED BY <4>1, <4>2 DEF BridgeRow, Undeclared, BridgeStatuses
    <3>3. lastValue' = lastValue
      BY <1>3 DEF Declare
    <3> QED BY <3>1, <3>2, <3>3 DEF IncidentsShape, BridgeRow, Undeclared
  <2>3. console[c].op = "declare" /\ ~Declared(i)
    BY <1>3 DEF Declare
  <2>4. RowsAreWhole' /\ \A j \in Bridges : bridge[j].status # "none" => bridge'[j].status # "none"
    BY <1>0, <2>1, <2>2, <2>3 DEF RowsAreWhole, Declared, Undeclared, IncidentsShape, HandlerFits, BridgeStatuses
  <2>5. \A j \in Bridges : (Declared(j)' <=> bridge'[j].status # "none") /\ (Declared(j) => Declared(j)')
    BY <1>0, <2>2, <2>4 DEF RowsAreWhole, Declared, Undeclared, IncidentsShape
  <2>6. \A j \in Bridges : Declared(j) => bridge[j].roles \subseteq bridge'[j].roles
    BY <2>2, <2>3 DEF IncidentsShape
  <2>8. IncidentsShape'
    <3>1. lastValue' \in 0..MaxNumber /\ \A j \in Bridges : bridge'[j].number \in 0..lastValue'
      BY <1>0, <2>2, <2>3 DEF IncidentsShape, HandlerFits
    <3>2. HandlerFits(c)'
      BY <1>0, <2>1, <2>2, <2>3, <2>5 DEF IncidentsShape, HandlerFits, Command, NoCommand, BridgeStatuses
    <3>3. ASSUME NEW d \in Consoles \ {c} PROVE HandlerFits(d)'
      BY <1>0, <2>1, <2>2, <2>5 DEF IncidentsShape, HandlerFits, Command
    <3>4. bridge' \in [Bridges -> BridgeRow]
      BY <2>2 DEF IncidentsShape
    <3> QED BY <2>1, <3>1, <3>2, <3>3, <3>4 DEF IncidentsShape
  <2>9. CommanderHasRole'
    BY <1>0, <2>2, <2>3, <2>5 DEF CommanderHasRole, RoleComesFirst, RoleFirst, IncidentsShape, HandlerFits
  <2>10. RoleComesFirst'
    <3>1. RoleFirst(c)'
      BY <2>1, <2>2, <2>3 DEF RoleFirst, NoCommand, IncidentsShape
    <3>2. ASSUME NEW d \in Consoles \ {c} PROVE RoleFirst(d)'
      <4>1. RoleFirst(d) /\ HandlerFits(d) /\ console[d].i \subseteq Bridges
        BY DEF RoleComesFirst, IncidentsShape, Command
      <4> QED BY <2>1, <2>6, <4>1 DEF RoleFirst, HandlerFits
    <3> QED BY <3>1, <3>2 DEF RoleComesFirst
  <2>11. NumbersUnique'
    <3>1. /\ \A j \in Bridges \ {i} : bridge'[j].number = bridge[j].number /\ (Declared(j)' <=> Declared(j))
          /\ bridge'[i].number = console[c].number
      BY <2>2 DEF Declared
    <3>2. \A d \in Consoles : console'[d].op = "declare" =>
            d # c /\ console[d].op = "declare" /\ console'[d].number = console[d].number
      BY <2>1 DEF NoCommand
    <3> QED BY <2>3, <3>1, <3>2 DEF NumbersUnique
  <2> QED BY <2>4, <2>8, <2>9, <2>10, <2>11
<1>4. ASSUME NEW c \in Consoles, NEW i \in Bridges, NEW u \in Responders, NEW role \in BridgeRoles,
                 BeginAssign(c, i, u, role)
      PROVE  CInv'
  <2>1. /\ console' \in [Consoles -> Command]
        /\ \A d \in Consoles \ {c} : console'[d] = console[d]
        /\ console'[c].op = "role" /\ console'[c].i = {i}
        /\ console'[c].who = u /\ console'[c].role = role
        /\ console'[c].number = 0 /\ console'[c].status = "none"
    BY <1>4, <1>0 DEF BeginAssign, IncidentsShape, Command, NoCommand, BridgeStatuses
  <2>2. bridge' = bridge /\ lastValue' = lastValue
    BY <1>4 DEF BeginAssign
  <2>3. Declared(i)
    BY <1>4 DEF BeginAssign
  <2>4. RowsAreWhole' /\ \A j \in Bridges : bridge[j].status # "none" => bridge'[j].status # "none"
    BY <1>0, <2>1, <2>2, <2>3 DEF RowsAreWhole, Declared, Undeclared, IncidentsShape, HandlerFits, BridgeStatuses
  <2>5. \A j \in Bridges : (Declared(j)' <=> bridge'[j].status # "none") /\ (Declared(j) => Declared(j)')
    BY <1>0, <2>2, <2>4 DEF RowsAreWhole, Declared, Undeclared, IncidentsShape
  <2>6. \A j \in Bridges : Declared(j) => bridge[j].roles \subseteq bridge'[j].roles
    BY <2>2, <2>3 DEF IncidentsShape
  <2>7. /\ \A j \in Bridges : bridge'[j].number = bridge[j].number /\ (Declared(j)' => Declared(j))
        /\ \A d \in Consoles : console'[d].op = "declare" =>
             console[d].op = "declare" /\ console'[d].number = console[d].number
    <3>1. ASSUME NEW j \in Bridges
          PROVE  bridge'[j].number = bridge[j].number /\ (Declared(j)' => Declared(j))
      BY <1>0, <2>2, <2>3, <2>5 DEF IncidentsShape, HandlerFits
    <3>2. ASSUME NEW d \in Consoles
          PROVE  console'[d].op = "declare" =>
                   console[d].op = "declare" /\ console'[d].number = console[d].number
      BY <2>1, <2>3 DEF NoCommand
    <3> QED BY <3>1, <3>2
  <2>8. IncidentsShape'
    <3>1. lastValue' \in 0..MaxNumber /\ \A j \in Bridges : bridge'[j].number \in 0..lastValue'
      BY <1>0, <2>2, <2>3, <2>7 DEF IncidentsShape, HandlerFits
    <3>2. HandlerFits(c)'
      BY <1>0, <2>1, <2>2, <2>3, <2>5 DEF IncidentsShape, HandlerFits, Command, NoCommand, BridgeStatuses
    <3>3. ASSUME NEW d \in Consoles \ {c} PROVE HandlerFits(d)'
      BY <1>0, <2>1, <2>2, <2>5 DEF IncidentsShape, HandlerFits, Command
    <3>4. bridge' \in [Bridges -> BridgeRow]
      BY <2>2 DEF IncidentsShape
    <3> QED BY <2>1, <3>1, <3>2, <3>3, <3>4 DEF IncidentsShape
  <2>9. CommanderHasRole'
    BY <1>0, <2>2, <2>3, <2>5, <2>7 DEF CommanderHasRole, RoleComesFirst, RoleFirst, IncidentsShape, HandlerFits
  <2>10. RoleComesFirst'
    <3>1. RoleFirst(c)'
      BY <2>1, <2>2, <2>3 DEF RoleFirst, NoCommand, IncidentsShape
    <3>2. ASSUME NEW d \in Consoles \ {c} PROVE RoleFirst(d)'
      <4>1. RoleFirst(d) /\ HandlerFits(d) /\ console[d].i \subseteq Bridges
        BY DEF RoleComesFirst, IncidentsShape, Command
      <4> QED BY <2>1, <2>6, <4>1 DEF RoleFirst, HandlerFits
    <3> QED BY <3>1, <3>2 DEF RoleComesFirst
  <2>11. NumbersUnique'
    BY <2>7 DEF NumbersUnique
  <2> QED BY <2>4, <2>8, <2>9, <2>10, <2>11
<1>5. ASSUME NEW c \in Consoles, NEW i \in Bridges, WriteRole(c, i)
      PROVE  CInv'
  <2>1. /\ console' \in [Consoles -> Command]
        /\ \A d \in Consoles \ {c} : console'[d] = console[d]
        /\ \/ console'[c] = NoCommand
           \/ /\ console'[c].op = "commander" /\ console[c].role = "commander"
              /\ console'[c].i = console[c].i /\ console'[c].who = console[c].who
              /\ console'[c].role = console[c].role /\ console'[c].number = console[c].number
              /\ console'[c].status = console[c].status
    <3>1. CASE console[c].role = "commander"
      <4>1. console' = [console EXCEPT ![c] = [console[c] EXCEPT !.op = "commander"]]
        BY <1>5, <3>1 DEF WriteRole
      <4>2. [console[c] EXCEPT !.op = "commander"] \in Command
        BY DEF IncidentsShape, Command
      <4> QED BY <3>1, <4>1, <4>2 DEF IncidentsShape, Command
    <3>2. CASE console[c].role # "commander"
      BY <1>5, <3>2 DEF WriteRole, Ends, IncidentsShape, Command, NoCommand, BridgeStatuses
    <3> QED BY <3>1, <3>2
  <2>2. /\ bridge' \in [Bridges -> BridgeRow] /\ lastValue' = lastValue
        /\ \A j \in Bridges \ {i} : bridge'[j] = bridge[j]
        /\ bridge'[i].number = bridge[i].number /\ bridge'[i].status = bridge[i].status
        /\ bridge'[i].commander = bridge[i].commander
        /\ bridge'[i].roles = bridge[i].roles \cup {<<console[c].who, console[c].role>>}
    <3> DEFINE row == [bridge[i] EXCEPT !.roles = bridge[i].roles \cup {<<console[c].who, console[c].role>>}]
    <3>1. bridge' = [bridge EXCEPT ![i] = row]
      BY <1>5 DEF WriteRole
    <3>2. row \in BridgeRow
      <4>1. bridge[i] \in BridgeRow
        BY DEF IncidentsShape
      <4>2. bridge[i].roles \cup {<<console[c].who, console[c].role>>} \in SUBSET (Responders \X BridgeRoles)
        BY <1>5, <4>1 DEF WriteRole, IncidentsShape, HandlerFits, BridgeRow
      <4> QED BY <4>1, <4>2 DEF BridgeRow
    <3>3. lastValue' = lastValue
      BY <1>5 DEF WriteRole
    <3> QED BY <3>1, <3>2, <3>3 DEF IncidentsShape, BridgeRow, Undeclared
  <2>3. console[c].op = "role" /\ i \in console[c].i
    BY <1>5 DEF WriteRole
  <2>4. RowsAreWhole' /\ \A j \in Bridges : bridge[j].status # "none" => bridge'[j].status # "none"
    BY <1>0, <2>1, <2>2, <2>3 DEF RowsAreWhole, Declared, Undeclared, IncidentsShape, HandlerFits, BridgeStatuses
  <2>5. \A j \in Bridges : (Declared(j)' <=> bridge'[j].status # "none") /\ (Declared(j) => Declared(j)')
    BY <1>0, <2>2, <2>4 DEF RowsAreWhole, Declared, Undeclared, IncidentsShape
  <2>6. \A j \in Bridges : Declared(j) => bridge[j].roles \subseteq bridge'[j].roles
    BY <2>2, <2>3 DEF IncidentsShape
  <2>7. /\ \A j \in Bridges : bridge'[j].number = bridge[j].number /\ (Declared(j)' => Declared(j))
        /\ \A d \in Consoles : console'[d].op = "declare" =>
             console[d].op = "declare" /\ console'[d].number = console[d].number
    <3>1. ASSUME NEW j \in Bridges
          PROVE  bridge'[j].number = bridge[j].number /\ (Declared(j)' => Declared(j))
      BY <1>0, <2>2, <2>3, <2>5 DEF IncidentsShape, HandlerFits
    <3>2. ASSUME NEW d \in Consoles
          PROVE  console'[d].op = "declare" =>
                   console[d].op = "declare" /\ console'[d].number = console[d].number
      BY <2>1, <2>3 DEF NoCommand
    <3> QED BY <3>1, <3>2
  <2>8. IncidentsShape'
    <3>1. lastValue' \in 0..MaxNumber /\ \A j \in Bridges : bridge'[j].number \in 0..lastValue'
      BY <1>0, <2>2, <2>3, <2>7 DEF IncidentsShape, HandlerFits
    <3>2. HandlerFits(c)'
      BY <1>0, <2>1, <2>2, <2>3, <2>5 DEF IncidentsShape, HandlerFits, Command, NoCommand, BridgeStatuses
    <3>3. ASSUME NEW d \in Consoles \ {c} PROVE HandlerFits(d)'
      BY <1>0, <2>1, <2>2, <2>5 DEF IncidentsShape, HandlerFits, Command
    <3>4. bridge' \in [Bridges -> BridgeRow]
      BY <2>2 DEF IncidentsShape
    <3> QED BY <2>1, <3>1, <3>2, <3>3, <3>4 DEF IncidentsShape
  <2>9. CommanderHasRole'
    BY <1>0, <2>2, <2>3, <2>5, <2>7 DEF CommanderHasRole, RoleComesFirst, RoleFirst, IncidentsShape, HandlerFits
  <2>10. RoleComesFirst'
    <3>1. RoleFirst(c)'
      <4>1. \A j \in console[c].i : j = i
        BY <2>3 DEF RoleComesFirst, RoleFirst
      <4>2. CASE console'[c] = NoCommand
        BY <4>2 DEF RoleFirst, NoCommand
      <4>3. CASE console'[c] # NoCommand
        <5>1. /\ console'[c].i = console[c].i /\ console'[c].who = console[c].who
              /\ <<console[c].who, "commander">> \in bridge'[i].roles
          BY <2>1, <2>2, <4>3
        <5> QED BY <4>1, <5>1 DEF RoleFirst
      <4> QED BY <4>2, <4>3
    <3>2. ASSUME NEW d \in Consoles \ {c} PROVE RoleFirst(d)'
      <4>1. RoleFirst(d) /\ HandlerFits(d) /\ console[d].i \subseteq Bridges
        BY DEF RoleComesFirst, IncidentsShape, Command
      <4> QED BY <2>1, <2>6, <4>1 DEF RoleFirst, HandlerFits
    <3> QED BY <3>1, <3>2 DEF RoleComesFirst
  <2>11. NumbersUnique'
    BY <2>7 DEF NumbersUnique
  <2> QED BY <2>4, <2>8, <2>9, <2>10, <2>11
<1>6. ASSUME NEW c \in Consoles, NEW i \in Bridges, WriteCommander(c, i)
      PROVE  CInv'
  <2>1. /\ console' \in [Consoles -> Command]
        /\ \A d \in Consoles \ {c} : console'[d] = console[d]
        /\ console'[c].op = "idle" /\ console'[c].i = {}
        /\ console'[c].who = Nobody /\ console'[c].role = "none"
        /\ console'[c].number = 0 /\ console'[c].status = "none"
    BY <1>6, <1>0 DEF WriteCommander, Ends, IncidentsShape, Command, NoCommand, BridgeStatuses
  <2>2. /\ bridge' \in [Bridges -> BridgeRow] /\ lastValue' = lastValue
        /\ \A j \in Bridges \ {i} : bridge'[j] = bridge[j]
        /\ bridge'[i].number = bridge[i].number /\ bridge'[i].status = bridge[i].status
        /\ bridge'[i].commander = console[c].who
        /\ bridge'[i].roles = bridge[i].roles
    <3> DEFINE row == [bridge[i] EXCEPT !.commander = console[c].who]
    <3>1. bridge' = [bridge EXCEPT ![i] = row]
      BY <1>6 DEF WriteCommander
    <3>2. row \in BridgeRow
      <4>1. bridge[i] \in BridgeRow /\ console[c].who \in Responders
        BY <1>6 DEF WriteCommander, IncidentsShape, HandlerFits
      <4> QED BY <4>1 DEF BridgeRow
    <3>3. lastValue' = lastValue
      BY <1>6 DEF WriteCommander
    <3> QED BY <3>1, <3>2, <3>3 DEF IncidentsShape, BridgeRow, Undeclared
  <2>3. console[c].op = "commander" /\ i \in console[c].i
    BY <1>6 DEF WriteCommander
  <2>4. RowsAreWhole' /\ \A j \in Bridges : bridge[j].status # "none" => bridge'[j].status # "none"
    BY <1>0, <2>1, <2>2, <2>3 DEF RowsAreWhole, Declared, Undeclared, IncidentsShape, HandlerFits, BridgeStatuses
  <2>5. \A j \in Bridges : (Declared(j)' <=> bridge'[j].status # "none") /\ (Declared(j) => Declared(j)')
    BY <1>0, <2>2, <2>4 DEF RowsAreWhole, Declared, Undeclared, IncidentsShape
  <2>6. \A j \in Bridges : Declared(j) => bridge[j].roles \subseteq bridge'[j].roles
    BY <2>2, <2>3 DEF IncidentsShape
  <2>7. /\ \A j \in Bridges : bridge'[j].number = bridge[j].number /\ (Declared(j)' => Declared(j))
        /\ \A d \in Consoles : console'[d].op = "declare" =>
             console[d].op = "declare" /\ console'[d].number = console[d].number
    <3>1. ASSUME NEW j \in Bridges
          PROVE  bridge'[j].number = bridge[j].number /\ (Declared(j)' => Declared(j))
      BY <1>0, <2>2, <2>3, <2>5 DEF IncidentsShape, HandlerFits
    <3>2. ASSUME NEW d \in Consoles
          PROVE  console'[d].op = "declare" =>
                   console[d].op = "declare" /\ console'[d].number = console[d].number
      BY <2>1, <2>3 DEF NoCommand
    <3> QED BY <3>1, <3>2
  <2>8. IncidentsShape'
    <3>1. lastValue' \in 0..MaxNumber /\ \A j \in Bridges : bridge'[j].number \in 0..lastValue'
      BY <1>0, <2>2, <2>3, <2>7 DEF IncidentsShape, HandlerFits
    <3>2. HandlerFits(c)'
      BY <1>0, <2>1, <2>2, <2>3, <2>5 DEF IncidentsShape, HandlerFits, Command, NoCommand, BridgeStatuses
    <3>3. ASSUME NEW d \in Consoles \ {c} PROVE HandlerFits(d)'
      BY <1>0, <2>1, <2>2, <2>5 DEF IncidentsShape, HandlerFits, Command
    <3>4. bridge' \in [Bridges -> BridgeRow]
      BY <2>2 DEF IncidentsShape
    <3> QED BY <2>1, <3>1, <3>2, <3>3, <3>4 DEF IncidentsShape
  <2>9. CommanderHasRole'
    BY <1>0, <2>2, <2>3, <2>5, <2>7 DEF CommanderHasRole, RoleComesFirst, RoleFirst, IncidentsShape, HandlerFits
  <2>10. RoleComesFirst'
    <3>1. RoleFirst(c)'
      BY <2>1, <2>2, <2>3 DEF RoleFirst, NoCommand, IncidentsShape
    <3>2. ASSUME NEW d \in Consoles \ {c} PROVE RoleFirst(d)'
      <4>1. RoleFirst(d) /\ HandlerFits(d) /\ console[d].i \subseteq Bridges
        BY DEF RoleComesFirst, IncidentsShape, Command
      <4> QED BY <2>1, <2>6, <4>1 DEF RoleFirst, HandlerFits
    <3> QED BY <3>1, <3>2 DEF RoleComesFirst
  <2>11. NumbersUnique'
    BY <2>7 DEF NumbersUnique
  <2> QED BY <2>4, <2>8, <2>9, <2>10, <2>11
<1>7. ASSUME NEW c \in Consoles, NEW i \in Bridges, NEW status \in BridgeTargets,
                 BeginStatus(c, i, status)
      PROVE  CInv'
  <2>1. /\ console' \in [Consoles -> Command]
        /\ \A d \in Consoles \ {c} : console'[d] = console[d]
        /\ console'[c].op = "status" /\ console'[c].i = {i}
        /\ console'[c].who = Nobody /\ console'[c].role = "none"
        /\ console'[c].number = 0 /\ console'[c].status = status
    BY <1>7, <1>0 DEF BeginStatus, IncidentsShape, Command, NoCommand, BridgeStatuses
  <2>2. bridge' = bridge /\ lastValue' = lastValue
    BY <1>7 DEF BeginStatus
  <2>3. Declared(i)
    BY <1>7 DEF BeginStatus
  <2>4. RowsAreWhole' /\ \A j \in Bridges : bridge[j].status # "none" => bridge'[j].status # "none"
    BY <1>0, <2>1, <2>2, <2>3 DEF RowsAreWhole, Declared, Undeclared, IncidentsShape, HandlerFits, BridgeStatuses
  <2>5. \A j \in Bridges : (Declared(j)' <=> bridge'[j].status # "none") /\ (Declared(j) => Declared(j)')
    BY <1>0, <2>2, <2>4 DEF RowsAreWhole, Declared, Undeclared, IncidentsShape
  <2>6. \A j \in Bridges : Declared(j) => bridge[j].roles \subseteq bridge'[j].roles
    BY <2>2, <2>3 DEF IncidentsShape
  <2>7. /\ \A j \in Bridges : bridge'[j].number = bridge[j].number /\ (Declared(j)' => Declared(j))
        /\ \A d \in Consoles : console'[d].op = "declare" =>
             console[d].op = "declare" /\ console'[d].number = console[d].number
    <3>1. ASSUME NEW j \in Bridges
          PROVE  bridge'[j].number = bridge[j].number /\ (Declared(j)' => Declared(j))
      BY <1>0, <2>2, <2>3, <2>5 DEF IncidentsShape, HandlerFits
    <3>2. ASSUME NEW d \in Consoles
          PROVE  console'[d].op = "declare" =>
                   console[d].op = "declare" /\ console'[d].number = console[d].number
      BY <2>1, <2>3 DEF NoCommand
    <3> QED BY <3>1, <3>2
  <2>8. IncidentsShape'
    <3>1. lastValue' \in 0..MaxNumber /\ \A j \in Bridges : bridge'[j].number \in 0..lastValue'
      BY <1>0, <2>2, <2>3, <2>7 DEF IncidentsShape, HandlerFits
    <3>2. HandlerFits(c)'
      BY <1>0, <2>1, <2>2, <2>3, <2>5 DEF IncidentsShape, HandlerFits, Command, NoCommand, BridgeStatuses
    <3>3. ASSUME NEW d \in Consoles \ {c} PROVE HandlerFits(d)'
      BY <1>0, <2>1, <2>2, <2>5 DEF IncidentsShape, HandlerFits, Command
    <3>4. bridge' \in [Bridges -> BridgeRow]
      BY <2>2 DEF IncidentsShape
    <3> QED BY <2>1, <3>1, <3>2, <3>3, <3>4 DEF IncidentsShape
  <2>9. CommanderHasRole'
    BY <1>0, <2>2, <2>3, <2>5, <2>7 DEF CommanderHasRole, RoleComesFirst, RoleFirst, IncidentsShape, HandlerFits
  <2>10. RoleComesFirst'
    <3>1. RoleFirst(c)'
      BY <2>1, <2>2, <2>3 DEF RoleFirst, NoCommand, IncidentsShape
    <3>2. ASSUME NEW d \in Consoles \ {c} PROVE RoleFirst(d)'
      <4>1. RoleFirst(d) /\ HandlerFits(d) /\ console[d].i \subseteq Bridges
        BY DEF RoleComesFirst, IncidentsShape, Command
      <4> QED BY <2>1, <2>6, <4>1 DEF RoleFirst, HandlerFits
    <3> QED BY <3>1, <3>2 DEF RoleComesFirst
  <2>11. NumbersUnique'
    BY <2>7 DEF NumbersUnique
  <2> QED BY <2>4, <2>8, <2>9, <2>10, <2>11
<1>8. ASSUME NEW c \in Consoles, NEW i \in Bridges, WriteStatus(c, i)
      PROVE  CInv'
  <2>1. /\ console' \in [Consoles -> Command]
        /\ \A d \in Consoles \ {c} : console'[d] = console[d]
        /\ console'[c].op = "tell" /\ console'[c].i = console[c].i
        /\ console'[c].who = console[c].who /\ console'[c].role = console[c].role
        /\ console'[c].number = console[c].number /\ console'[c].status = console[c].status
    <3>1. console' = [console EXCEPT ![c] = [console[c] EXCEPT !.op = "tell"]]
      BY <1>8 DEF WriteStatus
    <3>2. [console[c] EXCEPT !.op = "tell"] \in Command
      BY DEF IncidentsShape, Command
    <3> QED BY <3>1, <3>2 DEF IncidentsShape, Command
  <2>2. /\ bridge' \in [Bridges -> BridgeRow] /\ lastValue' = lastValue
        /\ \A j \in Bridges \ {i} : bridge'[j] = bridge[j]
        /\ bridge'[i].number = bridge[i].number /\ bridge'[i].status = console[c].status
        /\ bridge'[i].commander = bridge[i].commander
        /\ bridge'[i].roles = bridge[i].roles
    <3> DEFINE row == [bridge[i] EXCEPT !.status = console[c].status,
                    !.resolved = ResolvedWith(console[c].status, bridge[i].resolved)]
    <3>1. bridge' = [bridge EXCEPT ![i] = row]
      BY <1>8 DEF WriteStatus
    <3>2. row \in BridgeRow
      <4>1. bridge[i] \in BridgeRow /\ console[c].status \in BridgeStatuses
        BY <1>8 DEF WriteStatus, IncidentsShape, HandlerFits
      <4>2. ResolvedWith(console[c].status, bridge[i].resolved) \in BOOLEAN
        BY DEF ResolvedWith
      <4> QED BY <4>1, <4>2 DEF BridgeRow
    <3>3. lastValue' = lastValue
      BY <1>8 DEF WriteStatus
    <3> QED BY <3>1, <3>2, <3>3 DEF IncidentsShape, BridgeRow, Undeclared
  <2>3. console[c].op = "status" /\ i \in console[c].i
    BY <1>8 DEF WriteStatus
  <2>4. RowsAreWhole' /\ \A j \in Bridges : bridge[j].status # "none" => bridge'[j].status # "none"
    BY <1>0, <2>1, <2>2, <2>3 DEF RowsAreWhole, Declared, Undeclared, IncidentsShape, HandlerFits, BridgeStatuses
  <2>5. \A j \in Bridges : (Declared(j)' <=> bridge'[j].status # "none") /\ (Declared(j) => Declared(j)')
    BY <1>0, <2>2, <2>4 DEF RowsAreWhole, Declared, Undeclared, IncidentsShape
  <2>6. \A j \in Bridges : Declared(j) => bridge[j].roles \subseteq bridge'[j].roles
    BY <2>2, <2>3 DEF IncidentsShape
  <2>7. /\ \A j \in Bridges : bridge'[j].number = bridge[j].number /\ (Declared(j)' => Declared(j))
        /\ \A d \in Consoles : console'[d].op = "declare" =>
             console[d].op = "declare" /\ console'[d].number = console[d].number
    <3>1. ASSUME NEW j \in Bridges
          PROVE  bridge'[j].number = bridge[j].number /\ (Declared(j)' => Declared(j))
      BY <1>0, <2>2, <2>3, <2>5 DEF IncidentsShape, HandlerFits
    <3>2. ASSUME NEW d \in Consoles
          PROVE  console'[d].op = "declare" =>
                   console[d].op = "declare" /\ console'[d].number = console[d].number
      BY <2>1, <2>3 DEF NoCommand
    <3> QED BY <3>1, <3>2
  <2>8. IncidentsShape'
    <3>1. lastValue' \in 0..MaxNumber /\ \A j \in Bridges : bridge'[j].number \in 0..lastValue'
      BY <1>0, <2>2, <2>3, <2>7 DEF IncidentsShape, HandlerFits
    <3>2. HandlerFits(c)'
      BY <1>0, <2>1, <2>2, <2>3, <2>5 DEF IncidentsShape, HandlerFits, Command, NoCommand, BridgeStatuses
    <3>3. ASSUME NEW d \in Consoles \ {c} PROVE HandlerFits(d)'
      BY <1>0, <2>1, <2>2, <2>5 DEF IncidentsShape, HandlerFits, Command
    <3>4. bridge' \in [Bridges -> BridgeRow]
      BY <2>2 DEF IncidentsShape
    <3> QED BY <2>1, <3>1, <3>2, <3>3, <3>4 DEF IncidentsShape
  <2>9. CommanderHasRole'
    BY <1>0, <2>2, <2>3, <2>5, <2>7 DEF CommanderHasRole, RoleComesFirst, RoleFirst, IncidentsShape, HandlerFits
  <2>10. RoleComesFirst'
    <3>1. RoleFirst(c)'
      BY <2>1, <2>3 DEF RoleFirst, RoleComesFirst
    <3>2. ASSUME NEW d \in Consoles \ {c} PROVE RoleFirst(d)'
      <4>1. RoleFirst(d) /\ HandlerFits(d) /\ console[d].i \subseteq Bridges
        BY DEF RoleComesFirst, IncidentsShape, Command
      <4> QED BY <2>1, <2>6, <4>1 DEF RoleFirst, HandlerFits
    <3> QED BY <3>1, <3>2 DEF RoleComesFirst
  <2>11. NumbersUnique'
    BY <2>7 DEF NumbersUnique
  <2> QED BY <2>4, <2>8, <2>9, <2>10, <2>11
<1>9. ASSUME NEW c \in Consoles, NEW i \in Bridges, TellStatus(c, i)
      PROVE  CInv'
  <2>1. /\ console' \in [Consoles -> Command]
        /\ \A d \in Consoles \ {c} : console'[d] = console[d]
        /\ console'[c].op = "idle" /\ console'[c].i = {}
        /\ console'[c].who = Nobody /\ console'[c].role = "none"
        /\ console'[c].number = 0 /\ console'[c].status = "none"
    BY <1>9, <1>0 DEF TellStatus, Ends, IncidentsShape, Command, NoCommand, BridgeStatuses
  <2>2. /\ bridge' \in [Bridges -> BridgeRow] /\ lastValue' = lastValue
        /\ \A j \in Bridges \ {i} : bridge'[j] = bridge[j]
        /\ bridge'[i].number = bridge[i].number /\ bridge'[i].status = bridge[i].status
        /\ bridge'[i].commander = bridge[i].commander
        /\ bridge'[i].roles = bridge[i].roles
    <3> DEFINE row == [bridge[i] EXCEPT !.told = console[c].status]
    <3>1. bridge' = [bridge EXCEPT ![i] = row]
      BY <1>9 DEF TellStatus
    <3>2. row \in BridgeRow
      <4>1. bridge[i] \in BridgeRow /\ console[c].status \in BridgeStatuses
        BY <1>9 DEF TellStatus, IncidentsShape, HandlerFits
      <4> QED BY <4>1 DEF BridgeRow
    <3>3. lastValue' = lastValue
      BY <1>9 DEF TellStatus
    <3> QED BY <3>1, <3>2, <3>3 DEF IncidentsShape, BridgeRow, Undeclared
  <2>3. console[c].op = "tell" /\ i \in console[c].i
    BY <1>9 DEF TellStatus
  <2>4. RowsAreWhole' /\ \A j \in Bridges : bridge[j].status # "none" => bridge'[j].status # "none"
    BY <1>0, <2>1, <2>2, <2>3 DEF RowsAreWhole, Declared, Undeclared, IncidentsShape, HandlerFits, BridgeStatuses
  <2>5. \A j \in Bridges : (Declared(j)' <=> bridge'[j].status # "none") /\ (Declared(j) => Declared(j)')
    BY <1>0, <2>2, <2>4 DEF RowsAreWhole, Declared, Undeclared, IncidentsShape
  <2>6. \A j \in Bridges : Declared(j) => bridge[j].roles \subseteq bridge'[j].roles
    BY <2>2, <2>3 DEF IncidentsShape
  <2>7. /\ \A j \in Bridges : bridge'[j].number = bridge[j].number /\ (Declared(j)' => Declared(j))
        /\ \A d \in Consoles : console'[d].op = "declare" =>
             console[d].op = "declare" /\ console'[d].number = console[d].number
    <3>1. ASSUME NEW j \in Bridges
          PROVE  bridge'[j].number = bridge[j].number /\ (Declared(j)' => Declared(j))
      BY <1>0, <2>2, <2>3, <2>5 DEF IncidentsShape, HandlerFits
    <3>2. ASSUME NEW d \in Consoles
          PROVE  console'[d].op = "declare" =>
                   console[d].op = "declare" /\ console'[d].number = console[d].number
      BY <2>1, <2>3 DEF NoCommand
    <3> QED BY <3>1, <3>2
  <2>8. IncidentsShape'
    <3>1. lastValue' \in 0..MaxNumber /\ \A j \in Bridges : bridge'[j].number \in 0..lastValue'
      BY <1>0, <2>2, <2>3, <2>7 DEF IncidentsShape, HandlerFits
    <3>2. HandlerFits(c)'
      BY <1>0, <2>1, <2>2, <2>3, <2>5 DEF IncidentsShape, HandlerFits, Command, NoCommand, BridgeStatuses
    <3>3. ASSUME NEW d \in Consoles \ {c} PROVE HandlerFits(d)'
      BY <1>0, <2>1, <2>2, <2>5 DEF IncidentsShape, HandlerFits, Command
    <3>4. bridge' \in [Bridges -> BridgeRow]
      BY <2>2 DEF IncidentsShape
    <3> QED BY <2>1, <3>1, <3>2, <3>3, <3>4 DEF IncidentsShape
  <2>9. CommanderHasRole'
    BY <1>0, <2>2, <2>3, <2>5, <2>7 DEF CommanderHasRole, RoleComesFirst, RoleFirst, IncidentsShape, HandlerFits
  <2>10. RoleComesFirst'
    <3>1. RoleFirst(c)'
      BY <2>1, <2>2, <2>3 DEF RoleFirst, NoCommand, IncidentsShape
    <3>2. ASSUME NEW d \in Consoles \ {c} PROVE RoleFirst(d)'
      <4>1. RoleFirst(d) /\ HandlerFits(d) /\ console[d].i \subseteq Bridges
        BY DEF RoleComesFirst, IncidentsShape, Command
      <4> QED BY <2>1, <2>6, <4>1 DEF RoleFirst, HandlerFits
    <3> QED BY <3>1, <3>2 DEF RoleComesFirst
  <2>11. NumbersUnique'
    BY <2>7 DEF NumbersUnique
  <2> QED BY <2>4, <2>8, <2>9, <2>10, <2>11
<1>10. CASE IncidentCrash
  <2>1. bridge' = bridge /\ lastValue' = lastValue /\ \A c \in Consoles : console'[c] = NoCommand
    BY <1>10 DEF IncidentCrash
  <2>2. console' \in [Consoles -> Command]
    BY <1>10 DEF IncidentCrash, Command, NoCommand
  <2>3. \A c \in Consoles : HandlerFits(c)' /\ RoleFirst(c)'
    BY <2>1, <1>0 DEF HandlerFits, RoleFirst, NoCommand
  <2>4. IncidentsShape'
    BY <2>1, <2>2, <2>3 DEF IncidentsShape
  <2>5. RowsAreWhole' /\ CommanderHasRole'
    BY <2>1 DEF RowsAreWhole, CommanderHasRole, Declared
  <2>6. NumbersUnique'
    BY <2>1 DEF NumbersUnique, Declared, NoCommand
  <2> QED BY <2>3, <2>4, <2>5, <2>6 DEF RoleComesFirst
<1>11. CASE UNCHANGED incidentVars
  BY <1>11 DEF incidentVars, IncidentsShape, HandlerFits, RowsAreWhole, CommanderHasRole, RoleComesFirst, RoleFirst, NumbersUnique, Declared
<1> QED BY <1>1, <1>2, <1>3, <1>4, <1>5, <1>6, <1>7, <1>8, <1>9, <1>10, <1>11 DEF IncidentsNext

(* However handlers overlap and wherever one stops, whoever is shown as the
   commander of an incident has the role too: assignRole writes the role row
   first and no code takes a role away. *)
THEOREM CommanderKeepsTheRole == IncidentsSpec => []CommanderHasRole
<1>1. CInv => CommanderHasRole
  BY DEF CInv
<1> QED BY <1>1, IncidentsStart, IncidentsKept, PTL DEF IncidentsSpec

(* No number is given twice, drawn as it is by an increment in a transaction. *)
THEOREM NumbersAreGivenOnce == IncidentsSpec => []NumbersUnique
<1>1. CInv => NumbersUnique
  BY DEF CInv
<1> QED BY <1>1, IncidentsStart, IncidentsKept, PTL DEF IncidentsSpec

(* Rows and handlers keep their shape, and a handler that is about to write
   has an incident to write to. *)
THEOREM IncidentsTypeCorrect == IncidentsSpec => []IncidentsTypeOK
<1>1. CInv => IncidentsTypeOK
  BY IncidentsShapeIsType DEF CInv
<1> QED BY <1>1, IncidentsStart, IncidentsKept, PTL DEF IncidentsSpec

-----------------------------------------------------------------------------
(***************************************************************************)
(* Routing: what a run of the automation rules leaves behind, for any      *)
(* rules, any number of tickets and any members, while no other handler    *)
(* edits the row under it; rows and creations keep their shape when they do.*)
(***************************************************************************)

HIDE IncidentsAssumption DEF IncidentsAssumption
USE RoutingAssumption DEF RoutingAssumption

(* One creation at a time, and nobody edits while it is under way. *)
Undisturbed == "overlap" \notin RoutingFeatures

CaseRow == [state : {"unborn", "open", "ended"}, kind : CaseKinds \cup {"none"},
        crew : Crews \cup {NoCrew}, agent : Agents \cup {NoAgent}, major : BOOLEAN]

Desk == [op : {"idle", "route", "pick", "create", "automate"}, kind : CaseKinds \cup {"none"},
         crew : Crews \cup {NoCrew}, agent : Agents \cup {NoAgent}, major : BOOLEAN,
         rule : {0} \cup DOMAIN RoutingRules, t : SUBSET Cases, next : Nat]

DeskShape ==
  /\ case \in [Cases -> CaseRow] /\ clerk \in [Clerks -> Desk]
  /\ ruleOn \subseteq DOMAIN RoutingRules
  /\ \A r \in Clerks : clerk[r].op = "pick" => clerk[r].rule \in DOMAIN RoutingRules

OneFiles == \A r, q \in Clerks : Filing(r) /\ Filing(q) => r = q

(* No rule after i sets a crew, and none from i on sets the flag. *)
Decides(i) ==
  /\ AutomationRules[i].crew # NoCrew
  /\ \A j \in DOMAIN AutomationRules : j > i => AutomationRules[j].crew = NoCrew
  /\ \A j \in DOMAIN AutomationRules : j >= i => AutomationRules[j].flag = {}

(* The ticket whose rules are at `next` has the columns of the copy, and the
   crew of the deciding rule if that has had its turn. *)
UpTo(desk, t) ==
  /\ desk.next > 0 /\ \A u \in desk.t : u = t
  /\ case[t].kind = desk.kind /\ case[t].crew = desk.crew /\ case[t].major = desk.major
  /\ \A i \in DOMAIN AutomationRules :
       i < desk.next /\ Decides(i) /\ Matches(AutomationRules[i], case[t])
         => case[t].crew = AutomationRules[i].crew

CopyAgrees == \A r \in Clerks : clerk[r].op = "automate" => \A t \in clerk[r].t : UpTo(clerk[r], t)

(* The inductive invariant. *)
RInv == DeskShape /\ OneFiles /\ CopyAgrees

(* Nothing is filed at the start. *)
LEMMA RoutingStart == RoutingInit => RInv
BY DEF RoutingInit, RInv, DeskShape, OneFiles, CopyAgrees, CaseRow, Desk, NoCase, NoClerk, Filing

(* What rules are made of. *)
LEMMA RulesAreTyped ==
  /\ DOMAIN AutomationRules = 1..Len(AutomationRules) /\ Len(AutomationRules) \in Nat
  /\ \A i \in DOMAIN AutomationRules :
       /\ AutomationRules[i].crew \in Crews \cup {NoCrew}
       /\ AutomationRules[i].flag \in SUBSET BOOLEAN
<1> DEFINE Rule == [kinds : SUBSET CaseKinds, major : SUBSET BOOLEAN,
                    crew : Crews \cup {NoCrew}, flag : SUBSET BOOLEAN]
<1>1. AutomationRules \in Seq(Rule)
  OBVIOUS
<1> HIDE DEF Rule
<1>2. /\ DOMAIN AutomationRules = 1..Len(AutomationRules) /\ Len(AutomationRules) \in Nat
      /\ \A i \in DOMAIN AutomationRules : AutomationRules[i] \in Rule
  BY <1>1
<1> QED BY <1>2 DEF Rule

(* Only the creation at work goes on, and it does not touch the rows. *)
LEMMA DeskMovesOn ==
  ASSUME RInv, NEW r \in Clerks, NEW desk \in Desk, clerk' = [clerk EXCEPT ![r] = desk],
         \A q \in Clerks : Filing(q) => q = r, UNCHANGED case, ruleOn' \subseteq DOMAIN RoutingRules,
         desk.op # "automate", desk.op = "pick" => desk.rule \in DOMAIN RoutingRules
  PROVE  RInv'
<1>1. DeskShape' /\ \A q \in Clerks \ {r} : clerk'[q] = clerk[q] /\ clerk[q] = NoClerk
  BY DEF RInv, DeskShape, Filing
<1>2. clerk'[r] = desk
  BY DEF RInv, DeskShape
<1>3. OneFiles'
  BY <1>1 DEF OneFiles, Filing
<1>4. CopyAgrees'
  BY <1>1, <1>2 DEF CopyAgrees, NoClerk
<1> QED BY <1>1, <1>3, <1>4 DEF RInv

(* The creation at work and the row it has or makes come to agree again. *)
LEMMA DeskAndRowMoveOn ==
  ASSUME RInv, NEW r \in Clerks, NEW t \in Cases, NEW desk \in Desk, NEW row \in CaseRow, Filing(r),
         clerk' = [clerk EXCEPT ![r] = desk], case' = [case EXCEPT ![t] = row], ruleOn' = ruleOn,
         desk.op = "automate", desk.next > 0, \A u \in desk.t : u = t,
         row.kind = desk.kind, row.crew = desk.crew, row.major = desk.major,
         \A i \in DOMAIN AutomationRules :
           i < desk.next /\ Decides(i) /\ Matches(AutomationRules[i], row)
             => row.crew = AutomationRules[i].crew
  PROVE  RInv'
<1>1. \A q \in Clerks \ {r} : clerk'[q] = clerk[q] /\ clerk[q] = NoClerk
  BY DEF RInv, DeskShape, OneFiles, Filing
<1>2. clerk'[r] = desk /\ case'[t] = row
  BY DEF RInv, DeskShape
<1>3. DeskShape'
  <2>1. case' \in [Cases -> CaseRow] /\ clerk' \in [Clerks -> Desk]
    BY DEF RInv, DeskShape
  <2>2. \A q \in Clerks : clerk'[q].op = "pick" => clerk'[q].rule \in DOMAIN RoutingRules
    BY <1>1, <1>2 DEF NoClerk
  <2> QED BY <2>1, <2>2 DEF RInv, DeskShape
<1>4. OneFiles'
  BY <1>1 DEF OneFiles, Filing
<1>5. UpTo(clerk[r], t)'
  BY <1>2 DEF UpTo, Decides, Matches
<1>6. CopyAgrees'
  <2>1. \A q \in Clerks : clerk'[q].op = "automate" => q = r
    BY <1>1 DEF NoClerk
  <2>2. \A u \in clerk'[r].t : u = t
    BY <1>2
  <2> QED BY <1>5, <2>1, <2>2 DEF CopyAgrees
<1> QED BY <1>3, <1>4, <1>6 DEF RInv

(* Every step keeps the invariant. *)
LEMMA RoutingKept ==
  ASSUME Undisturbed PROVE RInv /\ [RoutingNext]_routingVars => RInv'
<1> SUFFICES ASSUME RInv, [RoutingNext]_routingVars PROVE RInv'
  OBVIOUS
<1>0. DeskShape /\ OneFiles /\ CopyAgrees /\ NoClerk \in Desk
  BY DEF RInv, Desk, NoClerk
<1>1. ASSUME NEW r \in Clerks, NEW kind \in CaseKinds, NEW major \in BOOLEAN, File(r, kind, major)
      PROVE  RInv'
  <2> DEFINE desk == [NoClerk EXCEPT !.op = "route", !.kind = kind, !.major = major]
  <2>1. desk \in Desk /\ desk.op = "route"
    BY DEF NoClerk, Desk
  <2>2. clerk' = [clerk EXCEPT ![r] = desk] /\ \A q \in Clerks : ~Filing(q)
    BY <1>1 DEF File, MayInterfere, Undisturbed
  <2> HIDE DEF desk
  <2> QED BY <1>0, <1>1, <2>1, <2>2, DeskMovesOn DEF File, DeskShape
<1>2. ASSUME NEW r \in Clerks, NEW i \in DOMAIN RoutingRules, MatchRule(r, i) PROVE RInv'
  <2> DEFINE desk == [clerk[r] EXCEPT !.op = IF RoutingRules[i].auto THEN "pick" ELSE "create",
                                      !.crew = RoutingRules[i].crew, !.rule = i]
  <2>1. desk \in Desk /\ desk.op # "automate" /\ desk.rule = i
    BY <1>0 DEF DeskShape, Desk
  <2>2. clerk' = [clerk EXCEPT ![r] = desk] /\ UNCHANGED <<case, ruleOn>>
    BY <1>2 DEF MatchRule
  <2>3. Filing(r)
    BY <1>2 DEF MatchRule, Filing, NoClerk
  <2> HIDE DEF desk
  <2> QED BY <1>0, <2>1, <2>2, <2>3, DeskMovesOn DEF OneFiles, DeskShape
<1>3. ASSUME NEW r \in Clerks, MatchNone(r) PROVE RInv'
  <2> DEFINE desk == [clerk[r] EXCEPT !.op = "create"]
  <2>1. desk \in Desk /\ desk.op = "create"
    BY <1>0 DEF DeskShape, Desk
  <2>2. clerk' = [clerk EXCEPT ![r] = desk] /\ UNCHANGED <<case, ruleOn>>
    BY <1>3 DEF MatchNone
  <2>3. Filing(r)
    BY <1>3 DEF MatchNone, Filing, NoClerk
  <2> HIDE DEF desk
  <2> QED BY <1>0, <2>1, <2>2, <2>3, DeskMovesOn DEF OneFiles, DeskShape
<1>4. ASSUME NEW r \in Clerks, PickAgent(r) PROVE RInv'
  <2>1. PICK agent \in Agents \cup {NoAgent} :
          clerk' = [clerk EXCEPT ![r] = [clerk[r] EXCEPT !.op = "create", !.agent = agent]]
    <3>1. RoutingRules[clerk[r].rule].able \subseteq Agents /\ clerk[r].agent \in Agents \cup {NoAgent}
      BY <1>0, <1>4 DEF PickAgent, DeskShape, Desk
    <3>2. CASE \E a \in RoutingRules[clerk[r].rule].able :
                 clerk' = [clerk EXCEPT ![r].op = "create", ![r].agent = a]
      BY <1>0, <3>1, <3>2 DEF DeskShape, Desk
    <3>3. CASE clerk' = [clerk EXCEPT ![r].op = "create"]
      <4>1. [clerk[r] EXCEPT !.op = "create"] = [clerk[r] EXCEPT !.op = "create", !.agent = clerk[r].agent]
        BY <1>0 DEF DeskShape, Desk
      <4> QED BY <3>1, <3>3, <4>1
    <3> QED BY <1>4, <3>2, <3>3 DEF PickAgent
  <2> DEFINE desk == [clerk[r] EXCEPT !.op = "create", !.agent = agent]
  <2>2. desk \in Desk /\ desk.op = "create"
    BY <1>0 DEF DeskShape, Desk
  <2>3. Filing(r) /\ UNCHANGED <<case, ruleOn>>
    BY <1>4 DEF PickAgent, Filing, NoClerk
  <2>4. clerk' = [clerk EXCEPT ![r] = desk]
    BY <2>1
  <2> HIDE DEF desk
  <2> QED BY <1>0, <2>2, <2>3, <2>4, DeskMovesOn DEF OneFiles, DeskShape
<1>5. ASSUME NEW r \in Clerks, NEW t \in Cases, CreateCase(r, t) PROVE RInv'
  <2> DEFINE desk == [clerk[r] EXCEPT !.op = "automate", !.t = {t}, !.next = 1]
             row == [state |-> "open", kind |-> clerk[r].kind, crew |-> clerk[r].crew,
                     agent |-> clerk[r].agent, major |-> clerk[r].major]
  <2>1. clerk[r] \in Desk /\ clerk[r].op = "create" /\ Filing(r)
    BY <1>0, <1>5 DEF CreateCase, DeskShape, Filing, NoClerk
  <2>2. /\ desk \in Desk /\ desk.op = "automate" /\ desk.t = {t} /\ desk.next = 1
        /\ row \in CaseRow /\ row.kind = desk.kind /\ row.crew = desk.crew /\ row.major = desk.major
    BY <2>1 DEF Desk, CaseRow
  <2>3. case' = [case EXCEPT ![t] = row] /\ clerk' = [clerk EXCEPT ![r] = desk] /\ ruleOn' = ruleOn
    BY <1>5 DEF CreateCase
  <2>4. \A i \in DOMAIN AutomationRules : ~(i < desk.next)
    BY <2>2, RulesAreTyped
  <2>5. desk.next > 0 /\ \A u \in desk.t : u = t
    BY <2>2
  <2> HIDE DEF desk, row
  <2> QED BY <2>1, <2>2, <2>3, <2>4, <2>5, DeskAndRowMoveOn
<1>6. ASSUME NEW r \in Clerks, NEW t \in Cases, ApplyRule(r, t) PROVE RInv'
  <2> DEFINE rule == AutomationRules[clerk[r].next]
             crew == IF Matches(rule, clerk[r]) THEN CrewAfter(rule, clerk[r]) ELSE clerk[r].crew
             flag == IF Matches(rule, clerk[r]) THEN FlagAfter(rule, clerk[r]) ELSE clerk[r].major
             desk == [clerk[r] EXCEPT !.next = clerk[r].next + 1, !.crew = crew, !.major = flag]
             row == [case[t] EXCEPT !.crew = crew, !.major = flag]
  <2>1. /\ clerk[r] \in Desk /\ clerk[r].op = "automate" /\ Filing(r)
        /\ t \in clerk[r].t /\ case[t] \in CaseRow /\ UpTo(clerk[r], t)
    BY <1>0, <1>6 DEF ApplyRule, DeskShape, Filing, NoClerk, CopyAgrees
  <2>2. clerk[r].next \in DOMAIN AutomationRules
    BY <1>6, <2>1, RulesAreTyped DEF ApplyRule, Desk, UpTo
  <2>3. crew \in Crews \cup {NoCrew} /\ flag \in BOOLEAN
    BY <2>1, <2>2, RulesAreTyped DEF CrewAfter, FlagAfter, Desk
  <2>4. /\ desk \in Desk /\ desk.op = "automate" /\ desk.t = clerk[r].t /\ desk.kind = clerk[r].kind
        /\ desk.next = clerk[r].next + 1 /\ desk.crew = crew /\ desk.major = flag
    <3> HIDE DEF crew, flag
    <3>1. clerk[r].next + 1 \in Nat
      BY <2>1 DEF Desk
    <3> QED BY <2>1, <2>3, <3>1 DEF Desk
  <2>5. row \in CaseRow /\ row.kind = case[t].kind /\ row.crew = crew /\ row.major = flag
    <3> HIDE DEF crew, flag
    <3> QED BY <2>1, <2>3 DEF CaseRow
  <2>6. ruleOn' = ruleOn /\ clerk' = [clerk EXCEPT ![r] = desk] /\ case' = [case EXCEPT ![t] = row]
    <3>1. CASE Matches(rule, clerk[r])
      <4>1. /\ ruleOn' = ruleOn /\ clerk' = [clerk EXCEPT ![r].next = @ + 1, ![r].crew = CrewAfter(rule, clerk[r]),
                                                         ![r].major = FlagAfter(rule, clerk[r])]
            /\ case' = [case EXCEPT
                 ![t].crew = IF CrewAfter(rule, clerk[r]) # clerk[r].crew THEN CrewAfter(rule, clerk[r]) ELSE @,
                 ![t].major = IF FlagAfter(rule, clerk[r]) # clerk[r].major THEN FlagAfter(rule, clerk[r]) ELSE @]
        BY <1>6, <3>1 DEF ApplyRule
      <4>2. crew = CrewAfter(rule, clerk[r]) /\ flag = FlagAfter(rule, clerk[r])
        BY <3>1
      <4> HIDE DEF crew, flag, rule
      <4>3. clerk' = [clerk EXCEPT ![r] = desk]
        BY <1>0, <4>1, <4>2 DEF DeskShape
      <4>4. row = [case[t] EXCEPT !.crew = IF crew # clerk[r].crew THEN crew ELSE case[t].crew,
                                  !.major = IF flag # clerk[r].major THEN flag ELSE case[t].major]
        BY <2>1 DEF UpTo
      <4>5. case' = [case EXCEPT ![t] = row]
        BY <1>0, <4>1, <4>2, <4>4 DEF DeskShape
      <4> QED BY <4>1, <4>3, <4>5
    <3>2. CASE ~Matches(rule, clerk[r])
      <4>1. clerk' = [clerk EXCEPT ![r] = [clerk[r] EXCEPT !.next = clerk[r].next + 1]]
            /\ case' = case /\ ruleOn' = ruleOn
        BY <1>6, <3>2 DEF ApplyRule
      <4>2. row = case[t] /\ desk = [clerk[r] EXCEPT !.next = clerk[r].next + 1]
        BY <2>1, <3>2 DEF UpTo, CaseRow, Desk
      <4>3. [case EXCEPT ![t] = case[t]] = case
        BY <1>0 DEF DeskShape
      <4> QED BY <4>1, <4>2, <4>3
    <3> QED BY <3>1, <3>2
  <2>7. \A i \in DOMAIN AutomationRules :
          i < desk.next /\ Decides(i) /\ Matches(AutomationRules[i], row) => row.crew = AutomationRules[i].crew
    <3> SUFFICES ASSUME NEW i \in DOMAIN AutomationRules, i < desk.next, Decides(i),
                        Matches(AutomationRules[i], row)
                 PROVE  row.crew = AutomationRules[i].crew
      OBVIOUS
    <3>1. i \in Nat /\ clerk[r].next \in Nat
      BY <2>1, RulesAreTyped DEF Desk
    <3>2. rule.flag = {}
      BY <2>2, <2>4, <3>1 DEF Decides
    <3>3. flag = clerk[r].major
      BY <3>2 DEF FlagAfter
    <3>4. CASE i = clerk[r].next
      BY <2>1, <2>5, <3>3, <3>4 DEF UpTo, Matches, CrewAfter, Decides
    <3>5. CASE i < clerk[r].next
      <4>1. rule.crew = NoCrew
        BY <2>2, <3>5 DEF Decides
      <4>2. crew = clerk[r].crew
        BY <4>1 DEF CrewAfter
      <4> QED BY <2>1, <2>5, <3>3, <3>5, <4>2 DEF UpTo, Matches
    <3> QED BY <2>4, <3>1, <3>4, <3>5
  <2>8. desk.next > 0 /\ (\A u \in desk.t : u = t) /\ row.kind = desk.kind
    BY <2>1, <2>4, <2>5 DEF UpTo, Desk
  <2> HIDE DEF rule, crew, flag, desk, row
  <2> QED BY <2>1, <2>4, <2>5, <2>6, <2>7, <2>8, DeskAndRowMoveOn
<1>7. ASSUME NEW r \in Clerks, EndCreation(r) PROVE RInv'
  <2>1. Filing(r)
    BY <1>7 DEF EndCreation, Filing, NoClerk
  <2> QED BY <1>0, <1>7, <2>1, DeskMovesOn DEF EndCreation, NoClerk, OneFiles, DeskShape
<1>8. ASSUME NEW t \in Cases, NEW crew \in Crews, NEW agent \in Agents \cup {NoAgent},
             EditCase(t, crew, agent)
      PROVE  RInv'
  <2>1. \A r \in Clerks : ~Filing(r)
    BY <1>8 DEF EditCase, MayInterfere, Undisturbed
  <2>2. case' = [case EXCEPT ![t] = [case[t] EXCEPT !.crew = crew, !.agent = agent]]
        /\ UNCHANGED <<ruleOn, clerk>>
    BY <1>8 DEF EditCase
  <2>3. [case[t] EXCEPT !.crew = crew, !.agent = agent] \in CaseRow
    <3>1. case[t] \in CaseRow /\ crew \in Crews \cup {NoCrew}
      BY <1>0 DEF DeskShape
    <3> QED BY <3>1 DEF CaseRow
  <2> QED BY <1>0, <2>1, <2>2, <2>3 DEF RInv, DeskShape, OneFiles, CopyAgrees, Filing, NoClerk
<1>9. ASSUME NEW t \in Cases, EndCase(t) PROVE RInv'
  <2>1. \A r \in Clerks : ~Filing(r)
    BY <1>9 DEF EndCase, MayInterfere, Undisturbed
  <2>2. case' = [case EXCEPT ![t] = [case[t] EXCEPT !.state = "ended"]] /\ UNCHANGED <<ruleOn, clerk>>
    BY <1>9 DEF EndCase
  <2>3. [case[t] EXCEPT !.state = "ended"] \in CaseRow
    BY <1>0 DEF DeskShape, CaseRow
  <2> QED BY <1>0, <2>1, <2>2, <2>3 DEF RInv, DeskShape, OneFiles, CopyAgrees, Filing, NoClerk
<1>10. ASSUME NEW i \in DOMAIN RoutingRules, CreateRule(i) PROVE RInv'
  BY <1>0, <1>10 DEF CreateRule, RInv, DeskShape, OneFiles, CopyAgrees, UpTo, Filing
<1>11. CASE UNCHANGED routingVars
  BY <1>0, <1>11 DEF routingVars, RInv, DeskShape, OneFiles, CopyAgrees, UpTo, Filing
<1> QED BY <1>1, <1>2, <1>3, <1>4, <1>5, <1>6, <1>7, <1>8, <1>9, <1>10, <1>11 DEF RoutingNext

(* The rules are over when their turn has passed the last of them. *)
LEMMA RulesEndAfterTheLast ==
  ASSUME RInv, RoutingNext, NEW r \in Clerks, clerk[r].op = "automate", clerk'[r].op = "idle"
  PROVE  clerk[r].next > Len(AutomationRules)
<1>0. clerk[r] \in Desk /\ clerk \in [Clerks -> Desk]
  BY DEF RInv, DeskShape
<1>1. ASSUME NEW q \in Clerks, NEW kind \in CaseKinds, NEW major \in BOOLEAN, File(q, kind, major)
      PROVE  FALSE
  BY <1>0, <1>1 DEF File, Filing, NoClerk
<1>2. ASSUME NEW q \in Clerks, NEW i \in DOMAIN RoutingRules, MatchRule(q, i) PROVE FALSE
  BY <1>0, <1>2 DEF MatchRule
<1>3. ASSUME NEW q \in Clerks, MatchNone(q) \/ PickAgent(q) PROVE FALSE
  BY <1>0, <1>3 DEF MatchNone, PickAgent
<1>4. ASSUME NEW q \in Clerks, NEW t \in Cases, CreateCase(q, t) PROVE FALSE
  BY <1>0, <1>4 DEF CreateCase
<1>5. ASSUME NEW q \in Clerks, NEW t \in Cases, ApplyRule(q, t) PROVE FALSE
  <2> DEFINE rule == AutomationRules[clerk[q].next]
             crew == CrewAfter(rule, clerk[q])
             flag == FlagAfter(rule, clerk[q])
  <2>1. CASE Matches(rule, clerk[q])
    <3>1. clerk' = [clerk EXCEPT ![q].next = @ + 1, ![q].crew = crew, ![q].major = flag]
      BY <1>5, <2>1 DEF ApplyRule
    <3> HIDE DEF crew, flag
    <3> QED BY <1>0, <3>1 DEF Desk
  <2>2. CASE ~Matches(rule, clerk[q])
    <3>1. clerk' = [clerk EXCEPT ![q].next = @ + 1]
      BY <1>5, <2>2 DEF ApplyRule
    <3> QED BY <1>0, <3>1 DEF Desk
  <2> QED BY <2>1, <2>2
<1>6. ASSUME NEW q \in Clerks, EndCreation(q) PROVE q = r /\ clerk[q].next > Len(AutomationRules)
  BY <1>0, <1>6 DEF EndCreation
<1>7. ASSUME clerk' = clerk PROVE FALSE
  BY <1>7
<1>8. CASE \E t \in Cases, crew \in Crews, agent \in Agents \cup {NoAgent} : EditCase(t, crew, agent)
  BY <1>7, <1>8 DEF EditCase
<1>9. CASE \E t \in Cases : EndCase(t)
  BY <1>7, <1>9 DEF EndCase
<1>10. CASE \E i \in DOMAIN RoutingRules : CreateRule(i)
  BY <1>7, <1>10 DEF CreateRule
<1> QED BY <1>1, <1>2, <1>3, <1>4, <1>5, <1>6, <1>8, <1>9, <1>10 DEF RoutingNext

(* Among rules of which one sets the crew last, and none from it on the flag,
   that one has decided the crew when the evaluation ends: each rule sees
   what the earlier ones left, and none stops it. *)
THEOREM TheLastRuleDecides ==
  ASSUME Undisturbed PROVE RoutingSpec => LastRuleWins
<1> DEFINE Decided == \A r \in Clerks : clerk[r].op = "automate" /\ clerk'[r].op = "idle" =>
             \A t \in clerk[r].t : \A i \in DOMAIN AutomationRules :
               LET rule == AutomationRules[i]
               IN  (/\ Matches(rule, case[t]) /\ rule.crew # NoCrew
                    /\ \A j \in DOMAIN AutomationRules : j > i => AutomationRules[j].crew = NoCrew
                    /\ \A j \in DOMAIN AutomationRules : j >= i => AutomationRules[j].flag = {})
                     => case[t].crew = rule.crew
<1>1. RInv /\ [RoutingNext]_routingVars => RInv'
  BY RoutingKept
<1>2. RInv /\ [RoutingNext]_routingVars => [Decided]_routingVars
  <2> SUFFICES ASSUME RInv, RoutingNext, NEW r \in Clerks, clerk[r].op = "automate", clerk'[r].op = "idle",
                      NEW t \in clerk[r].t, NEW i \in DOMAIN AutomationRules,
                      Matches(AutomationRules[i], case[t]), Decides(i)
               PROVE  case[t].crew = AutomationRules[i].crew
    BY DEF Decides
  <2>1. UpTo(clerk[r], t)
    BY DEF RInv, CopyAgrees
  <2>2. i < clerk[r].next
    <3>1. clerk[r].next \in Nat
      BY DEF RInv, DeskShape, Desk
    <3> QED BY <3>1, RulesEndAfterTheLast, RulesAreTyped
  <2> QED BY <2>1, <2>2 DEF UpTo
<1> QED BY <1>1, <1>2, RoutingStart, PTL DEF RoutingSpec, LastRuleWins

-----------------------------------------------------------------------------
(***************************************************************************)
(* Shapes, however many creations and edits overlap.                       *)
(***************************************************************************)

(* The copy of the row that a creation holds is of a row that was made. *)
Made(desk, rows) ==
  /\ desk \in Desk
  /\ desk.op = "pick" => desk.rule \in DOMAIN RoutingRules
  /\ desk.op = "automate" =>
       desk.next > 0 /\ \E t \in Cases : desk.t = {t} /\ rows[t].state # "unborn"

RoutingShape ==
  /\ case \in [Cases -> CaseRow] /\ clerk \in [Clerks -> Desk]
  /\ ruleOn \subseteq DOMAIN RoutingRules
  /\ \A r \in Clerks : Made(clerk[r], case)

(* Rows that were made stay made, so the other creations keep theirs. *)
LEMMA OthersGoOn ==
  ASSUME RoutingShape, NEW r \in Clerks, NEW desk, clerk' = [clerk EXCEPT ![r] = desk],
         case' \in [Cases -> CaseRow], \A t \in Cases : case[t].state # "unborn" => case'[t].state # "unborn",
         Made(desk, case'), ruleOn' = ruleOn
  PROVE  RoutingShape'
<1>1. PICK rows : rows = case'
  OBVIOUS
<1>2. \A q \in Clerks : clerk'[q] = IF q = r THEN desk ELSE clerk[q]
  BY DEF RoutingShape
<1>3. \A q \in Clerks : Made(clerk'[q], rows)
  BY <1>1, <1>2 DEF RoutingShape, Made
<1>4. clerk' \in [Clerks -> Desk]
  BY DEF RoutingShape, Made
<1> QED BY <1>1, <1>3, <1>4 DEF RoutingShape, Made

(* Nor does an edit unmake a row. *)
LEMMA RowsGoOn ==
  ASSUME RoutingShape, case' \in [Cases -> CaseRow], clerk' = clerk,
         \A t \in Cases : case[t].state # "unborn" => case'[t].state # "unborn",
         ruleOn' \subseteq DOMAIN RoutingRules
  PROVE  RoutingShape'
<1>1. PICK rows : rows = case'
  OBVIOUS
<1>2. \A q \in Clerks : Made(clerk[q], rows)
  BY <1>1 DEF RoutingShape, Made
<1> QED BY <1>1, <1>2 DEF RoutingShape, Made

LEMMA RoutingShapeKept == RoutingShape /\ [RoutingNext]_routingVars => RoutingShape'
<1> SUFFICES ASSUME RoutingShape, [RoutingNext]_routingVars PROVE RoutingShape'
  OBVIOUS
<1>0. /\ case \in [Cases -> CaseRow] /\ clerk \in [Clerks -> Desk] /\ ruleOn \subseteq DOMAIN RoutingRules
      /\ \A r \in Clerks : Made(clerk[r], case)
  BY DEF RoutingShape
<1>1. ASSUME NEW r \in Clerks, NEW desk \in Desk, clerk' = [clerk EXCEPT ![r] = desk],
             UNCHANGED <<case, ruleOn>>, desk.op # "automate",
             desk.op = "pick" => desk.rule \in DOMAIN RoutingRules
      PROVE  RoutingShape'
  <2>1. Made(desk, case')
    BY <1>1 DEF Made
  <2> QED BY <1>0, <1>1, <2>1, OthersGoOn
<1>2. ASSUME NEW r \in Clerks, NEW kind \in CaseKinds, NEW major \in BOOLEAN, File(r, kind, major)
      PROVE  RoutingShape'
  <2>1. PICK desk : desk = [NoClerk EXCEPT !.op = "route", !.kind = kind, !.major = major]
    OBVIOUS
  <2>2. desk \in Desk /\ desk.op = "route"
    BY <2>1 DEF NoClerk, Desk
  <2> QED BY <1>1, <1>2, <2>1, <2>2 DEF File
<1>3. ASSUME NEW r \in Clerks, NEW i \in DOMAIN RoutingRules, MatchRule(r, i) PROVE RoutingShape'
  <2>1. PICK desk : desk = [clerk[r] EXCEPT !.op = IF RoutingRules[i].auto THEN "pick" ELSE "create",
                                            !.crew = RoutingRules[i].crew, !.rule = i]
    OBVIOUS
  <2>2. desk \in Desk /\ desk.op # "automate" /\ desk.rule = i
    <3>1. clerk[r] \in Desk /\ RoutingRules[i].crew \in Crews
      BY <1>0
    <3> QED BY <2>1, <3>1 DEF Desk
  <2>3. clerk' = [clerk EXCEPT ![r] = desk] /\ UNCHANGED <<case, ruleOn>>
    BY <1>3, <2>1 DEF MatchRule
  <2> QED BY <1>1, <2>2, <2>3
<1>4. ASSUME NEW r \in Clerks, MatchNone(r) PROVE RoutingShape'
  <2>1. PICK desk : desk = [clerk[r] EXCEPT !.op = "create"]
    OBVIOUS
  <2>2. desk \in Desk /\ desk.op = "create"
    BY <1>0, <2>1 DEF Desk
  <2> QED BY <1>1, <1>4, <2>1, <2>2 DEF MatchNone
<1>5. ASSUME NEW r \in Clerks, PickAgent(r) PROVE RoutingShape'
  <2>1. clerk[r].rule \in DOMAIN RoutingRules
    BY <1>0, <1>5 DEF PickAgent, Made
  <2>2. ASSUME NEW a \in RoutingRules[clerk[r].rule].able,
               clerk' = [clerk EXCEPT ![r].op = "create", ![r].agent = a]
        PROVE  RoutingShape'
    <3>1. PICK desk : desk = [clerk[r] EXCEPT !.op = "create", !.agent = a]
      OBVIOUS
    <3>2. desk \in Desk /\ desk.op = "create"
      <4>1. clerk[r] \in Desk /\ a \in Agents
        BY <1>0, <2>1
      <4> QED BY <3>1, <4>1 DEF Desk
    <3>3. clerk' = [clerk EXCEPT ![r] = desk]
      BY <1>0, <2>2, <3>1
    <3> QED BY <1>1, <1>5, <3>2, <3>3 DEF PickAgent
  <2>3. ASSUME clerk' = [clerk EXCEPT ![r].op = "create"] PROVE RoutingShape'
    <3>1. PICK desk : desk = [clerk[r] EXCEPT !.op = "create"]
      OBVIOUS
    <3>2. desk \in Desk /\ desk.op = "create"
      BY <1>0, <3>1 DEF Desk
    <3> QED BY <1>1, <1>5, <2>3, <3>1, <3>2 DEF PickAgent
  <2> QED BY <1>5, <2>2, <2>3 DEF PickAgent
<1>6. ASSUME NEW r \in Clerks, NEW t \in Cases, CreateCase(r, t) PROVE RoutingShape'
  <2>1. PICK desk, row :
          /\ desk = [clerk[r] EXCEPT !.op = "automate", !.t = {t}, !.next = 1]
          /\ row = [state |-> "open", kind |-> clerk[r].kind, crew |-> clerk[r].crew,
                    agent |-> clerk[r].agent, major |-> clerk[r].major]
    OBVIOUS
  <2>2. desk \in Desk /\ desk.op = "automate" /\ desk.t = {t} /\ desk.next = 1
        /\ row \in CaseRow /\ row.state = "open"
    BY <1>0, <2>1 DEF Desk, CaseRow
  <2>3. case' = [case EXCEPT ![t] = row] /\ clerk' = [clerk EXCEPT ![r] = desk] /\ ruleOn' = ruleOn
    BY <1>6, <2>1 DEF CreateCase
  <2>4. PICK rows : rows = case'
    OBVIOUS
  <2>5. rows \in [Cases -> CaseRow] /\ \A u \in Cases : rows[u] = IF u = t THEN row ELSE case[u]
    BY <1>0, <2>2, <2>3, <2>4
  <2>6. Made(desk, rows)
    BY <2>2, <2>5 DEF Made
  <2> QED BY <2>2, <2>3, <2>4, <2>5, <2>6, OthersGoOn
<1>7. ASSUME NEW r \in Clerks, NEW t \in Cases, ApplyRule(r, t) PROVE RoutingShape'
  <2>1. PICK crew, flag :
          /\ crew = CrewAfter(AutomationRules[clerk[r].next], clerk[r])
          /\ flag = FlagAfter(AutomationRules[clerk[r].next], clerk[r])
    OBVIOUS
  <2>2. /\ clerk[r] \in Desk /\ clerk[r].op = "automate" /\ clerk[r].next > 0
        /\ clerk[r].t = {t} /\ case[t].state # "unborn"
    BY <1>0, <1>7 DEF ApplyRule, Made
  <2>3. clerk[r].next \in DOMAIN AutomationRules /\ clerk[r].next + 1 \in Nat
    BY <1>7, <2>2, RulesAreTyped DEF ApplyRule, Desk
  <2>4. crew \in Crews \cup {NoCrew} /\ flag \in BOOLEAN
    BY <2>1, <2>2, <2>3, RulesAreTyped DEF CrewAfter, FlagAfter, Desk
  <2>5. CASE Matches(AutomationRules[clerk[r].next], clerk[r])
    <3>1. PICK desk, row :
            /\ desk = [clerk[r] EXCEPT !.next = clerk[r].next + 1, !.crew = crew, !.major = flag]
            /\ row = [case[t] EXCEPT !.crew = IF crew # clerk[r].crew THEN crew ELSE case[t].crew,
                                     !.major = IF flag # clerk[r].major THEN flag ELSE case[t].major]
      OBVIOUS
    <3>2. /\ desk \in Desk /\ desk.op = "automate" /\ desk.t = {t} /\ desk.next = clerk[r].next + 1
      BY <2>2, <2>3, <2>4, <3>1 DEF Desk
    <3>3. row \in CaseRow /\ row.state = case[t].state
      <4>1. case[t] \in CaseRow
        BY <1>0
      <4> QED BY <2>4, <3>1, <4>1 DEF CaseRow
    <3>4. /\ ruleOn' = ruleOn
          /\ clerk' = [clerk EXCEPT ![r].next = @ + 1, ![r].crew = crew, ![r].major = flag]
          /\ case' = [case EXCEPT
               ![t].crew = IF crew # clerk[r].crew THEN crew ELSE @,
               ![t].major = IF flag # clerk[r].major THEN flag ELSE @]
      BY <1>7, <2>1, <2>5 DEF ApplyRule
    <3>5. clerk' = [clerk EXCEPT ![r] = desk] /\ case' = [case EXCEPT ![t] = row]
      BY <1>0, <3>1, <3>4
    <3>6. PICK rows : rows = case'
      OBVIOUS
    <3>7. rows \in [Cases -> CaseRow] /\ \A u \in Cases : rows[u].state = case[u].state
      BY <1>0, <3>3, <3>5, <3>6
    <3>8. desk.next > 0
      BY <2>2, <3>2 DEF Desk
    <3>9. Made(desk, rows)
      BY <2>2, <3>2, <3>7, <3>8 DEF Made
    <3>10. /\ rows \in [Cases -> CaseRow]
           /\ \A u \in Cases : case[u].state # "unborn" => rows[u].state # "unborn"
      BY <3>7
    <3> QED BY <3>4, <3>5, <3>6, <3>9, <3>10, OthersGoOn
  <2>6. CASE ~Matches(AutomationRules[clerk[r].next], clerk[r])
    <3>1. PICK desk : desk = [clerk[r] EXCEPT !.next = clerk[r].next + 1]
      OBVIOUS
    <3>2. desk \in Desk /\ desk.op = "automate" /\ desk.t = {t} /\ desk.next = clerk[r].next + 1
      BY <2>2, <2>3, <3>1 DEF Desk
    <3>3. clerk' = [clerk EXCEPT ![r] = desk] /\ case' = case /\ ruleOn' = ruleOn
      BY <1>7, <2>6, <3>1 DEF ApplyRule
    <3>4. desk.next > 0
      BY <2>2, <3>2 DEF Desk
    <3>5. Made(desk, case')
      BY <2>2, <3>2, <3>3, <3>4 DEF Made
    <3> QED BY <1>0, <3>3, <3>5, OthersGoOn
  <2> QED BY <2>5, <2>6
<1>8. ASSUME NEW r \in Clerks, EndCreation(r) PROVE RoutingShape'
  <2>1. NoClerk \in Desk /\ NoClerk.op = "idle"
    BY DEF NoClerk, Desk
  <2> QED BY <1>1, <1>8, <2>1 DEF EndCreation
<1>9. ASSUME NEW t \in Cases, NEW crew \in Crews, NEW agent \in Agents \cup {NoAgent},
             EditCase(t, crew, agent)
      PROVE  RoutingShape'
  <2>1. PICK edited : edited = [case[t] EXCEPT !.crew = crew, !.agent = agent]
    OBVIOUS
  <2>2. edited \in CaseRow /\ edited.state = case[t].state
    <3>1. case[t] \in CaseRow /\ crew \in Crews \cup {NoCrew}
      BY <1>0
    <3> QED BY <2>1, <3>1 DEF CaseRow
  <2> QED BY <1>0, <1>9, <2>1, <2>2, RowsGoOn DEF EditCase
<1>10. ASSUME NEW t \in Cases, EndCase(t) PROVE RoutingShape'
  <2>1. PICK ended : ended = [case[t] EXCEPT !.state = "ended"]
    OBVIOUS
  <2>2. ended \in CaseRow /\ ended.state = "ended"
    BY <1>0, <2>1 DEF CaseRow
  <2> QED BY <1>0, <1>10, <2>1, <2>2, RowsGoOn DEF EndCase
<1>11. ASSUME NEW i \in DOMAIN RoutingRules, CreateRule(i) PROVE RoutingShape'
  BY <1>0, <1>11, RowsGoOn DEF CreateRule
<1>12. CASE UNCHANGED routingVars
  BY <1>0, <1>12, RowsGoOn DEF routingVars
<1> QED BY <1>2, <1>3, <1>4, <1>5, <1>6, <1>7, <1>8, <1>9, <1>10, <1>11, <1>12 DEF RoutingNext

(* Rows and creations have their shape, and a creation that runs the
   automation rules has its row, whatever is edited or created beside it. *)
THEOREM RoutingTypeCorrect == RoutingSpec => []RoutingTypeOK
<1>1. RoutingInit => RoutingShape
  BY DEF RoutingInit, RoutingShape, Made, CaseRow, Desk, NoCase, NoClerk
<1>2. RoutingShape => RoutingTypeOK
  BY DEF RoutingShape, RoutingTypeOK, Made, CaseRow, Desk, NoCase
<1> QED BY <1>1, <1>2, RoutingShapeKept, PTL DEF RoutingSpec

-----------------------------------------------------------------------------
(***************************************************************************)
(* Business hours: a due time comes after exactly as many open minutes as  *)
(* were asked for, for any windows that share no minute, any holidays, any *)
(* start and any length of the day, the week and the walk.  And a walk     *)
(* keeps its shape.                                                        *)
(***************************************************************************)

HIDE RoutingAssumption DEF RoutingAssumption
USE HoursAssumption DEF HoursAssumption

Minutes == 0..DayMinutes - 1

Window == [dow : 0..DaysOfWeek - 1, start : Minutes, end : 0..DayMinutes]

Calendar == [hours : SUBSET Window, holidays : SUBSET Nat]

Walk == [op : {"idle", "walk", "day", "due"}, calendar : Calendar, from : Nat \X Minutes,
         minutes : Int, cursor : Nat \X Minutes, remaining : Int, left : SUBSET Window,
         days : Nat, dueAt : Nat \X (0..DayMinutes)]

(* The open minutes from one time on that a walk has counted when its cursor is
   at another: those before the cursor, and on its day those of the windows that
   it is through with. *)
CountedMinutes(calendar, from, cursor, done) ==
  {t \in (from[1]..cursor[1]) \X Minutes :
     /\ ~Precedes(t, from) /\ OpenAt(calendar, t)
     /\ Precedes(t, cursor) \/ (t[1] = cursor[1] /\ \E v \in done : Within(v, t))}

Done == IF walk.op = "day" THEN Windows(walk.calendar, walk.cursor[1]) \ walk.left ELSE {}

Seen == CountedMinutes(walk.calendar, walk.from, walk.cursor, Done)

WalkOnTheWay == walk.op \in {"walk", "day"}

(* Where the cursor of a walk may be. *)
CursorFits == WalkOnTheWay =>
  /\ walk.cursor[1] = walk.from[1] + walk.days /\ walk.days <= MaxDays
  /\ IF walk.days = 0 THEN walk.cursor = walk.from ELSE walk.cursor[2] = 0

(* The windows of the day at hand are taken by their start. *)
DayFits == walk.op = "day" =>
  /\ walk.days < MaxDays
  /\ walk.cursor[1] \notin walk.calendar.holidays
  /\ walk.left \subseteq Windows(walk.calendar, walk.cursor[1])
  /\ \A v \in Done, w \in walk.left : v.start <= w.start

(* What was counted and what remains is what was asked for. *)
SumFits == WalkOnTheWay /\ Disjoint(walk.calendar) =>
  IsFiniteSet(Seen) /\ Cardinality(Seen) + walk.remaining = walk.minutes

(* The inductive invariant. *)
HInv ==
  /\ walk \in Walk /\ (WalkOnTheWay => walk.remaining > 0 /\ walk.minutes > 0)
  /\ CursorFits /\ DayFits /\ SumFits /\ DueInOpenTime

(* A time on the wall is a time. *)
LEMMA ClockIsTyped ==
  ASSUME NEW from \in Nat \X Minutes, NEW minutes \in Nat
  PROVE  ClockAfter(from, minutes) \in Nat \X (0..DayMinutes)
<1> DEFINE n == from[2] + minutes
<1>1. n \in Nat BY DEF Minutes
<1> HIDE DEF n
<1>2. n \div DayMinutes \in Nat /\ n % DayMinutes \in 0..DayMinutes - 1
  BY <1>1, SMTT(30)
<1>3. from[1] + n \div DayMinutes \in Nat BY <1>2
<1> QED BY <1>2, <1>3, SMTT(30) DEF ClockAfter, n

(* An empty walk counts nothing. *)
LEMMA NoWalkFits == NoWalk \in Walk
BY DEF NoWalk, Walk, Calendar, Minutes

LEMMA HoursStart == HoursInit => HInv
BY NoWalkFits DEF HoursInit, HInv, NoWalk, WalkOnTheWay, CursorFits, DayFits, SumFits, DueInOpenTime

(* A stretch of minutes of one day has as many as it is long. *)
LEMMA StretchIsLong ==
  ASSUME NEW day \in Nat, NEW a \in Nat, NEW b \in Nat, a <= b
  PROVE  IsFiniteSet({day} \X (a..b - 1)) /\ Cardinality({day} \X (a..b - 1)) = b - a
<1> DEFINE S == {day}
           T == a..b - 1
<1>1. b - 1 \in Int OBVIOUS
<1>2. IsFiniteSet(T) /\ Cardinality(T) = IF a > b - 1 THEN 0 ELSE (b - 1) - a + 1
  BY <1>1, FS_Interval
<1>3. IsFiniteSet(S) /\ Cardinality(S) = 1
  BY FS_Singleton
<1> HIDE DEF S, T
<1>4. Cardinality(T) = b - a
  BY <1>2
<1>5. IsFiniteSet(S \X T) /\ Cardinality(S \X T) = Cardinality(S) * Cardinality(T)
  BY <1>2, <1>3, FS_Product
<1>6. Cardinality(S \X T) = b - a
  BY <1>3, <1>4, <1>5
<1> QED BY <1>5, <1>6 DEF S, T

(* A walk that begins has counted nothing. *)
LEMMA NothingYet ==
  ASSUME NEW calendar, NEW from \in Nat \X Minutes
  PROVE  CountedMinutes(calendar, from, from, {}) = {}
BY DEF CountedMinutes

(* A day off adds nothing. *)
LEMMA DayOffIsEmpty ==
  ASSUME NEW calendar \in Calendar, NEW from \in Nat \X Minutes, NEW cursor \in Nat \X Minutes,
         cursor[1] \in calendar.holidays \/ Windows(calendar, cursor[1]) = {}
  PROVE  CountedMinutes(calendar, from, <<cursor[1] + 1, 0>>, {}) = CountedMinutes(calendar, from, cursor, {})
<1> DEFINE next == <<cursor[1] + 1, 0>>
<1>1. ASSUME NEW t \in Nat \X Minutes, OpenAt(calendar, t)
      PROVE  t[1] # cursor[1]
  BY <1>1 DEF OpenAt
<1>2. ASSUME NEW t \in Nat \X Minutes, OpenAt(calendar, t)
      PROVE  Precedes(t, next) <=> Precedes(t, cursor)
  BY <1>1, <1>2 DEF Precedes, Minutes
<1>3. ASSUME NEW t \in Nat \X Minutes, Precedes(t, next)
      PROVE  t[1] <= cursor[1]
  BY <1>3 DEF Precedes, Minutes
<1> QED BY <1>2, <1>3 DEF CountedMinutes

(* At the end of a day all its windows were counted. *)
LEMMA DayIsOver ==
  ASSUME NEW calendar \in Calendar, NEW from \in Nat \X Minutes, NEW cursor \in Nat \X Minutes
  PROVE  CountedMinutes(calendar, from, <<cursor[1] + 1, 0>>, {})
           = CountedMinutes(calendar, from, cursor, Windows(calendar, cursor[1]))
<1> DEFINE next == <<cursor[1] + 1, 0>>
           Counted(t) == \/ Precedes(t, cursor)
                         \/ t[1] = cursor[1] /\ \E v \in Windows(calendar, cursor[1]) : Within(v, t)
<1>1. ASSUME NEW t \in Nat \X Minutes, OpenAt(calendar, t)
      PROVE  Precedes(t, next) <=> Counted(t)
  BY <1>1 DEF Precedes, Minutes, OpenAt
<1>2. ASSUME NEW t \in Nat \X Minutes, Precedes(t, next)
      PROVE  t[1] <= cursor[1]
  BY <1>2 DEF Precedes, Minutes
<1> QED BY <1>1, <1>2 DEF CountedMinutes

(* The minute from which a window of the cursor's day is open to the walk. *)
OpensFrom(cursor, w) == IF cursor[2] > w.start THEN cursor[2] ELSE w.start

(* A walk that passes a window has counted the rest of it as well. *)
LEMMA WindowIsPassed ==
  ASSUME NEW calendar \in Calendar, NEW from \in Nat \X Minutes, NEW cursor \in Nat \X Minutes,
         ~Precedes(cursor, from), cursor[1] \notin calendar.holidays,
         NEW w \in Windows(calendar, cursor[1]),
         NEW done \in SUBSET (Windows(calendar, cursor[1]) \ {w})
  PROVE  /\ CountedMinutes(calendar, from, cursor, done \cup {w})
              = CountedMinutes(calendar, from, cursor, done)
                  \cup ({cursor[1]} \X (OpensFrom(cursor, w)..w.end - 1))
         /\ Disjoint(calendar) =>
              CountedMinutes(calendar, from, cursor, done)
                \cap ({cursor[1]} \X (OpensFrom(cursor, w)..w.end - 1)) = {}
<1> DEFINE rest == {cursor[1]} \X (OpensFrom(cursor, w)..w.end - 1)
           old == CountedMinutes(calendar, from, cursor, done)
           new == CountedMinutes(calendar, from, cursor, done \cup {w})
<1>1. w \in Window /\ w \in calendar.hours /\ w.dow = cursor[1] % DaysOfWeek
  BY DEF Windows, Calendar
<1>2. cursor[1] \in from[1]..cursor[1]
  BY DEF Precedes
<1>3. ASSUME NEW t \in rest
      PROVE  /\ t \in (from[1]..cursor[1]) \X Minutes
             /\ t[1] = cursor[1] /\ cursor[2] <= t[2] /\ Within(w, t)
  BY <1>1, <1>2 DEF OpensFrom, Within, Window, Minutes
<1>4. ASSUME NEW t \in rest
      PROVE  t \in new
  <2>1. ~Precedes(t, from)
    BY <1>3, <1>4 DEF Precedes, Minutes
  <2>2. OpenAt(calendar, t)
    BY <1>3, <1>4 DEF OpenAt
  <2> QED BY <1>3, <1>4, <2>1, <2>2 DEF CountedMinutes
<1>5. ASSUME NEW t \in new, t \notin old
      PROVE  t \in rest
  <2>1. t \in (from[1]..cursor[1]) \X Minutes /\ ~Precedes(t, cursor) /\ t[1] = cursor[1] /\ Within(w, t)
    BY <1>5 DEF CountedMinutes
  <2>2. t[2] \in OpensFrom(cursor, w)..w.end - 1
    BY <1>1, <2>1 DEF Precedes, Within, OpensFrom, Window, Minutes
  <2> QED BY <2>1, <2>2
<1>6. old \subseteq new
  BY DEF CountedMinutes
<1>7. ASSUME Disjoint(calendar), NEW t \in old, t \in rest
      PROVE  FALSE
  <2>1. PICK v \in done : Within(v, t)
    BY <1>3, <1>7 DEF CountedMinutes, Precedes, Minutes
  <2>2. v \in calendar.hours /\ v # w /\ v.dow = w.dow
    BY <1>1 DEF Windows
  <2>3. <<0, t[2]>> \in {0} \X (0..DayMinutes - 1)
    BY <1>3, <1>7 DEF Minutes
  <2>4. Within(v, <<0, t[2]>>) /\ Within(w, <<0, t[2]>>)
    BY <1>3, <1>7, <2>1 DEF Within
  <2> QED BY <1>1, <1>7, <2>2, <2>3, <2>4 DEF Disjoint
<1> QED BY <1>4, <1>5, <1>6, <1>7

(* A window of the cursor's day holds the n minutes that a walk has left to find:
   no other that is left starts before it, and none of the others after it. *)
Fills(w, left, n, calendar, from, cursor) ==
  /\ calendar \in Calendar /\ from \in Nat \X Minutes /\ cursor \in Nat \X Minutes
  /\ ~Precedes(cursor, from) /\ cursor[1] \notin calendar.holidays /\ Disjoint(calendar)
  /\ left \subseteq Windows(calendar, cursor[1])
  /\ w \in left /\ \A v \in left : w.start <= v.start
  /\ \A v \in Windows(calendar, cursor[1]) \ left : v.start <= w.start
  /\ n \in Nat \ {0} /\ OpensFrom(cursor, w) + n <= w.end

(* What is left to find is found in the window: the due time comes after the
   minutes counted and as many of the window. *)
LEMMA WindowIsFilled ==
  ASSUME NEW w, NEW left, NEW n, NEW calendar, NEW from, NEW cursor,
         Fills(w, left, n, calendar, from, cursor)
  PROVE  LET done == Windows(calendar, cursor[1]) \ left
             b == OpensFrom(cursor, w) + n
             part == {cursor[1]} \X (OpensFrom(cursor, w)..b - 1)
         IN  /\ OpenAt(calendar, <<cursor[1], b - 1>>)
             /\ OpenMinutes(calendar, from, <<cursor[1], b>>)
                  = CountedMinutes(calendar, from, cursor, done) \cup part
             /\ CountedMinutes(calendar, from, cursor, done) \cap part = {}
<1> DEFINE done == Windows(calendar, cursor[1]) \ left
           a == OpensFrom(cursor, w)
           b == a + n
           reach == <<cursor[1], b>>
           part == {cursor[1]} \X (a..b - 1)
           old == CountedMinutes(calendar, from, cursor, done)
<1> USE DEF Fills
<1>1. /\ w \in Window /\ w \in Windows(calendar, cursor[1]) /\ w \in calendar.hours
      /\ w.dow = cursor[1] % DaysOfWeek
  BY DEF Windows, Calendar
<1>2. /\ a \in Nat /\ cursor[2] <= a /\ w.start <= a /\ b \in Nat /\ a < b /\ b <= w.end
      /\ a = cursor[2] \/ a = w.start
  BY <1>1 DEF OpensFrom, Window, Minutes
<1> HIDE DEF a, b
<1>3. OpenAt(calendar, <<cursor[1], b - 1>>)
  BY <1>1, <1>2 DEF OpenAt, Within, Window, Minutes
<1>4. cursor[1] \in from[1]..cursor[1]
  BY DEF Precedes
<1>5. ASSUME NEW t \in part
      PROVE  t \in OpenMinutes(calendar, from, reach)
  <2>1. t \in (from[1]..cursor[1]) \X Minutes /\ t[1] = cursor[1] /\ a <= t[2] /\ t[2] < b
    BY <1>1, <1>2, <1>4 DEF Window, Minutes
  <2>2. ~Precedes(t, from) /\ Precedes(t, reach)
    BY <1>2, <2>1 DEF Precedes, Minutes
  <2>3. OpenAt(calendar, t)
    BY <1>1, <1>2, <2>1 DEF OpenAt, Within, Window, Minutes
  <2> QED BY <2>1, <2>2, <2>3 DEF OpenMinutes, Minutes
<1>6. ASSUME NEW t \in old
      PROVE  t \in OpenMinutes(calendar, from, reach) /\ t \notin part
  <2>1. t \in (from[1]..cursor[1]) \X Minutes /\ ~Precedes(t, from) /\ OpenAt(calendar, t)
    BY <1>6 DEF CountedMinutes
  <2>2. CASE Precedes(t, cursor)
    <3>1. Precedes(t, reach) /\ t \notin part
      BY <1>2, <2>1, <2>2 DEF Precedes, Minutes
    <3> QED BY <2>1, <3>1 DEF OpenMinutes, Minutes
  <2>3. CASE ~Precedes(t, cursor)
    <3>1. PICK v \in done : Within(v, t)
      BY <1>6, <2>3 DEF CountedMinutes
    <3>2. t[1] = cursor[1]
      BY <1>6, <2>3 DEF CountedMinutes
    <3>3. v \in calendar.hours /\ v \in Window /\ v # w /\ v.dow = w.dow /\ v.start <= w.start
      BY <1>1 DEF Windows, Calendar
    <3>4. t[2] < w.start
      <4>1. <<0, w.start>> \in {0} \X (0..DayMinutes - 1) /\ Within(w, <<0, w.start>>)
        BY <1>1, <1>2 DEF Within, Window, Minutes
      <4>2. ~Within(v, <<0, w.start>>)
        BY <1>1, <3>3, <4>1 DEF Disjoint
      <4> QED BY <1>1, <2>1, <3>1, <3>3, <4>2 DEF Within, Window, Minutes
    <3>5. Precedes(t, reach) /\ t \notin part
      BY <1>1, <1>2, <2>1, <3>2, <3>4 DEF Precedes, Minutes, Window
    <3> QED BY <2>1, <3>5 DEF OpenMinutes, Minutes
  <2> QED BY <2>2, <2>3
<1>7. ASSUME NEW t \in OpenMinutes(calendar, from, reach), t \notin part
      PROVE  t \in old
  <2>1. /\ t \in (from[1]..cursor[1]) \X Minutes /\ ~Precedes(t, from) /\ OpenAt(calendar, t)
        /\ Precedes(t, reach)
    BY <1>7 DEF OpenMinutes, Minutes
  <2>2. CASE Precedes(t, cursor)
    BY <2>1, <2>2 DEF CountedMinutes
  <2>3. CASE ~Precedes(t, cursor)
    <3>1. t[1] = cursor[1] /\ cursor[2] <= t[2] /\ t[2] < b
      BY <1>2, <2>1, <2>3 DEF Precedes, Minutes
    <3>2. t[2] < a
      BY <1>2, <1>7, <2>1, <3>1 DEF Minutes
    <3>3. t[2] < w.start
      BY <1>1, <1>2, <2>1, <3>1, <3>2 DEF Window, Minutes
    <3>4. PICK v \in Windows(calendar, cursor[1]) : Within(v, t)
      BY <2>1, <3>1 DEF OpenAt
    <3>5. v \in Window
      BY DEF Windows, Calendar
    <3>6. v \notin left
      BY <1>1, <2>1, <3>3, <3>4, <3>5 DEF Within, Window, Minutes
    <3> QED BY <2>1, <3>1, <3>4, <3>6 DEF CountedMinutes
  <2> QED BY <2>2, <2>3
<1>8. OpenMinutes(calendar, from, reach) = old \cup part /\ old \cap part = {}
  BY <1>5, <1>6, <1>7
<1> QED BY <1>3, <1>8 DEF a, b

(* A walk that found too little knows of all open minutes to the horizon. *)
LEMMA HorizonIsReached ==
  ASSUME NEW calendar \in Calendar, NEW from \in Nat \X Minutes
  PROVE  OpenMinutes(calendar, from, <<from[1] + MaxDays, 0>>)
           = CountedMinutes(calendar, from, <<from[1] + MaxDays, 0>>, {})
BY DEF OpenMinutes, CountedMinutes, Minutes

(* A cursor is not before the start of its walk. *)
LEMMA CursorIsNotBefore ==
  ASSUME walk \in Walk, CursorFits, WalkOnTheWay
  PROVE  ~Precedes(walk.cursor, walk.from)
BY DEF Walk, CursorFits, Precedes, Minutes

(***************************************************************************)
(* The steps                                                               *)
(***************************************************************************)
LEMMA AddMinutesKeeps ==
  ASSUME HInv, NEW calendar \in Calendars, NEW from \in Starts, NEW minutes \in Durations,
         AddMinutes(calendar, from, minutes)
  PROVE  HInv'
<1>1. calendar \in Calendar /\ from \in Nat \X Minutes /\ minutes \in Int
  BY DEF Calendar, Window, Minutes
<1>2. CASE calendar.hours = {} \/ minutes <= 0
  <2> DEFINE m == IF minutes > 0 THEN minutes ELSE 0
  <2>1. walk' = [op |-> "due", calendar |-> calendar, from |-> from, minutes |-> minutes,
                 cursor |-> <<0, 0>>, remaining |-> 0, left |-> {}, days |-> 0,
                 dueAt |-> ClockAfter(from, m)]
    BY <1>2 DEF AddMinutes, NoWalk
  <2>2. m \in Nat
    BY <1>1
  <2> HIDE DEF m
  <2>3. ClockAfter(from, m) \in Nat \X (0..DayMinutes)
    BY <1>1, <2>2, ClockIsTyped
  <2>4. walk' \in Walk
    BY <1>1, <2>1, <2>3 DEF Walk, Minutes
  <2>5. DueInOpenTime'
    <3>1. CASE minutes <= 0
      BY <1>1, <2>1, <3>1 DEF DueInOpenTime
    <3>2. CASE calendar.hours = {} /\ minutes > 0
      <4>1. OpenMinutes(walk'.calendar, walk'.from, Horizon') = {}
        BY <2>1, <3>2 DEF OpenMinutes, OpenAt, Windows
      <4>2. Cardinality(OpenMinutes(walk'.calendar, walk'.from, Horizon')) = 0
        BY <4>1, FS_EmptySet
      <4>3. walk'.dueAt = ClockAfter(walk'.from, walk'.minutes) /\ walk'.minutes > 0
        BY <2>1, <3>2 DEF m
      <4> QED BY <4>2, <4>3 DEF DueInOpenTime
    <3> QED BY <1>1, <1>2, <3>1, <3>2
  <2> QED BY <2>1, <2>4, <2>5 DEF HInv, WalkOnTheWay, CursorFits, DayFits, SumFits
<1>3. CASE ~(calendar.hours = {} \/ minutes <= 0)
  <2>1. walk' = [op |-> "walk", calendar |-> calendar, from |-> from, minutes |-> minutes,
                 cursor |-> from, remaining |-> minutes, left |-> {}, days |-> 0, dueAt |-> <<0, 0>>]
    BY <1>3 DEF AddMinutes, NoWalk
  <2>2. walk' \in Walk
    BY <1>1, <2>1 DEF Walk, Minutes
  <2>3. Seen' = {}
    BY <1>1, <2>1, NothingYet DEF Seen, Done
  <2>4. IsFiniteSet(Seen') /\ Cardinality(Seen') = 0
    BY <2>3, FS_EmptySet
  <2>5. SumFits'
    BY <1>1, <2>1, <2>4 DEF SumFits
  <2> QED BY <1>1, <1>3, <2>1, <2>2, <2>5 DEF HInv, WalkOnTheWay, CursorFits, DayFits, DueInOpenTime
<1> QED BY <1>2, <1>3

(* The next day begins with all the minutes counted that were counted before. *)
LEMMA NextDayKeeps ==
  ASSUME HInv, WalkOnTheWay, walk.days < MaxDays, ToNextDay,
         CountedMinutes(walk.calendar, walk.from, <<walk.cursor[1] + 1, 0>>, {}) = Seen
  PROVE  HInv'
<1>1. walk' = [walk EXCEPT !.op = "walk", !.cursor = <<walk.cursor[1] + 1, 0>>, !.days = @ + 1]
  BY DEF ToNextDay
<1>2. walk' \in Walk
  <2>1. <<walk.cursor[1] + 1, 0>> \in Nat \X Minutes
    BY DEF HInv, Walk, Minutes
  <2>2. walk.days + 1 \in Nat
    BY DEF HInv, Walk
  <2> QED BY <1>1, <2>1, <2>2 DEF HInv, Walk
<1>3. /\ walk'.op = "walk" /\ walk'.cursor = <<walk.cursor[1] + 1, 0>> /\ walk'.days = walk.days + 1
      /\ walk'.calendar = walk.calendar /\ walk'.from = walk.from
      /\ walk'.remaining = walk.remaining /\ walk'.minutes = walk.minutes
  BY <1>1 DEF HInv, Walk
<1>4. Seen' = Seen
  BY <1>3 DEF Seen, Done
<1>5. SumFits'
  BY <1>3, <1>4 DEF HInv, SumFits, WalkOnTheWay
<1>6. CursorFits'
  BY <1>3 DEF HInv, CursorFits, WalkOnTheWay, Walk, Minutes
<1> QED BY <1>2, <1>3, <1>5, <1>6 DEF HInv, WalkOnTheWay, DayFits, DueInOpenTime

LEMMA SkipDayOffKeeps ==
  ASSUME HInv, SkipDayOff
  PROVE  HInv'
<1>1. WalkOnTheWay /\ walk.op = "walk" /\ walk.days < MaxDays
  BY DEF SkipDayOff, WalkIsDone, WalkOnTheWay, HInv, Walk
<1>2. CountedMinutes(walk.calendar, walk.from, <<walk.cursor[1] + 1, 0>>, {}) = Seen
  <2>1. walk.calendar \in Calendar /\ walk.from \in Nat \X Minutes /\ walk.cursor \in Nat \X Minutes
    BY DEF HInv, Walk
  <2>2. walk.cursor[1] \in walk.calendar.holidays \/ Windows(walk.calendar, walk.cursor[1]) = {}
    BY DEF SkipDayOff
  <2> QED BY <1>1, <2>1, <2>2, DayOffIsEmpty DEF Seen, Done
<1> QED BY <1>1, <1>2, NextDayKeeps DEF SkipDayOff

LEMMA BeginDayKeeps ==
  ASSUME HInv, BeginDay
  PROVE  HInv'
<1> DEFINE ws == Windows(walk.calendar, walk.cursor[1])
<1>1. walk' = [walk EXCEPT !.op = "day", !.left = ws] /\ walk.op = "walk"
  BY DEF BeginDay
<1>2. ws \subseteq Window
  BY DEF HInv, Walk, Calendar, Windows
<1>3. /\ walk'.op = "day" /\ walk'.cursor = walk.cursor /\ walk'.days = walk.days
      /\ walk'.calendar = walk.calendar /\ walk'.from = walk.from /\ walk'.left = ws
      /\ walk'.remaining = walk.remaining /\ walk'.minutes = walk.minutes
  BY <1>1 DEF HInv, Walk
<1>4. walk' \in Walk
  BY <1>1, <1>2 DEF HInv, Walk
<1>5. Done' = {} /\ Done = {}
  BY <1>1, <1>3 DEF Done
<1>6. Seen' = Seen
  BY <1>3, <1>5 DEF Seen
<1>7. SumFits'
  BY <1>1, <1>3, <1>6 DEF HInv, SumFits, WalkOnTheWay
<1>8. DayFits'
  BY <1>3, <1>5 DEF DayFits, BeginDay, WalkIsDone, HInv, Walk
<1>9. CursorFits'
  BY <1>1, <1>3 DEF HInv, CursorFits, WalkOnTheWay
<1> QED BY <1>1, <1>3, <1>4, <1>7, <1>8, <1>9 DEF HInv, WalkOnTheWay, DueInOpenTime

LEMMA EndDayKeeps ==
  ASSUME HInv, EndDay
  PROVE  HInv'
<1>1. WalkOnTheWay /\ walk.days < MaxDays /\ Done = Windows(walk.calendar, walk.cursor[1])
  BY DEF EndDay, WalkOnTheWay, Done, HInv, DayFits
<1>2. walk.calendar \in Calendar /\ walk.from \in Nat \X Minutes /\ walk.cursor \in Nat \X Minutes
  BY DEF HInv, Walk
<1>3. CountedMinutes(walk.calendar, walk.from, <<walk.cursor[1] + 1, 0>>, {}) = Seen
  BY <1>1, <1>2, DayIsOver DEF Seen
<1> QED BY <1>1, <1>3, NextDayKeeps DEF EndDay

(* What the walk knows of the window that it takes next. *)
LEMMA NextWindow ==
  ASSUME HInv, walk.op = "day", NEW w, Earliest(w)
  PROVE  /\ WalkOnTheWay /\ ~Precedes(walk.cursor, walk.from)
         /\ walk.calendar \in Calendar /\ walk.from \in Nat \X Minutes /\ walk.cursor \in Nat \X Minutes
         /\ walk.cursor[1] \notin walk.calendar.holidays
         /\ w \in walk.left /\ w \in Windows(walk.calendar, walk.cursor[1]) /\ w \in Window
         /\ walk.left \subseteq Windows(walk.calendar, walk.cursor[1])
         /\ Done = Windows(walk.calendar, walk.cursor[1]) \ walk.left
         /\ OpensAt(w) = OpensFrom(walk.cursor, w) /\ OpensAt(w) \in Nat
         /\ walk.remaining \in Nat \ {0}
<1>1. walk \in Walk /\ WalkOnTheWay /\ w \in walk.left
  BY DEF HInv, WalkOnTheWay, Earliest
<1>2. ~Precedes(walk.cursor, walk.from)
  BY <1>1, CursorIsNotBefore DEF HInv
<1>3. w \in Window
  BY <1>1 DEF Walk
<1>4. OpensAt(w) = OpensFrom(walk.cursor, w) /\ OpensAt(w) \in Nat
  BY <1>1, <1>3 DEF OpensAt, OpensFrom, Walk, Window, Minutes
<1>5. walk.remaining \in Nat \ {0}
  BY <1>1 DEF HInv, Walk
<1> QED BY <1>1, <1>2, <1>3, <1>4, <1>5 DEF HInv, DayFits, Walk, Done

LEMMA PassWindowKeeps ==
  ASSUME HInv, NEW w, PassWindow(w)
  PROVE  HInv'
<1> DEFINE rest == {walk.cursor[1]} \X (OpensAt(w)..w.end - 1)
<1>1. walk' = [walk EXCEPT !.left = @ \ {w}, !.remaining = @ - Available(w)]
  BY DEF PassWindow
<1>2. walk.op = "day" /\ Earliest(w) /\ ~FitsInto(w) /\ walk \in Walk
  BY DEF PassWindow, HInv
<1>3. /\ WalkOnTheWay /\ ~Precedes(walk.cursor, walk.from)
      /\ walk.calendar \in Calendar /\ walk.from \in Nat \X Minutes /\ walk.cursor \in Nat \X Minutes
      /\ walk.cursor[1] \notin walk.calendar.holidays
      /\ w \in walk.left /\ w \in Windows(walk.calendar, walk.cursor[1]) /\ w \in Window
      /\ walk.left \subseteq Windows(walk.calendar, walk.cursor[1])
      /\ Done = Windows(walk.calendar, walk.cursor[1]) \ walk.left
      /\ OpensAt(w) = OpensFrom(walk.cursor, w) /\ OpensAt(w) \in Nat
      /\ walk.remaining \in Nat \ {0}
  BY <1>2, NextWindow
<1>4. Available(w) \in Nat /\ walk.remaining - Available(w) \in Nat \ {0}
  BY <1>2, <1>3 DEF Available, FitsInto, Window
<1>5. walk' \in Walk
  <2>1. walk.left \ {w} \in SUBSET Window /\ walk.remaining - Available(w) \in Int
    BY <1>2, <1>4 DEF Walk
  <2> QED BY <1>1, <1>2, <2>1 DEF Walk
<1>6. /\ walk'.op = "day" /\ walk'.cursor = walk.cursor /\ walk'.days = walk.days
      /\ walk'.calendar = walk.calendar /\ walk'.from = walk.from /\ walk'.left = walk.left \ {w}
      /\ walk'.remaining = walk.remaining - Available(w) /\ walk'.minutes = walk.minutes
  BY <1>1, <1>2 DEF Walk
<1>7. Done' = Done \cup {w} /\ w \notin Done
  BY <1>3, <1>6 DEF Done
<1>8. DayFits'
  <2>1. \A v \in Done', u \in walk'.left : v.start <= u.start
    <3> TAKE v \in Done', u \in walk'.left
    <3>1. CASE v = w
      BY <1>2, <1>6, <3>1 DEF Earliest
    <3>2. CASE v # w
      BY <1>2, <1>6, <1>7, <3>2 DEF HInv, DayFits
    <3> QED BY <3>1, <3>2
  <2> QED BY <1>2, <1>3, <1>6, <2>1 DEF HInv, DayFits
<1>9. CursorFits'
  BY <1>3, <1>6 DEF HInv, CursorFits, WalkOnTheWay
<1>10. SumFits'
  <2> SUFFICES ASSUME Disjoint(walk.calendar)
               PROVE  IsFiniteSet(Seen') /\ Cardinality(Seen') + walk'.remaining = walk'.minutes
    BY <1>6 DEF SumFits
  <2>1. IsFiniteSet(Seen) /\ Cardinality(Seen) + walk.remaining = walk.minutes
    BY <1>3 DEF HInv, SumFits
  <2>2. Seen' = Seen \cup rest /\ Seen \cap rest = {}
    <3>1. Done \in SUBSET (Windows(walk.calendar, walk.cursor[1]) \ {w})
      BY <1>3
    <3>2. Seen' = CountedMinutes(walk.calendar, walk.from, walk.cursor, Done \cup {w})
      BY <1>6, <1>7 DEF Seen
    <3>3. /\ CountedMinutes(walk.calendar, walk.from, walk.cursor, Done \cup {w})
               = CountedMinutes(walk.calendar, walk.from, walk.cursor, Done) \cup rest
          /\ CountedMinutes(walk.calendar, walk.from, walk.cursor, Done) \cap rest = {}
      <4>1. rest = {walk.cursor[1]} \X (OpensFrom(walk.cursor, w)..w.end - 1)
        BY <1>3
      <4> HIDE DEF rest
      <4> DEFINE done == Done
      <4>2. done \in SUBSET (Windows(walk.calendar, walk.cursor[1]) \ {w})
        BY <3>1
      <4> HIDE DEF done
      <4>3. /\ CountedMinutes(walk.calendar, walk.from, walk.cursor, done \cup {w})
                 = CountedMinutes(walk.calendar, walk.from, walk.cursor, done) \cup rest
            /\ CountedMinutes(walk.calendar, walk.from, walk.cursor, done) \cap rest = {}
        BY <1>3, <4>1, <4>2, WindowIsPassed
      <4> QED BY <4>3 DEF done
    <3> HIDE DEF rest
    <3> QED BY <3>2, <3>3 DEF Seen
  <2>3. CASE OpensAt(w) < w.end
    <3>1. IsFiniteSet(rest) /\ Cardinality(rest) = w.end - OpensAt(w)
      <4>1. walk.cursor[1] \in Nat /\ w.end \in Nat /\ OpensAt(w) <= w.end
        BY <1>3, <2>3 DEF Window
      <4> QED BY <1>3, <4>1, StretchIsLong
    <3> HIDE DEF rest
    <3>2. IsFiniteSet(Seen') /\ Cardinality(Seen') = Cardinality(Seen) + Cardinality(rest) - Cardinality({})
      BY <2>1, <2>2, <3>1, FS_Union
    <3>3. Cardinality({}) = 0 /\ Cardinality(Seen) \in Nat
      BY <2>1, FS_EmptySet, FS_CardinalityType
    <3>4. Available(w) = w.end - OpensAt(w) /\ w.end \in Nat
      BY <1>3, <2>3 DEF Available, Window
    <3>5. walk.minutes \in Int
      BY <1>2 DEF Walk
    <3> QED BY <1>3, <1>6, <2>1, <3>1, <3>2, <3>3, <3>4, <3>5
  <2>4. CASE ~(OpensAt(w) < w.end)
    <3>1. rest = {} /\ Available(w) = 0
      BY <1>3, <2>4 DEF Available, Window
    <3>2. Seen' = Seen
      BY <2>2, <3>1
    <3> QED BY <1>3, <1>6, <2>1, <3>1, <3>2
  <2> QED BY <2>3, <2>4
<1> QED BY <1>3, <1>4, <1>5, <1>6, <1>8, <1>9, <1>10 DEF HInv, WalkOnTheWay, DueInOpenTime

LEMMA FillWindowKeeps ==
  ASSUME HInv, NEW w, FillWindow(w)
  PROVE  HInv'
<1> DEFINE b == OpensAt(w) + walk.remaining
           part == {walk.cursor[1]} \X (OpensAt(w)..b - 1)
           reach == <<walk.cursor[1], b>>
<1>1. walk' = [walk EXCEPT !.op = "due", !.left = {}, !.dueAt = reach]
  BY DEF FillWindow
<1>2. walk.op = "day" /\ Earliest(w) /\ FitsInto(w) /\ walk \in Walk
  BY DEF FillWindow, HInv
<1>3. /\ WalkOnTheWay /\ ~Precedes(walk.cursor, walk.from)
      /\ walk.calendar \in Calendar /\ walk.from \in Nat \X Minutes /\ walk.cursor \in Nat \X Minutes
      /\ walk.cursor[1] \notin walk.calendar.holidays
      /\ w \in walk.left /\ w \in Windows(walk.calendar, walk.cursor[1]) /\ w \in Window
      /\ walk.left \subseteq Windows(walk.calendar, walk.cursor[1])
      /\ Done = Windows(walk.calendar, walk.cursor[1]) \ walk.left
      /\ OpensAt(w) = OpensFrom(walk.cursor, w) /\ OpensAt(w) \in Nat
      /\ walk.remaining \in Nat \ {0}
  BY <1>2, NextWindow
<1>4. b \in 0..DayMinutes /\ b \in Nat /\ OpensAt(w) <= b /\ b <= w.end /\ b - OpensAt(w) = walk.remaining
  BY <1>2, <1>3 DEF FitsInto, Available, Window
<1>5. reach \in Nat \X (0..DayMinutes)
  BY <1>3, <1>4
<1> HIDE DEF reach, part
<1>6. walk' \in Walk
  BY <1>1, <1>2, <1>5 DEF Walk
<1>7. /\ walk'.op = "due" /\ walk'.calendar = walk.calendar /\ walk'.from = walk.from
      /\ walk'.minutes = walk.minutes /\ walk'.dueAt = reach
  BY <1>1, <1>2 DEF Walk
<1>8. ASSUME Disjoint(walk.calendar)
      PROVE  /\ OpenAt(walk.calendar, <<reach[1], reach[2] - 1>>)
             /\ Cardinality(OpenMinutes(walk.calendar, walk.from, reach)) = walk.minutes
  <2>1. IsFiniteSet(Seen) /\ Cardinality(Seen) + walk.remaining = walk.minutes
    BY <1>3, <1>8 DEF HInv, SumFits
  <2>2. /\ OpenAt(walk.calendar, <<walk.cursor[1], b - 1>>)
        /\ OpenMinutes(walk.calendar, walk.from, reach) = Seen \cup part
        /\ Seen \cap part = {}
    <3> DEFINE done == Windows(walk.calendar, walk.cursor[1]) \ walk.left
               c == OpensFrom(walk.cursor, w) + walk.remaining
               old == CountedMinutes(walk.calendar, walk.from, walk.cursor, done)
               piece == {walk.cursor[1]} \X (OpensFrom(walk.cursor, w)..c - 1)
    <3>1. Fills(w, walk.left, walk.remaining, walk.calendar, walk.from, walk.cursor)
      BY <1>2, <1>3, <1>4, <1>8 DEF Fills, Earliest, HInv, DayFits
    <3>2. /\ OpenAt(walk.calendar, <<walk.cursor[1], c - 1>>)
          /\ OpenMinutes(walk.calendar, walk.from, <<walk.cursor[1], c>>) = old \cup piece
          /\ old \cap piece = {}
      BY <3>1, WindowIsFilled
    <3>3. b = c
      BY <1>3
    <3>4. old = Seen /\ piece = part
      BY <1>3 DEF Seen, part
    <3> HIDE DEF old, piece, b, c
    <3> QED BY <3>2, <3>3, <3>4 DEF reach
  <2>3. reach[1] = walk.cursor[1] /\ reach[2] = b
    BY DEF reach
  <2>4. IsFiniteSet(part) /\ Cardinality(part) = walk.remaining
    <3>1. walk.cursor[1] \in Nat
      BY <1>3
    <3> HIDE DEF b
    <3>2. IsFiniteSet(part) /\ Cardinality(part) = b - OpensAt(w)
      BY <1>3, <1>4, <3>1, StretchIsLong DEF part
    <3> QED BY <1>4, <3>2
  <2>5. Cardinality({}) = 0 /\ Cardinality(Seen) \in Nat
    BY <2>1, FS_EmptySet, FS_CardinalityType
  <2>6. Cardinality(Seen \cup part) = Cardinality(Seen) + Cardinality(part) - Cardinality({})
    BY <2>1, <2>2, <2>4, FS_Union
  <2>7. Cardinality(Seen \cup part) = walk.minutes
    <3>1. walk.remaining \in Nat
      BY <1>3
    <3> QED BY <2>1, <2>2, <2>4, <2>5, <2>6, <3>1
  <2> QED BY <2>2, <2>3, <2>7
<1>9. DueInOpenTime'
  BY <1>7, <1>8 DEF DueInOpenTime
<1> QED BY <1>6, <1>7, <1>9 DEF HInv, WalkOnTheWay, CursorFits, DayFits, SumFits

LEMMA GiveUpKeeps ==
  ASSUME HInv, GiveUp
  PROVE  HInv'
<1>1. walk' = [walk EXCEPT !.op = "due", !.dueAt = ClockAfter(walk.from, walk.minutes)]
  BY DEF GiveUp
<1>2. walk.op = "walk" /\ WalkOnTheWay /\ walk \in Walk /\ walk.remaining > 0 /\ walk.days = MaxDays
  BY DEF GiveUp, WalkIsDone, HInv, WalkOnTheWay, CursorFits, Walk
<1>3. CASE walk.minutes > 0
  <2>1. ClockAfter(walk.from, walk.minutes) \in Nat \X (0..DayMinutes)
    <3>1. walk.from \in Nat \X Minutes /\ walk.minutes \in Nat
      BY <1>2, <1>3 DEF Walk
    <3> QED BY <3>1, ClockIsTyped
  <2>2. walk' \in Walk
    BY <1>1, <1>2, <2>1 DEF Walk
  <2>3. /\ walk'.op = "due" /\ walk'.calendar = walk.calendar /\ walk'.from = walk.from
        /\ walk'.minutes = walk.minutes /\ walk'.dueAt = ClockAfter(walk.from, walk.minutes)
    BY <1>1, <1>2 DEF Walk
  <2>4. ASSUME Disjoint(walk.calendar)
        PROVE  Cardinality(OpenMinutes(walk.calendar, walk.from, Horizon)) < walk.minutes
    <3>1. IsFiniteSet(Seen) /\ Cardinality(Seen) + walk.remaining = walk.minutes
      BY <1>2, <2>4 DEF HInv, SumFits
    <3>2. walk.cursor = Horizon
      BY <1>2 DEF HInv, CursorFits, Horizon, Walk
    <3>3. OpenMinutes(walk.calendar, walk.from, Horizon) = Seen
      BY <1>2, <3>2, HorizonIsReached DEF Horizon, Seen, Done, Walk
    <3>4. Cardinality(Seen) \in Nat /\ walk.remaining \in Int
      BY <1>2, <3>1, FS_CardinalityType DEF Walk
    <3> QED BY <1>2, <3>1, <3>3, <3>4
  <2>5. Horizon' = Horizon
    BY <2>3 DEF Horizon
  <2>6. DueInOpenTime'
    BY <2>3, <2>4, <2>5 DEF DueInOpenTime
  <2> QED BY <2>2, <2>3, <2>6 DEF HInv, WalkOnTheWay, CursorFits, DayFits, SumFits
<1>4. walk.minutes > 0
  BY <1>2 DEF HInv
<1> QED BY <1>3, <1>4

LEMMA UseDueKeeps ==
  ASSUME HInv, UseDue
  PROVE  HInv'
BY NoWalkFits DEF UseDue, HInv, NoWalk, WalkOnTheWay, CursorFits, DayFits, SumFits, DueInOpenTime

LEMMA StutterKeeps ==
  ASSUME HInv, UNCHANGED walk
  PROVE  HInv'
BY DEF HInv, WalkOnTheWay, CursorFits, DayFits, SumFits, Seen, Done, DueInOpenTime, Horizon

LEMMA StepKeeps == HInv /\ [HoursNext]_walk => HInv'
<1> SUFFICES ASSUME HInv, [HoursNext]_walk
             PROVE  HInv'
  OBVIOUS
<1>1. ASSUME NEW calendar \in Calendars, NEW from \in Starts, NEW minutes \in Durations,
             AddMinutes(calendar, from, minutes)
      PROVE  HInv'
  BY <1>1, AddMinutesKeeps
<1>2. CASE SkipDayOff
  BY <1>2, SkipDayOffKeeps
<1>3. CASE BeginDay
  BY <1>3, BeginDayKeeps
<1>4. CASE EndDay
  BY <1>4, EndDayKeeps
<1>5. CASE GiveUp
  BY <1>5, GiveUpKeeps
<1>6. CASE UseDue
  BY <1>6, UseDueKeeps
<1>7. ASSUME NEW w \in walk.left, PassWindow(w)
      PROVE  HInv'
  BY <1>7, PassWindowKeeps
<1>8. ASSUME NEW w \in walk.left, FillWindow(w)
      PROVE  HInv'
  BY <1>8, FillWindowKeeps
<1>9. CASE UNCHANGED walk
  BY <1>9, StutterKeeps
<1> QED BY <1>1, <1>2, <1>3, <1>4, <1>5, <1>6, <1>7, <1>8, <1>9 DEF HoursNext

(* The due time that addBusinessMinutes gives comes right after as many open
   minutes as were asked for, and the clock on the wall counts only where the
   walk ends before there were as many. *)
THEOREM DueAfterOpenMinutes == HoursSpec => []DueInOpenTime
<1>1. HInv => DueInOpenTime
  BY DEF HInv
<1> QED BY HoursStart, StepKeeps, <1>1, PTL DEF HoursSpec

(* A walk is for what was asked, never counts minutes that were not asked for,
   and has windows at hand only within a day. *)
WalkFits ==
  /\ walk.op # "idle" => walk.calendar \in Calendars /\ walk.from \in Starts /\ walk.minutes \in Durations
  /\ walk.days <= MaxDays /\ walk.left \subseteq walk.calendar.hours
  /\ WalkOnTheWay => walk.remaining <= walk.minutes
  /\ walk.left # {} => walk.op = "day"

LEMMA WalkFitsStays == HInv /\ WalkFits /\ [HoursNext]_walk => WalkFits'
<1> SUFFICES ASSUME HInv, WalkFits, [HoursNext]_walk PROVE WalkFits'
  OBVIOUS
<1>0. /\ walk \in Walk /\ walk.days \in Nat /\ walk.remaining \in Int /\ walk.minutes \in Int
      /\ WalkOnTheWay => walk.remaining > 0
  BY DEF HInv, Walk
<1>1. ASSUME NEW calendar \in Calendars, NEW from \in Starts, NEW minutes \in Durations,
             AddMinutes(calendar, from, minutes)
      PROVE  WalkFits'
  <2>1. minutes \in Int
    OBVIOUS
  <2> QED BY <1>1, <2>1 DEF AddMinutes, NoWalk, WalkFits, WalkOnTheWay
<1>2. CASE SkipDayOff \/ EndDay
  <2>1. walk.op \in {"walk", "day"} /\ walk.days < MaxDays /\ walk.left = {}
    BY <1>0, <1>2 DEF SkipDayOff, EndDay, WalkIsDone, WalkFits, HInv, DayFits
  <2>2. walk' = [walk EXCEPT !.op = "walk", !.cursor = <<walk.cursor[1] + 1, 0>>, !.days = walk.days + 1]
    BY <1>2 DEF SkipDayOff, EndDay, ToNextDay
  <2>3. /\ walk'.op = "walk" /\ walk'.calendar = walk.calendar /\ walk'.from = walk.from
        /\ walk'.minutes = walk.minutes /\ walk'.days = walk.days + 1
        /\ walk'.remaining = walk.remaining /\ walk'.left = walk.left
    BY <1>0, <2>2 DEF Walk
  <2>4. walk.days + 1 <= MaxDays
    BY <1>0, <2>1
  <2> QED BY <2>1, <2>3, <2>4 DEF WalkFits, WalkOnTheWay
<1>3. CASE BeginDay
  <2>1. PICK ws : ws = Windows(walk.calendar, walk.cursor[1])
    OBVIOUS
  <2>2. ws \subseteq walk.calendar.hours
    BY <2>1 DEF Windows
  <2>3. /\ walk.op = "walk" /\ walk'.op = "day" /\ walk'.calendar = walk.calendar
        /\ walk'.from = walk.from /\ walk'.minutes = walk.minutes /\ walk'.days = walk.days
        /\ walk'.remaining = walk.remaining /\ walk'.left = ws
    BY <1>0, <1>3, <2>1 DEF BeginDay, Walk
  <2> QED BY <2>2, <2>3 DEF WalkFits, WalkOnTheWay
<1>4. CASE GiveUp
  <2>1. /\ walk.op = "walk" /\ walk'.op = "due" /\ walk'.calendar = walk.calendar
        /\ walk'.from = walk.from /\ walk'.minutes = walk.minutes /\ walk'.days = walk.days
        /\ walk'.left = walk.left
    BY <1>0, <1>4 DEF GiveUp, Walk
  <2> QED BY <2>1 DEF WalkFits, WalkOnTheWay
<1>5. CASE UseDue
  BY <1>5 DEF UseDue, NoWalk, WalkFits, WalkOnTheWay
<1>6. ASSUME NEW w \in walk.left, PassWindow(w) PROVE WalkFits'
  <2>1. Available(w) \in Nat
    <3>1. w.end \in Nat /\ w.start \in Nat /\ walk.cursor[2] \in Nat
      BY <1>0 DEF Walk, Window, Minutes
    <3> QED BY <3>1 DEF Available, OpensAt
  <2>2. PICK a \in Nat : a = Available(w)
    BY <2>1
  <2>3. walk.op = "day" /\ walk' = [walk EXCEPT !.left = walk.left \ {w}, !.remaining = walk.remaining - a]
    BY <1>6, <2>2 DEF PassWindow
  <2>4. /\ walk'.op = "day" /\ walk'.calendar = walk.calendar
        /\ walk'.from = walk.from /\ walk'.minutes = walk.minutes /\ walk'.days = walk.days
        /\ walk'.remaining = walk.remaining - a /\ walk'.left = walk.left \ {w}
    BY <1>0, <2>3 DEF Walk
  <2>5. walk.remaining - a <= walk.minutes
    BY <1>0, <2>3 DEF WalkFits, WalkOnTheWay
  <2> QED BY <2>3, <2>4, <2>5 DEF WalkFits, WalkOnTheWay
<1>7. ASSUME NEW w \in walk.left, FillWindow(w) PROVE WalkFits'
  <2>1. /\ walk.op = "day" /\ walk'.op = "due" /\ walk'.calendar = walk.calendar
        /\ walk'.from = walk.from /\ walk'.minutes = walk.minutes /\ walk'.days = walk.days
        /\ walk'.left = {}
    BY <1>0, <1>7 DEF FillWindow, Walk
  <2> QED BY <2>1 DEF WalkFits, WalkOnTheWay
<1>8. CASE UNCHANGED walk
  BY <1>8 DEF WalkFits, WalkOnTheWay
<1> QED BY <1>1, <1>2, <1>3, <1>4, <1>5, <1>6, <1>7, <1>8 DEF HoursNext

(* The walk has its shape, and one that goes on has minutes left to find. *)
THEOREM HoursTypeCorrect == HoursSpec => []HoursTypeOK
<1>1. HoursInit => WalkFits
  BY DEF HoursInit, NoWalk, WalkFits, WalkOnTheWay
<1>2. HInv /\ WalkFits => HoursTypeOK
  <2> SUFFICES ASSUME HInv, WalkFits PROVE HoursTypeOK
    OBVIOUS
  <2>1. /\ walk.op \in {"idle", "walk", "day", "due"} /\ walk.cursor \in Nat \X Minutes
        /\ walk.dueAt \in Nat \X (0..DayMinutes) /\ walk.days \in Nat
        /\ walk.remaining \in Int /\ walk.minutes \in Int
    BY DEF HInv, Walk
  <2>2. walk.op \in {"walk", "day"} => walk.remaining \in 1..walk.minutes
    BY <2>1 DEF HInv, WalkFits, WalkOnTheWay
  <2>3. walk.days \in 0..MaxDays
    BY <2>1 DEF WalkFits
  <2> QED BY <2>1, <2>2, <2>3 DEF WalkFits, HoursTypeOK, Minutes
<1> QED BY <1>1, <1>2, HoursStart, StepKeeps, WalkFitsStays, PTL DEF HoursSpec

=============================================================================
