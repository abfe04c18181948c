-------------------------------- MODULE Login --------------------------------
(***************************************************************************)
(* One account: its password, the counter that locks it, its second        *)
(* factor, the one-time challenges and reset tokens given out for it, and  *)
(* its sessions.  Every handler reads the account or a challenge first,    *)
(* checks what it read and writes some awaits later, by id.                *)
(*                                                                         *)
(* Hashes, codes and tokens are what they stand for: a password and a      *)
(* secret are versions, and a code is right or wrong.  Permissions, the    *)
(* log of attempts and the identity provider's protocol are left out.      *)
(***************************************************************************)
EXTENDS Naturals, FiniteSets

CONSTANTS
  MaxFailed,      \* MAX_FAILED_LOGINS
  Challenges,     \* bound: rows of auth_challenges
  ResetTokens,    \* bound: rows of password_reset_tokens
  Sessions,       \* bound: rows of sessions
  NoChallenge,    \* of a session that took no challenge
  MaxSecrets,    \* bound: passwords and secrets set in a behaviour
  Handlers,       \* bound: handlers at work at one time
  LoginFeatures   \* "mfa", "sso", "reset", "admin", "crash"

ASSUME LoginAssumption ==
  MaxFailed \in Nat \ {0} /\ NoChallenge \notin Challenges /\ MaxSecrets \in Nat

VARIABLES
  account,    \* the row of the user
  misses,     \* wrong passwords since a success, a lock or a reset
  challenge,  \* challenge[c]: its row, with the password that was checked for it
  resetToken, \* resetToken[k]: "none", "open" or "used"
  session,    \* session[s]: its row, and what it was opened with
  handler,    \* handler[r]: what r has read and has still to write
  slips       \* writes a later state no longer shows

loginVars == <<account, misses, challenge, resetToken, session, handler, slips>>

NoSession == [state |-> "none", password |-> 0, via |-> NoChallenge, late |-> FALSE]

(* What is remembered only for the properties: how many wrong passwords writes
   by older reads took back from the counter; whether the last change of the
   second factor was made on a row that was no longer so; whether a process
   stopped before it had revoked the sessions.  Of a session, that its password
   had been replaced when it was opened. *)
NoSlips == [lost |-> 0, crossed |-> FALSE, cut |-> FALSE]

NewChallenge(kind, pw) == [state |-> "open", kind |-> kind, password |-> pw]

Unissued == [state |-> "none", kind |-> "mfa_login", password |-> 0]

Resting == [op |-> "idle", seen |-> {}, via |-> NoChallenge, token |-> {}]

IsOpen(c, kind) == challenge[c].state = "open" /\ challenge[c].kind = kind

(* r goes on to `op` with the row it has just read. *)
Reads(r, op) == handler' = [handler EXCEPT ![r] = [Resting EXCEPT !.op = op, !.seen = {account}]]

Proceeds(r, op) == handler' = [handler EXCEPT ![r].op = op]

Rests(r) == handler' = [handler EXCEPT ![r] = Resting]

SignedIn == account.active /\ \E s \in Sessions : session[s].state = "live"

(***************************************************************************)
(* login                                                                   *)
(***************************************************************************)
BeginLogin(r, right) ==
  /\ handler[r] = Resting
  /\ account.active /\ ~account.locked
  /\ Reads(r, IF right THEN "clear" ELSE "count")
  /\ UNCHANGED <<account, misses, challenge, resetToken, session, slips>>

CountFailureLate(r, row) ==   \* wrong variant: one failure too late
  /\ handler[r].op = "count" /\ row \in handler[r].seen
  /\ LET failed == row.failed + 1
     IN  /\ account' = IF failed > MaxFailed
                       THEN [account EXCEPT !.failed = 0, !.locked = TRUE]
                       ELSE [account EXCEPT !.failed = failed]
         /\ misses' = IF failed > MaxFailed THEN 0 ELSE misses + 1
         /\ slips' = [slips EXCEPT !.lost =
              IF failed > MaxFailed THEN 0
              ELSE IF row.failed < account.failed THEN @ + (account.failed - row.failed) ELSE @]
  /\ Rests(r)
  /\ UNCHANGED <<challenge, resetToken, session>>

CountFailure(r, row) ==
  /\ handler[r].op = "count" /\ row \in handler[r].seen
  /\ LET failed == row.failed + 1
     IN  /\ account' = IF failed >= MaxFailed
                       THEN [account EXCEPT !.failed = 0, !.locked = TRUE]
                       ELSE [account EXCEPT !.failed = failed]
         /\ misses' = IF failed >= MaxFailed THEN 0 ELSE misses + 1
         /\ slips' = [slips EXCEPT !.lost =
              IF failed >= MaxFailed THEN 0
              ELSE IF row.failed < account.failed THEN @ + (account.failed - row.failed) ELSE @]
  /\ Rests(r)
  /\ UNCHANGED <<challenge, resetToken, session>>

ClearFailures(r, row) ==
  /\ handler[r].op = "clear" /\ row \in handler[r].seen
  /\ account' = [account EXCEPT !.failed = 0, !.locked = FALSE]
  /\ misses' = 0 /\ slips' = [slips EXCEPT !.lost = 0]
  /\ Proceeds(r, IF row.mfa /\ row.secret # 0 THEN "challenge" ELSE "session")
  /\ UNCHANGED <<challenge, resetToken, session>>

IssueChallenge(r, c, row) ==
  /\ handler[r].op = "challenge" /\ row \in handler[r].seen
  /\ challenge[c] = Unissued
  /\ challenge' = [challenge EXCEPT ![c] = NewChallenge("mfa_login", row.password)]
  /\ Rests(r)
  /\ UNCHANGED <<account, misses, resetToken, session, slips>>

CreateSession(r, s, row) ==
  /\ handler[r].op = "session" /\ row \in handler[r].seen
  /\ session[s] = NoSession
  /\ session' = [session EXCEPT ![s] =
       [state |-> "live", password |-> row.password, via |-> handler[r].via,
        late |-> row.password # account.password]]
  /\ Rests(r)
  /\ UNCHANGED <<account, misses, challenge, resetToken, slips>>

(***************************************************************************)
(* verifyMfaLogin and completeEntra                                        *)
(***************************************************************************)
(* A right code for an open challenge; a wrong one changes nothing. *)
BeginMfaLogin(r, c) ==
  /\ handler[r] = Resting
  /\ IsOpen(c, "mfa_login")
  /\ account.active /\ account.mfa /\ account.secret # 0
  /\ handler' = [handler EXCEPT ![r] =
       [Resting EXCEPT !.op = "consume", !.seen = {account}, !.via = c]]
  /\ UNCHANGED <<account, misses, challenge, resetToken, session, slips>>

BeginEntra(c) ==
  /\ "sso" \in LoginFeatures
  /\ challenge[c] = Unissued
  /\ challenge' = [challenge EXCEPT ![c] = NewChallenge("entra_oauth", 0)]
  /\ UNCHANGED <<account, misses, resetToken, session, handler, slips>>

ReturnFromEntra(r, c) ==
  /\ handler[r] = Resting
  /\ IsOpen(c, "entra_oauth")
  /\ handler' = [handler EXCEPT ![r] = [Resting EXCEPT !.op = "consume", !.via = c]]
  /\ UNCHANGED <<account, misses, challenge, resetToken, session, slips>>

(* consume reads the row again, and marks it by id in a second query. *)
ReadConsume(r) ==
  /\ handler[r].op = "consume"
  /\ IF challenge[handler[r].via].state = "open" THEN Proceeds(r, "mark") ELSE Rests(r)
  /\ UNCHANGED <<account, misses, challenge, resetToken, session, slips>>

MarkConsumed(r) ==
  /\ handler[r].op = "mark"
  /\ challenge' = [challenge EXCEPT ![handler[r].via].state = "consumed"]
  /\ Proceeds(r, IF challenge[handler[r].via].kind = "mfa_login" THEN "session" ELSE "identity")
  /\ UNCHANGED <<account, misses, resetToken, session, slips>>

(* The account of the identity is found and updated, active or not. *)
AcceptIdentity(r) ==
  /\ handler[r].op = "identity"
  /\ account' = [account EXCEPT !.local = FALSE, !.failed = 0, !.locked = FALSE]
  /\ misses' = 0 /\ slips' = [slips EXCEPT !.lost = 0]
  /\ handler' = [handler EXCEPT ![r] =
       IF account.active THEN [@ EXCEPT !.op = "session", !.seen = {account}] ELSE Resting]
  /\ UNCHANGED <<challenge, resetToken, session>>

(***************************************************************************)
(* Passwords                                                               *)
(***************************************************************************)
BeginChangePassword(r) ==
  /\ handler[r] = Resting /\ SignedIn
  /\ account.password < MaxSecrets
  /\ Reads(r, "password")
  /\ UNCHANGED <<account, misses, challenge, resetToken, session, slips>>

RequestReset(k) ==
  /\ "reset" \in LoginFeatures
  /\ account.active /\ resetToken[k] = "none"
  /\ resetToken' = [resetToken EXCEPT ![k] = "open"]
  /\ UNCHANGED <<account, misses, challenge, session, handler, slips>>

BeginReset(r, k) ==
  /\ handler[r] = Resting
  /\ resetToken[k] = "open" /\ account.password < MaxSecrets
  /\ handler' = [handler EXCEPT ![r] = [Resting EXCEPT !.op = "reset", !.token = {k}]]
  /\ UNCHANGED <<account, misses, challenge, resetToken, session, slips>>

(* An administrator's temporary password, for a local account. *)
BeginAdminReset(r) ==
  /\ "admin" \in LoginFeatures
  /\ handler[r] = Resting
  /\ account.local /\ ~account.deleted /\ account.password < MaxSecrets
  /\ Reads(r, "reset")
  /\ UNCHANGED <<account, misses, challenge, resetToken, session, slips>>

WritePassword(r) ==
  /\ handler[r].op = "password"
  /\ account' = [account EXCEPT !.password = @ + 1]
  /\ Proceeds(r, "revoke")
  /\ UNCHANGED <<misses, challenge, resetToken, session, slips>>

ResetPasswordOnly(r) ==   \* wrong variant: the sessions stay
  /\ handler[r].op = "reset"
  /\ account' = [account EXCEPT !.password = @ + 1, !.failed = 0, !.locked = FALSE]
  /\ misses' = 0 /\ slips' = [slips EXCEPT !.lost = 0]
  /\ resetToken' = [k \in ResetTokens |-> IF k \in handler[r].token THEN "used" ELSE resetToken[k]]
  /\ Rests(r)
  /\ UNCHANGED <<challenge, session>>

ResetPassword(r) ==
  /\ handler[r].op = "reset"
  /\ account' = [account EXCEPT !.password = @ + 1, !.failed = 0, !.locked = FALSE]
  /\ misses' = 0 /\ slips' = [slips EXCEPT !.lost = 0]
  /\ resetToken' = [k \in ResetTokens |-> IF k \in handler[r].token THEN "used" ELSE resetToken[k]]
  /\ Proceeds(r, "revoke")
  /\ UNCHANGED <<challenge, session>>

RevokeAll(r) ==
  /\ handler[r].op = "revoke"
  /\ session' = [s \in Sessions |->
       IF session[s].state = "live" THEN [session[s] EXCEPT !.state = "revoked"] ELSE session[s]]
  /\ slips' = [slips EXCEPT !.cut = FALSE]
  /\ Rests(r)
  /\ UNCHANGED <<account, misses, challenge, resetToken>>

Logout(s) ==
  /\ session[s].state = "live"
  /\ session' = [session EXCEPT ![s].state = "revoked"]
  /\ UNCHANGED <<account, misses, challenge, resetToken, handler, slips>>

BeginMfaChangeUnchecked(r, op) ==   \* wrong variant: a setup is cancelled after it was confirmed
  /\ "mfa" \in LoginFeatures
  /\ handler[r] = Resting /\ SignedIn
  /\ \/ op = "setup" /\ ~account.mfa /\ account.newest < MaxSecrets
     \/ op = "enable" /\ ~account.mfa /\ account.secret # 0
     \/ op = "disable" /\ account.mfa /\ account.secret # 0
     \/ op = "cancel"
  /\ Reads(r, op)
  /\ UNCHANGED <<account, misses, challenge, resetToken, session, slips>>

(***************************************************************************)
(* The second factor                                                       *)
(***************************************************************************)
BeginMfaChange(r, op) ==
  /\ "mfa" \in LoginFeatures
  /\ handler[r] = Resting /\ SignedIn
  /\ \/ op = "setup" /\ ~account.mfa /\ account.newest < MaxSecrets
     \/ op = "enable" /\ ~account.mfa /\ account.secret # 0
     \/ op = "disable" /\ account.mfa /\ account.secret # 0
     \/ op = "cancel" /\ ~account.mfa
  /\ Reads(r, op)
  /\ UNCHANGED <<account, misses, challenge, resetToken, session, slips>>

WriteMfa(r, row) ==
  /\ row \in handler[r].seen
  /\ account' =
       CASE handler[r].op = "setup" ->
              [account EXCEPT !.newest = @ + 1, !.secret = account.newest + 1, !.mfa = FALSE]
         [] handler[r].op = "enable" -> [account EXCEPT !.mfa = TRUE, !.proved = row.secret]
         [] handler[r].op = "disable" -> [account EXCEPT !.mfa = FALSE, !.secret = 0]
         [] handler[r].op = "cancel" -> [account EXCEPT !.secret = 0]
  /\ slips' = [slips EXCEPT !.crossed =
       row.mfa # account.mfa \/ row.secret # account.secret]
  /\ Rests(r)
  /\ UNCHANGED <<misses, challenge, resetToken, session>>

MfaOps == {"setup", "enable", "disable", "cancel"}

(***************************************************************************)
(* Administration, time and failures                                       *)
(***************************************************************************)
SetUserActive(active) ==
  /\ "admin" \in LoginFeatures
  /\ ~account.deleted /\ account.active # active
  /\ account' = [account EXCEPT !.active = active]
  /\ UNCHANGED <<misses, challenge, resetToken, session, handler, slips>>

SoftDeleteUser(r) ==
  /\ "admin" \in LoginFeatures
  /\ handler[r] = Resting /\ ~account.deleted
  /\ account' = [account EXCEPT !.active = FALSE, !.deleted = TRUE]
  /\ Reads(r, "revoke")
  /\ UNCHANGED <<misses, challenge, resetToken, session, slips>>

LockEnds ==
  /\ account.locked
  /\ account' = [account EXCEPT !.locked = FALSE]
  /\ UNCHANGED <<misses, challenge, resetToken, session, handler, slips>>

ChallengeExpires(c) ==
  /\ challenge[c].state = "open"
  /\ challenge' = [challenge EXCEPT ![c].state = "expired"]
  /\ UNCHANGED <<account, misses, resetToken, session, handler, slips>>

LoginCrash ==
  /\ "crash" \in LoginFeatures
  /\ \E r \in Handlers : handler[r] # Resting
  /\ handler' = [r \in Handlers |-> Resting]
  /\ slips' = [slips EXCEPT !.cut = @ \/ \E r \in Handlers : handler[r].op = "revoke"]
  /\ UNCHANGED <<account, misses, challenge, resetToken, session>>

(***************************************************************************)
(* The specification                                                       *)
(***************************************************************************)
LoginInit ==
  /\ account = [active |-> TRUE, deleted |-> FALSE, local |-> TRUE, password |-> 1,
                failed |-> 0, locked |-> FALSE,
                mfa |-> FALSE, secret |-> 0, proved |-> 0, newest |-> 0]
  /\ misses = 0
  /\ challenge = [c \in Challenges |-> Unissued]
  /\ resetToken = [k \in ResetTokens |-> "none"]
  /\ session = [s \in Sessions |-> NoSession]
  /\ handler = [r \in Handlers |-> Resting]
  /\ slips = NoSlips

LoginNext ==
  \/ \E r \in Handlers :
       \/ \E right \in BOOLEAN : BeginLogin(r, right)
       \/ \E row \in handler[r].seen :
            \/ CountFailure(r, row) \/ ClearFailures(r, row)
            \/ \E c \in Challenges : IssueChallenge(r, c, row)
            \/ \E s \in Sessions : CreateSession(r, s, row)
            \/ handler[r].op \in MfaOps /\ WriteMfa(r, row)
       \/ \E c \in Challenges : BeginMfaLogin(r, c) \/ ReturnFromEntra(r, c)
       \/ ReadConsume(r) \/ MarkConsumed(r) \/ AcceptIdentity(r)
       \/ BeginChangePassword(r) \/ BeginAdminReset(r)
       \/ \E k \in ResetTokens : BeginReset(r, k)
       \/ WritePassword(r) \/ ResetPassword(r) \/ RevokeAll(r)
       \/ \E op \in MfaOps : BeginMfaChange(r, op)
       \/ SoftDeleteUser(r)
  \/ \E c \in Challenges : BeginEntra(c) \/ ChallengeExpires(c)
  \/ \E k \in ResetTokens : RequestReset(k)
  \/ \E s \in Sessions : Logout(s)
  \/ \E active \in BOOLEAN : SetUserActive(active)
  \/ LockEnds
  \/ LoginCrash

LoginSpec == LoginInit /\ [][LoginNext]_loginVars

(***************************************************************************)
(* Properties                                                              *)
(***************************************************************************)
\* Rows and handlers have their shape: the counter stays below the limit
\* however many failures overlap, and nobody deleted is active.
LoginTypeOK ==
  /\ account \in [active : BOOLEAN, deleted : BOOLEAN, local : BOOLEAN, password : Nat,
                  failed : 0..MaxFailed - 1, locked : BOOLEAN,
                  mfa : BOOLEAN, secret : Nat, proved : Nat, newest : Nat]
  /\ misses \in Nat
  /\ challenge \in [Challenges -> [state : {"none", "open", "consumed", "expired"},
                                   kind : {"mfa_login", "entra_oauth"}, password : Nat]]
  /\ resetToken \in [ResetTokens -> {"none", "open", "used"}]
  /\ session \in [Sessions -> [state : {"none", "live", "revoked"}, password : Nat,
                               via : Challenges \cup {NoChallenge}, late : BOOLEAN]]
  /\ slips \in [lost : Nat, crossed : BOOLEAN, cut : BOOLEAN]
  /\ \A r \in Handlers :
       /\ handler[r].op \in {"idle", "count", "clear", "challenge", "session", "consume", "mark",
                             "identity", "password", "reset", "revoke"} \cup MfaOps
       /\ handler[r].op \in {"consume", "mark", "identity"} => handler[r].via \in Challenges
       /\ \A row \in handler[r].seen : row.failed < MaxFailed

\* The account is locked by MaxFailed wrong passwords in a row, however sign-ins
\* overlap: later only by as many as writes that counted from an older read
\* took back from the counter.
LocksInTime == misses < MaxFailed + slips.lost

\* Once a new password's handler has revoked the sessions, those that are live
\* were opened with the password the account has now; but for those a challenge
\* opened, which outlives a change of the password, for those of a sign-in that
\* had checked the old password before it changed, and for those that a stop
\* before the revocation has left.
PasswordEndsSessions ==
  ~slips.cut /\ (\A r \in Handlers : handler[r].op # "revoke") =>
    \A s \in Sessions :
      session[s].state = "live" /\ session[s].via = NoChallenge /\ ~session[s].late =>
        session[s].password = account.password

\* The second factor asks for codes of a secret that is there and that the
\* user has shown to possess, unless its last change was made on a row that
\* another change had overtaken.
MfaIsUsable ==
  account.mfa /\ ~slips.crossed => account.secret # 0 /\ account.secret = account.proved
=============================================================================
