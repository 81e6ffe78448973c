------------------------------ MODULE Sessions ------------------------------
(***************************************************************************)
(* Accounts, refresh tokens and password resets, and the administration of *)
(* accounts (src/auth, src/admin, src/users).                              *)
(*                                                                         *)
(* A handler holds a slot and takes one step per awaited query whose       *)
(* result it uses later or whose effect others see.  An access token is    *)
(* not stored: it names a user, and every request that carries one looks   *)
(* the user up again (JwtStrategy.validate).  A token that expires is one      *)
(* nobody uses any more, and needs no action.                              *)
(***************************************************************************)
EXTENDS Integers

CONSTANTS
  Users,
  Founders,      \* administrators that exist from the start (the seed)
  RefreshTokens,
  ResetTokens,
  Requests,
  MaxPasswords   \* bound on the passwords a user has had after the first

ASSUME SessionConstants ==
  Founders \subseteq Users /\ MaxPasswords \in Nat

VARIABLES
  account,   \* users: there, isActive, whether the roles hold ADMIN, password
  reset,     \* password_reset_tokens
  token,     \* refresh_tokens
  request,   \* the handler in each slot
  exchanged, \* history: number of handlers that revoked a token to replace it
  spent,     \* history: number of resets that used a reset token
  contested, \* history: tokens two handlers used at once
  late       \* history: tokens issued, and their heirs, by a handler that a reset overtook

rows    == <<account, reset, token>>
history == <<exchanged, spent, contested, late>>
vars    == <<rows, request, history>>

Passwords == 0..MaxPasswords
Account   == [there: BOOLEAN, active: BOOLEAN, admin: BOOLEAN, password: Passwords]
Nobody    == [state |-> "none"]
Refresh   == [state: {"live", "revoked"}, user: Users, password: Passwords]
Reset     == [state: {"open", "consumed"}, user: Users]

Idle == [pc |-> "idle"]
\* "stale" and "overtaken" are history: the actor was deactivated or stripped
\* of ADMIN, or a reset committed, since the handler read the actor's row.
Issuing  == [pc: {"issue"}, user: Users, from: RefreshTokens \cup {"login"}, password: Passwords,
             stale: BOOLEAN, overtaken: BOOLEAN]
Renewing == [pc: {"refresh"}, user: Users, from: RefreshTokens,
             password: Passwords, stale: BOOLEAN, overtaken: BOOLEAN]
Changing == [pc: {"reset"}, key: ResetTokens]
Ruling   == [pc: {"admin"}, user: Users, target: Users, stale: BOOLEAN]

TypeOK ==
  /\ account \in [Users -> Account]
  /\ reset \in [ResetTokens -> {Nobody} \cup Reset]
  /\ token \in [RefreshTokens -> {Nobody} \cup Refresh]
  /\ request \in [Requests -> {Idle} \cup Issuing \cup Renewing \cup Changing \cup Ruling]
  /\ exchanged \in [RefreshTokens -> Nat] /\ spent \in [ResetTokens -> Nat]
  /\ contested \subseteq RefreshTokens \cup ResetTokens /\ late \subseteq RefreshTokens

Init ==
  /\ account = [u \in Users |-> [there |-> u \in Founders, active |-> TRUE,
                                 admin |-> u \in Founders, password |-> 0]]
  /\ reset = [k \in ResetTokens |-> Nobody] /\ token = [t \in RefreshTokens |-> Nobody]
  /\ request = [r \in Requests |-> Idle]
  /\ exchanged = [t \in RefreshTokens |-> 0] /\ spent = [k \in ResetTokens |-> 0]
  /\ contested = {} /\ late = {}

---------------------------------------------------------------------------
Start(r, req) == request[r] = Idle /\ request' = [request EXCEPT ![r] = req]
At(r, pc)     == request[r].pc = pc
Goto(r, pc)   == request' = [request EXCEPT ![r].pc = pc]
Finish(r)     == request' = [request EXCEPT ![r] = Idle]

\* Mutant: the status of another table.
RevokedConsumed(t) == [t EXCEPT !.state = "consumed"]
Revoked(t)    == [t EXCEPT !.state = "revoked"]

Uses(r, x) == \/ request[r].pc = "refresh" /\ request[r].from = x
              \/ request[r].pc = "reset" /\ request[r].key = x
Contest(x) == contested' = IF \E r \in Requests : Uses(r, x) THEN contested \cup {x} ELSE contested

---------------------------------------------------------------------------
(* AuthService.register, of which the unique email lets one through.  The  *)
(* verification of the email decides nothing and is left out.              *)
Register(u) ==
  /\ ~account[u].there
  /\ account' = [account EXCEPT ![u].there = TRUE]
  /\ UNCHANGED <<reset, token, request, history>>

---------------------------------------------------------------------------
(* AuthService.login with a password that matches, and issueTokenPair      *)
Login(r, u) ==
  /\ account[u].there /\ account[u].active
  /\ Start(r, [pc |-> "issue", user |-> u, from |-> "login", password |-> account[u].password,
               stale |-> FALSE, overtaken |-> FALSE])
  /\ UNCHANGED <<rows, history>>

IssueTokenPair(r, t) ==
  LET q == request[r] IN
  /\ At(r, "issue") /\ token[t] = Nobody
  /\ token' = [token EXCEPT ![t] = [state |-> "live", user |-> q.user, password |-> q.password]]
  /\ late' = IF q.overtaken \/ q.from \in late THEN late \cup {t} ELSE late
  /\ Finish(r)
  /\ UNCHANGED <<account, reset, exchanged, spent, contested>>

(* AuthService.refresh                                                     *)
RefreshBegin(r, t) ==
  /\ token[t].state = "live" /\ account[token[t].user].active
  /\ Start(r, [pc |-> "refresh", user |-> token[t].user, from |-> t, password |-> token[t].password,
               stale |-> FALSE, overtaken |-> FALSE])
  /\ Contest(t)
  /\ UNCHANGED <<rows, exchanged, spent, late>>

\* Mutant: the token is not revoked.
RefreshKeeps(r) ==
  /\ At(r, "refresh")
  /\ exchanged' = [exchanged EXCEPT ![request[r].from] = @ + 1]
  /\ Goto(r, "issue")
  /\ UNCHANGED <<rows, spent, contested, late>>

RefreshRevoke(r) ==
  LET t == request[r].from IN
  /\ At(r, "refresh")
  /\ token' = [token EXCEPT ![t] = Revoked(@)]
  /\ exchanged' = [exchanged EXCEPT ![t] = @ + 1]
  /\ Goto(r, "issue")
  /\ UNCHANGED <<account, reset, spent, contested, late>>

(* AuthService.logout: to revoke a token again changes nothing.            *)
Logout(t) ==
  /\ token[t].state = "live"
  /\ token' = [token EXCEPT ![t] = Revoked(@)]
  /\ UNCHANGED <<account, reset, request, history>>

---------------------------------------------------------------------------
(* AuthService.forgotPassword and resetPassword: the password is hashed    *)
(* between the check and the transaction.                                  *)
ForgotPassword(k, u) ==
  /\ account[u].there /\ reset[k] = Nobody
  /\ reset' = [reset EXCEPT ![k] = [state |-> "open", user |-> u]]
  /\ UNCHANGED <<account, token, request, history>>

ResetBegin(r, k) ==
  /\ reset[k].state = "open"
  /\ Start(r, [pc |-> "reset", key |-> k])
  /\ Contest(k)
  /\ UNCHANGED <<rows, exchanged, spent, late>>

Overtake(u) == [r \in Requests |-> IF request[r] \in Issuing \cup Renewing /\ request[r].user = u
                                   THEN [request[r] EXCEPT !.overtaken = TRUE] ELSE request[r]]

ResetCommit(r) ==
  LET k == request[r].key IN LET u == reset[k].user IN
  /\ At(r, "reset")
  /\ account[u].password < MaxPasswords                                  \* bound
  /\ account' = [account EXCEPT ![u].password = @ + 1]
  /\ reset' = [reset EXCEPT ![k].state = "consumed"]
  /\ token' = [t \in RefreshTokens |-> IF token[t].state = "live" /\ token[t].user = u
                                       THEN Revoked(token[t]) ELSE token[t]]
  /\ spent' = [spent EXCEPT ![k] = @ + 1]
  /\ request' = [Overtake(u) EXCEPT ![r] = Idle]
  /\ UNCHANGED <<exchanged, contested, late>>

---------------------------------------------------------------------------
(* JwtStrategy.validate and RolesGuard in front of an administrator's      *)
(* request: the bearer of an access token must be active and hold ADMIN,   *)
(* both read now, not taken from the token.                                *)
Authorised(u) == account[u].there /\ account[u].active /\ account[u].admin

\* Mutant: the roles of the token are trusted.
AuthoriseByToken(r, u, v) ==
  /\ u \in Founders /\ account[v].there
  /\ Start(r, [pc |-> "admin", user |-> u, target |-> v, stale |-> FALSE])
  /\ UNCHANGED <<rows, history>>

Authorise(r, u, v) ==
  /\ Authorised(u) /\ account[v].there
  /\ Start(r, [pc |-> "admin", user |-> u, target |-> v, stale |-> FALSE])
  /\ UNCHANGED <<rows, history>>

Demote(u) == [r \in Requests |-> IF request[r] \in Issuing \cup Renewing \cup Ruling /\ request[r].user = u
                                 THEN [request[r] EXCEPT !.stale = TRUE] ELSE request[r]]

(* AdminUsersService.suspend and UsersService.update, remove               *)
Suspend(r) ==
  LET v == request[r].target IN
  /\ At(r, "admin")
  /\ account' = [account EXCEPT ![v].active = FALSE]
  /\ request' = [Demote(v) EXCEPT ![r] = Idle]
  /\ UNCHANGED <<reset, token, history>>

(* AdminUsersService.reactivate                                            *)
Reactivate(r) ==
  /\ At(r, "admin")
  /\ account' = [account EXCEPT ![request[r].target].active = TRUE]
  /\ Finish(r)
  /\ UNCHANGED <<reset, token, history>>

(* AdminUsersService.setRoles: with ADMIN among the roles, or without      *)
SetRoles(r, admin) ==
  LET v == request[r].target IN
  /\ At(r, "admin")
  /\ account' = [account EXCEPT ![v].admin = admin]
  /\ request' = [IF admin THEN request ELSE Demote(v) EXCEPT ![r] = Idle]
  /\ UNCHANGED <<reset, token, history>>

---------------------------------------------------------------------------
Die(r) ==
  /\ request[r] # Idle
  /\ Finish(r)
  /\ UNCHANGED <<rows, history>>

Session(r) == \/ RefreshRevoke(r)
              \/ \E u \in Users : Login(r, u)
              \/ \E t \in RefreshTokens : IssueTokenPair(r, t) \/ RefreshBegin(r, t)
Recovery(r) == ResetCommit(r) \/ \E k \in ResetTokens : ResetBegin(r, k)
Administer(r) == \/ Suspend(r) \/ Reactivate(r) \/ \E admin \in BOOLEAN : SetRoles(r, admin)
                 \/ \E u, v \in Users : Authorise(r, u, v)

Next == \/ \E u \in Users : Register(u)
        \/ \E t \in RefreshTokens : Logout(t)
        \/ \E k \in ResetTokens, u \in Users : ForgotPassword(k, u)
        \/ \E r \in Requests : Session(r) \/ Recovery(r) \/ Administer(r) \/ Die(r)
Spec == Init /\ [][Next]_vars

---------------------------------------------------------------------------
(* A password reset ends every session opened with an older password,      *)
(* except those a login or refresh in flight during the reset goes on to   *)
(* open, and what is renewed from them: issueTokenPair inserts a token     *)
(* after resetPassword revoked the ones it saw.                            *)
ResetEndsSessions ==
  \A t \in RefreshTokens :
    token[t].state = "live" => \/ token[t].password = account[token[t].user].password
                               \/ t \in late

(* A refresh token is exchanged once and a reset token sets one password,  *)
(* unless two handlers held it at the same time: each checks it before     *)
(* either revokes it.                                                      *)
TokensUsedOnce ==
  /\ \A t \in RefreshTokens : exchanged[t] > 1 => t \in contested
  /\ \A k \in ResetTokens : spent[k] > 1 => k \in contested

(* No token serves longer or more often than it should: neither past a new *)
(* password nor past its own exchange, beyond the overlaps each part names.*)
TokensSound == ResetEndsSessions /\ TokensUsedOnce

(* A deactivated user gets no new session, and one who is no longer an     *)
(* active administrator changes no account, but by a handler that read the *)
(* user before: in no case because an older token still says otherwise.    *)
DemotionBinds ==
  [][ /\ \A t \in RefreshTokens :
           token[t] = Nobody /\ token'[t] # Nobody /\ ~account[token'[t].user].active
             => \E r \in Requests : request[r] \in Issuing /\ request[r].stale
      /\ \A v \in Users : account'[v].active # account[v].active \/ account'[v].admin # account[v].admin
             => \E r \in Requests : At(r, "admin") /\ (Authorised(request[r].user) \/ request[r].stale)
    ]_vars
=============================================================================
