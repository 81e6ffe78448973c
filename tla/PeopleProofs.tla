---------------------------- MODULE PeopleProofs ----------------------------
(***************************************************************************)
(* Accounts and what reaches them, for any users, tokens, notices, sockets *)
(* and handlers.                                                           *)
(*                                                                         *)
(* Sessions: the types, what becomes of tokens after a reset and an        *)
(* exchange, and what a suspended account or a demoted administrator can   *)
(* still do.  Notifications: a delivery says what its notice and channel   *)
(* deserve.  Messaging: what was broadcast of a user's presence is true,   *)
(* and conversations know their last message.  Each part has an inductive  *)
(* invariant of its own and is read alone.                                 *)
(***************************************************************************)
EXTENDS Sessions, Realtime, FiniteSetTheorems, TLAPS

---------------------------------------------------------------------------
(* SESSIONS.  A handler's record is only ever marked by others, so each    *)
(* invariant says what a handler that nobody marked may still rely on.     *)
---------------------------------------------------------------------------
(* The kinds of handler, told by their pc.                                 *)
HandlerStates == {Idle} \cup Issuing \cup Renewing \cup Changing \cup Ruling

LEMMA Kinds ==
  ASSUME NEW q \in HandlerStates
  PROVE  /\ q.pc = "issue" <=> q \in Issuing
         /\ q.pc = "refresh" <=> q \in Renewing
         /\ q.pc = "reset" <=> q \in Changing
         /\ q.pc = "admin" <=> q \in Ruling
         /\ q.pc = "idle" <=> q = Idle
         /\ q \in Issuing => q.user \in Users
         /\ q \in Renewing => q.user \in Users /\ q.from \in RefreshTokens
         /\ q \in Changing => q.key \in ResetTokens
         /\ q \in Ruling => q.user \in Users /\ q.target \in Users
  BY DEF HandlerStates, Idle, Issuing, Renewing, Changing, Ruling

LEMMA IdleKind == Idle.pc = "idle" /\ Idle \in HandlerStates
  BY DEF Idle, HandlerStates

(* b is a, but perhaps marked stale or overtaken.                          *)
Kept(a, b) ==
  \/ b = a
  \/ /\ (a \in Issuing /\ b \in Issuing) \/ (a \in Renewing /\ b \in Renewing)
     /\ b.user = a.user /\ b.from = a.from /\ b.password = a.password
     /\ (a.stale => b.stale) /\ (a.overtaken => b.overtaken)
  \/ a \in Ruling /\ b \in Ruling /\ b.user = a.user /\ (a.stale => b.stale)

LEMMA Marks ==
  ASSUME NEW q \in HandlerStates
  PROVE  /\ q \in Issuing \cup Renewing =>
              LET b == [q EXCEPT !.overtaken = TRUE] IN
              b \in HandlerStates /\ Kept(q, b) /\ b.overtaken
         /\ q \in Issuing \cup Renewing \cup Ruling =>
              LET b == [q EXCEPT !.stale = TRUE] IN
              b \in HandlerStates /\ Kept(q, b) /\ b.stale
  <1>1. CASE q \in Issuing
    BY <1>1 DEF HandlerStates, Issuing, Renewing, Ruling, Kept
  <1>2. CASE q \in Renewing
    BY <1>2 DEF HandlerStates, Issuing, Renewing, Ruling, Kept
  <1>3. CASE q \in Ruling
    BY <1>3 DEF HandlerStates, Issuing, Renewing, Ruling, Kept
  <1>4. QED
    BY <1>1, <1>2, <1>3

LEMMA AfterWrite ==
  ASSUME TypeOK, NEW r \in Requests, NEW q \in HandlerStates, request' = [request EXCEPT ![r] = q]
  PROVE  /\ request'[r] = q /\ \A s \in Requests \ {r} : request'[s] = request[s]
         /\ request' \in [Requests -> HandlerStates]
  BY DEF TypeOK, HandlerStates

LEMMA AfterIssue ==
  ASSUME TypeOK, NEW r \in Requests, At(r, "refresh"), Goto(r, "issue")
  PROVE  /\ request[r] \in Renewing /\ request'[r] \in Issuing
         /\ request'[r].user = request[r].user /\ request'[r].from = request[r].from
         /\ request'[r].password = request[r].password
         /\ request'[r].stale = request[r].stale /\ request'[r].overtaken = request[r].overtaken
         /\ \A s \in Requests \ {r} : request'[s] = request[s]
         /\ request' \in [Requests -> HandlerStates]
  <1> DEFINE q == [request[r] EXCEPT !.pc = "issue"]
  <1>1. request[r] \in Renewing
    BY Kinds DEF At, TypeOK, HandlerStates
  <1>2. /\ q \in Issuing /\ q.user = request[r].user /\ q.from = request[r].from
        /\ q.password = request[r].password /\ q.stale = request[r].stale
        /\ q.overtaken = request[r].overtaken
    BY <1>1 DEF Renewing, Issuing
  <1>3. request' = [request EXCEPT ![r] = q] /\ q \in HandlerStates
    BY <1>2 DEF Goto, TypeOK, HandlerStates
  <1> HIDE DEF q
  <1>4. QED
    BY <1>1, <1>2, <1>3, AfterWrite

LEMMA AfterOvertake ==
  ASSUME TypeOK, NEW r \in Requests, NEW u, request' = [Overtake(u) EXCEPT ![r] = Idle]
  PROVE  /\ request'[r] = Idle
         /\ \A s \in Requests \ {r} :
              /\ Kept(request[s], request'[s])
              /\ (request[s].pc \in {"issue", "refresh"} /\ request[s].user = u) => request'[s].overtaken
         /\ request' \in [Requests -> HandlerStates]
  <1>1. Overtake(u) = [x \in Requests |-> Overtake(u)[x]] /\ request'[r] = Idle
        /\ \A x \in Requests \ {r} : request'[x] = Overtake(u)[x]
        /\ request' = [y \in Requests |-> request'[y]]
    BY DEF Overtake
  <1>2. ASSUME NEW s \in Requests
        PROVE  /\ Overtake(u)[s] \in HandlerStates /\ Kept(request[s], Overtake(u)[s])
               /\ (request[s].pc \in {"issue", "refresh"} /\ request[s].user = u) => Overtake(u)[s].overtaken
    <2>1. request[s] \in HandlerStates
      BY DEF TypeOK, HandlerStates
    <2>2. CASE request[s] \in Issuing \cup Renewing /\ request[s].user = u
      <3>1. Overtake(u)[s] = [request[s] EXCEPT !.overtaken = TRUE]
        BY <2>2 DEF Overtake
      <3>2. QED
        BY <2>1, <2>2, <3>1, Marks
    <2>3. CASE ~(request[s] \in Issuing \cup Renewing /\ request[s].user = u)
      <3>1. Overtake(u)[s] = request[s]
        BY <2>3 DEF Overtake
      <3>2. QED
        BY <2>1, <2>3, <3>1, Kinds DEF Kept
    <2>4. QED
      BY <2>2, <2>3
  <1>3. QED
    BY <1>1, <1>2, IdleKind

LEMMA AfterDemote ==
  ASSUME TypeOK, NEW r \in Requests, NEW v, request' = [Demote(v) EXCEPT ![r] = Idle]
  PROVE  /\ request'[r] = Idle
         /\ \A s \in Requests \ {r} :
              /\ Kept(request[s], request'[s])
              /\ (request[s].pc \in {"issue", "refresh", "admin"} /\ request[s].user = v)
                   => request'[s].stale
         /\ request' \in [Requests -> HandlerStates]
  <1>1. Demote(v) = [x \in Requests |-> Demote(v)[x]] /\ request'[r] = Idle
        /\ \A x \in Requests \ {r} : request'[x] = Demote(v)[x]
        /\ request' = [y \in Requests |-> request'[y]]
    BY DEF Demote
  <1>2. ASSUME NEW s \in Requests
        PROVE  /\ Demote(v)[s] \in HandlerStates /\ Kept(request[s], Demote(v)[s])
               /\ (request[s].pc \in {"issue", "refresh", "admin"} /\ request[s].user = v)
                    => Demote(v)[s].stale
    <2>1. request[s] \in HandlerStates
      BY DEF TypeOK, HandlerStates
    <2>2. CASE request[s] \in Issuing \cup Renewing \cup Ruling /\ request[s].user = v
      <3>1. Demote(v)[s] = [request[s] EXCEPT !.stale = TRUE]
        BY <2>2 DEF Demote
      <3>2. QED
        BY <2>1, <2>2, <3>1, Marks
    <2>3. CASE ~(request[s] \in Issuing \cup Renewing \cup Ruling /\ request[s].user = v)
      <3>1. Demote(v)[s] = request[s]
        BY <2>3 DEF Demote
      <3>2. QED
        BY <2>1, <2>3, <3>1, Kinds DEF Kept
    <2>4. QED
      BY <2>2, <2>3
  <1>3. QED
    BY <1>1, <1>2, IdleKind

---------------------------------------------------------------------------
(* Type correctness needs one more fact: the token a handler checked is    *)
(* still a row.                                                            *)
Grounded(r) == /\ request[r].pc = "refresh" => token[request[r].from] \in Refresh
               /\ request[r].pc = "reset" => reset[request[r].key] \in Reset
TypeInv == TypeOK /\ \A r \in Requests : Grounded(r)

Opens(r) == \/ \E u \in Users : Login(r, u) \/ \E v \in Users : Authorise(r, u, v)
            \/ \E t \in RefreshTokens : RefreshBegin(r, t)
            \/ \E k \in ResetTokens : ResetBegin(r, k)
Ends(r)  == (\E t \in RefreshTokens : IssueTokenPair(r, t)) \/ Reactivate(r) \/ Die(r)
Marking(r) == ResetCommit(r) \/ Suspend(r) \/ \E admin \in BOOLEAN : SetRoles(r, admin)
Outside == \/ \E u \in Users : Register(u)
           \/ \E t \in RefreshTokens : Logout(t)
           \/ \E k \in ResetTokens, u \in Users : ForgotPassword(k, u)

LEMMA NextCases ==
  ASSUME [Next]_vars
  PROVE  \/ UNCHANGED vars \/ Outside
         \/ \E r \in Requests : Opens(r) \/ RefreshRevoke(r) \/ Ends(r) \/ Marking(r)
  BY DEF Next, Session, Recovery, Administer, Opens, Ends, Marking, Outside

LEMMA RowShape ==
  ASSUME TypeOK
  PROVE  /\ \A t \in RefreshTokens : /\ token[t].state = "live" \/ token[t].state = "revoked"
                                          <=> token[t] \in Refresh
                                     /\ token[t] \in Refresh => token[t].user \in Users
                                     /\ token[t] = Nobody <=> token[t].state = "none"
                                     /\ token[t] = Nobody \/ token[t] \in Refresh
         /\ \A k \in ResetTokens : /\ reset[k].state = "open" => reset[k] \in Reset
                                   /\ reset[k] \in Reset => reset[k].user \in Users
                                   /\ reset[k] \in Reset => reset[k].state \in {"open", "consumed"}
                                   /\ reset[k] = Nobody <=> reset[k].state = "none"
  BY DEF TypeOK, Nobody, Refresh, Reset

Opened(r) ==
  \/ \E u \in Users : Authorised(u) /\ request'[r].pc = "admin" /\ request'[r].user = u
  \/ \E u \in Users : /\ account[u].active /\ request'[r].pc = "issue" /\ request'[r].user = u
                      /\ request'[r].from = "login" /\ request'[r].password = account[u].password
  \/ \E t \in RefreshTokens :
       /\ token[t].state = "live" /\ account[token[t].user].active /\ Contest(t)
       /\ request'[r].pc = "refresh" /\ request'[r].user = token[t].user
       /\ request'[r].from = t /\ request'[r].password = token[t].password
  \/ \E k \in ResetTokens : /\ reset[k].state = "open" /\ Contest(k)
                            /\ request'[r].pc = "reset" /\ request'[r].key = k

LEMMA Opening ==
  ASSUME TypeOK, NEW r \in Requests, Opens(r)
  PROVE  /\ request[r] = Idle /\ UNCHANGED <<rows, exchanged, spent, late>>
         /\ contested \subseteq contested' /\ contested' \subseteq RefreshTokens \cup ResetTokens
         /\ \A s \in Requests \ {r} : request'[s] = request[s]
         /\ request' \in [Requests -> HandlerStates]
         /\ Opened(r)
  <1> DEFINE Goal == /\ request[r] = Idle /\ UNCHANGED <<rows, exchanged, spent, late>>
                     /\ contested \subseteq contested' /\ contested' \subseteq RefreshTokens \cup ResetTokens
                     /\ \A s \in Requests \ {r} : request'[s] = request[s]
                     /\ request' \in [Requests -> HandlerStates]
                     /\ Opened(r)
  <1>1. ASSUME NEW u \in Users, Login(r, u) PROVE Goal
    <2> DEFINE q == [pc |-> "issue", user |-> u, from |-> "login", password |-> account[u].password,
                     stale |-> FALSE, overtaken |-> FALSE]
    <2>1. q \in HandlerStates /\ request[r] = Idle /\ request' = [request EXCEPT ![r] = q]
      BY <1>1 DEF Login, Start, HandlerStates, Issuing, TypeOK, Account
    <2>2. QED
      BY <1>1, <2>1, AfterWrite DEF Login, history, TypeOK, Opened
  <1>2. ASSUME NEW u \in Users, NEW v \in Users, Authorise(r, u, v) PROVE Goal
    <2> DEFINE q == [pc |-> "admin", user |-> u, target |-> v, stale |-> FALSE]
    <2>1. q \in HandlerStates /\ request[r] = Idle /\ request' = [request EXCEPT ![r] = q]
      BY <1>2 DEF Authorise, Start, HandlerStates, Ruling
    <2>2. QED
      BY <1>2, <2>1, AfterWrite DEF Authorise, history, TypeOK, Opened
  <1>3. ASSUME NEW t \in RefreshTokens, RefreshBegin(r, t) PROVE Goal
    <2> DEFINE q == [pc |-> "refresh", user |-> token[t].user, from |-> t, password |-> token[t].password,
                     stale |-> FALSE, overtaken |-> FALSE]
    <2>1. token[t] \in Refresh
      BY <1>3, RowShape DEF RefreshBegin
    <2>2. q \in HandlerStates /\ request[r] = Idle /\ request' = [request EXCEPT ![r] = q]
      BY <1>3, <2>1 DEF RefreshBegin, Start, HandlerStates, Renewing, Refresh
    <2>3. contested \subseteq contested' /\ contested' \subseteq RefreshTokens \cup ResetTokens
      BY <1>3 DEF RefreshBegin, Contest, TypeOK
    <2>4. QED
      BY <1>3, <2>2, <2>3, AfterWrite DEF RefreshBegin, Opened
  <1>4. ASSUME NEW k \in ResetTokens, ResetBegin(r, k) PROVE Goal
    <2> DEFINE q == [pc |-> "reset", key |-> k]
    <2>1. q \in HandlerStates /\ request[r] = Idle /\ request' = [request EXCEPT ![r] = q]
      BY <1>4 DEF ResetBegin, Start, HandlerStates, Changing
    <2>2. contested \subseteq contested' /\ contested' \subseteq RefreshTokens \cup ResetTokens
      BY <1>4 DEF ResetBegin, Contest, TypeOK
    <2>3. QED
      BY <1>4, <2>1, <2>2, AfterWrite DEF ResetBegin, Opened
  <1>5. QED
    BY <1>1, <1>2, <1>3, <1>4 DEF Opens

LEMMA Revoking ==
  ASSUME TypeOK, NEW t \in RefreshTokens, token[t] \in Refresh
  PROVE  /\ Revoked(token[t]) \in Refresh /\ Revoked(token[t]).state = "revoked"
         /\ Revoked(token[t]).user = token[t].user /\ Revoked(token[t]).password = token[t].password
  BY DEF Revoked, Refresh

(* What a write to one account changes.                                    *)
LEMMA AccountWrite ==
  ASSUME TypeOK, NEW u \in Users, NEW a \in Account, account' = [account EXCEPT ![u] = a]
  PROVE  /\ account' \in [Users -> Account] /\ account'[u] = a
         /\ \A v \in Users \ {u} : account'[v] = account[v]
  BY DEF TypeOK

LEMMA AccountFields ==
  ASSUME TypeOK, NEW u \in Users, NEW b \in BOOLEAN
  PROVE  /\ [account[u] EXCEPT !.there = b] \in Account
         /\ [account[u] EXCEPT !.there = b].active = account[u].active
         /\ [account[u] EXCEPT !.there = b].admin = account[u].admin
         /\ [account[u] EXCEPT !.there = b].there = b
         /\ [account[u] EXCEPT !.there = b].password = account[u].password
         /\ [account[u] EXCEPT !.active = b] \in Account
         /\ [account[u] EXCEPT !.active = b].active = b
         /\ [account[u] EXCEPT !.active = b].admin = account[u].admin
         /\ [account[u] EXCEPT !.active = b].there = account[u].there
         /\ [account[u] EXCEPT !.active = b].password = account[u].password
         /\ [account[u] EXCEPT !.admin = b] \in Account
         /\ [account[u] EXCEPT !.admin = b].active = account[u].active
         /\ [account[u] EXCEPT !.admin = b].admin = b
         /\ [account[u] EXCEPT !.admin = b].there = account[u].there
         /\ [account[u] EXCEPT !.admin = b].password = account[u].password
  <1>1. account[u] \in Account
    BY DEF TypeOK
  <1>2. QED
    BY <1>1 DEF Account

(* An account after a step: as before but in the fields the step is about. *)
Same(u) == /\ account'[u].active = account[u].active /\ account'[u].admin = account[u].admin
           /\ account'[u].password = account[u].password

LEMMA Registering ==
  ASSUME TypeOK, NEW u \in Users, Register(u)
  PROVE  /\ account' \in [Users -> Account]
         /\ \A v \in Users : Same(v) /\ (account[v].there => account'[v].there)
  <1> DEFINE a == [account[u] EXCEPT !.there = TRUE]
  <1>1. account' = [account EXCEPT ![u] = a]
    BY DEF Register, TypeOK
  <1>2. /\ a \in Account /\ a.there /\ a.active = account[u].active
        /\ a.admin = account[u].admin /\ a.password = account[u].password
    BY AccountFields
  <1> HIDE DEF a
  <1>3. QED
    BY <1>1, <1>2, AccountWrite DEF Same

LEMMA GroundedFrame ==
  ASSUME TypeInv, NEW s \in Requests, request'[s] \in HandlerStates,
         Kept(request[s], request'[s]) \/ Grounded(s)',
         \A t \in RefreshTokens : token[t] \in Refresh => token'[t] \in Refresh,
         \A k \in ResetTokens : reset[k] \in Reset => reset'[k] \in Reset
  PROVE  Grounded(s)'
  <1>1. request[s] \in HandlerStates /\ Grounded(s)
    BY DEF TypeInv, TypeOK, HandlerStates
  <1>2. CASE Kept(request[s], request'[s])
    <2>1. CASE request'[s] = request[s]
      BY <1>1, <2>1, Kinds DEF Grounded
    <2>2. CASE request'[s] # request[s]
      BY <1>1, <1>2, <2>2, Kinds DEF Grounded, Kept
    <2>3. QED
      BY <2>1, <2>2
  <1>3. QED
    BY <1>2

LEMMA TypeStep ==
  ASSUME TypeInv, [Next]_vars
  PROVE  TypeInv'
  <1>1. SUFFICES ASSUME TRUE PROVE TypeOK' /\ \A s \in Requests : Grounded(s)'
    BY DEF TypeInv
  <1>2. TypeOK
    BY DEF TypeInv
  <1>3. \A s \in Requests : request[s] \in HandlerStates /\ Grounded(s)
    BY DEF TypeInv, TypeOK, HandlerStates
  <1>4. CASE UNCHANGED vars
    BY <1>4 DEF TypeInv, TypeOK, Grounded, vars, rows, history
  <1>5. ASSUME NEW r \in Requests, Opens(r) PROVE TypeInv'
    <2>1. TypeOK'
      BY <1>2, <1>5, Opening DEF TypeOK, HandlerStates, rows
    <2>2. Grounded(r)'
      <3>1. ASSUME NEW t \in RefreshTokens, token[t].state = "live" PROVE token[t] \in Refresh
        BY <1>2, <3>1, RowShape
      <3>2. ASSUME NEW k \in ResetTokens, reset[k].state = "open" PROVE reset[k] \in Reset
        BY <1>2, <3>2, RowShape
      <3>3. Opened(r) /\ UNCHANGED <<token, reset>>
        BY <1>2, <1>5, Opening DEF rows
      <3>4. QED
        BY <3>1, <3>2, <3>3 DEF Opened, Grounded
    <2>3. \A s \in Requests \ {r} : Grounded(s)'
      BY <1>2, <1>3, <1>5, Opening DEF Grounded, rows
    <2>4. QED
      BY <2>1, <2>2, <2>3 DEF TypeInv
  <1>6. ASSUME NEW r \in Requests, RefreshRevoke(r) PROVE TypeInv'
    <2> DEFINE t == request[r].from
    <2>1. /\ request[r] \in Renewing /\ request'[r] \in Issuing /\ t \in RefreshTokens
          /\ token[t] \in Refresh
          /\ \A s \in Requests \ {r} : request'[s] = request[s]
          /\ request' \in [Requests -> HandlerStates]
      BY <1>2, <1>3, <1>6, AfterIssue, Kinds DEF RefreshRevoke, At, Grounded
    <2>2. token' = [token EXCEPT ![t] = Revoked(token[t])] /\ Revoked(token[t]) \in Refresh
      BY <1>2, <1>6, <2>1, Revoking DEF RefreshRevoke
    <2>3. /\ token' \in [RefreshTokens -> {Nobody} \cup Refresh]
          /\ \A x \in RefreshTokens : token[x] \in Refresh => token'[x] \in Refresh
      BY <1>2, <2>1, <2>2 DEF TypeOK
    <2>4. TypeOK'
      BY <1>2, <1>6, <2>1, <2>3 DEF RefreshRevoke, TypeOK, HandlerStates
    <2>5. Grounded(r)'
      BY <2>1, Kinds DEF Grounded, HandlerStates
    <2>6. \A s \in Requests \ {r} : Grounded(s)'
      BY <1>3, <1>6, <2>1, <2>3, Kinds DEF Grounded, RefreshRevoke
    <2>7. QED
      BY <2>4, <2>5, <2>6 DEF TypeInv
  <1>7. ASSUME NEW r \in Requests, Ends(r) PROVE TypeInv'
    <2>1. /\ request'[r] = Idle /\ \A s \in Requests \ {r} : request'[s] = request[s]
          /\ request' \in [Requests -> HandlerStates] /\ UNCHANGED <<reset, exchanged, spent, contested>>
      BY <1>2, <1>7, AfterWrite, IdleKind
         DEF Ends, IssueTokenPair, Reactivate, Die, Finish, rows, history
    <2>2. /\ token' \in [RefreshTokens -> {Nobody} \cup Refresh] /\ late' \subseteq RefreshTokens
          /\ \A x \in RefreshTokens : token[x] \in Refresh => token'[x] \in Refresh
      <3>1. ASSUME NEW t \in RefreshTokens, IssueTokenPair(r, t)
            PROVE  /\ token' \in [RefreshTokens -> {Nobody} \cup Refresh] /\ late' \subseteq RefreshTokens
                   /\ \A x \in RefreshTokens : token[x] \in Refresh => token'[x] \in Refresh
        <4> DEFINE q == [state |-> "live", user |-> request[r].user, password |-> request[r].password]
        <4>1. request[r] \in Issuing
          BY <1>3, <3>1, Kinds DEF IssueTokenPair, At
        <4>2. q \in Refresh
          BY <4>1 DEF Issuing, Refresh
        <4>3. token' = [token EXCEPT ![t] = q] /\ late' \subseteq late \cup {t}
          BY <3>1 DEF IssueTokenPair
        <4>4. QED
          BY <1>2, <4>2, <4>3 DEF TypeOK
      <3>2. QED
        BY <1>2, <1>7, <3>1 DEF Ends, Reactivate, Die, TypeOK, rows, history
    <2>3. account' \in [Users -> Account]
      <3>1. CASE Reactivate(r)
        <4>1. request[r].target \in Users
          BY <1>3, <3>1, Kinds DEF Reactivate, At
        <4>2. account' = [account EXCEPT ![request[r].target] = [account[request[r].target] EXCEPT !.active = TRUE]]
          BY <1>2, <3>1, <4>1 DEF Reactivate, TypeOK
        <4>3. QED
          BY <1>2, <4>1, <4>2, AccountFields, AccountWrite
      <3>2. QED
        BY <1>2, <1>7, <3>1 DEF Ends, IssueTokenPair, Die, TypeOK, rows
    <2>4. TypeOK'
      BY <1>2, <2>1, <2>2, <2>3 DEF TypeOK, HandlerStates
    <2>5. ASSUME NEW s \in Requests PROVE Grounded(s)'
      BY <1>3, <2>1, <2>2, <2>5, IdleKind, Kinds DEF Grounded
    <2>6. QED
      BY <2>4, <2>5 DEF TypeInv
  <1>8. ASSUME NEW r \in Requests, Marking(r) PROVE TypeInv'
    <2>1. /\ request'[r] = Idle /\ request' \in [Requests -> HandlerStates]
          /\ \A s \in Requests \ {r} : Kept(request[s], request'[s])
      <3>1. CASE ResetCommit(r)
        BY <1>2, <3>1, AfterOvertake DEF ResetCommit
      <3>2. CASE Suspend(r)
        BY <1>2, <3>2, AfterDemote DEF Suspend
      <3>3. ASSUME NEW admin \in BOOLEAN, SetRoles(r, admin)
            PROVE  /\ request'[r] = Idle /\ request' \in [Requests -> HandlerStates]
                   /\ \A s \in Requests \ {r} : Kept(request[s], request'[s])
        <4>1. CASE admin
          BY <1>2, <3>3, <4>1, AfterWrite, IdleKind DEF SetRoles, Kept
        <4>2. CASE ~admin
          BY <1>2, <3>3, <4>2, AfterDemote DEF SetRoles
        <4>3. QED
          BY <4>1, <4>2
      <3>4. QED
        BY <1>8, <3>1, <3>2, <3>3 DEF Marking
    <2>2. /\ account' \in [Users -> Account]
          /\ reset' \in [ResetTokens -> {Nobody} \cup Reset]
          /\ token' \in [RefreshTokens -> {Nobody} \cup Refresh]
          /\ spent' \in [ResetTokens -> Nat] /\ UNCHANGED <<exchanged, contested, late>>
          /\ \A t \in RefreshTokens : token[t] \in Refresh => token'[t] \in Refresh
          /\ \A k \in ResetTokens : reset[k] \in Reset => reset'[k] \in Reset
      <3>1. CASE ResetCommit(r)
        <4> DEFINE k == request[r].key
                   u == reset[k].user
                   a == [account[u] EXCEPT !.password = account[u].password + 1]
        <4>1. k \in ResetTokens /\ reset[k] \in Reset /\ u \in Users
          BY <1>2, <1>3, <3>1, Kinds, RowShape DEF ResetCommit, At, Grounded
        <4>2. a \in Account
          <5>1. account[u] \in Account /\ account[u].password < MaxPasswords
            BY <1>2, <3>1, <4>1 DEF TypeOK, ResetCommit
          <5>2. account[u].password + 1 \in Passwords
            BY <5>1, SessionConstants DEF Account, Passwords
          <5>3. QED
            BY <5>1, <5>2 DEF Account
        <4>3. account' = [account EXCEPT ![u] = a]
          BY <1>2, <3>1, <4>1 DEF ResetCommit, TypeOK
        <4>4. /\ reset' = [reset EXCEPT ![k] = [reset[k] EXCEPT !.state = "consumed"]]
              /\ [reset[k] EXCEPT !.state = "consumed"] \in Reset
          BY <1>2, <3>1, <4>1 DEF ResetCommit, TypeOK, Reset
        <4>5. ASSUME NEW t \in RefreshTokens
              PROVE  token'[t] = token[t] \/ (token[t] \in Refresh /\ token'[t] \in Refresh)
          <5>1. token[t].state = "live" => token[t] \in Refresh /\ Revoked(token[t]) \in Refresh
            BY <1>2, RowShape, Revoking
          <5>2. QED
            BY <3>1, <5>1 DEF ResetCommit
        <4>6. token' = [t \in RefreshTokens |-> token'[t]]
          BY <3>1 DEF ResetCommit
        <4>7. token' \in [RefreshTokens -> {Nobody} \cup Refresh]
          BY <1>2, <4>5, <4>6 DEF TypeOK
        <4>8. spent' \in [ResetTokens -> Nat] /\ UNCHANGED <<exchanged, contested, late>>
          BY <1>2, <3>1, <4>1 DEF ResetCommit, TypeOK
        <4> HIDE DEF k, u, a
        <4>9. QED
          BY <1>2, <4>1, <4>2, <4>3, <4>4, <4>5, <4>7, <4>8, AccountWrite DEF TypeOK
      <3>2. CASE Suspend(r) \/ \E admin \in BOOLEAN : SetRoles(r, admin)
        <4> DEFINE v == request[r].target
        <4>1. v \in Users
          BY <1>3, <3>2, Kinds DEF Suspend, SetRoles, At
        <4>2. \/ account' = [account EXCEPT ![v] = [account[v] EXCEPT !.active = FALSE]]
              \/ \E admin \in BOOLEAN : account' = [account EXCEPT ![v] = [account[v] EXCEPT !.admin = admin]]
          BY <1>2, <3>2, <4>1 DEF Suspend, SetRoles, TypeOK
        <4>3. account' \in [Users -> Account]
          <5>1. PICK a \in Account : account' = [account EXCEPT ![v] = a]
            BY <1>2, <4>1, <4>2, AccountFields
          <5>2. QED
            BY <1>2, <4>1, <5>1, AccountWrite
        <4>4. UNCHANGED <<reset, token, history>>
          BY <3>2 DEF Suspend, SetRoles
        <4>5. QED
          BY <1>2, <4>3, <4>4 DEF TypeOK, history
      <3>3. QED
        BY <1>8, <3>1, <3>2 DEF Marking
    <2>3. TypeOK'
      BY <1>2, <2>1, <2>2 DEF TypeOK, HandlerStates
    <2>4. \A s \in Requests \ {r} : Grounded(s)'
      BY <2>1, <2>2, GroundedFrame
    <2>5. Grounded(r)'
      BY <2>1, IdleKind DEF Grounded
    <2>6. QED
      BY <2>3, <2>4, <2>5 DEF TypeInv
  <1>9. CASE Outside
    <2>1. UNCHANGED <<request, history>>
      BY <1>9 DEF Outside, Register, Logout, ForgotPassword
    <2>2. account' \in [Users -> Account]
      BY <1>2, <1>9, Registering DEF Outside, Logout, ForgotPassword, TypeOK
    <2>3. /\ token' \in [RefreshTokens -> {Nobody} \cup Refresh]
          /\ \A t \in RefreshTokens : token[t] \in Refresh => token'[t] \in Refresh
      <3>1. ASSUME NEW t \in RefreshTokens, Logout(t)
            PROVE  /\ token' \in [RefreshTokens -> {Nobody} \cup Refresh]
                   /\ \A x \in RefreshTokens : token[x] \in Refresh => token'[x] \in Refresh
        <4>1. Revoked(token[t]) \in Refresh
          BY <1>2, <3>1, RowShape, Revoking DEF Logout
        <4>2. token' = [token EXCEPT ![t] = Revoked(token[t])]
          BY <3>1 DEF Logout
        <4>3. QED
          BY <1>2, <4>1, <4>2 DEF TypeOK
      <3>2. QED
        BY <1>2, <1>9, <3>1 DEF Outside, Register, ForgotPassword, TypeOK
    <2>4. /\ reset' \in [ResetTokens -> {Nobody} \cup Reset]
          /\ \A k \in ResetTokens : reset[k] \in Reset => reset'[k] \in Reset
      <3>1. ASSUME NEW k \in ResetTokens, NEW u \in Users, ForgotPassword(k, u)
            PROVE  /\ reset' \in [ResetTokens -> {Nobody} \cup Reset]
                   /\ \A x \in ResetTokens : reset[x] \in Reset => reset'[x] \in Reset
        <4>1. [state |-> "open", user |-> u] \in Reset
          BY DEF Reset
        <4>2. QED
          BY <1>2, <3>1, <4>1 DEF ForgotPassword, TypeOK
      <3>2. QED
        BY <1>2, <1>9, <3>1 DEF Outside, Register, Logout, TypeOK
    <2>5. TypeOK'
      BY <1>2, <2>1, <2>2, <2>3, <2>4 DEF TypeOK, history
    <2>6. \A s \in Requests : Grounded(s)'
      BY <1>3, <2>1, <2>3, <2>4, Kinds DEF Grounded
    <2>7. QED
      BY <2>5, <2>6 DEF TypeInv
  <1>10. QED
    BY <1>4, <1>5, <1>6, <1>7, <1>8, <1>9, NextCases DEF TypeInv

LEMMA TypeInvariant == Spec => []TypeInv
  <1>1. Init => TypeInv
    <2> SUFFICES ASSUME Init PROVE TypeInv
      OBVIOUS
    <2>1. \A u \in Users : account[u] \in Account
      <3>1. ASSUME NEW b \in BOOLEAN
            PROVE  [there |-> b, active |-> TRUE, admin |-> b, password |-> 0] \in Account
        BY SessionConstants DEF Account, Passwords
      <3>2. ASSUME NEW u \in Users PROVE account[u] \in Account
        <4> DEFINE b == u \in Founders
        <4>1. account[u] = [there |-> b, active |-> TRUE, admin |-> b, password |-> 0]
          BY DEF Init
        <4>2. b \in BOOLEAN
          OBVIOUS
        <4> HIDE DEF b
        <4>3. QED
          BY <3>1, <4>1, <4>2
      <3>3. QED
        BY <3>2
    <2>2. TypeOK
      BY <2>1 DEF Init, TypeOK
    <2>3. \A r \in Requests : Grounded(r)
      BY IdleKind DEF Init, Grounded
    <2>4. QED
      BY <2>2, <2>3 DEF TypeInv
  <1>2. QED
    BY <1>1, TypeStep, PTL DEF Spec

(* The accounts, tokens and handlers are always of their types: no handler *)
(* revokes, renews or consumes a row that is not there (AuthService).      *)
THEOREM SessionTypeCorrect == Spec => []TypeOK
  <1>1. TypeInv => TypeOK
    BY DEF TypeInv
  <1>2. QED
    BY <1>1, TypeInvariant, PTL

---------------------------------------------------------------------------
(* What each step changes of the accounts.                                 *)
Ruled(r) == LET v == request[r].target IN
  /\ request[r].pc = "admin" /\ v \in Users
  /\ \A u \in Users : /\ account'[u].password = account[u].password
                      /\ account'[u].there = account[u].there
                      /\ u # v => account'[u] = account[u]

LEMMA RuledBy ==
  ASSUME TypeOK, NEW r \in Requests, request[r].pc = "admin", NEW a \in Account,
         account' = [account EXCEPT ![request[r].target] = a],
         a.password = account[request[r].target].password,
         a.there = account[request[r].target].there
  PROVE  Ruled(r) /\ account'[request[r].target] = a
  <1>1. request[r].target \in Users
    BY Kinds DEF TypeOK, HandlerStates
  <1>2. QED
    BY <1>1, AccountWrite DEF Ruled

LEMMA Rulings ==
  ASSUME TypeOK, NEW r \in Requests
  PROVE  /\ Suspend(r) => Ruled(r)
         /\ Reactivate(r) => Ruled(r) /\ account'[request[r].target].active
                             /\ account'[request[r].target].admin = account[request[r].target].admin
         /\ \A b \in BOOLEAN : SetRoles(r, b) =>
              /\ Ruled(r) /\ account'[request[r].target].admin = b
              /\ account'[request[r].target].active = account[request[r].target].active
  <1> DEFINE v == request[r].target
             active(b) == [account[v] EXCEPT !.active = b]
             admin(b)  == [account[v] EXCEPT !.admin = b]
  <1>1. ASSUME request[r].pc = "admin"
        PROVE  /\ v \in Users
               /\ \A b \in BOOLEAN : /\ active(b) \in Account /\ active(b).password = account[v].password
                                     /\ active(b).there = account[v].there /\ active(b).active = b
                                     /\ active(b).admin = account[v].admin
                                     /\ admin(b) \in Account /\ admin(b).password = account[v].password
                                     /\ admin(b).there = account[v].there /\ admin(b).admin = b
                                     /\ admin(b).active = account[v].active
    <2>1. v \in Users
      BY <1>1, Kinds DEF TypeOK, HandlerStates
    <2>2. QED
      BY <2>1, AccountFields
  <1>2. ASSUME Suspend(r) PROVE Ruled(r)
    <2>1. request[r].pc = "admin"
      BY <1>2 DEF Suspend, At
    <2>2. account' = [account EXCEPT ![v] = active(FALSE)]
      BY <1>1, <1>2, <2>1 DEF Suspend, TypeOK
    <2>3. QED
      BY <1>1, <2>1, <2>2, RuledBy
  <1>3. ASSUME Reactivate(r)
        PROVE  Ruled(r) /\ account'[v].active /\ account'[v].admin = account[v].admin
    <2>1. request[r].pc = "admin"
      BY <1>3 DEF Reactivate, At
    <2>2. account' = [account EXCEPT ![v] = active(TRUE)]
      BY <1>1, <1>3, <2>1 DEF Reactivate, TypeOK
    <2>3. Ruled(r) /\ account'[v] = active(TRUE)
      BY <1>1, <2>1, <2>2, RuledBy
    <2>4. QED
      BY <1>1, <2>1, <2>3
  <1>4. ASSUME NEW b \in BOOLEAN, SetRoles(r, b)
        PROVE  Ruled(r) /\ account'[v].admin = b /\ account'[v].active = account[v].active
    <2>1. request[r].pc = "admin"
      BY <1>4 DEF SetRoles, At
    <2>2. account' = [account EXCEPT ![v] = admin(b)]
      BY <1>1, <1>4, <2>1 DEF SetRoles, TypeOK
    <2>3. Ruled(r) /\ account'[v] = admin(b)
      BY <1>1, <2>1, <2>2, RuledBy
    <2>4. QED
      BY <1>1, <2>1, <2>3
  <1>5. QED
    BY <1>2, <1>3, <1>4

(* The account and the handlers a reset changes.                           *)
LEMMA Resetting ==
  ASSUME TypeInv, NEW r \in Requests, ResetCommit(r)
  PROVE  LET k == request[r].key
             u == reset[k].user IN
         /\ k \in ResetTokens /\ u \in Users /\ reset[k] \in Reset
         /\ \A v \in Users : /\ account'[v].active = account[v].active
                             /\ account'[v].admin = account[v].admin
                             /\ account'[v].there = account[v].there
                             /\ v # u => account'[v].password = account[v].password
         /\ reset'[k].state = "consumed" /\ spent'[k] = spent[k] + 1
         /\ \A x \in ResetTokens \ {k} : reset'[x] = reset[x] /\ spent'[x] = spent[x]
         /\ \A t \in RefreshTokens :
              /\ token[t].state # "live" => token'[t] = token[t]
              /\ token'[t].state = "live" => token'[t] = token[t] /\ token[t].user # u
         /\ UNCHANGED <<exchanged, contested, late>>
  <1> DEFINE k == request[r].key
             u == reset[k].user
             a == [account[u] EXCEPT !.password = account[u].password + 1]
  <1>1. k \in ResetTokens /\ reset[k] \in Reset /\ u \in Users
    BY Kinds, RowShape DEF ResetCommit, At, Grounded, TypeInv, TypeOK, HandlerStates
  <1>2. account' = [account EXCEPT ![u] = a]
    BY <1>1 DEF ResetCommit, TypeInv, TypeOK
  <1>3. /\ a.active = account[u].active /\ a.admin = account[u].admin /\ a.there = account[u].there
    BY <1>1 DEF TypeInv, TypeOK, Account
  <1>4. \A v \in Users : account'[v] = IF v = u THEN a ELSE account[v]
    BY <1>1, <1>2 DEF TypeInv, TypeOK
  <1>5. reset'[k].state = "consumed" /\ \A x \in ResetTokens \ {k} : reset'[x] = reset[x]
    <2>1. reset' = [reset EXCEPT ![k] = [reset[k] EXCEPT !.state = "consumed"]]
      BY <1>1 DEF ResetCommit, TypeInv, TypeOK
    <2>2. [reset[k] EXCEPT !.state = "consumed"].state = "consumed"
      BY <1>1 DEF Reset
    <2>3. QED
      BY <1>1, <2>1, <2>2 DEF TypeInv, TypeOK
  <1>6. spent'[k] = spent[k] + 1 /\ \A x \in ResetTokens \ {k} : spent'[x] = spent[x]
    BY <1>1 DEF ResetCommit, TypeInv, TypeOK
  <1>7. ASSUME NEW t \in RefreshTokens
        PROVE  /\ token[t].state # "live" => token'[t] = token[t]
               /\ token'[t].state = "live" => token'[t] = token[t] /\ token[t].user # u
    <2>1. token[t].state = "live" => Revoked(token[t]).state = "revoked"
      BY RowShape, Revoking DEF TypeInv
    <2>2. token'[t] = IF token[t].state = "live" /\ token[t].user = u THEN Revoked(token[t]) ELSE token[t]
      BY DEF ResetCommit
    <2>3. QED
      BY <2>1, <2>2
  <1>8. UNCHANGED <<exchanged, contested, late>>
    BY DEF ResetCommit
  <1> HIDE DEF a
  <1>9. QED
    BY <1>1, <1>3, <1>4, <1>5, <1>6, <1>7, <1>8

---------------------------------------------------------------------------
(* A live token, and a handler about to issue one, hold the password of    *)
(* their user, or descend from a handler that a reset overtook.            *)
Fresh(t) == token[t].state = "live" => \/ token[t].password = account[token[t].user].password
                                       \/ t \in late
Bound(r) == request[r].pc \in {"issue", "refresh"} =>
              \/ request[r].overtaken \/ request[r].from \in late
              \/ request[r].password = account[request[r].user].password
PasswordInv == (\A t \in RefreshTokens : Fresh(t)) /\ (\A r \in Requests : Bound(r))

LEMMA PasswordFrame ==
  ASSUME TypeInv, TypeInv', PasswordInv, late \subseteq late',
         \A u \in Users : account'[u].password = account[u].password,
         \A t \in RefreshTokens : token'[t] = token[t] \/ Fresh(t)',
         \A s \in Requests : Kept(request[s], request'[s]) \/ Bound(s)'
  PROVE  PasswordInv'
  <1>1. ASSUME NEW t \in RefreshTokens PROVE Fresh(t)'
    <2>1. token[t].state = "live" => token[t].user \in Users
      BY RowShape DEF TypeInv
    <2>2. QED
      BY <2>1 DEF PasswordInv, Fresh
  <1>2. ASSUME NEW s \in Requests, Kept(request[s], request'[s]) PROVE Bound(s)'
    <2>1. request[s] \in HandlerStates /\ Bound(s)
      BY DEF TypeInv, TypeOK, HandlerStates, PasswordInv
    <2>2. CASE request'[s] = request[s]
      BY <2>1, <2>2, Kinds DEF Bound
    <2>3. CASE request'[s] # request[s]
      <3>1. request'[s] \in HandlerStates
        BY DEF TypeInv, TypeOK, HandlerStates
      <3>2. QED
        BY <1>2, <2>1, <2>3, <3>1, Kinds DEF Bound, Kept
    <2>4. QED
      BY <2>2, <2>3
  <1>3. QED
    BY <1>1, <1>2 DEF PasswordInv

LEMMA PasswordStep ==
  ASSUME TypeInv, TypeInv', PasswordInv, [Next]_vars
  PROVE  PasswordInv'
  <1>1. TypeOK /\ \A s \in Requests : request[s] \in HandlerStates /\ Grounded(s) /\ Bound(s)
    BY DEF TypeInv, TypeOK, HandlerStates, PasswordInv
  <1>2. CASE UNCHANGED vars
    BY <1>2, PasswordFrame DEF vars, rows, history, Kept
  <1>3. CASE Outside
    <2>1. \A u \in Users : account'[u].password = account[u].password
      BY <1>1, <1>3, Registering DEF Outside, Logout, ForgotPassword, Same
    <2>2. ASSUME NEW t \in RefreshTokens PROVE token'[t] = token[t] \/ Fresh(t)'
      <3>1. CASE Logout(t)
        <4>1. token' = [token EXCEPT ![t] = Revoked(token[t])] /\ Revoked(token[t]).state = "revoked"
          BY <1>1, <3>1, RowShape, Revoking DEF Logout
        <4>2. QED
          BY <1>1, <4>1 DEF Fresh, TypeOK
      <3>2. ASSUME NEW x \in RefreshTokens, x # t, Logout(x) PROVE token'[t] = token[t]
        BY <3>2 DEF Logout, TypeInv, TypeOK
      <3>3. QED
        BY <1>3, <3>1, <3>2 DEF Outside, Register, ForgotPassword
    <2>3. UNCHANGED <<request, late>>
      BY <1>3 DEF Outside, Register, Logout, ForgotPassword, history
    <2>4. QED
      BY <2>1, <2>2, <2>3, PasswordFrame DEF Kept
  <1>4. ASSUME NEW r \in Requests, Opens(r) PROVE PasswordInv'
    <2>1. UNCHANGED <<account, token, late>> /\ Opened(r) /\ \A s \in Requests \ {r} : request'[s] = request[s]
      BY <1>1, <1>4, Opening DEF rows
    <2>2. Bound(r)'
      BY <2>1 DEF Bound, Opened, PasswordInv, Fresh
    <2>3. QED
      BY <2>1, <2>2, PasswordFrame DEF Kept
  <1>5. ASSUME NEW r \in Requests, RefreshRevoke(r) PROVE PasswordInv'
    <2> DEFINE t == request[r].from
    <2>1. /\ request[r].pc = "refresh" /\ t \in RefreshTokens /\ token[t] \in Refresh
          /\ request'[r].user = request[r].user /\ request'[r].from = t
          /\ request'[r].password = request[r].password
          /\ request'[r].overtaken = request[r].overtaken
          /\ \A s \in Requests \ {r} : request'[s] = request[s]
      BY <1>1, <1>5, AfterIssue, Kinds DEF RefreshRevoke, At, Grounded
    <2>2. /\ token' = [token EXCEPT ![t] = Revoked(token[t])] /\ Revoked(token[t]).state = "revoked"
          /\ UNCHANGED <<account, late>>
      BY <1>1, <1>5, <2>1, Revoking DEF RefreshRevoke
    <2>3. Bound(r)'
      BY <1>1, <2>1, <2>2 DEF Bound
    <2>4. \A x \in RefreshTokens : token'[x] = token[x] \/ Fresh(x)'
      BY <1>1, <2>1, <2>2 DEF Fresh, TypeOK
    <2>5. QED
      BY <2>1, <2>2, <2>3, <2>4, PasswordFrame DEF Kept
  <1>6. ASSUME NEW r \in Requests, Ends(r) PROVE PasswordInv'
    <2>1. request'[r] = Idle /\ \A s \in Requests \ {r} : request'[s] = request[s]
      BY <1>1, <1>6, AfterWrite, IdleKind DEF Ends, IssueTokenPair, Reactivate, Die, Finish
    <2>2. \A u \in Users : account'[u].password = account[u].password
      BY <1>1, <1>6, Rulings DEF Ends, IssueTokenPair, Die, rows, Ruled
    <2>3. ASSUME NEW t \in RefreshTokens, IssueTokenPair(r, t)
          PROVE  late \subseteq late' /\ \A x \in RefreshTokens : token'[x] = token[x] \/ Fresh(x)'
      <3>1. /\ token' = [token EXCEPT ![t] = [state |-> "live", user |-> request[r].user,
                                              password |-> request[r].password]]
            /\ late' = IF request[r].overtaken \/ request[r].from \in late THEN late \cup {t} ELSE late
            /\ request[r].pc = "issue" /\ account' = account
        BY <2>3 DEF IssueTokenPair, At
      <3>2. /\ token'[t].password = request[r].password /\ token'[t].user = request[r].user
            /\ \A x \in RefreshTokens \ {t} : token'[x] = token[x]
        BY <1>1, <3>1 DEF TypeOK
      <3>3. Fresh(t)'
        BY <1>1, <3>1, <3>2 DEF Bound, Fresh
      <3>4. QED
        BY <3>1, <3>2, <3>3
    <2>4. late \subseteq late' /\ \A x \in RefreshTokens : token'[x] = token[x] \/ Fresh(x)'
      BY <1>6, <2>3 DEF Ends, Reactivate, Die, rows, history
    <2>5. Bound(r)'
      BY <2>1, IdleKind DEF Bound
    <2>6. QED
      BY <2>1, <2>2, <2>4, <2>5, PasswordFrame DEF Kept
  <1>7. ASSUME NEW r \in Requests, ResetCommit(r) PROVE PasswordInv'
    <2> DEFINE u == reset[request[r].key].user
    <2>1. /\ u \in Users /\ \A v \in Users : v # u => account'[v].password = account[v].password
          /\ \A t \in RefreshTokens : token'[t].state = "live" => token'[t] = token[t] /\ token[t].user # u
          /\ late' = late
      BY <1>7, Resetting
    <2>2. /\ request'[r] = Idle
          /\ \A s \in Requests \ {r} :
               /\ Kept(request[s], request'[s])
               /\ (request[s].pc \in {"issue", "refresh"} /\ request[s].user = u) => request'[s].overtaken
      BY <1>1, <1>7, AfterOvertake DEF ResetCommit
    <2> HIDE DEF u
    <2>3. ASSUME NEW t \in RefreshTokens PROVE Fresh(t)'
      <3>1. token[t].state = "live" => token[t].user \in Users
        BY <1>1, RowShape
      <3>2. QED
        BY <2>1, <3>1 DEF Fresh, PasswordInv
    <2>4. ASSUME NEW s \in Requests \ {r} PROVE Bound(s)'
      <3>1. request'[s] \in HandlerStates /\ request[s] \in HandlerStates
        BY <1>1 DEF TypeInv, TypeOK, HandlerStates
      <3>2. request'[s].pc \in {"issue", "refresh"} =>
              /\ request[s].pc \in {"issue", "refresh"} /\ request'[s].user = request[s].user
              /\ request'[s].from = request[s].from /\ request'[s].password = request[s].password
              /\ request[s].overtaken => request'[s].overtaken
              /\ request[s].user \in Users
        BY <2>2, <3>1, Kinds DEF Kept
      <3>3. QED
        BY <1>1, <2>1, <2>2, <3>2 DEF Bound
    <2>5. Bound(r)'
      BY <2>2, IdleKind DEF Bound
    <2>6. QED
      BY <2>3, <2>4, <2>5 DEF PasswordInv
  <1>8. ASSUME NEW r \in Requests, Suspend(r) \/ \E admin \in BOOLEAN : SetRoles(r, admin) PROVE PasswordInv'
    <2>1. \A u \in Users : account'[u].password = account[u].password
      BY <1>1, <1>8, Rulings DEF Ruled
    <2>2. UNCHANGED <<token, late>>
      BY <1>8 DEF Suspend, SetRoles, history
    <2>3. request'[r] = Idle /\ \A s \in Requests \ {r} : Kept(request[s], request'[s])
      <3>1. CASE Suspend(r)
        BY <1>1, <3>1, AfterDemote DEF Suspend
      <3>2. ASSUME NEW admin \in BOOLEAN, SetRoles(r, admin)
            PROVE  request'[r] = Idle /\ \A s \in Requests \ {r} : Kept(request[s], request'[s])
        <4>1. CASE admin
          BY <1>1, <3>2, <4>1, AfterWrite, IdleKind DEF SetRoles, Kept
        <4>2. CASE ~admin
          BY <1>1, <3>2, <4>2, AfterDemote DEF SetRoles
        <4>3. QED
          BY <4>1, <4>2
      <3>3. QED
        BY <1>8, <3>1, <3>2
    <2>4. Bound(r)'
      BY <2>3, IdleKind DEF Bound
    <2>5. QED
      BY <2>1, <2>2, <2>3, <2>4, PasswordFrame
  <1>9. QED
    BY <1>2, <1>3, <1>4, <1>5, <1>6, <1>7, <1>8, NextCases DEF Marking

LEMMA PasswordInvariant == Spec => []PasswordInv
  <1>1. Init => PasswordInv
    <2> SUFFICES ASSUME Init PROVE PasswordInv
      OBVIOUS
    <2>1. /\ \A r \in Requests : request[r].pc = "idle"
          /\ \A t \in RefreshTokens : token[t].state = "none"
      BY IdleKind DEF Init, Nobody
    <2>2. QED
      BY <2>1 DEF PasswordInv, Fresh, Bound
  <1>2. QED
    BY <1>1, PasswordStep, TypeInvariant, PTL DEF Spec

---------------------------------------------------------------------------
(* A token nobody contested is in the hands of one handler at most, and    *)
(* once used it is out of everyone's hands and no longer live.             *)
Exchanges(r, t) == request[r].pc = "refresh" /\ request[r].from = t
Sets(r, k)      == request[r].pc = "reset" /\ request[r].key = k

Exchanged(t) ==
  t \notin contested =>
    /\ \A r, s \in Requests : Exchanges(r, t) /\ Exchanges(s, t) => r = s
    /\ exchanged[t] # 0 => /\ exchanged[t] = 1 /\ token[t].state = "revoked"
                           /\ \A r \in Requests : ~Exchanges(r, t)
Spent(k) ==
  k \notin contested =>
    /\ \A r, s \in Requests : Sets(r, k) /\ Sets(s, k) => r = s
    /\ spent[k] # 0 => /\ spent[k] = 1 /\ reset[k].state = "consumed"
                       /\ \A r \in Requests : ~Sets(r, k)
OnceInv == (\A t \in RefreshTokens : Exchanged(t)) /\ (\A k \in ResetTokens : Spent(k))

(* Nobody takes the token up, and it is not used.                          *)
LEMMA ExchangedFrame ==
  ASSUME NEW t \in RefreshTokens, Exchanged(t), contested \subseteq contested',
         exchanged'[t] = exchanged[t], token[t].state = "revoked" => token'[t].state = "revoked",
         \A s \in Requests : Exchanges(s, t)' => Exchanges(s, t)
  PROVE  Exchanged(t)'
  BY DEF Exchanged

LEMMA SpentFrame ==
  ASSUME NEW k \in ResetTokens, Spent(k), contested \subseteq contested',
         spent'[k] = spent[k], reset[k].state = "consumed" => reset'[k].state = "consumed",
         \A s \in Requests : Sets(s, k)' => Sets(s, k)
  PROVE  Spent(k)'
  BY DEF Spent

LEMMA KeptHands ==
  ASSUME TypeInv, TypeInv', NEW s \in Requests, Kept(request[s], request'[s])
  PROVE  /\ \A t \in RefreshTokens : Exchanges(s, t)' <=> Exchanges(s, t)
         /\ \A k \in ResetTokens : Sets(s, k)' <=> Sets(s, k)
  <1>1. request[s] \in HandlerStates /\ request'[s] \in HandlerStates
    BY DEF TypeInv, TypeOK, HandlerStates
  <1>2. CASE request'[s] = request[s]
    BY <1>2 DEF Exchanges, Sets
  <1>3. CASE request'[s] # request[s]
    BY <1>1, <1>3, Kinds DEF Exchanges, Sets, Kept
  <1>4. QED
    BY <1>2, <1>3

LEMMA OnceFrame ==
  ASSUME TypeInv, TypeInv', OnceInv, contested \subseteq contested', UNCHANGED <<exchanged, spent>>,
         \A t \in RefreshTokens : token[t].state = "revoked" => token'[t].state = "revoked",
         \A k \in ResetTokens : reset[k].state = "consumed" => reset'[k].state = "consumed",
         \A s \in Requests : Kept(request[s], request'[s]) \/ request'[s].pc \notin {"refresh", "reset"}
  PROVE  OnceInv'
  <1>1. ASSUME NEW s \in Requests
        PROVE  /\ \A t \in RefreshTokens : Exchanges(s, t)' => Exchanges(s, t)
               /\ \A k \in ResetTokens : Sets(s, k)' => Sets(s, k)
    BY KeptHands DEF Exchanges, Sets
  <1>2. \A t \in RefreshTokens : Exchanged(t)'
    BY <1>1, ExchangedFrame DEF OnceInv
  <1>3. \A k \in ResetTokens : Spent(k)'
    BY <1>1, SpentFrame DEF OnceInv
  <1>4. QED
    BY <1>2, <1>3 DEF OnceInv

LEMMA OnceStep ==
  ASSUME TypeInv, TypeInv', OnceInv, [Next]_vars
  PROVE  OnceInv'
  <1>1. TypeOK /\ \A s \in Requests : request[s] \in HandlerStates /\ Grounded(s)
    BY DEF TypeInv, TypeOK, HandlerStates
  <1>2. CASE UNCHANGED vars
    BY <1>2, OnceFrame DEF vars, rows, history, Kept
  <1>3. CASE Outside
    <2>1. UNCHANGED <<request, history>>
      BY <1>3 DEF Outside, Register, Logout, ForgotPassword
    <2>2. ASSUME NEW t \in RefreshTokens, token[t].state = "revoked" PROVE token'[t].state = "revoked"
      <3>1. ASSUME NEW x \in RefreshTokens, Logout(x) PROVE token'[t] = token[t]
        BY <1>1, <2>2, <3>1 DEF Logout, TypeOK
      <3>2. QED
        BY <1>3, <2>2, <3>1 DEF Outside, Register, ForgotPassword
    <2>3. ASSUME NEW k \in ResetTokens, reset[k].state = "consumed" PROVE reset'[k].state = "consumed"
      <3>1. ASSUME NEW x \in ResetTokens, NEW u \in Users, ForgotPassword(x, u) PROVE reset'[k] = reset[k]
        BY <1>1, <2>3, <3>1, RowShape DEF ForgotPassword, TypeOK
      <3>2. QED
        BY <1>3, <2>3, <3>1 DEF Outside, Register, Logout
    <2>4. QED
      BY <2>1, <2>2, <2>3, OnceFrame DEF Kept, history
  <1>4. ASSUME NEW r \in Requests, Opens(r) PROVE OnceInv'
    <2>1. /\ request[r].pc = "idle" /\ UNCHANGED <<token, reset, exchanged, spent>> /\ Opened(r)
          /\ contested \subseteq contested'
          /\ \A s \in Requests \ {r} : request'[s] = request[s]
      BY <1>1, <1>4, Opening, IdleKind DEF rows
    <2>2. CASE request'[r].pc \notin {"refresh", "reset"}
      BY <2>1, <2>2, OnceFrame DEF Kept
    <2>3. ASSUME NEW t \in RefreshTokens, token[t].state = "live", Contest(t),
                 request'[r].pc = "refresh", request'[r].from = t
          PROVE  OnceInv'
      <3>1. ASSUME NEW x \in RefreshTokens PROVE Exchanged(x)'
        <4>1. CASE x # t
          <5>1. \A s \in Requests : Exchanges(s, x)' => Exchanges(s, x)
            BY <2>1, <2>3, <4>1 DEF Exchanges
          <5>2. QED
            BY <2>1, <5>1, ExchangedFrame DEF OnceInv
        <4>2. CASE x = t /\ t \notin contested'
          <5>1. \A s \in Requests : ~Exchanges(s, t)
            BY <2>3, <4>2 DEF Contest, Uses, Exchanges
          <5>2. \A s \in Requests : Exchanges(s, t)' => s = r
            BY <2>1, <5>1 DEF Exchanges
          <5>3. exchanged[t] = 0
            BY <2>1, <2>3, <4>2 DEF OnceInv, Exchanged
          <5>4. QED
            BY <2>1, <4>2, <5>2, <5>3 DEF Exchanged
        <4>3. CASE x = t /\ t \in contested'
          BY <4>3 DEF Exchanged
        <4>4. QED
          BY <4>1, <4>2, <4>3
      <3>2. ASSUME NEW k \in ResetTokens PROVE Spent(k)'
        <4>1. \A s \in Requests : Sets(s, k)' => Sets(s, k)
          BY <2>1, <2>3 DEF Sets
        <4>2. QED
          BY <2>1, <4>1, SpentFrame DEF OnceInv
      <3>3. QED
        BY <3>1, <3>2 DEF OnceInv
    <2>4. ASSUME NEW k \in ResetTokens, reset[k].state = "open", Contest(k),
                 request'[r].pc = "reset", request'[r].key = k
          PROVE  OnceInv'
      <3>1. ASSUME NEW x \in ResetTokens PROVE Spent(x)'
        <4>1. CASE x # k
          <5>1. \A s \in Requests : Sets(s, x)' => Sets(s, x)
            BY <2>1, <2>4, <4>1 DEF Sets
          <5>2. QED
            BY <2>1, <5>1, SpentFrame DEF OnceInv
        <4>2. CASE x = k /\ k \notin contested'
          <5>1. \A s \in Requests : ~Sets(s, k)
            BY <2>4, <4>2 DEF Contest, Uses, Sets
          <5>2. \A s \in Requests : Sets(s, k)' => s = r
            BY <2>1, <5>1 DEF Sets
          <5>3. spent[k] = 0
            BY <2>1, <2>4, <4>2 DEF OnceInv, Spent
          <5>4. QED
            BY <2>1, <4>2, <5>2, <5>3 DEF Spent
        <4>3. CASE x = k /\ k \in contested'
          BY <4>3 DEF Spent
        <4>4. QED
          BY <4>1, <4>2, <4>3
      <3>2. ASSUME NEW t \in RefreshTokens PROVE Exchanged(t)'
        <4>1. \A s \in Requests : Exchanges(s, t)' => Exchanges(s, t)
          BY <2>1, <2>4 DEF Exchanges
        <4>2. QED
          BY <2>1, <4>1, ExchangedFrame DEF OnceInv
      <3>3. QED
        BY <3>1, <3>2 DEF OnceInv
    <2>5. QED
      BY <2>1, <2>2, <2>3, <2>4 DEF Opened
  <1>5. ASSUME NEW r \in Requests, RefreshRevoke(r) PROVE OnceInv'
    <2> DEFINE t == request[r].from
    <2>1. /\ request[r].pc = "refresh" /\ t \in RefreshTokens /\ token[t] \in Refresh
          /\ request'[r] \in Issuing /\ request'[r] \in HandlerStates
          /\ \A s \in Requests \ {r} : request'[s] = request[s]
      BY <1>1, <1>5, AfterIssue, Kinds DEF RefreshRevoke, At, Grounded, HandlerStates
    <2>2. /\ token' = [token EXCEPT ![t] = Revoked(token[t])] /\ Revoked(token[t]).state = "revoked"
          /\ exchanged' = [exchanged EXCEPT ![t] = exchanged[t] + 1]
          /\ UNCHANGED <<reset, spent, contested>>
      BY <1>1, <1>5, <2>1, Revoking DEF RefreshRevoke, TypeOK
    <2>3. /\ token'[t].state = "revoked" /\ exchanged'[t] = exchanged[t] + 1
          /\ \A x \in RefreshTokens \ {t} : token'[x] = token[x] /\ exchanged'[x] = exchanged[x]
      BY <1>1, <2>1, <2>2 DEF TypeOK
    <2>4. ASSUME NEW s \in Requests
          PROVE  /\ \A x \in RefreshTokens : Exchanges(s, x)' <=> Exchanges(s, x) /\ s # r
                 /\ \A k \in ResetTokens : Sets(s, k)' => Sets(s, k)
      BY <2>1, Kinds DEF Exchanges, Sets
    <2>5. ASSUME NEW x \in RefreshTokens PROVE Exchanged(x)'
      <3>1. CASE x # t
        BY <2>2, <2>3, <2>4, <3>1, ExchangedFrame DEF OnceInv
      <3>2. CASE x = t /\ t \notin contested
        <4>1. Exchanges(r, t)
          BY <2>1 DEF Exchanges
        <4>2. exchanged[t] = 0 /\ \A s \in Requests : Exchanges(s, t) => s = r
          BY <2>1, <3>2, <4>1 DEF OnceInv, Exchanged
        <4>3. QED
          BY <2>1, <2>2, <2>3, <2>4, <3>2, <4>2 DEF Exchanged
      <3>3. CASE x = t /\ t \in contested
        BY <2>2, <3>3 DEF Exchanged
      <3>4. QED
        BY <3>1, <3>2, <3>3
    <2>6. \A k \in ResetTokens : Spent(k)'
      BY <2>2, <2>4, SpentFrame DEF OnceInv
    <2>7. QED
      BY <2>5, <2>6 DEF OnceInv
  <1>6. ASSUME NEW r \in Requests, Ends(r) PROVE OnceInv'
    <2>1. request'[r] = Idle /\ \A s \in Requests \ {r} : request'[s] = request[s]
      BY <1>1, <1>6, AfterWrite, IdleKind DEF Ends, IssueTokenPair, Reactivate, Die, Finish
    <2>2. UNCHANGED <<reset, exchanged, spent, contested>>
      BY <1>6 DEF Ends, IssueTokenPair, Reactivate, Die, rows, history
    <2>3. \A t \in RefreshTokens : token[t].state = "revoked" => token'[t].state = "revoked"
      BY <1>1, <1>6, RowShape DEF Ends, IssueTokenPair, Reactivate, Die, rows, TypeOK
    <2>4. QED
      BY <2>1, <2>2, <2>3, IdleKind, OnceFrame DEF Kept
  <1>7. ASSUME NEW r \in Requests, ResetCommit(r) PROVE OnceInv'
    <2> DEFINE k == request[r].key
    <2>1. /\ k \in ResetTokens /\ reset'[k].state = "consumed" /\ spent'[k] = spent[k] + 1
          /\ \A x \in ResetTokens \ {k} : reset'[x] = reset[x] /\ spent'[x] = spent[x]
          /\ \A t \in RefreshTokens : token[t].state # "live" => token'[t] = token[t]
          /\ UNCHANGED <<exchanged, contested>> /\ Sets(r, k)
      BY <1>7, Resetting DEF Sets, ResetCommit, At
    <2>2. request'[r] = Idle /\ \A s \in Requests \ {r} : Kept(request[s], request'[s])
      BY <1>1, <1>7, AfterOvertake DEF ResetCommit
    <2>3. ASSUME NEW s \in Requests
          PROVE  /\ \A t \in RefreshTokens : Exchanges(s, t)' => Exchanges(s, t)
                 /\ \A x \in ResetTokens : Sets(s, x)' => Sets(s, x) /\ s # r
      BY <2>2, IdleKind, KeptHands DEF Exchanges, Sets
    <2> HIDE DEF k
    <2>4. \A t \in RefreshTokens : Exchanged(t)'
      BY <2>1, <2>3, ExchangedFrame DEF OnceInv
    <2>5. ASSUME NEW x \in ResetTokens PROVE Spent(x)'
      <3>1. CASE x # k
        BY <2>1, <2>3, <3>1, SpentFrame DEF OnceInv
      <3>2. CASE x = k /\ k \notin contested
        <4>1. spent[k] = 0 /\ \A s \in Requests : Sets(s, k) => s = r
          BY <2>1, <3>2 DEF OnceInv, Spent
        <4>2. QED
          BY <2>1, <2>3, <3>2, <4>1 DEF Spent
      <3>3. CASE x = k /\ k \in contested
        BY <2>1, <3>3 DEF Spent
      <3>4. QED
        BY <3>1, <3>2, <3>3
    <2>6. QED
      BY <2>4, <2>5 DEF OnceInv
  <1>8. ASSUME NEW r \in Requests, Suspend(r) \/ \E admin \in BOOLEAN : SetRoles(r, admin) PROVE OnceInv'
    <2>1. UNCHANGED <<token, reset, exchanged, spent, contested>>
      BY <1>8 DEF Suspend, SetRoles, history
    <2>2. request'[r] = Idle /\ \A s \in Requests \ {r} : Kept(request[s], request'[s])
      <3>1. CASE Suspend(r)
        BY <1>1, <3>1, AfterDemote DEF Suspend
      <3>2. ASSUME NEW admin \in BOOLEAN, SetRoles(r, admin)
            PROVE  request'[r] = Idle /\ \A s \in Requests \ {r} : Kept(request[s], request'[s])
        <4>1. CASE admin
          BY <1>1, <3>2, <4>1, AfterWrite, IdleKind DEF SetRoles, Kept
        <4>2. CASE ~admin
          BY <1>1, <3>2, <4>2, AfterDemote DEF SetRoles
        <4>3. QED
          BY <4>1, <4>2
      <3>3. QED
        BY <1>8, <3>1, <3>2
    <2>3. QED
      BY <2>1, <2>2, IdleKind, OnceFrame
  <1>9. QED
    BY <1>2, <1>3, <1>4, <1>5, <1>6, <1>7, <1>8, NextCases DEF Marking

LEMMA OnceInvariant == Spec => []OnceInv
  <1>1. Init => OnceInv
    <2> SUFFICES ASSUME Init PROVE OnceInv
      OBVIOUS
    <2>1. \A r \in Requests : request[r].pc = "idle"
      BY IdleKind DEF Init
    <2>2. QED
      BY <2>1 DEF Init, OnceInv, Exchanged, Spent, Exchanges, Sets
  <1>2. QED
    BY <1>1, OnceStep, TypeInvariant, PTL DEF Spec

(* A live token holds its user's password unless its line of descent was   *)
(* overtaken by a reset, and no token is used twice but by handlers that   *)
(* held it at the same time (resetPassword, refresh, issueTokenPair).      *)
THEOREM TokensAlwaysSound == Spec => []TokensSound
  <1>1. ASSUME TypeOK, PasswordInv, OnceInv PROVE TokensSound
    <2>1. ResetEndsSessions
      BY <1>1 DEF ResetEndsSessions, PasswordInv, Fresh
    <2>2. TokensUsedOnce
      <3>1. ASSUME NEW t \in RefreshTokens, exchanged[t] > 1 PROVE t \in contested
        BY <1>1, <3>1 DEF OnceInv, Exchanged, TypeOK
      <3>2. ASSUME NEW k \in ResetTokens, spent[k] > 1 PROVE k \in contested
        BY <1>1, <3>2 DEF OnceInv, Spent, TypeOK
      <3>3. QED
        BY <3>1, <3>2 DEF TokensUsedOnce
    <2>3. QED
      BY <2>1, <2>2 DEF TokensSound
  <1>2. QED
    BY <1>1, SessionTypeCorrect, PasswordInvariant, OnceInvariant, PTL

---------------------------------------------------------------------------
(* A handler that is not stale acts for a user who is still active, and an *)
(* administrator's for one who is still an active administrator.           *)
Sure(r) == /\ request[r].pc \in {"issue", "refresh"} =>
                request[r].stale \/ account[request[r].user].active
           /\ request[r].pc = "admin" => request[r].stale \/ Authorised(request[r].user)
SureInv == \A r \in Requests : Sure(r)

(* The rights a user keeps.                                                *)
Stands(u) == /\ account[u].active => account'[u].active
             /\ Authorised(u) => account'[u].there /\ account'[u].active /\ account'[u].admin

LEMMA SureFrame ==
  ASSUME TypeInv, TypeInv', NEW s \in Requests, Sure(s), Kept(request[s], request'[s]),
         \/ request'[s].pc \notin {"issue", "refresh", "admin"}
         \/ request[s].pc \in {"issue", "refresh", "admin"}
              /\ (request'[s].stale \/ Stands(request[s].user))
  PROVE  Sure(s)'
  <1>1. request[s] \in HandlerStates /\ request'[s] \in HandlerStates
    BY DEF TypeInv, TypeOK, HandlerStates
  <1>2. CASE request'[s].pc \notin {"issue", "refresh", "admin"}
    BY <1>2 DEF Sure
  <1>3. CASE request'[s] = request[s] /\ (request'[s].stale \/ Stands(request[s].user))
    BY <1>3 DEF Sure, Stands, Authorised
  <1>4. CASE request'[s] # request[s] /\ (request'[s].stale \/ Stands(request[s].user))
    <2>1. /\ request'[s].pc = request[s].pc /\ request'[s].user = request[s].user
          /\ request[s].stale => request'[s].stale
      BY <1>1, <1>4, Kinds DEF Kept
    <2>2. QED
      BY <1>4, <2>1 DEF Sure, Stands, Authorised
  <1>5. QED
    BY <1>2, <1>3, <1>4

LEMMA SureStands ==
  ASSUME TypeInv, TypeInv', SureInv, \A u \in Users : Stands(u),
         \A s \in Requests : Kept(request[s], request'[s]) \/ Sure(s)'
  PROVE  SureInv'
  <1>1. ASSUME NEW s \in Requests, Kept(request[s], request'[s]) PROVE Sure(s)'
    <2>1. request[s] \in HandlerStates /\ request'[s] \in HandlerStates
      BY DEF TypeInv, TypeOK, HandlerStates
    <2>2. request'[s].pc = request[s].pc
      BY <1>1, <2>1, Kinds DEF Kept
    <2>3. request[s].pc \in {"issue", "refresh", "admin"} => request[s].user \in Users
      BY <2>1, Kinds
    <2>4. QED
      BY <1>1, <2>2, <2>3, SureFrame DEF SureInv
  <1>2. QED
    BY <1>1 DEF SureInv

LEMMA SureStep ==
  ASSUME TypeInv, TypeInv', SureInv, [Next]_vars
  PROVE  SureInv'
  <1>1. TypeOK /\ \A s \in Requests : request[s] \in HandlerStates /\ Grounded(s) /\ Sure(s)
    BY DEF TypeInv, TypeOK, HandlerStates, SureInv
  <1>2. CASE UNCHANGED vars
    BY <1>2, SureStands DEF vars, rows, history, Kept, Stands, Authorised
  <1>3. CASE Outside
    <2>1. \A u \in Users : Stands(u)
      BY <1>1, <1>3, Registering DEF Outside, Logout, ForgotPassword, Stands, Authorised, Same
    <2>2. UNCHANGED request
      BY <1>3 DEF Outside, Register, Logout, ForgotPassword
    <2>3. QED
      BY <2>1, <2>2, SureStands DEF Kept
  <1>4. ASSUME NEW r \in Requests, Opens(r) PROVE SureInv'
    <2>1. UNCHANGED account /\ Opened(r) /\ \A s \in Requests \ {r} : request'[s] = request[s]
      BY <1>1, <1>4, Opening DEF rows
    <2>2. Sure(r)'
      BY <2>1 DEF Sure, Opened, Authorised
    <2>3. QED
      BY <2>1, <2>2, SureStands DEF Kept, Stands, Authorised
  <1>5. ASSUME NEW r \in Requests, RefreshRevoke(r) PROVE SureInv'
    <2>1. /\ request[r].pc = "refresh" /\ request'[r] \in Issuing /\ request'[r] \in HandlerStates
          /\ request'[r].user = request[r].user /\ request'[r].stale = request[r].stale
          /\ \A s \in Requests \ {r} : request'[s] = request[s]
          /\ UNCHANGED account
      BY <1>1, <1>5, AfterIssue DEF RefreshRevoke, At, HandlerStates
    <2>2. Sure(r)'
      BY <1>1, <2>1, Kinds DEF Sure
    <2>3. QED
      BY <2>1, <2>2, SureStands DEF Kept, Stands, Authorised
  <1>6. ASSUME NEW r \in Requests, Ends(r) PROVE SureInv'
    <2>1. request'[r] = Idle /\ \A s \in Requests \ {r} : request'[s] = request[s]
      BY <1>1, <1>6, AfterWrite, IdleKind DEF Ends, IssueTokenPair, Reactivate, Die, Finish
    <2>2. ASSUME NEW u \in Users PROVE Stands(u)
      <3>1. CASE Reactivate(r)
        BY <1>1, <3>1, Rulings DEF Ruled, Stands, Authorised
      <3>2. CASE UNCHANGED account
        BY <3>2 DEF Stands, Authorised
      <3>3. QED
        BY <1>6, <3>1, <3>2 DEF Ends, IssueTokenPair, Die, rows
    <2>3. Sure(r)'
      BY <2>1, IdleKind DEF Sure
    <2>4. QED
      BY <2>1, <2>2, <2>3, SureStands DEF Kept
  <1>7. ASSUME NEW r \in Requests, ResetCommit(r) PROVE SureInv'
    <2>1. \A u \in Users : Stands(u)
      BY <1>7, Resetting DEF Stands, Authorised
    <2>2. request'[r] = Idle /\ \A s \in Requests \ {r} : Kept(request[s], request'[s])
      BY <1>1, <1>7, AfterOvertake DEF ResetCommit
    <2>3. Sure(r)'
      BY <2>2, IdleKind DEF Sure
    <2>4. QED
      BY <2>1, <2>2, <2>3, SureStands
  <1>8. ASSUME NEW r \in Requests,
               Suspend(r) \/ SetRoles(r, FALSE)
        PROVE  SureInv'
    <2> DEFINE v == request[r].target
    <2>1. v \in Users /\ \A u \in Users : u # v => account'[u] = account[u]
      BY <1>1, <1>8, Rulings DEF Ruled
    <2>2. /\ request'[r] = Idle
          /\ \A s \in Requests \ {r} :
               /\ Kept(request[s], request'[s])
               /\ (request[s].pc \in {"issue", "refresh", "admin"} /\ request[s].user = v)
                    => request'[s].stale
      BY <1>1, <1>8, AfterDemote DEF Suspend, SetRoles
    <2> HIDE DEF v
    <2>3. ASSUME NEW s \in Requests \ {r} PROVE Sure(s)'
      <3>1. request[s] \in HandlerStates /\ request'[s] \in HandlerStates
        BY DEF TypeInv, TypeOK, HandlerStates
      <3>2. request'[s].pc = request[s].pc
        BY <2>2, <3>1, Kinds DEF Kept
      <3>3. request[s].pc \in {"issue", "refresh", "admin"} =>
              request'[s].stale \/ Stands(request[s].user)
        <4>1. ASSUME request[s].pc \in {"issue", "refresh", "admin"}, request[s].user # v
              PROVE  Stands(request[s].user)
          <5>1. request[s].user \in Users
            BY <3>1, <4>1, Kinds
          <5>2. account'[request[s].user] = account[request[s].user]
            BY <2>1, <4>1, <5>1
          <5>3. QED
            BY <5>2 DEF Stands, Authorised
        <4>2. QED
          BY <2>2, <4>1
      <3>4. QED
        BY <1>1, <2>2, <3>2, <3>3, SureFrame
    <2>4. Sure(r)'
      BY <2>2, IdleKind DEF Sure
    <2>5. QED
      BY <2>3, <2>4 DEF SureInv
  <1>9. ASSUME NEW r \in Requests, SetRoles(r, TRUE) PROVE SureInv'
    <2>1. ASSUME NEW u \in Users PROVE Stands(u)
      BY <1>1, <1>9, Rulings DEF Ruled, Stands, Authorised
    <2>2. request'[r] = Idle /\ \A s \in Requests \ {r} : request'[s] = request[s]
      BY <1>1, <1>9, AfterWrite, IdleKind DEF SetRoles
    <2>3. Sure(r)'
      BY <2>2, IdleKind DEF Sure
    <2>4. QED
      BY <2>1, <2>2, <2>3, SureStands DEF Kept
  <1>10. QED
    BY <1>2, <1>3, <1>4, <1>5, <1>6, <1>7, <1>8, <1>9, NextCases DEF Marking

LEMMA SureInvariant == Spec => []SureInv
  <1>1. Init => SureInv
    <2> SUFFICES ASSUME Init PROVE SureInv
      OBVIOUS
    <2>1. \A r \in Requests : request[r].pc = "idle"
      BY IdleKind DEF Init
    <2>2. QED
      BY <2>1 DEF SureInv, Sure
  <1>2. QED
    BY <1>1, SureStep, TypeInvariant, PTL DEF Spec

(* A suspended user opens no session and a demoted administrator changes   *)
(* no account, but through a handler that had read the user before         *)
(* (JwtStrategy.validate, RolesGuard, login, refresh).                     *)
THEOREM DemotionAlwaysBinds == Spec => DemotionBinds
  <1> DEFINE
        Binds == /\ \A t \in RefreshTokens :
                      token[t] = Nobody /\ token'[t] # Nobody /\ ~account[token'[t].user].active
                        => \E r \in Requests : request[r] \in Issuing /\ request[r].stale
                 /\ \A v \in Users :
                      account'[v].active # account[v].active \/ account'[v].admin # account[v].admin
                        => \E r \in Requests : At(r, "admin") /\ (Authorised(request[r].user) \/ request[r].stale)
  <1>1. ASSUME TypeInv, SureInv, Next PROVE Binds
    <2>1. TypeOK /\ \A s \in Requests : request[s] \in HandlerStates /\ Grounded(s) /\ Sure(s)
      BY <1>1 DEF TypeInv, TypeOK, HandlerStates, SureInv
    <2>2. [Next]_vars
      BY <1>1
    <2>3. ASSUME NEW t \in RefreshTokens, token[t] = Nobody, token'[t] # Nobody,
                 ~account[token'[t].user].active
          PROVE  \E r \in Requests : request[r] \in Issuing /\ request[r].stale
      <3>1. PICK r \in Requests : \E x \in RefreshTokens : IssueTokenPair(r, x)
        <4>1. ~UNCHANGED token
          BY <2>3
        <4>2. ~Outside
          <5>1. ASSUME NEW x \in RefreshTokens, Logout(x) PROVE FALSE
            <6>1. token[x].state = "live" /\ token[t].state = "none"
              BY <2>1, <2>3, <5>1, RowShape DEF Logout
            <6>2. token'[t] = token[t]
              BY <2>1, <5>1, <6>1 DEF Logout, TypeOK
            <6>3. QED
              BY <2>3, <6>2
          <5>2. QED
            BY <4>1, <5>1 DEF Outside, Register, ForgotPassword
        <4>3. ASSUME NEW r \in Requests, Opens(r) PROVE FALSE
          BY <2>1, <4>1, <4>3, Opening DEF rows
        <4>4. ASSUME NEW r \in Requests, RefreshRevoke(r) PROVE FALSE
          <5>1. request[r].from \in RefreshTokens /\ token[request[r].from] \in Refresh
            BY <2>1, <4>4, Kinds DEF RefreshRevoke, At, Grounded
          <5>2. token'[t] = token[t]
            BY <2>1, <2>3, <4>4, <5>1, RowShape DEF RefreshRevoke, TypeOK, Nobody, Refresh
          <5>3. QED
            BY <2>3, <5>2
        <4>5. ASSUME NEW r \in Requests, ResetCommit(r) PROVE FALSE
          BY <1>1, <2>1, <2>3, <4>5, Resetting, RowShape
        <4>6. QED
          BY <2>2, <4>1, <4>2, <4>3, <4>4, <4>5, NextCases
             DEF Ends, Marking, Reactivate, Die, Suspend, SetRoles, vars, rows
      <3>2. PICK x \in RefreshTokens : IssueTokenPair(r, x)
        BY <3>1
      <3>3. request[r] \in Issuing /\ request[r].pc = "issue"
        BY <2>1, <3>2, Kinds DEF IssueTokenPair, At
      <3>4. token'[t].user = request[r].user
        BY <2>1, <2>3, <3>2 DEF IssueTokenPair, TypeOK
      <3>5. QED
        BY <2>1, <2>3, <3>3, <3>4 DEF Sure
    <2>4. ASSUME NEW v \in Users,
                 account'[v].active # account[v].active \/ account'[v].admin # account[v].admin
          PROVE  \E r \in Requests : At(r, "admin") /\ (Authorised(request[r].user) \/ request[r].stale)
      <3>1. ~UNCHANGED account
        BY <2>4
      <3>2. ASSUME NEW u \in Users, Register(u) PROVE FALSE
        BY <2>1, <2>4, <3>2, Registering DEF Same
      <3>3. ASSUME NEW r \in Requests, ResetCommit(r) PROVE FALSE
        BY <1>1, <2>4, <3>3, Resetting
      <3>4. ASSUME NEW r \in Requests, Opens(r) PROVE FALSE
        BY <2>1, <3>1, <3>4, Opening DEF rows
      <3>5. PICK r \in Requests : Suspend(r) \/ Reactivate(r) \/ \E admin \in BOOLEAN : SetRoles(r, admin)
        BY <2>2, <3>1, <3>2, <3>3, <3>4, NextCases
           DEF Outside, Logout, ForgotPassword, Ends, Marking, RefreshRevoke, IssueTokenPair, Die, vars, rows
      <3>6. request[r].pc = "admin"
        BY <3>5 DEF Suspend, Reactivate, SetRoles, At
      <3>7. QED
        BY <2>1, <3>6 DEF Sure, At
    <2>5. QED
      BY <2>3, <2>4
  <1>2. TypeInv /\ SureInv /\ [Next]_vars => [Binds]_vars
    BY <1>1
  <1>3. QED
    BY <1>2, TypeInvariant, SureInvariant, PTL DEF Spec, DemotionBinds

---------------------------------------------------------------------------
(* NOTIFICATIONS: what is delivered was asked for.                         *)
---------------------------------------------------------------------------
(* A job is tried while it has attempts left, and only its worker holds it.*)
JobSound(d) ==
  /\ job[d].state \in {"waiting", "active"} => job[d].made < Attempts
  /\ job[d].by # "nobody" => job[d].state = "active"
  /\ job[d].state = "none" => tries[d] = 0
  /\ delivery[d] \in {"none", "SKIPPED"} => job[d].state = "none"
  /\ delivery[d] = "SENT" => sent[d] > 0

WorkerSound(w) ==
  ~Doing(w, "free") =>
    /\ job[Of(w)].state # "none"
    /\ Doing(w, "sent") => sent[Of(w)] > 0

(* A notice makes each delivery once, and then its job.                    *)
NoticeSound(n) ==
  /\ notify[n].pc \in {"idle", "prefs"} => \A c \in Channels : delivery[<<n, c>>] = "none"
  /\ notify[n].pc \in {"create", "next", "enqueue"} => \A c \in notify[n].left : delivery[<<n, c>>] = "none"
  /\ notify[n].pc = "enqueue" => /\ notify[n].channel \notin notify[n].left
                                 /\ delivery[<<n, notify[n].channel>>] = "PENDING"
                                 /\ job[<<n, notify[n].channel>>].state = "none"

NotificationTypeInv ==
  /\ NotificationTypeOK
  /\ \A d \in Deliveries : JobSound(d)
  /\ \A w \in Workers : WorkerSound(w)
  /\ \A n \in Notices : NoticeSound(n)

(* A delivery that is not being sent: not yet tried, or with its outcome.  *)
Outcome(d) ==
  \/ tries[d] = 0 /\ delivery[d] \in {"none", "SKIPPED", "PENDING"}
  \/ tries[d] = 1 /\ sent[d] = 1 /\ delivery[d] = "SENT"
  \/ tries[d] = 1 /\ sent[d] = 0 /\ delivery[d] = "FAILED"

(* While no fault met it one worker has it, who holds its job.             *)
Held(w, d) ==
  /\ job[d].state = "active" /\ job[d].by = w
  /\ worker[w].pc \in {"read", "dispatch", "throw", "complete"} => Outcome(d)
  /\ Doing(w, "dispatch") => delivery[d] = "PENDING"
  /\ Doing(w, "sent") => delivery[d] = "PENDING" /\ tries[d] = 1 /\ sent[d] = 1
  /\ Doing(w, "fail") => delivery[d] = "PENDING" /\ tries[d] = 1 /\ sent[d] = 0
  /\ worker[w].pc \in {"throw", "complete"} => delivery[d] # "PENDING"

Having(d) == {w \in Workers : ~Doing(w, "free") /\ Of(w) = d}

Truthful(d) ==
  d \notin faulty =>
    /\ \A w \in Having(d) : Held(w, d)
    /\ Having(d) = {} => Outcome(d)
    /\ delivery[d] = "PENDING" /\ d[1] \notin faulty =>
         \/ job[d].state \in {"waiting", "active"}
         \/ notify[d[1]].pc = "enqueue" /\ notify[d[1]].channel = d[2]

TruthInv == \A d \in Deliveries : Truthful(d)

---------------------------------------------------------------------------
(* Records                                                                 *)
LEMMA WorkerTyped ==
  ASSUME NotificationTypeOK, NEW w \in Workers
  PROVE  /\ Doing(w, "free") <=> worker[w] = Free
         /\ ~Doing(w, "free") => /\ worker[w] \in [pc: {"read", "dispatch", "sent", "fail", "throw", "complete"}, of: Deliveries]
                                 /\ Of(w) \in Deliveries
  BY DEF NotificationTypeOK, Doing, Of, Free

LEMMA NotifyTyped ==
  ASSUME NotificationTypeOK, NEW n \in Notices
  PROVE  /\ notify[n].pc \in {"idle", "prefs", "done", "create", "next", "enqueue"}
         /\ notify[n].pc \in {"create", "next", "enqueue"} => notify[n].on \subseteq Channels /\ notify[n].left \subseteq Channels
         /\ notify[n].pc \in {"create", "next"} => notify[n] \in [pc: {"create", "next"}, on: SUBSET Channels, left: SUBSET Channels]
         /\ notify[n].pc = "enqueue" => notify[n].channel \in Channels
  BY DEF NotificationTypeOK

\* A worker goes on with its delivery, leaves it, or takes one.
LEMMA WorkerGoes ==
  ASSUME NotificationTypeOK, NEW w \in Workers, ~Doing(w, "free"),
         NEW pc \in {"read", "dispatch", "sent", "fail", "throw", "complete"}, Now(w, pc)
  PROVE  /\ worker'[w].pc = pc /\ Of(w)' = Of(w) /\ ~Doing(w, "free")'
         /\ \A v \in Workers : v # w => worker'[v] = worker[v]
         /\ worker' \in [Workers -> {Free} \cup [pc: {"read", "dispatch", "sent", "fail", "throw", "complete"}, of: Deliveries]]
  <1> DEFINE h == [worker[w] EXCEPT !.pc = pc]
  <1>1. h \in [pc: {"read", "dispatch", "sent", "fail", "throw", "complete"}, of: Deliveries] /\ h.pc = pc /\ h.of = Of(w)
    BY WorkerTyped DEF Of
  <1>2. worker' = [worker EXCEPT ![w] = h]
    BY DEF Now
  <1> HIDE DEF h
  <1>3. QED
    BY <1>1, <1>2 DEF NotificationTypeOK, Of, Doing

LEMMA WorkerLeaves ==
  ASSUME NotificationTypeOK, NEW w \in Workers, Leave(w)
  PROVE  /\ worker'[w] = Free /\ Doing(w, "free")' /\ \A v \in Workers : v # w => worker'[v] = worker[v]
         /\ worker' \in [Workers -> {Free} \cup [pc: {"read", "dispatch", "sent", "fail", "throw", "complete"}, of: Deliveries]]
  BY DEF NotificationTypeOK, Leave, Doing, Free

\* What a job or a delivery becomes.
LEMMA JobSet ==
  ASSUME NotificationTypeOK, NEW d \in Deliveries, NEW j \in Job, job' = [job EXCEPT ![d] = j]
  PROVE  /\ job'[d] = j /\ \A e \in Deliveries : e # d => job'[e] = job[e]
         /\ job' \in [Deliveries -> Job]
  BY DEF NotificationTypeOK

LEMMA JobHandled ==
  ASSUME NotificationTypeOK, NEW d \in Deliveries, NEW s \in {"waiting", "active", "completed"}, NEW b \in Workers \cup {"nobody"},
         job' = [job EXCEPT ![d].state = s, ![d].by = b]
  PROVE  /\ job'[d].state = s /\ job'[d].by = b /\ job'[d].made = job[d].made
         /\ \A e \in Deliveries : e # d => job'[e] = job[e]
         /\ job' \in [Deliveries -> Job]
  <1> DEFINE y == [job[d] EXCEPT !.state = s]
             z == [y EXCEPT !.by = b]
  <1>1. job[d] \in Job
    BY DEF NotificationTypeOK
  <1>2. job' = [job EXCEPT ![d] = z]
    BY DEF NotificationTypeOK
  <1>3. y \in Job /\ y.state = s /\ y.made = job[d].made
    BY <1>1 DEF Job
  <1> HIDE DEF y
  <1>4. z \in Job /\ z.state = s /\ z.made = job[d].made /\ z.by = b
    BY <1>3 DEF Job
  <1> HIDE DEF z
  <1>5. QED
    BY <1>2, <1>4, JobSet

LEMMA DeliverySet ==
  ASSUME NotificationTypeOK, NEW d \in Deliveries, NEW s \in Statuses, delivery' = [delivery EXCEPT ![d] = s]
  PROVE  /\ delivery'[d] = s /\ \A e \in Deliveries : e # d => delivery'[e] = delivery[e]
         /\ delivery' \in [Deliveries -> Statuses]
  BY DEF NotificationTypeOK

LEMMA NotifySet ==
  ASSUME NotificationTypeOK, NEW n \in Notices,
         NEW h \in [pc: {"idle", "prefs", "done"}] \cup [pc: {"create", "next"}, on: SUBSET Channels, left: SUBSET Channels]
                  \cup [pc: {"enqueue"}, on: SUBSET Channels, left: SUBSET Channels, channel: Channels],
         Step(n, h)
  PROVE  /\ notify'[n] = h /\ \A m \in Notices : m # n => notify'[m] = notify[m]
         /\ notify' \in [Notices -> [pc: {"idle", "prefs", "done"}]
                  \cup [pc: {"create", "next"}, on: SUBSET Channels, left: SUBSET Channels]
                  \cup [pc: {"enqueue"}, on: SUBSET Channels, left: SUBSET Channels, channel: Channels]]
  BY DEF NotificationTypeOK, Step

---------------------------------------------------------------------------
(* A step on one delivery leaves the others as they are                    *)
WorkersSame(d) == \A w \in Workers : (w \in Having(d) \/ w \in Having(d)') => worker'[w] = worker[w]
RowSame(d)     == /\ delivery'[d] = delivery[d] /\ job'[d] = job[d] /\ tries'[d] = tries[d] /\ sent'[d] = sent[d]
Untouched(d)   == RowSame(d) /\ WorkersSame(d)

LEMMA UntouchedSound ==
  ASSUME NEW d \in Deliveries, RowSame(d), JobSound(d)
  PROVE  JobSound(d)'
  BY DEF RowSame, JobSound

LEMMA UntouchedTruthful ==
  ASSUME NEW d \in Deliveries, Untouched(d), faulty \subseteq faulty', Truthful(d),
         \/ notify'[d[1]] = notify[d[1]] \/ notify[d[1]].pc # "enqueue"
         \/ d[1] \in faulty' \/ notify[d[1]].channel # d[2]
  PROVE  Truthful(d)'
  <1>1. \A w \in Workers : w \in Having(d) <=> w \in Having(d)'
    BY DEF Untouched, WorkersSame, Having, Doing, Of
  <1>2. ASSUME NEW w \in Having(d), Held(w, d)
        PROVE  Held(w, d)'
    <2>1. worker'[w] = worker[w]
      BY DEF Untouched, WorkersSame, Having
    <2>2. QED
      BY <1>2, <2>1 DEF Held, Doing, Outcome, Untouched, RowSame
  <1>3. Having(d) = {} <=> Having(d)' = {}
    BY <1>1 DEF Having
  <1>4. Outcome(d) => Outcome(d)'
    BY DEF Outcome, Untouched, RowSame
  <1>5. \A w \in Having(d)' : w \in Having(d)
    BY <1>1 DEF Having
  <1>6. QED
    BY <1>2, <1>3, <1>4, <1>5 DEF Truthful, Untouched, RowSame

---------------------------------------------------------------------------
(* A worker's step on the delivery it has                                  *)
WorkerOnly(w, d) ==
  /\ UNCHANGED notify /\ faulty \subseteq faulty'
  /\ \A e \in Deliveries : e # d => RowSame(e)
  /\ \A v \in Workers : v # w => worker'[v] = worker[v]
  /\ ~Doing(w, "free") => Of(w) = d
  /\ ~Doing(w, "free")' => Of(w)' = d

LEMMA WorkerStepSound ==
  ASSUME NotificationTypeInv, NotificationTypeOK', NEW w \in Workers, NEW d \in Deliveries, WorkerOnly(w, d),
         job[d].state # "none", job'[d].state # "none", sent'[d] >= sent[d], JobSound(d)', WorkerSound(w)'
  PROVE  NotificationTypeInv'
  <1>1. ASSUME NEW e \in Deliveries PROVE JobSound(e)'
    BY UntouchedSound DEF NotificationTypeInv, WorkerOnly
  <1>2. ASSUME NEW v \in Workers PROVE WorkerSound(v)'
    <2>1. CASE v = w
      BY <2>1
    <2>2. CASE v # w
      <3>1. worker'[v] = worker[v] /\ WorkerSound(v)
        BY <2>2 DEF NotificationTypeInv, WorkerOnly
      <3>2. SUFFICES ASSUME ~Doing(v, "free") PROVE WorkerSound(v)'
        BY <3>1 DEF WorkerSound, Doing, Of
      <3>3. PICK e \in Deliveries : e = Of(v)
        BY <3>2, WorkerTyped DEF NotificationTypeInv
      <3>4. /\ job'[e].state # "none" /\ sent'[e] >= sent[e] /\ sent[e] \in Nat /\ sent'[e] \in Nat
        <4>1. sent[e] \in Nat /\ sent'[e] \in Nat
          BY DEF NotificationTypeInv, NotificationTypeOK
        <4>2. CASE e = d
          BY <4>1, <4>2
        <4>3. CASE e # d
          BY <3>1, <3>2, <3>3, <4>1, <4>3 DEF WorkerOnly, RowSame, WorkerSound
        <4>4. QED
          BY <4>2, <4>3
      <3>5. QED
        BY <3>1, <3>2, <3>3, <3>4 DEF WorkerSound, Doing, Of
    <2>3. QED
      BY <2>1, <2>2
  <1>3. ASSUME NEW n \in Notices PROVE NoticeSound(n)'
    <2>1. delivery[d] # "none"
      BY DEF NotificationTypeInv, JobSound
    <2>2. ASSUME NEW c \in Channels, delivery[<<n, c>>] = "none" PROVE delivery'[<<n, c>>] = "none"
      BY <2>1, <2>2 DEF WorkerOnly, RowSame, Deliveries
    <2>3. ASSUME NEW c \in Channels, job[<<n, c>>].state = "none"
          PROVE  delivery'[<<n, c>>] = delivery[<<n, c>>] /\ job'[<<n, c>>] = job[<<n, c>>]
      BY <2>3 DEF WorkerOnly, RowSame, Deliveries
    <2>4. NoticeSound(n) /\ notify'[n] = notify[n]
      BY DEF NotificationTypeInv, WorkerOnly
    <2>5. /\ notify[n].pc \in {"create", "next", "enqueue"} => notify[n].left \subseteq Channels
          /\ notify[n].pc = "enqueue" => notify[n].channel \in Channels
      BY NotifyTyped DEF NotificationTypeInv
    <2>6. QED
      BY <2>2, <2>3, <2>4, <2>5 DEF NoticeSound
  <1>4. QED
    BY <1>1, <1>2, <1>3 DEF NotificationTypeInv

LEMMA WorkerStepTruth ==
  ASSUME TruthInv, NEW w \in Workers, NEW d \in Deliveries, WorkerOnly(w, d), Truthful(d)'
  PROVE  TruthInv'
  <1> SUFFICES ASSUME NEW e \in Deliveries, e # d PROVE Truthful(e)'
    BY DEF TruthInv, Deliveries
  <1>1. WorkersSame(e)
    BY DEF WorkersSame, Having, WorkerOnly
  <1>2. Untouched(e) /\ Truthful(e) /\ faulty \subseteq faulty' /\ notify' = notify
    BY <1>1 DEF Untouched, WorkerOnly, TruthInv
  <1>3. QED
    BY <1>2, UntouchedTruthful

\* A delivery that met no fault has one worker.
LEMMA OneWorker ==
  ASSUME NEW w \in Workers, NEW d \in Deliveries, Truthful(d), d \notin faulty, ~Doing(w, "free"), Of(w) = d
  PROVE  /\ Having(d) = {w} /\ Held(w, d)
         /\ delivery[d] = "PENDING" /\ d[1] \notin faulty =>
              \/ job[d].state \in {"waiting", "active"}
              \/ notify[d[1]].pc = "enqueue" /\ notify[d[1]].channel = d[2]
  <1>1. w \in Having(d)
    BY DEF Having
  <1>2. \A v \in Having(d) : job[d].by = v
    BY DEF Truthful, Held
  <1>3. QED
    BY <1>1, <1>2 DEF Truthful

NotificationInv == NotificationTypeInv /\ TruthInv

LEMMA TakeSound ==
  ASSUME NotificationInv, NEW w \in Workers, NEW d \in Deliveries, Take(w, d)
  PROVE  NotificationInv'
  <1> USE DEF NotificationInv
  <1>1. NotificationTypeOK /\ JobSound(d) /\ Truthful(d)
    BY DEF NotificationTypeInv, TruthInv
  <1>4. /\ job'[d].state = "active" /\ job'[d].by = w /\ job'[d].made = job[d].made
        /\ \A e \in Deliveries : e # d => job'[e] = job[e]
        /\ job' \in [Deliveries -> Job]
    BY <1>1, JobHandled DEF Take
  <1> DEFINE h == [pc |-> "read", of |-> d]
  <1>6. h \in [pc: {"read", "dispatch", "sent", "fail", "throw", "complete"}, of: Deliveries] /\ h.pc = "read" /\ h.of = d
    OBVIOUS
  <1>7. worker' = [worker EXCEPT ![w] = h]
    BY DEF Take
  <1> HIDE DEF h
  <1>8. /\ worker'[w] = h /\ \A v \in Workers : v # w => worker'[v] = worker[v]
        /\ worker' \in [Workers -> {Free} \cup [pc: {"read", "dispatch", "sent", "fail", "throw", "complete"}, of: Deliveries]]
    BY <1>1, <1>6, <1>7 DEF NotificationTypeOK
  <1>9. UNCHANGED <<preferences, notify, delivery, tries, sent, faulty, mishaps>>
    BY DEF Take, handler, traces
  <1>10. NotificationTypeOK'
    BY <1>1, <1>4, <1>8, <1>9 DEF NotificationTypeOK
  <1>11. Doing(w, "free") /\ job[d].state = "waiting"
    BY DEF Take
  <1>12. WorkerOnly(w, d)
    BY <1>4, <1>6, <1>8, <1>9, <1>11 DEF WorkerOnly, RowSame, Of
  <1>13. JobSound(d)'
    BY <1>1, <1>4, <1>9, <1>11 DEF JobSound
  <1>14. WorkerSound(w)'
    BY <1>4, <1>6, <1>8 DEF WorkerSound, Doing, Of
  <1>15. sent'[d] >= sent[d]
    BY <1>1, <1>9 DEF NotificationTypeOK
  <1>16. Truthful(d)'
    <2> SUFFICES ASSUME d \notin faulty PROVE Truthful(d)'
      BY <1>9 DEF Truthful
    <2>1. Having(d) = {}
      BY <1>1, <1>11 DEF Truthful, Held
    <2>2. Outcome(d)'
      BY <1>1, <1>9, <2>1 DEF Truthful, Outcome
    <2>3. Having(d)' = {w}
      BY <1>6, <1>8, <2>1 DEF Having, Doing, Of
    <2>4. Held(w, d)'
      BY <1>4, <1>6, <1>8, <2>2 DEF Held, Doing
    <2>5. QED
      BY <1>4, <2>3, <2>4 DEF Truthful
  <1>17. QED
    BY <1>4, <1>10, <1>11, <1>12, <1>13, <1>14, <1>15, <1>16, WorkerStepSound, WorkerStepTruth

LEMMA ReadDeliverySound ==
  ASSUME NotificationInv, NEW w \in Workers, ReadDelivery(w)
  PROVE  NotificationInv'
  <1> USE DEF NotificationInv
  <1>1. NotificationTypeOK /\ ~Doing(w, "free") /\ WorkerSound(w)
    BY DEF NotificationTypeInv, ReadDelivery, Doing
  <1>2. PICK d \in Deliveries : d = Of(w)
    BY <1>1, WorkerTyped
  <1>3. JobSound(d) /\ Truthful(d)
    BY DEF NotificationTypeInv, TruthInv
  <1>4. PICK pc \in {"dispatch", "complete"} : pc = IF delivery[d] = "PENDING" THEN "dispatch" ELSE "complete"
    OBVIOUS
  <1>5. Now(w, pc) /\ UNCHANGED <<preferences, notify, delivery, job, tries, sent, faulty, mishaps>>
    BY <1>2, <1>4 DEF ReadDelivery, handler, traces
  <1>6. /\ worker'[w].pc = pc /\ Of(w)' = Of(w) /\ ~Doing(w, "free")'
        /\ \A v \in Workers : v # w => worker'[v] = worker[v]
        /\ worker' \in [Workers -> {Free} \cup [pc: {"read", "dispatch", "sent", "fail", "throw", "complete"}, of: Deliveries]]
    BY <1>1, <1>5, WorkerGoes
  <1>7. NotificationTypeOK'
    BY <1>1, <1>5, <1>6 DEF NotificationTypeOK
  <1>8. WorkerOnly(w, d)
    BY <1>2, <1>5, <1>6 DEF WorkerOnly, RowSame
  <1>9. JobSound(d)' /\ WorkerSound(w)' /\ job[d].state # "none" /\ job'[d].state # "none"
    BY <1>1, <1>2, <1>3, <1>5, <1>6 DEF JobSound, WorkerSound, Doing
  <1>10. sent'[d] >= sent[d]
    BY <1>1, <1>5 DEF NotificationTypeOK
  <1>11. Truthful(d)'
    <2> SUFFICES ASSUME d \notin faulty PROVE Truthful(d)'
      BY <1>5 DEF Truthful
    <2>1. Having(d) = {w} /\ Held(w, d) /\ worker[w].pc = "read"
      BY <1>1, <1>2, <1>3, OneWorker DEF ReadDelivery, Doing
    <2>2. Outcome(d)'
      BY <1>5, <2>1 DEF Held, Outcome
    <2>3. Having(d)' = {w}
      BY <1>2, <1>6, <2>1 DEF Having, Doing, Of
    <2>4. Held(w, d)'
      BY <1>4, <1>5, <1>6, <2>1, <2>2 DEF Held, Doing
    <2>5. QED
      BY <1>3, <1>5, <2>3, <2>4 DEF Truthful
  <1>12. QED
    BY <1>7, <1>8, <1>9, <1>10, <1>11, WorkerStepSound, WorkerStepTruth

LEMMA DispatchSound ==
  ASSUME NotificationInv, NEW w \in Workers, Dispatch(w)
  PROVE  NotificationInv'
  <1> USE DEF NotificationInv
  <1>1. NotificationTypeOK /\ ~Doing(w, "free") /\ WorkerSound(w) /\ worker[w].pc = "dispatch"
    BY DEF NotificationTypeInv, Dispatch, Doing
  <1>2. PICK d \in Deliveries : d = Of(w)
    BY <1>1, WorkerTyped
  <1>3. JobSound(d) /\ Truthful(d) /\ tries[d] \in Nat /\ sent[d] \in Nat /\ sent[d] <= tries[d]
    BY <1>1 DEF NotificationTypeInv, TruthInv, NotificationTypeOK
  <1>4. PICK pc \in {"sent", "fail"} :
          Now(w, pc) /\ sent' = IF pc = "sent" THEN [sent EXCEPT ![d] = @ + 1] ELSE sent
    BY <1>2 DEF Dispatch
  <1>5. /\ UNCHANGED <<preferences, notify, delivery, job, faulty, mishaps>>
        /\ tries' = [tries EXCEPT ![d] = @ + 1]
    BY <1>2 DEF Dispatch, handler
  <1>6. /\ worker'[w].pc = pc /\ Of(w)' = Of(w) /\ ~Doing(w, "free")'
        /\ \A v \in Workers : v # w => worker'[v] = worker[v]
        /\ worker' \in [Workers -> {Free} \cup [pc: {"read", "dispatch", "sent", "fail", "throw", "complete"}, of: Deliveries]]
    BY <1>1, <1>4, WorkerGoes
  <1>7. /\ tries'[d] = tries[d] + 1 /\ sent'[d] = IF pc = "sent" THEN sent[d] + 1 ELSE sent[d]
        /\ \A e \in Deliveries : e # d => tries'[e] = tries[e] /\ sent'[e] = sent[e]
        /\ tries' \in [Deliveries -> Nat] /\ sent' \in [Deliveries -> Nat]
    BY <1>1, <1>4, <1>5 DEF NotificationTypeOK
  <1>8. NotificationTypeOK'
    <2>1. ASSUME NEW e \in Deliveries PROVE sent'[e] <= tries'[e]
      <3>1. sent[e] \in Nat /\ tries[e] \in Nat /\ sent[e] <= tries[e]
        BY <1>1 DEF NotificationTypeOK
      <3>2. QED
        BY <1>7, <3>1
    <2>2. QED
      BY <1>1, <1>5, <1>6, <1>7, <2>1 DEF NotificationTypeOK
  <1>9. WorkerOnly(w, d)
    BY <1>2, <1>5, <1>6, <1>7 DEF WorkerOnly, RowSame
  <1>10. job[d].state # "none" /\ job'[d].state # "none"
    BY <1>1, <1>2, <1>5 DEF WorkerSound
  <1>11. sent'[d] >= sent[d] /\ (pc = "sent" => sent'[d] > 0) /\ (sent[d] > 0 => sent'[d] > 0)
    BY <1>3, <1>7
  <1>12. JobSound(d)' /\ WorkerSound(w)'
    BY <1>2, <1>3, <1>5, <1>6, <1>10, <1>11 DEF JobSound, WorkerSound, Doing
  <1>13. Truthful(d)'
    <2> SUFFICES ASSUME d \notin faulty PROVE Truthful(d)'
      BY <1>5 DEF Truthful
    <2>1. Having(d) = {w} /\ Held(w, d)
      BY <1>1, <1>2, <1>3, OneWorker
    <2>2. delivery[d] = "PENDING" /\ tries[d] = 0 /\ sent[d] = 0
      BY <1>1, <1>3, <2>1 DEF Held, Outcome, Doing
    <2>3. Having(d)' = {w}
      BY <1>2, <1>6, <2>1 DEF Having, Doing, Of
    <2>4. Held(w, d)'
      BY <1>4, <1>5, <1>6, <1>7, <2>1, <2>2 DEF Held, Doing
    <2>5. QED
      BY <1>3, <1>5, <2>3, <2>4 DEF Truthful
  <1>14. QED
    BY <1>8, <1>9, <1>10, <1>11, <1>12, <1>13, WorkerStepSound, WorkerStepTruth

LEMMA MishapTyped ==
  ASSUME NotificationTypeOK, NEW x \in Deliveries \cup Notices, Mishap(x)
  PROVE  x \in faulty' /\ faulty \subseteq faulty' /\ faulty' \subseteq Deliveries \cup Notices /\ mishaps' \in 0..MaxFaults
  BY NotificationConstants DEF NotificationTypeOK, Mishap

\* MarkSent and MarkFailed: the outcome is written, or a fault keeps it.
LEMMA OutcomeWritten ==
  ASSUME NotificationInv, NEW w \in Workers, NEW d \in Deliveries, Of(w) = d,
         NEW s \in {"SENT", "FAILED"}, NEW pc \in {"fail", "throw", "complete"},
         IF s = "SENT" THEN worker[w].pc = "sent" ELSE worker[w].pc = "fail",
         Now(w, pc), UNCHANGED <<preferences, notify, job, tries, sent>>,
         \/ delivery' = [delivery EXCEPT ![d] = s] /\ UNCHANGED <<faulty, mishaps>> /\ pc # "fail"
         \/ Mishap(d) /\ UNCHANGED delivery
  PROVE  NotificationInv'
  <1> USE DEF NotificationInv
  <1>1. NotificationTypeOK /\ ~Doing(w, "free") /\ WorkerSound(w)
    BY DEF NotificationTypeInv, Doing
  <1>2. JobSound(d) /\ Truthful(d) /\ tries[d] \in Nat /\ sent[d] \in Nat
    BY <1>1 DEF NotificationTypeInv, TruthInv, NotificationTypeOK
  <1>3. /\ worker'[w].pc = pc /\ Of(w)' = Of(w) /\ ~Doing(w, "free")'
        /\ \A v \in Workers : v # w => worker'[v] = worker[v]
        /\ worker' \in [Workers -> {Free} \cup [pc: {"read", "dispatch", "sent", "fail", "throw", "complete"}, of: Deliveries]]
    BY <1>1, WorkerGoes
  <1>4. /\ \A e \in Deliveries : e # d => delivery'[e] = delivery[e]
        /\ delivery' \in [Deliveries -> Statuses]
        /\ faulty \subseteq faulty' /\ faulty' \subseteq Deliveries \cup Notices /\ mishaps' \in 0..MaxFaults
        /\ \/ delivery'[d] = s /\ faulty' = faulty /\ pc # "fail"
           \/ delivery'[d] = delivery[d] /\ d \in faulty'
    <2>1. CASE delivery' = [delivery EXCEPT ![d] = s] /\ UNCHANGED <<faulty, mishaps>> /\ pc # "fail"
      <3>1. s \in Statuses
        BY DEF Statuses
      <3>2. /\ delivery'[d] = s /\ \A e \in Deliveries : e # d => delivery'[e] = delivery[e]
            /\ delivery' \in [Deliveries -> Statuses]
        BY <1>1, <2>1, <3>1, DeliverySet
      <3>3. QED
        BY <1>1, <2>1, <3>2 DEF NotificationTypeOK
    <2>2. CASE Mishap(d) /\ UNCHANGED delivery
      BY <1>1, <2>2, MishapTyped DEF NotificationTypeOK
    <2>3. QED
      BY <2>1, <2>2
  <1>5. NotificationTypeOK'
    BY <1>1, <1>3, <1>4 DEF NotificationTypeOK
  <1>6. WorkerOnly(w, d)
    BY <1>3, <1>4 DEF WorkerOnly, RowSame
  <1>7. job[d].state # "none" /\ job'[d].state # "none" /\ sent'[d] >= sent[d] /\ (s = "SENT" => sent[d] > 0)
    BY <1>1, <1>2 DEF WorkerSound, Doing
  <1>8. JobSound(d)'
    BY <1>2, <1>4, <1>7 DEF JobSound
  <1>9. WorkerSound(w)'
    BY <1>3, <1>7 DEF WorkerSound, Doing
  <1>10. Truthful(d)'
    <2> SUFFICES ASSUME d \notin faulty, d \notin faulty' PROVE Truthful(d)'
      BY <1>4 DEF Truthful
    <2>1. Having(d) = {w} /\ Held(w, d)
      BY <1>1, <1>2, OneWorker
    <2>2. delivery'[d] = s /\ pc # "fail"
      BY <1>4
    <2>3. tries[d] = 1 /\ sent[d] = IF s = "SENT" THEN 1 ELSE 0
      BY <2>1 DEF Held, Doing
    <2>4. Outcome(d)'
      BY <2>2, <2>3 DEF Outcome
    <2>5. Having(d)' = {w}
      BY <1>3, <2>1 DEF Having, Doing, Of
    <2>6. Held(w, d)'
      BY <1>3, <2>1, <2>2, <2>4 DEF Held, Doing
    <2>7. QED
      BY <2>2, <2>5, <2>6 DEF Truthful
  <1>11. QED
    BY <1>5, <1>6, <1>7, <1>8, <1>9, <1>10, WorkerStepSound, WorkerStepTruth

LEMMA MarkSentSound ==
  ASSUME NotificationInv, NEW w \in Workers, MarkSent(w)
  PROVE  NotificationInv'
  <1>1. NotificationTypeOK /\ ~Doing(w, "free") /\ worker[w].pc = "sent"
    BY DEF NotificationInv, NotificationTypeInv, MarkSent, Doing
  <1>2. PICK d \in Deliveries : d = Of(w)
    BY <1>1, WorkerTyped
  <1>3. PICK pc \in {"fail", "complete"} :
          /\ Now(w, pc)
          /\ \/ delivery' = [delivery EXCEPT ![d] = "SENT"] /\ UNCHANGED <<faulty, mishaps>> /\ pc # "fail"
             \/ Mishap(d) /\ UNCHANGED delivery
    BY <1>2 DEF MarkSent
  <1>4. UNCHANGED <<preferences, notify, job, tries, sent>>
    BY DEF MarkSent, handler
  <1>5. QED
    BY <1>1, <1>2, <1>3, <1>4, OutcomeWritten

LEMMA MarkFailedSound ==
  ASSUME NotificationInv, NEW w \in Workers, MarkFailed(w)
  PROVE  NotificationInv'
  <1>1. NotificationTypeOK /\ ~Doing(w, "free") /\ worker[w].pc = "fail"
    BY DEF NotificationInv, NotificationTypeInv, MarkFailed, Doing
  <1>2. PICK d \in Deliveries : d = Of(w)
    BY <1>1, WorkerTyped
  <1>3. /\ Now(w, "throw")
        /\ \/ delivery' = [delivery EXCEPT ![d] = "FAILED"] /\ UNCHANGED <<faulty, mishaps>>
           \/ Mishap(d) /\ UNCHANGED delivery
    BY <1>2 DEF MarkFailed
  <1>4. UNCHANGED <<preferences, notify, job, tries, sent>>
    BY DEF MarkFailed, handler
  <1>5. QED
    BY <1>1, <1>2, <1>3, <1>4, OutcomeWritten

\* Throw and Complete: the worker lets go, and the job moves on if it holds it.
LEMMA LetGo ==
  ASSUME NotificationInv, NEW w \in Workers, NEW d \in Deliveries, Of(w) = d, worker[w].pc \in {"throw", "complete"},
         Leave(w), UNCHANGED <<preferences, notify, delivery, tries, sent, faulty, mishaps>>,
         \A e \in Deliveries : e # d => job'[e] = job[e],
         job' \in [Deliveries -> Job],
         \/ job'[d] = job[d] /\ job[d].by # w
         \/ /\ job'[d].by = "nobody" /\ job'[d].state \in {"waiting", "failed", "completed"}
            /\ job'[d].state = "waiting" => job'[d].made < Attempts
  PROVE  NotificationInv'
  <1> USE DEF NotificationInv
  <1>1. NotificationTypeOK /\ ~Doing(w, "free") /\ WorkerSound(w)
    BY DEF NotificationTypeInv, Doing
  <1>2. JobSound(d) /\ Truthful(d) /\ tries[d] \in Nat /\ sent[d] \in Nat
    BY <1>1 DEF NotificationTypeInv, TruthInv, NotificationTypeOK
  <1>3. /\ worker'[w] = Free /\ Doing(w, "free")' /\ \A v \in Workers : v # w => worker'[v] = worker[v]
        /\ worker' \in [Workers -> {Free} \cup [pc: {"read", "dispatch", "sent", "fail", "throw", "complete"}, of: Deliveries]]
    BY <1>1, WorkerLeaves
  <1>4. NotificationTypeOK'
    BY <1>1, <1>3 DEF NotificationTypeOK
  <1>5. WorkerOnly(w, d)
    BY <1>3 DEF WorkerOnly, RowSame
  <1>6. job[d].state # "none" /\ job'[d].state # "none" /\ sent'[d] >= sent[d]
    BY <1>1, <1>2 DEF WorkerSound
  <1>7. JobSound(d)' /\ WorkerSound(w)'
    BY <1>2, <1>3, <1>6 DEF JobSound, WorkerSound
  <1>8. Truthful(d)'
    <2> SUFFICES ASSUME d \notin faulty PROVE Truthful(d)'
      BY DEF Truthful
    <2>1. Having(d) = {w} /\ Held(w, d)
      BY <1>1, <1>2, OneWorker
    <2>2. Outcome(d)' /\ delivery'[d] # "PENDING"
      BY <2>1 DEF Held, Outcome
    <2>3. Having(d)' = {}
      BY <1>3, <2>1 DEF Having, Doing, Of
    <2>4. QED
      BY <2>2, <2>3 DEF Truthful
  <1>9. QED
    BY <1>4, <1>5, <1>6, <1>7, <1>8, WorkerStepSound, WorkerStepTruth

LEMMA ThrowSound ==
  ASSUME NotificationInv, NEW w \in Workers, Throw(w)
  PROVE  NotificationInv'
  <1>1. NotificationTypeOK /\ ~Doing(w, "free") /\ worker[w].pc = "throw"
    BY DEF NotificationInv, NotificationTypeInv, Throw, Doing
  <1>2. PICK d \in Deliveries : d = Of(w)
    BY <1>1, WorkerTyped
  <1>3. JobSound(d) /\ job[d] \in Job
    BY <1>1 DEF NotificationInv, NotificationTypeInv, NotificationTypeOK
  <1>4. Leave(w) /\ UNCHANGED <<preferences, notify, delivery, tries, sent, faulty, mishaps>>
    BY DEF Throw, handler, traces
  <1>5. CASE job[d].by # w
    <2>1. job' = job
      BY <1>2, <1>5 DEF Throw
    <2>2. QED
      BY <1>1, <1>2, <1>4, <1>5, <2>1, LetGo DEF NotificationTypeOK
  <1>6. CASE job[d].by = w
    <2>1. PICK made : made = job[d].made + 1
      OBVIOUS
    <2>2. made \in 0..Attempts
      BY <1>3, <1>6, <2>1, NotificationConstants DEF JobSound, Job
    <2>3. PICK s \in {"waiting", "failed"} : s = IF made < Attempts THEN "waiting" ELSE "failed"
      OBVIOUS
    <2> DEFINE j == [state |-> s, made |-> made, by |-> "nobody"]
    <2>4. job' = [job EXCEPT ![d] = j]
      BY <1>2, <1>6, <2>1, <2>3 DEF Throw
    <2>5. j \in Job /\ j.by = "nobody" /\ j.state = s /\ j.made = made
      BY <2>2, <2>3 DEF Job
    <2> HIDE DEF j
    <2>6. job'[d] = j /\ (\A e \in Deliveries : e # d => job'[e] = job[e]) /\ job' \in [Deliveries -> Job]
      BY <1>1, <2>4, <2>5, JobSet
    <2>7. QED
      BY <1>1, <1>2, <1>4, <2>3, <2>5, <2>6, LetGo
  <1>7. QED
    BY <1>5, <1>6

LEMMA CompleteSound ==
  ASSUME NotificationInv, NEW w \in Workers, Complete(w)
  PROVE  NotificationInv'
  <1>1. NotificationTypeOK /\ ~Doing(w, "free") /\ worker[w].pc = "complete"
    BY DEF NotificationInv, NotificationTypeInv, Complete, Doing
  <1>2. PICK d \in Deliveries : d = Of(w)
    BY <1>1, WorkerTyped
  <1>3. Leave(w) /\ UNCHANGED <<preferences, notify, delivery, tries, sent, faulty, mishaps>>
    BY DEF Complete, handler, traces
  <1>4. CASE job[d].by # w
    <2>1. job' = job
      BY <1>2, <1>4 DEF Complete
    <2>2. QED
      BY <1>1, <1>2, <1>3, <1>4, <2>1, LetGo DEF NotificationTypeOK
  <1>5. CASE job[d].by = w
    <2>1. job' = [job EXCEPT ![d].state = "completed", ![d].by = "nobody"]
      BY <1>2, <1>5 DEF Complete
    <2>2. /\ job'[d].state = "completed" /\ job'[d].by = "nobody"
          /\ \A e \in Deliveries : e # d => job'[e] = job[e]
          /\ job' \in [Deliveries -> Job]
      BY <1>1, <2>1, JobHandled
    <2>3. QED
      BY <1>1, <1>2, <1>3, <2>2, LetGo
  <1>6. QED
    BY <1>4, <1>5

LEMMA StalledSound ==
  ASSUME NotificationInv, NEW w \in Workers, Stalled(w)
  PROVE  NotificationInv'
  <1> USE DEF NotificationInv
  <1>1. NotificationTypeOK /\ ~Doing(w, "free") /\ WorkerSound(w)
    BY DEF NotificationTypeInv, Stalled
  <1>2. PICK d \in Deliveries : d = Of(w)
    BY <1>1, WorkerTyped
  <1>3. JobSound(d)
    BY DEF NotificationTypeInv
  <1>4. /\ job[d].by = w /\ Mishap(d) /\ job' = [job EXCEPT ![d].state = "waiting", ![d].by = "nobody"]
        /\ UNCHANGED <<preferences, notify, delivery, tries, sent>> /\ worker' \in {worker, [worker EXCEPT ![w] = Free]}
    BY <1>2 DEF Stalled, handler
  <1>5. /\ job'[d].state = "waiting" /\ job'[d].by = "nobody" /\ job'[d].made = job[d].made
        /\ \A e \in Deliveries : e # d => job'[e] = job[e]
        /\ job' \in [Deliveries -> Job]
    BY <1>1, <1>4, JobHandled
  <1>6. /\ worker'[w] = worker[w] \/ Doing(w, "free")'
        /\ \A v \in Workers : v # w => worker'[v] = worker[v]
        /\ worker' \in [Workers -> {Free} \cup [pc: {"read", "dispatch", "sent", "fail", "throw", "complete"}, of: Deliveries]]
    <2>1. CASE worker' = worker
      BY <1>1, <2>1 DEF NotificationTypeOK
    <2>2. CASE Leave(w)
      BY <1>1, <2>2, WorkerLeaves
    <2>3. QED
      BY <1>4, <2>1, <2>2 DEF Leave
  <1>7. d \in faulty' /\ faulty \subseteq faulty' /\ faulty' \subseteq Deliveries \cup Notices /\ mishaps' \in 0..MaxFaults
    BY <1>1, <1>4, MishapTyped
  <1>8. NotificationTypeOK'
    BY <1>1, <1>4, <1>5, <1>6, <1>7 DEF NotificationTypeOK
  <1>9. WorkerOnly(w, d)
    BY <1>2, <1>4, <1>5, <1>6, <1>7 DEF WorkerOnly, RowSame, Doing, Of
  <1>10. job[d].state # "none" /\ job[d].state = "active" /\ sent'[d] >= sent[d]
    BY <1>1, <1>2, <1>3, <1>4, NotificationConstants DEF WorkerSound, JobSound, NotificationTypeOK
  <1>11. JobSound(d)'
    BY <1>3, <1>4, <1>5, <1>10 DEF JobSound
  <1>12. WorkerSound(w)'
    BY <1>1, <1>2, <1>4, <1>5, <1>6 DEF WorkerSound, Doing, Of
  <1>13. Truthful(d)'
    BY <1>7 DEF Truthful
  <1>14. QED
    BY <1>5, <1>8, <1>9, <1>10, <1>11, <1>12, <1>13, WorkerStepSound, WorkerStepTruth

---------------------------------------------------------------------------
(* The handler of a notice                                                 *)
Handlers == [pc: {"idle", "prefs", "done"}] \cup [pc: {"create", "next"}, on: SUBSET Channels, left: SUBSET Channels]
              \cup [pc: {"enqueue"}, on: SUBSET Channels, left: SUBSET Channels, channel: Channels]

\* A step that makes no delivery and no job.
LEMMA NoticeMoves ==
  ASSUME NotificationInv, NEW n \in Notices, NEW h \in Handlers, Step(n, h),
         UNCHANGED <<delivery, job, worker, tries, sent>>, preferences' \in Preferences,
         \/ UNCHANGED <<faulty, mishaps>> /\ notify[n].pc # "enqueue"
         \/ Mishap(n),
         NoticeSound(n)'
  PROVE  NotificationInv'
  <1>1. NotificationTypeOK /\ (\A d \in Deliveries : JobSound(d) /\ Truthful(d))
        /\ (\A w \in Workers : WorkerSound(w)) /\ \A m \in Notices : NoticeSound(m)
    BY DEF NotificationInv, NotificationTypeInv, TruthInv
  <1>2. notify'[n] = h /\ (\A m \in Notices : m # n => notify'[m] = notify[m]) /\ notify' \in [Notices -> Handlers]
    BY <1>1, NotifySet DEF Handlers
  <1>3. faulty \subseteq faulty' /\ faulty' \subseteq Deliveries \cup Notices /\ mishaps' \in 0..MaxFaults
        /\ (notify[n].pc # "enqueue" \/ n \in faulty')
    <2>1. CASE UNCHANGED <<faulty, mishaps>> /\ notify[n].pc # "enqueue"
      BY <1>1, <2>1 DEF NotificationTypeOK
    <2>2. CASE Mishap(n)
      BY <1>1, <2>2, MishapTyped
    <2>3. QED
      BY <2>1, <2>2
  <1>4. NotificationTypeOK'
    BY <1>1, <1>2, <1>3 DEF NotificationTypeOK, Handlers
  <1>5. \A d \in Deliveries : JobSound(d)'
    BY <1>1 DEF JobSound
  <1>6. \A w \in Workers : WorkerSound(w)'
    BY <1>1 DEF WorkerSound, Doing, Of
  <1>7. \A m \in Notices : NoticeSound(m)'
    BY <1>1, <1>2 DEF NoticeSound
  <1>8. ASSUME NEW d \in Deliveries PROVE Truthful(d)'
    <2>1. d[1] \in Notices
      BY DEF Deliveries
    <2>2. Untouched(d)
      BY DEF Untouched, RowSame, WorkersSame
    <2>3. \/ notify'[d[1]] = notify[d[1]] \/ notify[d[1]].pc # "enqueue" \/ d[1] \in faulty'
      BY <1>2, <1>3, <2>1
    <2>4. QED
      BY <1>1, <1>3, <2>2, <2>3, UntouchedTruthful
  <1>9. QED
    BY <1>4, <1>5, <1>6, <1>7, <1>8 DEF NotificationInv, NotificationTypeInv, TruthInv

LEMMA NotifyBeginSound ==
  ASSUME NotificationInv, NEW n \in Notices, NEW cs \in SUBSET Channels, NotifyBegin(n, cs)
  PROVE  NotificationInv'
  <1>1. NotificationTypeOK /\ NoticeSound(n) /\ preferences \in Preferences
    BY DEF NotificationInv, NotificationTypeInv, NotificationTypeOK
  <1>2. PICK h \in Handlers :
          /\ h = IF ~preferences.row THEN [pc |-> "prefs"] ELSE [pc |-> "create", on |-> preferences.on, left |-> cs]
          /\ h.pc \in {"prefs", "create"} /\ (h.pc = "create" => h.left = cs)
    <2>1. [pc |-> "prefs"] \in Handlers
      BY DEF Handlers
    <2>2. [pc |-> "create", on |-> preferences.on, left |-> cs] \in Handlers
      BY <1>1 DEF Handlers, Preferences
    <2>3. QED
      BY <2>1, <2>2
  <1>3. Step(n, h) /\ UNCHANGED <<preferences, delivery, job, worker, tries, sent, faulty, mishaps>> /\ notify[n].pc = "idle"
    BY <1>2 DEF NotifyBegin, traces
  <1>4. notify'[n] = h
    BY <1>1, <1>2, <1>3, NotifySet DEF Handlers
  <1>5. NoticeSound(n)'
    BY <1>1, <1>2, <1>3, <1>4 DEF NoticeSound
  <1>6. QED
    BY <1>1, <1>3, <1>5, NoticeMoves

LEMMA CreatePreferencesSound ==
  ASSUME NotificationInv, NEW n \in Notices, NEW cs \in SUBSET Channels, CreatePreferences(n, cs)
  PROVE  NotificationInv'
  <1>1. NotificationTypeOK /\ NoticeSound(n) /\ preferences \in Preferences
    BY DEF NotificationInv, NotificationTypeInv, NotificationTypeOK
  <1>2. PICK h \in Handlers :
          /\ h = IF ~preferences.row THEN [pc |-> "create", on |-> Channels, left |-> cs] ELSE [pc |-> "done"]
          /\ h.pc \in {"done", "create"} /\ (h.pc = "create" => h.left = cs)
    <2>1. [pc |-> "done"] \in Handlers
      BY DEF Handlers
    <2>2. [pc |-> "create", on |-> Channels, left |-> cs] \in Handlers
      BY DEF Handlers
    <2>3. QED
      BY <2>1, <2>2
  <1>3. Step(n, h) /\ UNCHANGED <<delivery, job, worker, tries, sent, faulty, mishaps>> /\ notify[n].pc = "prefs"
    BY <1>2 DEF CreatePreferences, traces
  <1>4. preferences' \in Preferences
    BY <1>1 DEF CreatePreferences, Preferences
  <1>5. notify'[n] = h
    BY <1>1, <1>2, <1>3, NotifySet DEF Handlers
  <1>6. NoticeSound(n)'
    BY <1>1, <1>2, <1>3, <1>5 DEF NoticeSound
  <1>7. QED
    BY <1>3, <1>4, <1>6, NoticeMoves

LEMMA CreateNoticeSound ==
  ASSUME NotificationInv, NEW n \in Notices, CreateNotice(n)
  PROVE  NotificationInv'
  <1>1. NotificationTypeOK /\ NoticeSound(n) /\ preferences \in Preferences
    BY DEF NotificationInv, NotificationTypeInv, NotificationTypeOK
  <1> DEFINE h == [notify[n] EXCEPT !.pc = "next"]
  <1>2. UNCHANGED <<preferences, delivery, job, worker, tries, sent, faulty, mishaps>> /\ notify[n].pc = "create" /\ Step(n, h)
    BY DEF CreateNotice, traces
  <1>3. h \in [pc: {"create", "next"}, on: SUBSET Channels, left: SUBSET Channels] /\ h.pc = "next" /\ h.left = notify[n].left
    BY <1>1, <1>2, NotifyTyped
  <1> HIDE DEF h
  <1>4. h \in Handlers
    BY <1>3 DEF Handlers
  <1>5. notify'[n] = h
    BY <1>1, <1>2, <1>4, NotifySet DEF Handlers
  <1>6. NoticeSound(n)'
    BY <1>1, <1>2, <1>3, <1>5 DEF NoticeSound
  <1>7. QED
    BY <1>1, <1>2, <1>4, <1>6, NoticeMoves

LEMMA NotifyDoneSound ==
  ASSUME NotificationInv, NEW n \in Notices, NotifyEnd(n) \/ NotifyCut(n)
  PROVE  NotificationInv'
  <1>1. NotificationTypeOK /\ preferences \in Preferences
    BY DEF NotificationInv, NotificationTypeInv, NotificationTypeOK
  <1> DEFINE h == [pc |-> "done"]
  <1>2. h \in Handlers /\ h.pc = "done"
    BY DEF Handlers
  <1>3. UNCHANGED <<preferences, delivery, job, worker, tries, sent>> /\ Step(n, h)
    BY DEF NotifyEnd, NotifyCut, traces
  <1>4. \/ UNCHANGED <<faulty, mishaps>> /\ notify[n].pc # "enqueue"
        \/ Mishap(n)
    BY DEF NotifyEnd, NotifyCut, traces
  <1> HIDE DEF h
  <1>5. notify'[n] = h
    BY <1>1, <1>2, <1>3, NotifySet DEF Handlers
  <1>6. NoticeSound(n)'
    BY <1>2, <1>5 DEF NoticeSound
  <1>7. QED
    BY <1>1, <1>2, <1>3, <1>4, <1>6, NoticeMoves

\* A step on a delivery nobody works on yet.
LEMMA NoticeMakes ==
  ASSUME NotificationInv, NEW n \in Notices, NEW d \in Deliveries, d[1] = n, job[d].state = "none",
         UNCHANGED <<preferences, worker, tries, sent, faulty, mishaps>>,
         notify' \in [Notices -> Handlers],
         \A m \in Notices : m # n => notify'[m] = notify[m],
         notify[n].pc = "enqueue" => notify[n].channel = d[2],
         delivery' \in [Deliveries -> Statuses], job' \in [Deliveries -> Job],
         \A e \in Deliveries : e # d => delivery'[e] = delivery[e] /\ job'[e] = job[e],
         JobSound(d)', NoticeSound(n)',
         delivery'[d] \in {"none", "SKIPPED", "PENDING"},
         delivery'[d] = "PENDING" => \/ job'[d].state = "waiting"
                                     \/ notify'[n].pc = "enqueue" /\ notify'[n].channel = d[2]
  PROVE  NotificationInv'
  <1>1. NotificationTypeOK /\ (\A e \in Deliveries : JobSound(e) /\ Truthful(e))
        /\ (\A w \in Workers : WorkerSound(w)) /\ \A m \in Notices : NoticeSound(m)
    BY DEF NotificationInv, NotificationTypeInv, TruthInv
  <1>2. NotificationTypeOK'
    BY <1>1 DEF NotificationTypeOK, Handlers
  <1>3. \A e \in Deliveries : e # d => RowSame(e)
    BY DEF RowSame
  <1>4. \A e \in Deliveries : JobSound(e)'
    BY <1>1, <1>3, UntouchedSound
  <1>5. Having(d) = {}
    BY <1>1 DEF WorkerSound, Having
  <1>6. ASSUME NEW w \in Workers PROVE WorkerSound(w)'
    <2> SUFFICES ASSUME ~Doing(w, "free") PROVE WorkerSound(w)'
      BY DEF WorkerSound, Doing
    <2>1. PICK e \in Deliveries : e = Of(w)
      BY <1>1, WorkerTyped
    <2>2. e # d
      BY <1>5, <2>1 DEF Having
    <2>3. QED
      BY <1>1, <1>3, <2>1, <2>2 DEF WorkerSound, RowSame, Doing, Of
  <1>7. ASSUME NEW m \in Notices, m # n PROVE NoticeSound(m)'
    <2>1. \A c \in Channels : delivery'[<<m, c>>] = delivery[<<m, c>>] /\ job'[<<m, c>>] = job[<<m, c>>]
      BY <1>7 DEF Deliveries
    <2>2. /\ notify[m].pc \in {"create", "next", "enqueue"} => notify[m].left \subseteq Channels
          /\ notify[m].pc = "enqueue" => notify[m].channel \in Channels
      BY <1>1, NotifyTyped
    <2>3. QED
      BY <1>1, <1>7, <2>1, <2>2 DEF NoticeSound
  <1>8. ASSUME NEW e \in Deliveries, e # d PROVE Truthful(e)'
    <2>1. Untouched(e)
      BY <1>3, <1>8 DEF Untouched, WorkersSame
    <2>2. e[1] \in Notices /\ (e[1] # n \/ e[2] # d[2])
      BY <1>8 DEF Deliveries
    <2>3. \/ notify'[e[1]] = notify[e[1]] \/ notify[e[1]].pc # "enqueue"
          \/ e[1] \in faulty' \/ notify[e[1]].channel # e[2]
      BY <2>2
    <2>4. QED
      BY <1>1, <2>1, <2>3, UntouchedTruthful
  <1>9. Truthful(d)'
    <2>1. tries[d] = 0 /\ Having(d)' = {}
      BY <1>1, <1>5 DEF JobSound, Having, Doing, Of
    <2>2. Outcome(d)'
      BY <2>1 DEF Outcome
    <2>3. QED
      BY <2>1, <2>2 DEF Truthful
  <1>10. QED
    BY <1>2, <1>4, <1>6, <1>7, <1>8, <1>9 DEF NotificationInv, NotificationTypeInv, TruthInv

LEMMA DeliveryOf ==
  ASSUME NEW n \in Notices, NEW c \in Channels
  PROVE  \E d \in Deliveries : d = <<n, c>> /\ d[1] = n /\ d[2] = c
  <1>1. <<n, c>> \in Deliveries
    BY DEF Deliveries
  <1>2. QED
    BY <1>1

LEMMA CreateDeliverySound ==
  ASSUME NotificationInv, NEW n \in Notices, NEW c \in Channels, CreateDelivery(n, c)
  PROVE  NotificationInv'
  <1>1. NotificationTypeOK /\ NoticeSound(n) /\ (\A e \in Deliveries : JobSound(e)) /\ \A e \in Deliveries : job[e] \in Job
    BY DEF NotificationInv, NotificationTypeInv, NotificationTypeOK
  <1>2. PICK d \in Deliveries : d = <<n, c>> /\ d[1] = n /\ d[2] = c
    BY DeliveryOf
  <1>3. PICK left \in SUBSET Channels : left = notify[n].left \ {c} /\ c \notin left /\ left \subseteq notify[n].left
    BY <1>1, NotifyTyped DEF CreateDelivery
  <1>4. notify[n].pc = "next" /\ c \in notify[n].left /\ notify[n].on \subseteq Channels
        /\ notify[n] \in [pc: {"create", "next"}, on: SUBSET Channels, left: SUBSET Channels]
    BY <1>1, NotifyTyped DEF CreateDelivery
  <1>5. UNCHANGED <<preferences, job, worker, tries, sent, faulty, mishaps>>
    BY DEF CreateDelivery, traces
  <1>6. delivery[d] = "none" /\ job[d].state = "none" /\ tries[d] = 0
    BY <1>1, <1>2, <1>4 DEF NoticeSound, JobSound
  <1>7. PICK s \in {"PENDING", "SKIPPED"} : delivery' = [delivery EXCEPT ![d] = s] /\ (s = "PENDING" <=> c \in notify[n].on)
    BY <1>2 DEF CreateDelivery
  <1>8. /\ delivery'[d] = s /\ \A e \in Deliveries : e # d => delivery'[e] = delivery[e]
        /\ delivery' \in [Deliveries -> Statuses]
    <2>1. s \in Statuses
      BY DEF Statuses
    <2>2. QED
      BY <1>1, <1>7, <2>1, DeliverySet
  <1>9. PICK h \in Handlers :
          /\ Step(n, h) /\ h.left = left /\ h.pc \in {"next", "enqueue"}
          /\ s = "PENDING" <=> h.pc = "enqueue"
          /\ h.pc = "enqueue" => h.channel = c
    <2>1. CASE s = "PENDING"
      <3> DEFINE g == [pc |-> "enqueue", on |-> notify[n].on, left |-> left, channel |-> c]
      <3>1. g \in Handlers /\ g.left = left /\ g.pc = "enqueue" /\ g.channel = c
        BY <1>4 DEF Handlers
      <3>2. Step(n, g)
        BY <1>3, <1>7, <2>1 DEF CreateDelivery
      <3>3. QED
        BY <2>1, <3>1, <3>2
    <2>2. CASE s # "PENDING"
      <3> DEFINE g == [notify[n] EXCEPT !.left = left]
      <3>1. g \in [pc: {"create", "next"}, on: SUBSET Channels, left: SUBSET Channels] /\ g.left = left /\ g.pc = "next"
        BY <1>4
      <3>2. Step(n, g)
        BY <1>3, <1>7, <2>2 DEF CreateDelivery
      <3> HIDE DEF g
      <3>3. g \in Handlers
        BY <3>1 DEF Handlers
      <3>4. QED
        BY <2>2, <3>1, <3>2, <3>3
    <2>3. QED
      BY <2>1, <2>2
  <1>10. notify'[n] = h /\ (\A m \in Notices : m # n => notify'[m] = notify[m]) /\ notify' \in [Notices -> Handlers]
    BY <1>1, <1>9, NotifySet DEF Handlers
  <1>11. JobSound(d)'
    BY <1>1, <1>5, <1>6, <1>7, <1>8 DEF JobSound
  <1>12. NoticeSound(n)'
    <2>1. ASSUME NEW b \in left PROVE delivery'[<<n, b>>] = "none"
      <3>1. <<n, b>> \in Deliveries /\ <<n, b>> # d /\ delivery[<<n, b>>] = "none"
        BY <1>1, <1>2, <1>3, <1>4 DEF NoticeSound, Deliveries
      <3>2. QED
        BY <1>8, <3>1
    <2>2. h.pc = "enqueue" => delivery'[<<n, c>>] = "PENDING" /\ job'[<<n, c>>].state = "none"
      BY <1>2, <1>5, <1>6, <1>8, <1>9
    <2>3. QED
      BY <1>3, <1>9, <1>10, <2>1, <2>2 DEF NoticeSound
  <1>13. delivery'[d] = "PENDING" => notify'[n].pc = "enqueue" /\ notify'[n].channel = d[2]
    BY <1>2, <1>8, <1>9, <1>10
  <1>14. job' \in [Deliveries -> Job] /\ \A e \in Deliveries : job'[e] = job[e]
    BY <1>1, <1>5 DEF NotificationTypeOK
  <1>15. QED
    BY <1>2, <1>4, <1>5, <1>6, <1>8, <1>10, <1>11, <1>12, <1>13, <1>14, NoticeMakes

LEMMA EnqueueSound ==
  ASSUME NotificationInv, NEW n \in Notices, Enqueue(n)
  PROVE  NotificationInv'
  <1>1. NotificationTypeOK /\ NoticeSound(n) /\ notify[n].pc = "enqueue"
    BY DEF NotificationInv, NotificationTypeInv, Enqueue
  <1>2. PICK c \in Channels : c = notify[n].channel
    BY <1>1, NotifyTyped
  <1>3. PICK d \in Deliveries : d = <<n, c>> /\ d[1] = n /\ d[2] = c
    BY DeliveryOf
  <1>4. notify[n].on \subseteq Channels /\ notify[n].left \subseteq Channels
    BY <1>1, NotifyTyped
  <1>5. UNCHANGED <<preferences, delivery, worker, tries, sent, faulty, mishaps>>
    BY DEF Enqueue, traces
  <1>6. delivery[d] = "PENDING" /\ job[d].state = "none" /\ tries[d] = 0 /\ c \notin notify[n].left
        /\ \A b \in notify[n].left : delivery[<<n, b>>] = "none"
    BY <1>1, <1>2, <1>3 DEF NoticeSound, NotificationInv, NotificationTypeInv, JobSound
  <1> DEFINE j == [Resting EXCEPT !.state = "waiting"]
  <1>7. j \in Job /\ j.state = "waiting" /\ j.made = 0 /\ j.by = "nobody"
    BY NotificationConstants DEF Resting, Job
  <1>8. job' = [job EXCEPT ![d] = j]
    BY <1>2, <1>3 DEF Enqueue
  <1> HIDE DEF j
  <1>9. job'[d] = j /\ (\A e \in Deliveries : e # d => job'[e] = job[e]) /\ job' \in [Deliveries -> Job]
    BY <1>1, <1>7, <1>8, JobSet
  <1> DEFINE h == [pc |-> "next", on |-> notify[n].on, left |-> notify[n].left]
  <1>10. h \in Handlers /\ h.pc = "next" /\ h.left = notify[n].left
    BY <1>4 DEF Handlers
  <1>11. Step(n, h)
    BY DEF Enqueue
  <1> HIDE DEF h
  <1>12. notify'[n] = h /\ (\A m \in Notices : m # n => notify'[m] = notify[m]) /\ notify' \in [Notices -> Handlers]
    BY <1>1, <1>10, <1>11, NotifySet DEF Handlers
  <1>13. JobSound(d)'
    BY <1>5, <1>6, <1>7, <1>9, NotificationConstants DEF JobSound
  <1>14. NoticeSound(n)'
    BY <1>5, <1>6, <1>10, <1>12 DEF NoticeSound
  <1>15. delivery' \in [Deliveries -> Statuses] /\ \A e \in Deliveries : delivery'[e] = delivery[e]
    BY <1>1, <1>5 DEF NotificationTypeOK
  <1>16. QED
    BY <1>2, <1>3, <1>5, <1>6, <1>7, <1>9, <1>12, <1>13, <1>14, <1>15, NoticeMakes

LEMMA SetPreferencesSound ==
  ASSUME NotificationInv, NEW cs \in SUBSET Channels, SetPreferences(cs) 
  PROVE  NotificationInv'
  <1>1. UNCHANGED <<notify, delivery, job, worker, tries, sent, faulty, mishaps>> /\ preferences' \in Preferences
    BY DEF SetPreferences, traces, Preferences
  <1>2. NotificationTypeInv'
    BY <1>1 DEF NotificationInv, NotificationTypeInv, NotificationTypeOK, JobSound, WorkerSound, NoticeSound, Doing, Of
  <1>3. TruthInv'
    BY <1>1 DEF NotificationInv, TruthInv, Truthful, Having, Held, Outcome, Doing, Of
  <1>4. QED
    BY <1>2, <1>3 DEF NotificationInv

LEMMA NotificationIdle ==
  ASSUME NotificationInv, UNCHANGED notificationVars
  PROVE  NotificationInv'
  <1>1. UNCHANGED <<preferences, notify, delivery, job, worker, tries, sent, faulty, mishaps>>
    BY DEF notificationVars, handler, traces
  <1>2. NotificationTypeInv'
    BY <1>1 DEF NotificationInv, NotificationTypeInv, NotificationTypeOK, JobSound, WorkerSound, NoticeSound, Doing, Of
  <1>3. TruthInv'
    BY <1>1 DEF NotificationInv, TruthInv, Truthful, Having, Held, Outcome, Doing, Of
  <1>4. QED
    BY <1>2, <1>3 DEF NotificationInv

LEMMA NotificationStarts ==
  ASSUME NotificationInit PROVE NotificationInv
  <1> USE DEF NotificationInit
  <1>1. NotificationTypeOK
    <2>1. Resting \in Job
      BY NotificationConstants DEF Resting, Job
    <2>2. job \in [Deliveries -> Job]
      BY <2>1
    <2>3. QED
      BY <2>2, NotificationConstants DEF NotificationTypeOK, Preferences, Statuses
  <1>2. \A d \in Deliveries : JobSound(d)
    BY DEF JobSound, Resting
  <1>3. \A w \in Workers : Doing(w, "free")
    BY DEF Doing, Free
  <1>4. \A n \in Notices : NoticeSound(n)
    BY DEF NoticeSound, Deliveries
  <1>5. \A d \in Deliveries : Having(d) = {} /\ Outcome(d) /\ delivery[d] = "none"
    BY <1>3 DEF Having, Outcome
  <1>6. QED
    BY <1>1, <1>2, <1>3, <1>4, <1>5 DEF NotificationInv, NotificationTypeInv, TruthInv, Truthful, WorkerSound

LEMMA NotificationStep ==
  ASSUME NotificationInv, [NotificationNext]_notificationVars
  PROVE  NotificationInv'
  <1>1. CASE \E cs \in SUBSET Channels : SetPreferences(cs)
    BY <1>1, SetPreferencesSound
  <1>2. ASSUME NEW n \in Notices,
               \/ CreateNotice(n) \/ Enqueue(n) \/ NotifyEnd(n) \/ NotifyCut(n)
               \/ \E cs \in SUBSET Channels : NotifyBegin(n, cs) \/ CreatePreferences(n, cs)
               \/ \E c \in Channels : CreateDelivery(n, c)
        PROVE  NotificationInv'
    BY <1>2, CreateNoticeSound, EnqueueSound, NotifyDoneSound, NotifyBeginSound, CreatePreferencesSound, CreateDeliverySound
  <1>3. ASSUME NEW w \in Workers,
               \/ ReadDelivery(w) \/ Dispatch(w) \/ MarkSent(w) \/ MarkFailed(w) \/ Throw(w) \/ Complete(w) \/ Stalled(w)
               \/ \E d \in Deliveries : Take(w, d)
        PROVE  NotificationInv'
    BY <1>3, ReadDeliverySound, DispatchSound, MarkSentSound, MarkFailedSound, ThrowSound, CompleteSound, StalledSound, TakeSound
  <1>4. CASE UNCHANGED notificationVars
    BY <1>4, NotificationIdle
  <1>5. QED
    BY <1>1, <1>2, <1>3, <1>4 DEF NotificationNext

\* What the workers know gives what a reader of the row may conclude.
LEMMA NotificationInvTruthful ==
  ASSUME NotificationInv PROVE DeliveriesTruthful
  <1> SUFFICES ASSUME NEW d \in Deliveries
      PROVE  LET quiet == \A w \in Workers : ~Doing(w, "free") => Of(w) # d IN
             /\ delivery[d] = "SENT" => sent[d] > 0
             /\ delivery[d] \in {"none", "SKIPPED"} => tries[d] = 0 /\ job[d].state = "none"
             /\ d \notin faulty =>
                  /\ tries[d] <= 1
                  /\ delivery[d] = "FAILED" => sent[d] = 0
                  /\ quiet /\ tries[d] = 1 => delivery[d] = IF sent[d] = 1 THEN "SENT" ELSE "FAILED"
                  /\ delivery[d] = "PENDING" => job[d].state \in {"waiting", "active"} \/ notify[d[1]].pc = "enqueue" \/ d[1] \in faulty
    BY DEF DeliveriesTruthful
  <1>1. NotificationTypeOK /\ JobSound(d) /\ Truthful(d)
    BY DEF NotificationInv, NotificationTypeInv, TruthInv
  <1>2. d \notin faulty => tries[d] <= 1 /\ (delivery[d] = "FAILED" => sent[d] = 0)
    <2> SUFFICES ASSUME d \notin faulty PROVE tries[d] <= 1 /\ (delivery[d] = "FAILED" => sent[d] = 0)
      OBVIOUS
    <2>1. CASE Having(d) = {}
      BY <1>1, <2>1 DEF Truthful, Outcome
    <2>2. ASSUME NEW w \in Having(d) PROVE tries[d] <= 1 /\ (delivery[d] = "FAILED" => sent[d] = 0)
      <3>1. Held(w, d) /\ ~Doing(w, "free") /\ w \in Workers
        BY <1>1 DEF Truthful, Having
      <3>2. worker[w].pc \in {"read", "dispatch", "sent", "fail", "throw", "complete"}
        BY <1>1, <3>1, WorkerTyped
      <3>3. Outcome(d) \/ (tries[d] = 1 /\ delivery[d] = "PENDING")
        BY <3>1, <3>2 DEF Held, Doing
      <3>4. QED
        BY <3>3 DEF Outcome
    <2>3. QED
      BY <2>1, <2>2
  <1>3. (\A w \in Workers : ~Doing(w, "free") => Of(w) # d) => Having(d) = {}
    BY DEF Having
  <1>4. QED
    BY <1>1, <1>2, <1>3 DEF JobSound, Truthful, Outcome

(* In every state of the notifications the type invariant holds: no job    *)
(* counts more attempts than DEFAULT_JOB_OPTIONS gives it, and a delivery  *)
(* goes out no more often than it is tried.                                *)
THEOREM NotificationTypes == NotificationSpec => []NotificationTypeOK
  <1>1. NotificationInit => NotificationInv
    BY NotificationStarts
  <1>2. NotificationInv /\ [NotificationNext]_notificationVars => NotificationInv'
    BY NotificationStep
  <1>3. NotificationInv => NotificationTypeOK
    BY DEF NotificationInv, NotificationTypeInv
  <1>4. QED
    BY <1>1, <1>2, <1>3, PTL DEF NotificationSpec

(* In every state of the notifications, for any number of notices and      *)
(* workers and any faults: a delivery that met no fault is tried once and  *)
(* its status is its outcome, and one nobody asked for is never tried.     *)
THEOREM DeliveriesAlwaysTruthful == NotificationSpec => []DeliveriesTruthful
  <1>1. NotificationInit => NotificationInv
    BY NotificationStarts
  <1>2. NotificationInv /\ [NotificationNext]_notificationVars => NotificationInv'
    BY NotificationStep
  <1>3. NotificationInv => DeliveriesTruthful
    BY NotificationInvTruthful
  <1>4. QED
    BY <1>1, <1>2, <1>3, PTL DEF NotificationSpec

---------------------------------------------------------------------------
(* MESSAGING: who is online, and what the conversations say.               *)
---------------------------------------------------------------------------
(* A socket is in the set of its user from SADD to SREM, and is removed    *)
(* after it closed, unless it closed before SADD or is stranded.           *)
SocketSound(s) ==
  /\ \A v \in Members : s \in presence[v] => Connected(s) /\ UserOf(s) = v
  /\ Connected(s) =>
       /\ socket[s].in \in {"auth", "join", "add"} => s \notin presence[UserOf(s)]
       /\ socket[s].open => Out(s, "none") /\ (socket[s].in \in {"count", "done"} => s \in presence[UserOf(s)])
       /\ ~socket[s].open /\ s \in presence[UserOf(s)] => s \in stranded \/ Out(s, "remove")
       /\ socket[s].rooms \subseteq Rooms(UserOf(s))

Adding(u)   == {s \in Sockets : Connected(s) /\ UserOf(s) = u /\ In(s, "count")}
Removing(u) == {s \in Sockets : Connected(s) /\ UserOf(s) = u /\ (Out(s, "count") \/ Out(s, "list"))}

(* What was broadcast of a user is true of the set, or one handler is still*)
(* to broadcast what it changed.                                           *)
ToldTrue(u) ==
  u \notin disturbed =>
    /\ Adding(u) = {} /\ Removing(u) = {} => told[u] = IF presence[u] = {} THEN "offline" ELSE "online"
    /\ \A s \in Adding(u) : /\ Adding(u) = {s} /\ Removing(u) = {} /\ s \in presence[u]
                            /\ presence[u] # {s} => told[u] = "online"
    /\ \A s \in Removing(u) : /\ Removing(u) = {s} /\ Adding(u) = {}
                              /\ Out(s, "count") /\ presence[u] # {} => told[u] = "online"
                              /\ Out(s, "list") => presence[u] = {}

PresenceInv == (\A s \in Sockets : SocketSound(s)) /\ \A u \in Members : ToldTrue(u)

Creating(r, ps)   == call[r].pc = "create" /\ call[r].of = ps
Touching(r, c)    == call[r].pc = "touch" /\ call[r].to = c
Reading(r, c, u)  == call[r].pc = "seen" /\ call[r].to = c /\ call[r].by = u
TimesOf(c)        == {t \in DOMAIN message : message[t].to = c}

(* What a call works on is there, and its time has come.                   *)
CallSound(r) ==
  call[r].pc \in {"touch", "seen"} => conversation[call[r].to] # Unstarted /\ call[r].at <= Len(message)

(* A pair that was not rushed is created at most once.                     *)
PairSound(ps) ==
  Pair(ps) /\ ps \notin rushed =>
    /\ \A r, o \in Calls : Creating(r, ps) /\ Creating(o, ps) => r = o
    /\ \A r \in Calls, c \in Conversations : Creating(r, ps) => conversation[c].of # ps
    /\ \A c, d \in Conversations : conversation[c].of = ps /\ conversation[d].of = ps => c = d

(* A time written by one at a time is the time of the last message, or is  *)
(* about to be.                                                            *)
TimeSound(c) ==
  /\ conversation[c] = Unstarted => TimesOf(c) = {}
  /\ c \notin crossed /\ conversation[c] # Unstarted =>
       /\ \A r \in Calls : Touching(r, c) =>
            /\ call[r].at \in TimesOf(c) /\ \A t \in TimesOf(c) : t <= call[r].at
            /\ \A o \in Calls : Touching(o, c) => o = r
       /\ (\A r \in Calls : ~Touching(r, c)) =>
            /\ conversation[c].lastMessageAt \in TimesOf(c) \cup {0}
            /\ \A t \in TimesOf(c) : t <= conversation[c].lastMessageAt

(* So is what a participant has read.                                      *)
ReadSound(c, u) ==
  /\ latest[<<c, u>>] <= Len(message)
  /\ conversation[c] = Unstarted => latest[<<c, u>>] = 0
  /\ <<c, u>> \notin crossed /\ conversation[c] # Unstarted =>
       /\ conversation[c].read[u] = latest[<<c, u>>]
       /\ \A r \in Calls : Reading(r, c, u) =>
            latest[<<c, u>>] <= call[r].at /\ \A o \in Calls : Reading(o, c, u) => o = r

ConversationInv ==
  /\ \A r \in Calls : CallSound(r)
  /\ \A ps \in Groups : PairSound(ps)
  /\ \A c \in Conversations : TimeSound(c)
  /\ \A c \in Conversations, u \in Members : ReadSound(c, u)

MessagingInv == MessagingTypeOK /\ Len(message) <= MaxThings /\ PresenceInv /\ ConversationInv

---------------------------------------------------------------------------
(* The two halves of the state                                             *)
Ins      == {"auth", "join", "add", "count", "done"}
Outs     == {"none", "remove", "count", "list", "done"}
SocketRecord == [open: BOOLEAN, in: Ins, out: Outs, user: Members, rooms: SUBSET Conversations]
CallRecord   == {NoCall} \cup [pc: {"create"}, of: Groups]
                  \cup [pc: {"touch"}, to: Conversations, at: Times]
                  \cup [pc: {"seen"}, to: Conversations, by: Members, at: Times]

SocketsTyped ==
  /\ socket \in [Sockets -> {NoSocket} \cup SocketRecord]
  /\ \A s \in Sockets : socket[s].in = "auth" => socket[s].out \in {"none", "done"}
OnlineTyped ==
  /\ SocketsTyped
  /\ presence \in [Members -> SUBSET Sockets] /\ told \in [Members -> {"offline", "online"}]
  /\ stranded \subseteq Sockets /\ disturbed \subseteq Members
StoredTyped ==
  /\ conversation \in [Conversations -> {Unstarted} \cup Conversation]
  /\ message \in Seq(Message) /\ Len(message) <= MaxThings
  /\ call \in [Calls -> CallRecord]
  /\ rushed \subseteq Groups /\ crossed \subseteq Conversations \cup Readers
  /\ latest \in [Readers -> Times]

Halves == /\ OnlineTyped /\ PresenceInv
          /\ StoredTyped /\ ConversationInv
          /\ slips \in 0..MaxSlips

LEMMA HalvesAreWhole == MessagingInv <=> Halves
  BY DEF MessagingInv, Halves, MessagingTypeOK, OnlineTyped, SocketsTyped, StoredTyped, SocketRecord, CallRecord, Ins, Outs

LEMMA OnlineIdle ==
  ASSUME OnlineTyped, PresenceInv, UNCHANGED online, \A u \in Members : Rooms(u) \subseteq Rooms(u)'
  PROVE  OnlineTyped' /\ PresenceInv'
  <1>1. UNCHANGED <<socket, presence, told, stranded, disturbed>>
    BY DEF online
  <1>2. OnlineTyped'
    BY <1>1 DEF OnlineTyped, SocketsTyped
  <1>3. ASSUME NEW s \in Sockets PROVE SocketSound(s)'
    <2>1. Connected(s) => UserOf(s) \in Members
      BY DEF OnlineTyped, SocketsTyped, Connected, UserOf, SocketRecord
    <2>2. Connected(s) => Rooms(UserOf(s)) \subseteq Rooms(UserOf(s))'
      <3>1. ASSUME NEW u \in Members, u = UserOf(s) PROVE Rooms(UserOf(s)) \subseteq Rooms(UserOf(s))'
        <4>1. UserOf(s)' = u
          BY <1>1, <3>1 DEF UserOf
        <4>2. QED
          BY <3>1, <4>1 DEF Rooms
      <3>2. QED
        BY <2>1, <3>1
    <2>3. SocketSound(s)
      BY DEF PresenceInv
    <2>4. QED
      BY <1>1, <2>2, <2>3 DEF SocketSound, Connected, UserOf, Out
  <1>4. \A u \in Members : ToldTrue(u)'
    BY <1>1 DEF PresenceInv, ToldTrue, Adding, Removing, Connected, UserOf, In, Out
  <1>5. QED
    BY <1>2, <1>3, <1>4 DEF PresenceInv

LEMMA StoredIdle ==
  ASSUME StoredTyped, ConversationInv, UNCHANGED <<stored, call, rushed, crossed, latest>>
  PROVE  StoredTyped' /\ ConversationInv'
  <1>1. UNCHANGED <<conversation, message, call, rushed, crossed, latest>>
    BY DEF stored
  <1>2. StoredTyped'
    BY <1>1 DEF StoredTyped
  <1>3. ConversationInv'
    BY <1>1 DEF ConversationInv, CallSound, PairSound, TimeSound, ReadSound, Creating, Touching, Reading, TimesOf
  <1>4. QED
    BY <1>2, <1>3

---------------------------------------------------------------------------
(* Sockets                                                                 *)
LEMMA SocketTyped ==
  ASSUME SocketsTyped, NEW s \in Sockets
  PROVE  /\ Connected(s) => socket[s] \in SocketRecord /\ UserOf(s) \in Members /\ socket[s].in \in Ins /\ socket[s].out \in Outs
                            /\ socket[s].open \in BOOLEAN /\ socket[s].rooms \in SUBSET Conversations
         /\ ~Connected(s) => socket[s].in = "new" /\ Out(s, "none")
         /\ socket[s].in # "new" => Connected(s)
         /\ ~Out(s, "none") => Connected(s)
  BY DEF SocketsTyped, SocketRecord, Connected, NoSocket, UserOf, Out, Ins, Outs

LEMMA SocketSet ==
  ASSUME SocketsTyped, NEW s \in Sockets, NEW z \in SocketRecord, socket' = [socket EXCEPT ![s] = z],
         z.in = "auth" => z.out \in {"none", "done"}
  PROVE  /\ socket'[s] = z /\ Connected(s)' /\ \A t \in Sockets : t # s => socket'[t] = socket[t]
         /\ SocketsTyped'
  <1>1. socket'[s] = z /\ \A t \in Sockets : t # s => socket'[t] = socket[t]
    BY DEF SocketsTyped
  <1>2. z # NoSocket
    BY DEF SocketRecord, NoSocket, Ins
  <1>3. socket' \in [Sockets -> {NoSocket} \cup SocketRecord]
    BY DEF SocketsTyped
  <1>4. QED
    BY <1>1, <1>2, <1>3 DEF SocketsTyped, Connected

\* A step of one socket, seen by the other sockets and users.
OneSocket(s, u) ==
  /\ \A t \in Sockets : t # s => socket'[t] = socket[t]
  /\ Connected(s)' /\ UserOf(s)' = u /\ (Connected(s) => UserOf(s) = u)
  /\ \A v \in Members : v # u => presence'[v] = presence[v] /\ told'[v] = told[v]
  /\ presence'[u] \ {s} = presence[u] \ {s}
  /\ stranded \subseteq stranded' /\ disturbed \subseteq disturbed'
  /\ UNCHANGED conversation

LEMMA OneSocketSteps ==
  ASSUME OnlineTyped, PresenceInv, NEW s \in Sockets, NEW u \in Members, OneSocket(s, u), SocketSound(s)', ToldTrue(u)'
  PROVE  PresenceInv'
  <1>1. ASSUME NEW t \in Sockets, t # s PROVE SocketSound(t)'
    <2>1. socket'[t] = socket[t] /\ SocketSound(t)
      BY <1>1 DEF OneSocket, PresenceInv
    <2>2. ASSUME NEW v \in Members PROVE t \in presence'[v] <=> t \in presence[v]
      <3>1. CASE v = u
        BY <1>1, <3>1 DEF OneSocket
      <3>2. CASE v # u
        BY <3>2 DEF OneSocket
      <3>3. QED
        BY <3>1, <3>2
    <2>3. Connected(t) => UserOf(t) \in Members
      BY SocketTyped DEF OnlineTyped
    <2>4. Connected(t)' = Connected(t) /\ UserOf(t)' = UserOf(t) /\ Out(t, "remove")' = Out(t, "remove") /\ Out(t, "none")' = Out(t, "none")
      BY <2>1 DEF Connected, UserOf, Out
    <2>5. Connected(t) => Rooms(UserOf(t))' = Rooms(UserOf(t))
      BY <2>4 DEF OneSocket, Rooms
    <2>6. \A v \in Members : t \in presence'[v] => Connected(t)' /\ UserOf(t)' = v
      BY <2>1, <2>2, <2>4 DEF SocketSound
    <2>7. Connected(t) => (t \in presence[UserOf(t)])' = (t \in presence[UserOf(t)])
      BY <2>2, <2>3, <2>4
    <2>8. QED
      BY <2>1, <2>4, <2>5, <2>6, <2>7 DEF SocketSound, OneSocket
  <1>2. ASSUME NEW v \in Members, v # u PROVE ToldTrue(v)'
    <2>1. \A t \in Sockets : (Connected(t) /\ UserOf(t) = v)' <=> Connected(t) /\ UserOf(t) = v
      BY <1>2 DEF OneSocket, Connected, UserOf
    <2>2. \A t \in Sockets : Connected(t) /\ UserOf(t) = v => socket'[t] = socket[t]
      BY <1>2 DEF OneSocket
    <2>3. Adding(v)' = Adding(v) /\ Removing(v)' = Removing(v)
      BY <2>1, <2>2 DEF Adding, Removing, In, Out
    <2>4. presence'[v] = presence[v] /\ told'[v] = told[v] /\ disturbed \subseteq disturbed'
      BY <1>2 DEF OneSocket
    <2>5. \A t \in Removing(v) : Out(t, "count")' = Out(t, "count") /\ Out(t, "list")' = Out(t, "list")
      BY <2>2 DEF Removing, Out
    <2>6. QED
      BY <2>3, <2>4, <2>5 DEF PresenceInv, ToldTrue
  <1>3. QED
    BY <1>1, <1>2 DEF PresenceInv

\* Nothing that the broadcasts of u depend on changes.
LEMMA ToldSame ==
  ASSUME NEW s \in Sockets, NEW u \in Members, ToldTrue(u), OneSocket(s, u), presence'[u] = presence[u], told'[u] = told[u],
         Connected(s) /\ In(s, "count") <=> In(s, "count")',
         Connected(s) /\ Out(s, "count") <=> Out(s, "count")',
         Connected(s) /\ Out(s, "list") <=> Out(s, "list")'
  PROVE  ToldTrue(u)'
  <1>1. \A t \in Sockets : t # s => socket'[t] = socket[t]
    BY DEF OneSocket
  <1>2. Adding(u)' = Adding(u)
    BY <1>1 DEF OneSocket, Adding, Connected, UserOf, In
  <1>3. Removing(u)' = Removing(u)
    BY <1>1 DEF OneSocket, Removing, Connected, UserOf, Out
  <1>4. \A t \in Removing(u) : Out(t, "count")' = Out(t, "count") /\ Out(t, "list")' = Out(t, "list")
    BY <1>1 DEF Removing, Out
  <1>5. QED
    BY <1>2, <1>3, <1>4 DEF ToldTrue, OneSocket

\* A step that touches neither the stored half nor the set of the user.
LEMMA PlainSocket ==
  ASSUME Halves, NEW s \in Sockets, NEW z \in SocketRecord, NEW u \in Members,
         z.user = u, Connected(s) => UserOf(s) = u, socket' = [socket EXCEPT ![s] = z],
         z.in = "auth" => z.out \in {"none", "done"},
         UNCHANGED <<stored, call, record, presence, told>>, slips' \in 0..MaxSlips,
         stranded \subseteq stranded', stranded' \subseteq Sockets, disturbed \subseteq disturbed', disturbed' \subseteq Members,
         z.in \in {"auth", "join", "add"} => s \notin presence[u],
         z.open => z.out = "none" /\ (z.in \in {"count", "done"} => s \in presence[u]),
         ~z.open /\ s \in presence[u] => s \in stranded' \/ z.out = "remove",
         z.rooms \subseteq Rooms(u),
         \/ u \in disturbed'
         \/ /\ Connected(s) /\ In(s, "count") <=> z.in = "count"
            /\ Connected(s) /\ Out(s, "count") <=> z.out = "count"
            /\ Connected(s) /\ Out(s, "list") <=> z.out = "list"
  PROVE  Halves'
  <1>1. OnlineTyped /\ PresenceInv /\ StoredTyped /\ ConversationInv /\ SocketsTyped
    BY DEF Halves, OnlineTyped
  <1>2. /\ socket'[s] = z /\ Connected(s)' /\ \A t \in Sockets : t # s => socket'[t] = socket[t]
        /\ SocketsTyped'
    BY <1>1, SocketSet
  <1>3. UNCHANGED <<conversation, presence, told>>
    BY DEF stored
  <1>4. OneSocket(s, u)
    BY <1>2, <1>3 DEF OneSocket, UserOf
  <1>5. SocketSound(s)'
    <2>1. Rooms(UserOf(s))' = Rooms(u)
      BY <1>2, <1>3 DEF Rooms, UserOf
    <2>2. ASSUME NEW v \in Members, s \in presence[v] PROVE v = u
      BY <1>1, <2>2 DEF PresenceInv, SocketSound
    <2>3. QED
      BY <1>2, <1>3, <2>1, <2>2 DEF SocketSound, UserOf, Out
  <1>6. ToldTrue(u)'
    <2>1. CASE u \in disturbed'
      BY <2>1 DEF ToldTrue
    <2>2. CASE u \notin disturbed'
      <3>1. In(s, "count")' = (z.in = "count") /\ Out(s, "count")' = (z.out = "count") /\ Out(s, "list")' = (z.out = "list")
        BY <1>2 DEF In, Out
      <3>2. /\ Connected(s) /\ In(s, "count") <=> In(s, "count")'
            /\ Connected(s) /\ Out(s, "count") <=> Out(s, "count")'
            /\ Connected(s) /\ Out(s, "list") <=> Out(s, "list")'
        BY <2>2, <3>1
      <3>3. ToldTrue(u) /\ presence'[u] = presence[u] /\ told'[u] = told[u]
        BY <1>1, <1>3 DEF PresenceInv
      <3>4. QED
        BY <1>4, <3>2, <3>3, ToldSame
    <2>3. QED
      BY <2>1, <2>2
  <1>7. PresenceInv' /\ OnlineTyped'
    BY <1>1, <1>2, <1>3, <1>4, <1>5, <1>6, OneSocketSteps DEF OnlineTyped
  <1>8. StoredTyped' /\ ConversationInv'
    BY <1>1, StoredIdle DEF record
  <1>9. QED
    BY <1>7, <1>8 DEF Halves

\* What the invariant says of a connected socket.
LEMMA SocketFacts ==
  ASSUME Halves, NEW s \in Sockets
  PROVE  /\ Connected(s) => /\ socket[s] \in SocketRecord /\ UserOf(s) \in Members /\ socket[s].user = UserOf(s)
                            /\ socket[s].in \in {"auth", "join", "add"} => s \notin presence[UserOf(s)]
                            /\ socket[s].open => Out(s, "none") /\ (socket[s].in \in {"count", "done"} => s \in presence[UserOf(s)])
                            /\ ~socket[s].open /\ s \in presence[UserOf(s)] => s \in stranded \/ Out(s, "remove")
                            /\ socket[s].rooms \subseteq Rooms(UserOf(s))
                            /\ socket[s].in \in Ins /\ socket[s].out \in Outs /\ socket[s].open \in BOOLEAN
                            /\ In(s, "auth") => socket[s].out \in {"none", "done"}
         /\ ~Connected(s) => /\ socket[s].in = "new" /\ socket[s].out = "none"
                             /\ \A v \in Members : s \notin presence[v]
         /\ stranded \subseteq Sockets /\ disturbed \subseteq Members /\ slips \in 0..MaxSlips
  <1>1. SocketsTyped /\ SocketSound(s)
    BY DEF Halves, OnlineTyped, PresenceInv
  <1>2. QED
    BY <1>1, SocketTyped DEF SocketSound, Halves, OnlineTyped, SocketsTyped, UserOf, Out, In

LEMMA ConnectSound ==
  ASSUME Halves, NEW s \in Sockets, NEW u \in Members, Connect(s, u) PROVE Halves'
  <1> DEFINE z == [open |-> TRUE, in |-> "auth", out |-> "none", user |-> u, rooms |-> {}]
  <1>1. z \in SocketRecord /\ z.user = u /\ z.in = "auth" /\ z.out = "none" /\ z.open /\ z.rooms = {}
    BY DEF SocketRecord, Ins, Outs
  <1>2. socket' = [socket EXCEPT ![s] = z] /\ ~Connected(s)
    BY DEF Connect
  <1> HIDE DEF z
  <1>3. UNCHANGED <<stored, call, record, presence, told>> /\ UNCHANGED <<stranded, disturbed, slips>>
    BY DEF Connect
  <1>4. s \notin presence[u] /\ stranded \subseteq Sockets /\ disturbed \subseteq Members /\ slips \in 0..MaxSlips
    BY <1>2, SocketFacts
  <1>5. QED
    BY <1>1, <1>2, <1>3, <1>4, PlainSocket

LEMMA AuthenticateSound ==
  ASSUME Halves, NEW s \in Sockets, Authenticate(s) PROVE Halves'
  <1>1. Connected(s) /\ socket[s].in = "auth" /\ SocketsTyped
    BY SocketFacts DEF Authenticate, In, Halves, OnlineTyped
  <1>2. UNCHANGED <<stored, call, record, presence, told>> /\ UNCHANGED <<stranded, disturbed, slips>>
    BY DEF Authenticate
  <1>3. CASE socket' = [socket EXCEPT ![s].in = "join"]
    <2> DEFINE z == [socket[s] EXCEPT !.in = "join"]
    <2>1. socket' = [socket EXCEPT ![s] = z]
      BY <1>1, <1>3 DEF SocketsTyped
    <2>2. z \in SocketRecord /\ z.user = UserOf(s) /\ z.in = "join" /\ z.out = socket[s].out /\ z.open = socket[s].open
          /\ z.rooms = socket[s].rooms
      BY <1>1, SocketFacts DEF SocketRecord, Ins
    <2> HIDE DEF z
    <2>3. QED
      BY <1>1, <1>2, <2>1, <2>2, SocketFacts, PlainSocket DEF In, Out
  <1>4. CASE socket' = [socket EXCEPT ![s].in = "done", ![s].open = FALSE]
    <2> DEFINE y == [socket[s] EXCEPT !.in = "done"]
               z == [y EXCEPT !.open = FALSE]
    <2>1. socket' = [socket EXCEPT ![s] = z]
      BY <1>1, <1>4 DEF SocketsTyped
    <2>2. y \in SocketRecord /\ y.user = UserOf(s) /\ y.in = "done" /\ y.out = socket[s].out /\ y.rooms = socket[s].rooms
      BY <1>1, SocketFacts DEF SocketRecord, Ins
    <2> HIDE DEF y
    <2>3. z \in SocketRecord /\ z.user = UserOf(s) /\ z.in = "done" /\ z.out = socket[s].out /\ z.open = FALSE
          /\ z.rooms = socket[s].rooms
      BY <2>2 DEF SocketRecord
    <2> HIDE DEF z
    <2>4. QED
      BY <1>1, <1>2, <2>1, <2>3, SocketFacts, PlainSocket DEF In, Out
  <1>5. QED
    BY <1>3, <1>4 DEF Authenticate

LEMMA JoinRoomsSound ==
  ASSUME Halves, NEW s \in Sockets, JoinRooms(s) PROVE Halves'
  <1>1. Connected(s) /\ socket[s].in = "join" /\ SocketsTyped
    BY SocketFacts DEF JoinRooms, In, Halves, OnlineTyped
  <1>2. UNCHANGED <<stored, call, record, presence, told>> /\ UNCHANGED <<stranded, disturbed, slips>>
    BY DEF JoinRooms
  <1>3. PICK rooms \in SUBSET Conversations : rooms = (IF socket[s].open THEN Rooms(UserOf(s)) ELSE {}) /\ rooms \subseteq Rooms(UserOf(s))
    BY DEF Rooms
  <1> DEFINE y == [socket[s] EXCEPT !.in = "add"]
             z == [y EXCEPT !.rooms = rooms]
  <1>4. socket' = [socket EXCEPT ![s] = z]
    BY <1>1, <1>3 DEF JoinRooms, SocketsTyped
  <1>5. y \in SocketRecord /\ y.user = UserOf(s) /\ y.in = "add" /\ y.out = socket[s].out /\ y.open = socket[s].open
    BY <1>1, SocketFacts DEF SocketRecord, Ins
  <1> HIDE DEF y
  <1>6. z \in SocketRecord /\ z.user = UserOf(s) /\ z.in = "add" /\ z.out = socket[s].out /\ z.open = socket[s].open /\ z.rooms = rooms
    BY <1>5 DEF SocketRecord
  <1> HIDE DEF z
  <1>7. QED
    BY <1>1, <1>2, <1>3, <1>4, <1>6, SocketFacts, PlainSocket DEF In, Out

LEMMA DisconnectSound ==
  ASSUME Halves, NEW s \in Sockets, Disconnect(s) PROVE Halves'
  <1>1. Connected(s) /\ socket[s].open /\ SocketsTyped
    BY DEF Disconnect, Halves, OnlineTyped
  <1>2. UNCHANGED <<stored, call, record, presence, told>> /\ UNCHANGED <<stranded, disturbed, slips>>
    BY DEF Disconnect
  <1>3. PICK out \in {"done", "remove"} : out = IF In(s, "auth") THEN "done" ELSE "remove"
    OBVIOUS
  <1> DEFINE x == [socket[s] EXCEPT !.open = FALSE]
             y == [x EXCEPT !.rooms = {}]
             z == [y EXCEPT !.out = out]
  <1>4. socket' = [socket EXCEPT ![s] = z]
    BY <1>1, <1>3 DEF Disconnect, SocketsTyped
  <1>5. x \in SocketRecord /\ x.user = UserOf(s) /\ x.in = socket[s].in /\ x.open = FALSE
    BY <1>1, SocketFacts DEF SocketRecord
  <1> HIDE DEF x
  <1>6. y \in SocketRecord /\ y.user = UserOf(s) /\ y.in = socket[s].in /\ y.open = FALSE /\ y.rooms = {}
    BY <1>5 DEF SocketRecord
  <1> HIDE DEF y
  <1>7. z \in SocketRecord /\ z.user = UserOf(s) /\ z.in = socket[s].in /\ z.open = FALSE /\ z.rooms = {} /\ z.out = out
    BY <1>6 DEF SocketRecord, Outs
  <1> HIDE DEF z
  <1>8. QED
    BY <1>1, <1>2, <1>3, <1>4, <1>7, SocketFacts, PlainSocket DEF In, Out

LEMMA SlipTyped ==
  ASSUME slips \in 0..MaxSlips, Slip PROVE slips' \in 0..MaxSlips
  BY MessagingConstants DEF Slip

LEMMA HandshakeFailsSound ==
  ASSUME Halves, NEW s \in Sockets, HandshakeFails(s) PROVE Halves'
  <1>1. Connected(s) /\ socket[s].in \in {"join", "add", "count"} /\ SocketsTyped
    BY DEF HandshakeFails, Halves, OnlineTyped
  <1>2. UNCHANGED <<stored, call, record, presence, told>> /\ stranded' = stranded /\ slips' \in 0..MaxSlips
        /\ disturbed' = IF In(s, "count") THEN disturbed \cup {UserOf(s)} ELSE disturbed
    BY SlipTyped DEF HandshakeFails, record, Halves
  <1>3. PICK out \in Outs : out = IF socket[s].open THEN "remove" ELSE socket[s].out
    BY <1>1, SocketFacts DEF Outs
  <1> DEFINE w == [socket[s] EXCEPT !.in = "done"]
             x == [w EXCEPT !.open = FALSE]
             y == [x EXCEPT !.rooms = {}]
             z == [y EXCEPT !.out = out]
  <1>4. w \in SocketRecord /\ w.user = UserOf(s) /\ w.in = "done" /\ w.out = socket[s].out
    BY <1>1, SocketFacts DEF SocketRecord, Ins
  <1>5. x \in SocketRecord /\ x.user = UserOf(s) /\ x.in = "done" /\ x.open = FALSE /\ x.out = socket[s].out
    <2> HIDE DEF w
    <2>1. QED BY <1>4 DEF SocketRecord
  <1>6. y \in SocketRecord /\ y.user = UserOf(s) /\ y.in = "done" /\ y.open = FALSE /\ y.rooms = {} /\ y.out = socket[s].out
    <2> HIDE DEF x
    <2>1. QED BY <1>5 DEF SocketRecord
  <1>7. z \in SocketRecord /\ z.user = UserOf(s) /\ z.in = "done" /\ z.open = FALSE /\ z.rooms = {} /\ z.out = out
    <2> HIDE DEF y
    <2>1. QED BY <1>6 DEF SocketRecord
  <1>8. socket' = [socket EXCEPT ![s] = z]
    BY <1>1, <1>3, <1>6 DEF HandshakeFails, SocketsTyped
  <1> HIDE DEF z
  <1>9. UserOf(s) \in disturbed' \/ (~In(s, "count") /\ disturbed' = disturbed)
    BY <1>2
  <1>10. /\ UserOf(s) \in Members /\ (socket[s].in \in {"auth", "join", "add"} => s \notin presence[UserOf(s)])
         /\ (~socket[s].open /\ s \in presence[UserOf(s)] => s \in stranded \/ Out(s, "remove"))
         /\ (socket[s].open => Out(s, "none")) /\ stranded \subseteq Sockets /\ disturbed \subseteq Members
    BY <1>1, SocketFacts
  <1>11. (z.out = "remove" /\ Out(s, "none")) \/ z.out = socket[s].out
    BY <1>3, <1>7, <1>10 DEF Out
  <1>12. ~z.open /\ s \in presence[UserOf(s)] => s \in stranded' \/ z.out = "remove"
    BY <1>2, <1>3, <1>7, <1>10 DEF Out
  <1>13. \/ UserOf(s) \in disturbed'
         \/ /\ Connected(s) /\ In(s, "count") <=> z.in = "count"
            /\ Connected(s) /\ Out(s, "count") <=> z.out = "count"
            /\ Connected(s) /\ Out(s, "list") <=> z.out = "list"
    BY <1>1, <1>7, <1>9, <1>11 DEF Out
  <1>14. QED
    BY <1>1, <1>2, <1>7, <1>8, <1>10, <1>12, <1>13, PlainSocket

LEMMA RemovalFailsSound ==
  ASSUME Halves, NEW s \in Sockets, RemovalFails(s) PROVE Halves'
  <1>1. Connected(s) /\ socket[s].out \in {"remove", "count", "list"} /\ SocketsTyped
    BY DEF RemovalFails, Halves, OnlineTyped
  <1>2. UNCHANGED <<stored, call, record, presence, told>> /\ slips' \in 0..MaxSlips
        /\ stranded' = (IF Out(s, "remove") THEN stranded \cup {s} ELSE stranded)
        /\ disturbed' = (IF Out(s, "remove") THEN disturbed ELSE disturbed \cup {UserOf(s)})
    BY SlipTyped DEF RemovalFails, record, Halves
  <1> DEFINE z == [socket[s] EXCEPT !.out = "done"]
  <1>3. socket' = [socket EXCEPT ![s] = z]
    BY <1>1 DEF RemovalFails, SocketsTyped
  <1>4. z \in SocketRecord /\ z.user = UserOf(s) /\ z.in = socket[s].in /\ z.out = "done" /\ z.open = socket[s].open
        /\ z.rooms = socket[s].rooms
    BY <1>1, SocketFacts DEF SocketRecord, Outs
  <1> HIDE DEF z
  <1>5. ~socket[s].open /\ (~Out(s, "remove") => UserOf(s) \in disturbed') /\ (Out(s, "remove") => s \in stranded')
    BY <1>1, <1>2, SocketFacts DEF Out
  <1>6. stranded \subseteq stranded' /\ stranded' \subseteq Sockets /\ disturbed \subseteq disturbed' /\ disturbed' \subseteq Members
    BY <1>1, <1>2, SocketFacts
  <1>7. QED
    BY <1>1, <1>2, <1>3, <1>4, <1>5, <1>6, SocketFacts, PlainSocket DEF In, Out

LEMMA JoinConversationSound ==
  ASSUME Halves, NEW s \in Sockets, NEW c \in Conversations, JoinConversation(s, c) PROVE Halves'
  <1>1. Connected(s) /\ UserOf(s) \in conversation[c].of /\ SocketsTyped
    BY DEF JoinConversation, Halves, OnlineTyped
  <1>2. UNCHANGED <<stored, call, record, presence, told>> /\ UNCHANGED <<stranded, disturbed, slips>>
    BY DEF JoinConversation
  <1>3. PICK rooms \in SUBSET Conversations : rooms = socket[s].rooms \cup {c} /\ rooms \subseteq Rooms(UserOf(s))
    <2>1. socket[s].rooms \subseteq Rooms(UserOf(s)) /\ c \in Rooms(UserOf(s)) /\ Rooms(UserOf(s)) \subseteq Conversations
      BY <1>1, SocketFacts DEF Rooms
    <2>2. QED
      BY <2>1
  <1> DEFINE z == [socket[s] EXCEPT !.rooms = rooms]
  <1>4. socket' = [socket EXCEPT ![s] = z]
    BY <1>1, <1>3 DEF JoinConversation, SocketsTyped
  <1>5. z \in SocketRecord /\ z.user = UserOf(s) /\ z.in = socket[s].in /\ z.out = socket[s].out /\ z.open = socket[s].open
        /\ z.rooms = rooms
    BY <1>1, SocketFacts DEF SocketRecord
  <1> HIDE DEF z
  <1>6. QED
    BY <1>1, <1>2, <1>3, <1>4, <1>5, SocketFacts, PlainSocket DEF In, Out

---------------------------------------------------------------------------
(* The steps on the set and the broadcasts                                 *)

\* A step of s that changes the set of its user, or what is told of them:
\* the socket becomes z, the set p and the broadcast b.
BecomesSet(s, z, u, p, b) ==
  /\ socket' = [socket EXCEPT ![s] = z]
  /\ presence' = [presence EXCEPT ![u] = p] /\ p \ {s} = presence[u] \ {s}
  /\ told' = [told EXCEPT ![u] = b]
  /\ UNCHANGED <<stored, call, record>> /\ slips' \in 0..MaxSlips
  /\ stranded \subseteq stranded' /\ stranded' \subseteq Sockets /\ disturbed \subseteq disturbed' /\ disturbed' \subseteq Members

StaysSound(s, z, u, p) ==
  /\ z.user = u /\ (z.in = "auth" => z.out \in {"none", "done"})
  /\ z.in \in {"auth", "join", "add"} => s \notin p
  /\ z.open => z.out = "none" /\ (z.in \in {"count", "done"} => s \in p)
  /\ ~z.open /\ s \in p => s \in stranded' \/ z.out = "remove"
  /\ z.rooms \subseteq Rooms(u)

StaysTold(s, z, u, p, b) ==
  u \notin disturbed' =>
    /\ Adding(u) \ {s} = {} /\ Removing(u) \ {s} = {}
    /\ z.in = "count" => z.out \notin {"count", "list"} /\ s \in p /\ (p # {s} => b = "online")
    /\ z.out = "count" /\ p # {} => b = "online"
    /\ z.out = "list" => p = {}
    /\ z.in # "count" /\ z.out \notin {"count", "list"} => b = IF p = {} THEN "offline" ELSE "online"

LEMMA PresenceSteps ==
  ASSUME Halves, NEW s \in Sockets, NEW z \in SocketRecord, NEW u \in Members, Connected(s), UserOf(s) = u,
         NEW p \in SUBSET Sockets, NEW b \in {"offline", "online"},
         BecomesSet(s, z, u, p, b), StaysSound(s, z, u, p), StaysTold(s, z, u, p, b)
  PROVE  Halves'
  <1> USE DEF BecomesSet, StaysSound
  <1>1. OnlineTyped /\ PresenceInv /\ StoredTyped /\ ConversationInv /\ SocketsTyped
    BY DEF Halves, OnlineTyped
  <1>2. /\ socket'[s] = z /\ Connected(s)' /\ \A t \in Sockets : t # s => socket'[t] = socket[t]
        /\ SocketsTyped'
    BY <1>1, SocketSet
  <1>3. /\ presence'[u] = p /\ told'[u] = b /\ \A v \in Members : v # u => presence'[v] = presence[v] /\ told'[v] = told[v]
        /\ presence' \in [Members -> SUBSET Sockets] /\ told' \in [Members -> {"offline", "online"}]
    BY <1>1 DEF OnlineTyped
  <1>4. UNCHANGED conversation
    BY DEF stored
  <1>5. OneSocket(s, u)
    BY <1>2, <1>3, <1>4 DEF OneSocket, UserOf
  <1>6. SocketSound(s)'
    <2>1. Rooms(UserOf(s))' = Rooms(u)
      BY <1>2, <1>4 DEF Rooms, UserOf
    <2>2. ASSUME NEW v \in Members, s \in presence'[v] PROVE v = u
      <3>1. s \in presence[v] => v = u
        BY <1>1 DEF PresenceInv, SocketSound
      <3>2. QED
        BY <1>3, <2>2, <3>1
    <2>3. UserOf(s)' = u
      BY <1>2 DEF UserOf
    <2>4. QED
      BY <1>2, <1>3, <2>1, <2>2, <2>3 DEF SocketSound, Out
  <1>7. ToldTrue(u)'
    <2> SUFFICES ASSUME u \notin disturbed' PROVE ToldTrue(u)'
      BY DEF ToldTrue
    <2>1. In(s, "count")' = (z.in = "count") /\ Out(s, "count")' = (z.out = "count") /\ Out(s, "list")' = (z.out = "list")
          /\ Connected(s)' /\ UserOf(s)' = u
      BY <1>2 DEF In, Out, UserOf
    <2>2. ASSUME NEW t \in Sockets, t # s PROVE t \notin Adding(u)' /\ t \notin Removing(u)'
      <3>1. t \notin Adding(u) /\ t \notin Removing(u)
        BY <2>2 DEF StaysTold
      <3>2. socket'[t] = socket[t]
        BY <1>2, <2>2
      <3>3. QED
        BY <3>1, <3>2 DEF Adding, Removing, Connected, UserOf, In, Out
    <2>3. s \in Adding(u)' <=> z.in = "count"
      BY <2>1 DEF Adding
    <2>4. s \in Removing(u)' <=> z.out \in {"count", "list"}
      BY <2>1 DEF Removing
    <2>5. Adding(u)' \subseteq Sockets /\ Removing(u)' \subseteq Sockets
      BY DEF Adding, Removing
    <2>6. Adding(u)' = IF z.in = "count" THEN {s} ELSE {}
      BY <2>2, <2>3, <2>5
    <2>7. Removing(u)' = IF z.out \in {"count", "list"} THEN {s} ELSE {}
      BY <2>2, <2>4, <2>5
    <2>8. CASE z.in = "count"
      BY <1>3, <2>6, <2>7, <2>8 DEF ToldTrue, StaysTold
    <2>9. CASE z.in # "count" /\ z.out \in {"count", "list"}
      BY <1>2, <1>3, <2>6, <2>7, <2>9 DEF ToldTrue, StaysTold, Out
    <2>10. CASE z.in # "count" /\ z.out \notin {"count", "list"}
      BY <1>3, <2>6, <2>7, <2>10 DEF ToldTrue, StaysTold
    <2>11. QED
      BY <2>8, <2>9, <2>10
  <1>8. PresenceInv' /\ OnlineTyped'
    BY <1>1, <1>2, <1>3, <1>5, <1>6, <1>7, OneSocketSteps DEF OnlineTyped
  <1>9. StoredTyped' /\ ConversationInv'
    BY <1>1, StoredIdle DEF record
  <1>10. QED
    BY <1>8, <1>9 DEF Halves

LEMMA AnnouncingTyped ==
  ASSUME Halves, NEW u \in Members, Disturb(u)
  PROVE  /\ disturbed \subseteq disturbed' /\ disturbed' \subseteq Members
         /\ u \notin disturbed' => /\ Adding(u) = {} /\ Removing(u) = {}
                                   /\ told[u] = IF presence[u] = {} THEN "offline" ELSE "online"
  <1>1. disturbed \subseteq Members /\ ToldTrue(u)
    BY DEF Halves, OnlineTyped, PresenceInv
  <1>2. ~Announcing(u) => Adding(u) = {} /\ Removing(u) = {}
    BY DEF Announcing, Adding, Removing
  <1>3. QED
    BY <1>1, <1>2 DEF Disturb, ToldTrue

LEMMA UsersTyped ==
  ASSUME Halves, NEW u \in Members
  PROVE  /\ presence[u] \in SUBSET Sockets /\ told[u] \in {"offline", "online"}
         /\ presence = [presence EXCEPT ![u] = presence[u]] /\ told = [told EXCEPT ![u] = told[u]]
         /\ ToldTrue(u)
  BY DEF Halves, OnlineTyped, PresenceInv

LEMMA AddConnectionSound ==
  ASSUME Halves, NEW s \in Sockets, AddConnection(s) PROVE Halves'
  <1>1. Connected(s) /\ socket[s].in = "add" /\ SocketsTyped
    BY SocketFacts DEF AddConnection, In, Halves, OnlineTyped
  <1>2. PICK u \in Members : u = UserOf(s)
    BY <1>1, SocketFacts
  <1>3. PICK p \in SUBSET Sockets : p = presence[u] \cup {s}
    BY UsersTyped
  <1>4. UNCHANGED <<stored, call, told, record, slips>> /\ presence' = [presence EXCEPT ![u] = p] /\ Disturb(u)
        /\ stranded' = IF socket[s].open \/ Out(s, "remove") THEN stranded ELSE stranded \cup {s}
    BY <1>2, <1>3 DEF AddConnection
  <1>5. told' = [told EXCEPT ![u] = told[u]] /\ told[u] \in {"offline", "online"}
    BY <1>4, UsersTyped
  <1> DEFINE z == [socket[s] EXCEPT !.in = "count"]
  <1>6. socket' = [socket EXCEPT ![s] = z]
    BY <1>1 DEF AddConnection, SocketsTyped
  <1>7. z \in SocketRecord /\ z.user = UserOf(s) /\ z.in = "count" /\ z.out = socket[s].out /\ z.open = socket[s].open
        /\ z.rooms = socket[s].rooms
    BY <1>1, SocketFacts DEF SocketRecord, Ins
  <1> HIDE DEF z
  <1>8. stranded \subseteq stranded' /\ stranded' \subseteq Sockets /\ (~socket[s].open => s \in stranded' \/ Out(s, "remove"))
    BY <1>4, SocketFacts
  <1>9. UNCHANGED <<stored, call, record>> /\ slips' \in 0..MaxSlips
    BY <1>4, SocketFacts
  <1>10. /\ disturbed \subseteq disturbed' /\ disturbed' \subseteq Members
         /\ u \notin disturbed' => /\ Adding(u) = {} /\ Removing(u) = {}
                                   /\ told[u] = IF presence[u] = {} THEN "offline" ELSE "online"
    BY <1>4, AnnouncingTyped
  <1>11. u \notin disturbed' => z.out \notin {"count", "list"}
    BY <1>1, <1>2, <1>7, <1>10 DEF Removing, Out
  <1>12. s \in p /\ p \ {s} = presence[u] \ {s} /\ (p # {s} => presence[u] # {}) /\ z.rooms \subseteq Rooms(u)
    BY <1>1, <1>2, <1>3, <1>7, SocketFacts
  <1>13. z.open => z.out = "none"
    BY <1>1, <1>7, SocketFacts DEF Out
  <1>14. BecomesSet(s, z, u, p, told[u])
    BY <1>1, <1>2, <1>4, <1>5, <1>6, <1>7, <1>8, <1>9, <1>10, <1>11, <1>12, <1>13 DEF BecomesSet
  <1>15. StaysSound(s, z, u, p)
    BY <1>1, <1>2, <1>4, <1>5, <1>6, <1>7, <1>8, <1>9, <1>10, <1>11, <1>12, <1>13 DEF StaysSound, Out
  <1>16. StaysTold(s, z, u, p, told[u])
    BY <1>1, <1>2, <1>4, <1>5, <1>6, <1>7, <1>8, <1>9, <1>10, <1>11, <1>12, <1>13 DEF StaysTold
  <1>17. QED
    BY <1>1, <1>2, <1>3, <1>4, <1>5, <1>6, <1>7, <1>14, <1>15, <1>16, PresenceSteps

LEMMA AnnounceOnlineSound ==
  ASSUME Halves, NEW s \in Sockets, AnnounceOnline(s) PROVE Halves'
  <1>1. Connected(s) /\ socket[s].in = "count" /\ SocketsTyped
    BY SocketFacts DEF AnnounceOnline, In, Halves, OnlineTyped
  <1>2. PICK u \in Members : u = UserOf(s)
    BY <1>1, SocketFacts
  <1>3. UNCHANGED <<stored, call, presence, record, slips, stranded, disturbed>>
        /\ told' = IF Cardinality(presence[u]) = 1 THEN [told EXCEPT ![u] = "online"] ELSE told
    BY <1>2 DEF AnnounceOnline
  <1>4. PICK b \in {"offline", "online"} : told' = [told EXCEPT ![u] = b] /\ (Cardinality(presence[u]) = 1 => b = "online")
                                           /\ (Cardinality(presence[u]) # 1 => b = told[u])
    BY <1>3, UsersTyped
  <1>5. presence' = [presence EXCEPT ![u] = presence[u]] /\ presence[u] \in SUBSET Sockets
    BY <1>3, UsersTyped
  <1> DEFINE z == [socket[s] EXCEPT !.in = "done"]
  <1>6. socket' = [socket EXCEPT ![s] = z]
    BY <1>1 DEF AnnounceOnline, SocketsTyped
  <1>7. z \in SocketRecord /\ z.user = UserOf(s) /\ z.in = "done" /\ z.out = socket[s].out /\ z.open = socket[s].open
        /\ z.rooms = socket[s].rooms
    BY <1>1, SocketFacts DEF SocketRecord, Ins
  <1> HIDE DEF z
  <1>8. UNCHANGED <<stored, call, record, stranded, disturbed>> /\ slips' \in 0..MaxSlips /\ stranded \subseteq Sockets /\ disturbed \subseteq Members
    BY <1>3, SocketFacts
  <1>9. u \notin disturbed => /\ Adding(u) = {s} /\ Removing(u) = {} /\ s \in presence[u] /\ b = "online"
    <2> SUFFICES ASSUME u \notin disturbed PROVE Adding(u) = {s} /\ Removing(u) = {} /\ s \in presence[u] /\ b = "online"
      OBVIOUS
    <2>1. s \in Adding(u)
      BY <1>1, <1>2 DEF Adding, In
    <2>2. Adding(u) = {s} /\ Removing(u) = {} /\ s \in presence[u] /\ (presence[u] # {s} => told[u] = "online")
      BY <2>1, UsersTyped DEF ToldTrue
    <2>3. Cardinality({s}) = 1
      BY FS_Singleton
    <2>4. QED
      BY <1>4, <2>2, <2>3
  <1>10. u \notin disturbed => z.out \notin {"count", "list"}
    BY <1>1, <1>2, <1>7, <1>9 DEF Removing, Out
  <1>11. BecomesSet(s, z, u, presence[u], b)
    BY <1>1, <1>2, <1>4, <1>5, <1>6, <1>7, <1>8, <1>9, <1>10, SocketFacts DEF BecomesSet
  <1>12. StaysSound(s, z, u, presence[u])
    BY <1>1, <1>2, <1>4, <1>5, <1>6, <1>7, <1>8, <1>9, <1>10, SocketFacts DEF StaysSound, Out
  <1>13. StaysTold(s, z, u, presence[u], b)
    BY <1>1, <1>2, <1>4, <1>5, <1>6, <1>7, <1>8, <1>9, <1>10, SocketFacts DEF StaysTold
  <1>14. QED
    BY <1>1, <1>2, <1>3, <1>4, <1>5, <1>6, <1>7, <1>11, <1>12, <1>13, PresenceSteps

LEMMA RemoveConnectionSound ==
  ASSUME Halves, NEW s \in Sockets, RemoveConnection(s) PROVE Halves'
  <1>1. Connected(s) /\ socket[s].out = "remove" /\ SocketsTyped
    BY SocketFacts DEF RemoveConnection, Out, Halves, OnlineTyped
  <1>2. PICK u \in Members : u = UserOf(s)
    BY <1>1, SocketFacts
  <1>3. PICK p \in SUBSET Sockets : p = presence[u] \ {s}
    BY UsersTyped
  <1>4. UNCHANGED <<stored, call, told, stranded, record, slips>> /\ presence' = [presence EXCEPT ![u] = p] /\ Disturb(u)
    BY <1>2, <1>3 DEF RemoveConnection
  <1>5. told' = [told EXCEPT ![u] = told[u]] /\ told[u] \in {"offline", "online"}
    BY <1>4, UsersTyped
  <1> DEFINE z == [socket[s] EXCEPT !.out = "count"]
  <1>6. socket' = [socket EXCEPT ![s] = z]
    BY <1>1 DEF RemoveConnection, SocketsTyped
  <1>7. z \in SocketRecord /\ z.user = UserOf(s) /\ z.in = socket[s].in /\ z.out = "count" /\ z.open = socket[s].open
        /\ z.rooms = socket[s].rooms
    BY <1>1, SocketFacts DEF SocketRecord, Outs
  <1> HIDE DEF z
  <1>8. UNCHANGED <<stored, call, record>> /\ slips' \in 0..MaxSlips /\ stranded \subseteq stranded' /\ stranded' \subseteq Sockets
    BY <1>4, SocketFacts
  <1>9. /\ disturbed \subseteq disturbed' /\ disturbed' \subseteq Members
        /\ u \notin disturbed' => /\ Adding(u) = {} /\ Removing(u) = {}
                                  /\ told[u] = IF presence[u] = {} THEN "offline" ELSE "online"
    BY <1>4, AnnouncingTyped
  <1>10. u \notin disturbed' => z.in # "count"
    BY <1>1, <1>2, <1>7, <1>9 DEF Adding, In
  <1>11. s \notin p /\ p \ {s} = presence[u] \ {s} /\ (p # {} => presence[u] # {}) /\ z.rooms \subseteq Rooms(u)
    BY <1>1, <1>2, <1>3, <1>7, SocketFacts
  <1>12. ~z.open /\ z.in # "auth"
    BY <1>1, <1>7, SocketFacts DEF In, Out
  <1>13. BecomesSet(s, z, u, p, told[u])
    BY <1>1, <1>2, <1>4, <1>5, <1>6, <1>7, <1>8, <1>9, <1>10, <1>11, <1>12 DEF BecomesSet
  <1>14. StaysSound(s, z, u, p)
    BY <1>1, <1>2, <1>4, <1>5, <1>6, <1>7, <1>8, <1>9, <1>10, <1>11, <1>12 DEF StaysSound, Out
  <1>15. StaysTold(s, z, u, p, told[u])
    BY <1>1, <1>2, <1>4, <1>5, <1>6, <1>7, <1>8, <1>9, <1>10, <1>11, <1>12 DEF StaysTold
  <1>16. QED
    BY <1>1, <1>2, <1>3, <1>4, <1>5, <1>6, <1>7, <1>13, <1>14, <1>15, PresenceSteps

LEMMA RemovingAlone ==
  ASSUME Halves, NEW s \in Sockets, NEW u \in Members, u = UserOf(s), Connected(s), socket[s].out \in {"count", "list"}, u \notin disturbed
  PROVE  /\ Removing(u) = {s} /\ Adding(u) = {} /\ ~In(s, "count")
         /\ Out(s, "count") /\ presence[u] # {} => told[u] = "online"
         /\ Out(s, "list") => presence[u] = {}
  <1>1. s \in Removing(u)
    BY DEF Removing, Out
  <1>2. s \in Adding(u) <=> In(s, "count")
    BY DEF Adding
  <1>3. QED
    BY <1>1, <1>2, UsersTyped DEF ToldTrue

LEMMA CountRemainingSound ==
  ASSUME Halves, NEW s \in Sockets, CountRemaining(s) PROVE Halves'
  <1>1. Connected(s) /\ socket[s].out = "count" /\ SocketsTyped
    BY SocketFacts DEF CountRemaining, Out, Halves, OnlineTyped
  <1>2. PICK u \in Members : u = UserOf(s)
    BY <1>1, SocketFacts
  <1>3. UNCHANGED <<stored, call, presence, told, stranded, disturbed, record, slips>>
    BY DEF CountRemaining
  <1>4. told' = [told EXCEPT ![u] = told[u]] /\ told[u] \in {"offline", "online"}
        /\ presence' = [presence EXCEPT ![u] = presence[u]] /\ presence[u] \in SUBSET Sockets
    BY <1>3, UsersTyped
  <1>5. PICK out \in {"list", "done"} : out = IF presence[u] = {} THEN "list" ELSE "done"
    OBVIOUS
  <1> DEFINE z == [socket[s] EXCEPT !.out = out]
  <1>6. socket' = [socket EXCEPT ![s] = z]
    BY <1>1, <1>2, <1>5 DEF CountRemaining, SocketsTyped
  <1>7. z \in SocketRecord /\ z.user = UserOf(s) /\ z.in = socket[s].in /\ z.out = out /\ z.open = socket[s].open
        /\ z.rooms = socket[s].rooms
    BY <1>1, SocketFacts DEF SocketRecord, Outs
  <1> HIDE DEF z
  <1>8. UNCHANGED <<stored, call, record, stranded, disturbed>> /\ slips' \in 0..MaxSlips /\ stranded \subseteq Sockets /\ disturbed \subseteq Members
    BY <1>3, SocketFacts
  <1>9. ~z.open /\ z.in # "auth" /\ z.rooms \subseteq Rooms(u)
        /\ (z.in \in {"auth", "join", "add"} => s \notin presence[u]) /\ (s \in presence[u] => s \in stranded)
    BY <1>1, <1>2, <1>7, SocketFacts DEF In, Out
  <1>10. u \notin disturbed' => /\ Removing(u) = {s} /\ Adding(u) = {} /\ z.in # "count"
                                /\ presence[u] # {} => told[u] = "online"
    BY <1>1, <1>2, <1>7, <1>8, RemovingAlone DEF In, Out
  <1>11. BecomesSet(s, z, u, presence[u], told[u])
    BY <1>1, <1>2, <1>4, <1>5, <1>6, <1>7, <1>8, <1>9, <1>10 DEF BecomesSet
  <1>12. StaysSound(s, z, u, presence[u])
    BY <1>1, <1>2, <1>4, <1>5, <1>6, <1>7, <1>8, <1>9, <1>10 DEF StaysSound, Out
  <1>13. StaysTold(s, z, u, presence[u], told[u])
    BY <1>1, <1>2, <1>4, <1>5, <1>6, <1>7, <1>8, <1>9, <1>10 DEF StaysTold
  <1>14. QED
    BY <1>1, <1>2, <1>3, <1>4, <1>5, <1>6, <1>7, <1>11, <1>12, <1>13, PresenceSteps

LEMMA AnnounceOfflineSound ==
  ASSUME Halves, NEW s \in Sockets, AnnounceOffline(s) PROVE Halves'
  <1>1. Connected(s) /\ socket[s].out = "list" /\ SocketsTyped
    BY SocketFacts DEF AnnounceOffline, Out, Halves, OnlineTyped
  <1>2. PICK u \in Members : u = UserOf(s)
    BY <1>1, SocketFacts
  <1>3. UNCHANGED <<stored, call, presence, stranded, disturbed, record, slips>> /\ told' = [told EXCEPT ![u] = "offline"]
    BY <1>2 DEF AnnounceOffline
  <1>4. presence' = [presence EXCEPT ![u] = presence[u]] /\ presence[u] \in SUBSET Sockets
    BY <1>3, UsersTyped
  <1> DEFINE z == [socket[s] EXCEPT !.out = "done"]
  <1>5. socket' = [socket EXCEPT ![s] = z]
    BY <1>1 DEF AnnounceOffline, SocketsTyped
  <1>6. z \in SocketRecord /\ z.user = UserOf(s) /\ z.in = socket[s].in /\ z.out = "done" /\ z.open = socket[s].open
        /\ z.rooms = socket[s].rooms
    BY <1>1, SocketFacts DEF SocketRecord, Outs
  <1> HIDE DEF z
  <1>7. UNCHANGED <<stored, call, record, stranded, disturbed>> /\ slips' \in 0..MaxSlips /\ stranded \subseteq Sockets /\ disturbed \subseteq Members
    BY <1>3, SocketFacts
  <1>8. ~z.open /\ z.in # "auth" /\ z.rooms \subseteq Rooms(u)
        /\ (z.in \in {"auth", "join", "add"} => s \notin presence[u]) /\ (s \in presence[u] => s \in stranded)
    BY <1>1, <1>2, <1>6, SocketFacts DEF In, Out
  <1>9. u \notin disturbed' => /\ Removing(u) = {s} /\ Adding(u) = {} /\ z.in # "count" /\ presence[u] = {}
    BY <1>1, <1>2, <1>6, <1>7, RemovingAlone DEF In, Out
  <1>10. BecomesSet(s, z, u, presence[u], "offline")
    BY <1>1, <1>2, <1>3, <1>4, <1>5, <1>6, <1>7, <1>8, <1>9 DEF BecomesSet
  <1>11. StaysSound(s, z, u, presence[u])
    BY <1>1, <1>2, <1>3, <1>4, <1>5, <1>6, <1>7, <1>8, <1>9 DEF StaysSound, Out
  <1>12. StaysTold(s, z, u, presence[u], "offline")
    BY <1>1, <1>2, <1>3, <1>4, <1>5, <1>6, <1>7, <1>8, <1>9 DEF StaysTold
  <1>13. QED
    BY <1>1, <1>2, <1>3, <1>4, <1>5, <1>6, <1>7, <1>10, <1>11, <1>12, PresenceSteps

\* The sockets of a process that died.
LEMMA CrashSocket ==
  ASSUME Halves, Crash, NEW s \in Sockets
  PROVE  /\ ~Connected(s) => socket'[s] = NoSocket
         /\ Connected(s) => /\ socket'[s] \in SocketRecord /\ socket'[s].user = UserOf(s) /\ socket'[s].in = "done"
                            /\ socket'[s].open = FALSE /\ socket'[s].rooms = {} /\ socket'[s].out \in {"none", "done"}
  <1>1. ~Connected(s) => socket'[s] = NoSocket
    BY DEF Crash
  <1>2. ASSUME Connected(s)
        PROVE  /\ socket'[s] \in SocketRecord /\ socket'[s].user = UserOf(s) /\ socket'[s].in = "done"
               /\ socket'[s].open = FALSE /\ socket'[s].rooms = {} /\ socket'[s].out \in {"none", "done"}
    <2>1. PICK out \in {"none", "done"} : out = IF Out(s, "none") \/ Out(s, "done") THEN socket[s].out ELSE "done"
      BY DEF Out
    <2> DEFINE w == [socket[s] EXCEPT !.open = FALSE]
               x == [w EXCEPT !.in = "done"]
               y == [x EXCEPT !.rooms = {}]
               z == [y EXCEPT !.out = out]
    <2>2. w \in SocketRecord /\ w.user = UserOf(s) /\ w.open = FALSE /\ w.out = socket[s].out
      BY <1>2, SocketFacts DEF SocketRecord
    <2>3. x \in SocketRecord /\ x.user = UserOf(s) /\ x.in = "done" /\ x.open = FALSE /\ x.out = socket[s].out
      <3> HIDE DEF w
      <3>1. QED BY <2>2 DEF SocketRecord, Ins
    <2>4. y \in SocketRecord /\ y.user = UserOf(s) /\ y.in = "done" /\ y.open = FALSE /\ y.rooms = {} /\ y.out = socket[s].out
      <3> HIDE DEF x
      <3>1. QED BY <2>3 DEF SocketRecord
    <2>5. z \in SocketRecord /\ z.user = UserOf(s) /\ z.in = "done" /\ z.open = FALSE /\ z.rooms = {} /\ z.out = out
      <3> HIDE DEF y
      <3>1. QED BY <2>4 DEF SocketRecord, Outs
    <2>6. socket'[s] = z
      BY <1>2, <2>1, <2>4 DEF Crash
    <2> HIDE DEF z
    <2>7. QED
      BY <2>1, <2>5, <2>6
  <1>3. QED
    BY <1>1, <1>2

LEMMA CrashOnline ==
  ASSUME Halves, Crash PROVE OnlineTyped' /\ PresenceInv'
  <1>1. UNCHANGED <<conversation, presence, told>> /\ stranded' = stranded \cup UNION {presence[u] : u \in Members}
        /\ disturbed' = disturbed \cup {u \in Members : Announcing(u)}
    BY DEF Crash, stored
  <1>2. \A s \in Sockets : (Connected(s)' <=> Connected(s)) /\ (Connected(s) => UserOf(s)' = UserOf(s))
    <2>1. NoSocket \notin SocketRecord
      BY DEF NoSocket, SocketRecord, Ins
    <2>2. QED
      BY <2>1, CrashSocket DEF Connected, UserOf
  <1>3. OnlineTyped'
    <2>1. socket' \in [Sockets -> {NoSocket} \cup SocketRecord]
      <3>1. socket' = [s \in Sockets |-> socket'[s]]
        BY DEF Crash
      <3>2. \A s \in Sockets : socket'[s] \in {NoSocket} \cup SocketRecord
        BY CrashSocket
      <3>3. QED
        BY <3>1, <3>2
    <2>2. ASSUME NEW s \in Sockets PROVE socket'[s].in # "auth"
      <3>1. NoSocket.in = "new"
        BY DEF NoSocket
      <3>2. QED
        BY <3>1, CrashSocket
    <2>3. stranded' \subseteq Sockets /\ disturbed' \subseteq Members
      BY <1>1 DEF Halves, OnlineTyped
    <2>4. QED
      BY <1>1, <2>1, <2>2, <2>3 DEF Halves, OnlineTyped, SocketsTyped
  <1>4. ASSUME NEW s \in Sockets PROVE SocketSound(s)'
    <2>1. \A v \in Members : s \in presence[v] => Connected(s) /\ UserOf(s) = v /\ s \in stranded'
      BY <1>1 DEF Halves, PresenceInv, SocketSound
    <2>2. Connected(s) => UserOf(s) \in Members /\ UserOf(s)' \in Members
      BY <1>2, SocketFacts
    <2>3. Connected(s) => socket'[s].in = "done" /\ socket'[s].open = FALSE /\ socket'[s].rooms = {}
      BY CrashSocket
    <2>4. QED
      BY <1>1, <1>2, <2>1, <2>2, <2>3 DEF SocketSound
  <1>5. ASSUME NEW u \in Members PROVE ToldTrue(u)'
    <2> SUFFICES ASSUME u \notin disturbed' PROVE ToldTrue(u)'
      BY DEF ToldTrue
    <2>1. u \notin disturbed /\ Adding(u) = {} /\ Removing(u) = {}
      BY <1>1 DEF Announcing, Adding, Removing
    <2>2. told[u] = IF presence[u] = {} THEN "offline" ELSE "online"
      BY <2>1, UsersTyped DEF ToldTrue
    <2>3. Adding(u)' = {} /\ Removing(u)' = {}
      BY <1>2, CrashSocket DEF Adding, Removing, In, Out
    <2>4. QED
      BY <1>1, <2>2, <2>3 DEF ToldTrue
  <1>6. QED
    BY <1>3, <1>4, <1>5 DEF PresenceInv

---------------------------------------------------------------------------
(* Conversations                                                           *)
LEMMA CallTyped ==
  ASSUME StoredTyped, NEW r \in Calls
  PROVE  /\ call[r] \in CallRecord /\ (call[r] = NoCall <=> call[r].pc = "idle")
         /\ call[r].pc = "create" => call[r].of \in Groups
         /\ call[r].pc = "touch" => call[r].to \in Conversations /\ call[r].at \in Times
         /\ call[r].pc = "seen" => call[r].to \in Conversations /\ call[r].by \in Members /\ call[r].at \in Times
         /\ call[r].pc \in {"idle", "create", "touch", "seen"}
  BY DEF StoredTyped, CallRecord, NoCall

LEMMA CallSet ==
  ASSUME StoredTyped, NEW r \in Calls, NEW q \in CallRecord, call' = [call EXCEPT ![r] = q]
  PROVE  /\ call'[r] = q /\ \A o \in Calls : o # r => call'[o] = call[o]
         /\ call' \in [Calls -> CallRecord]
  BY DEF StoredTyped

LEMMA ConversationTyped ==
  ASSUME StoredTyped, NEW c \in Conversations
  PROVE  /\ conversation[c] # Unstarted <=> conversation[c] \in Conversation
         /\ conversation[c] # Unstarted => conversation[c].of \in Groups /\ conversation[c].lastMessageAt \in Times
                                           /\ conversation[c].read \in [Members -> Times]
         /\ conversation[c] = Unstarted => conversation[c].of = {}
         /\ \A u \in Members : u \in conversation[c].of => conversation[c] # Unstarted
  <1>1. {} \notin Groups
    BY FS_EmptySet DEF Groups
  <1>2. Unstarted \notin Conversation
    BY <1>1 DEF Unstarted, Conversation
  <1>3. Unstarted.of = {}
    BY DEF Unstarted
  <1>4. QED
    BY <1>2, <1>3 DEF StoredTyped, Conversation

StoredHalf == StoredTyped /\ ConversationInv

LEMMA FindExistingDirectSound ==
  ASSUME StoredHalf, NEW r \in Calls, NEW ps \in Groups, FindExistingDirect(r, ps) PROVE StoredHalf'
  <1> USE DEF StoredHalf
  <1>1. UNCHANGED <<conversation, message, crossed, latest>> /\ call[r] = NoCall
        /\ rushed' = IF \E o \in Calls : call[o].pc = "create" /\ call[o].of = ps THEN rushed \cup {ps} ELSE rushed
    BY DEF FindExistingDirect, Begin, stored
  <1> DEFINE q == [pc |-> "create", of |-> ps]
  <1>2. q \in CallRecord /\ q.pc = "create" /\ q.of = ps
    BY DEF CallRecord
  <1>3. call' = [call EXCEPT ![r] = q]
    BY DEF FindExistingDirect, Begin
  <1> HIDE DEF q
  <1>4. call'[r] = q /\ (\A o \in Calls : o # r => call'[o] = call[o]) /\ call' \in [Calls -> CallRecord] /\ call[r].pc = "idle"
    BY <1>1, <1>2, <1>3, CallSet, CallTyped
  <1>5. StoredTyped'
    BY <1>1, <1>4 DEF StoredTyped
  <1>6. \A o \in Calls : CallSound(o)'
    BY <1>1, <1>2, <1>4 DEF ConversationInv, CallSound
  <1>7. ASSUME NEW qs \in Groups PROVE PairSound(qs)'
    <2>1. PairSound(qs)
      BY DEF ConversationInv
    <2>2. CASE qs # ps
      BY <1>1, <1>2, <1>4, <2>1, <2>2 DEF PairSound, Creating
    <2>3. CASE qs = ps /\ Pair(ps) /\ ps \notin rushed'
      <3>1. \A o \in Calls : ~Creating(o, ps)
        BY <1>1, <2>3 DEF Creating
      <3>2. \A o \in Calls : call'[o].pc = "create" /\ call'[o].of = ps => o = r
        BY <1>4, <3>1 DEF Creating
      <3>3. \A c \in Conversations : conversation[c].of # ps
        BY <2>3 DEF FindExistingDirect
      <3>4. QED
        BY <1>1, <2>3, <3>2, <3>3 DEF PairSound, Creating
    <2>4. QED
      BY <2>2, <2>3 DEF PairSound
  <1>8. \A c \in Conversations : TimeSound(c)'
    BY <1>1, <1>2, <1>4 DEF ConversationInv, TimeSound, TimesOf, Touching
  <1>9. ASSUME NEW c \in Conversations, NEW u \in Members PROVE ReadSound(c, u)'
    <2>1. ReadSound(c, u)
      BY DEF ConversationInv
    <2>2. \A o \in Calls : call'[o].pc = "seen" => call'[o] = call[o]
      BY <1>2, <1>4
    <2>3. QED
      BY <1>1, <2>1, <2>2 DEF ReadSound, Reading
  <1>10. QED
    BY <1>5, <1>6, <1>7, <1>8, <1>9 DEF ConversationInv

LEMMA EndCall ==
  ASSUME StoredTyped, NEW r \in Calls, End(r)
  PROVE  /\ call'[r].pc = "idle" /\ \A o \in Calls : o # r => call'[o] = call[o]
         /\ call' \in [Calls -> CallRecord]
  <1>1. NoCall \in CallRecord /\ NoCall.pc = "idle"
    BY DEF CallRecord, NoCall
  <1>2. QED
    BY <1>1, CallSet DEF End

\* What one conversation becomes.
LEMMA ConversationSet ==
  ASSUME StoredTyped, NEW c \in Conversations, NEW z \in Conversation, conversation' = [conversation EXCEPT ![c] = z]
  PROVE  /\ conversation'[c] = z /\ conversation'[c] # Unstarted
         /\ \A d \in Conversations : d # c => conversation'[d] = conversation[d]
         /\ conversation' \in [Conversations -> {Unstarted} \cup Conversation]
  <1>1. Unstarted \notin Conversation
    <2>1. {} \notin Groups
      BY FS_EmptySet DEF Groups
    <2>2. QED
      BY <2>1 DEF Unstarted, Conversation
  <1>2. QED
    BY <1>1 DEF StoredTyped

LEMMA CreateConversationSound ==
  ASSUME StoredHalf, NEW r \in Calls, NEW c \in Conversations, CreateConversation(r, c) PROVE StoredHalf'
  <1> USE DEF StoredHalf
  <1>1. UNCHANGED <<message, rushed, crossed, latest>> /\ call[r].pc = "create" /\ conversation[c] = Unstarted /\ End(r)
    BY DEF CreateConversation, record
  <1>2. PICK ps \in Groups : ps = call[r].of
    BY <1>1, CallTyped
  <1>3. /\ call'[r].pc = "idle" /\ \A o \in Calls : o # r => call'[o] = call[o]
        /\ call' \in [Calls -> CallRecord]
    BY <1>1, EndCall
  <1> DEFINE z == [of |-> ps, lastMessageAt |-> 0, read |-> [u \in Members |-> 0]]
  <1>4. z \in Conversation /\ z.of = ps /\ z.lastMessageAt = 0 /\ \A u \in Members : z.read[u] = 0
    <2>1. 0 \in Times
      BY MessagingConstants DEF Times
    <2>2. QED
      BY <2>1 DEF Conversation
  <1>5. conversation' = [conversation EXCEPT ![c] = z]
    BY <1>2 DEF CreateConversation
  <1> HIDE DEF z
  <1>6. /\ conversation'[c] = z /\ conversation'[c] # Unstarted
        /\ \A d \in Conversations : d # c => conversation'[d] = conversation[d]
        /\ conversation' \in [Conversations -> {Unstarted} \cup Conversation]
    BY <1>4, <1>5, ConversationSet
  <1>7. StoredTyped'
    BY <1>1, <1>3, <1>6 DEF StoredTyped
  <1>8. \A o \in Calls : call[o].pc \in {"touch", "seen"} => call[o].to \in Conversations /\ call[o].to # c
    BY <1>1, CallTyped DEF ConversationInv, CallSound
  <1>9. ASSUME NEW o \in Calls PROVE CallSound(o)'
    <2>1. CallSound(o)
      BY DEF ConversationInv
    <2>2. CASE o = r
      BY <1>3, <2>2 DEF CallSound
    <2>3. CASE o # r
      <3>1. call'[o] = call[o]
        BY <1>3, <2>3
      <3>2. call[o].pc \in {"touch", "seen"} => conversation'[call[o].to] = conversation[call[o].to]
        BY <1>6, <1>8
      <3>3. QED
        BY <1>1, <2>1, <3>1, <3>2 DEF CallSound
    <2>4. QED
      BY <2>2, <2>3
  <1>10. ASSUME NEW qs \in Groups, Pair(qs), qs \notin rushed' PROVE PairSound(qs)'
    <2>1. PairSound(qs) /\ qs \notin rushed
      BY <1>1, <1>10 DEF ConversationInv
    <2>2. CASE qs # ps
      BY <1>1, <1>3, <1>4, <1>6, <1>10, <2>1, <2>2 DEF PairSound, Creating
    <2>3. CASE qs = ps
      <3>1. Creating(r, qs)
        BY <1>1, <1>2, <2>3 DEF Creating
      <3>2. \A d \in Conversations : conversation[d].of # qs
        BY <1>10, <2>1, <3>1 DEF PairSound
      <3>3. \A o \in Calls : o # r => ~Creating(o, qs)
        BY <1>10, <2>1, <3>1 DEF PairSound
      <3>4. \A d \in Conversations : d # c => conversation'[d].of # qs
        BY <1>6, <3>2
      <3>5. \A o \in Calls : ~(call'[o].pc = "create" /\ call'[o].of = qs)
        BY <1>3, <3>3 DEF Creating
      <3>6. QED
        BY <3>4, <3>5 DEF PairSound, Creating
    <2>4. QED
      BY <2>2, <2>3
  <1>11. ASSUME NEW d \in Conversations PROVE TimeSound(d)'
    <2>1. TimeSound(d) /\ TimesOf(d)' = TimesOf(d)
      BY <1>1 DEF ConversationInv, TimesOf
    <2>2. CASE d # c
      BY <1>1, <1>3, <1>6, <2>1, <2>2 DEF TimeSound, Touching, TimesOf
    <2>3. CASE d = c
      <3>1. \A o \in Calls : ~(call'[o].pc = "touch" /\ call'[o].to = c)
        BY <1>3, <1>8
      <3>2. TimesOf(c)' = {}
        BY <1>1, <2>1, <2>3 DEF TimeSound
      <3>3. QED
        BY <1>4, <1>6, <2>3, <3>1, <3>2 DEF TimeSound, Touching
    <2>4. QED
      BY <2>2, <2>3
  <1>12. ASSUME NEW d \in Conversations, NEW u \in Members PROVE ReadSound(d, u)'
    <2>1. ReadSound(d, u)
      BY DEF ConversationInv
    <2>2. CASE d # c
      BY <1>1, <1>3, <1>6, <2>1, <2>2 DEF ReadSound, Reading
    <2>3. CASE d = c
      <3>1. \A o \in Calls : ~(call'[o].pc = "seen" /\ call'[o].to = c)
        BY <1>3, <1>8
      <3>2. QED
        BY <1>1, <1>4, <1>6, <2>1, <2>3, <3>1 DEF ReadSound, Reading
    <2>4. QED
      BY <2>2, <2>3
  <1>13. \A qs \in Groups : PairSound(qs)'
    BY <1>10 DEF PairSound
  <1>14. QED
    BY <1>7, <1>9, <1>11, <1>12, <1>13 DEF ConversationInv

LEMMA MessageSent ==
  ASSUME StoredTyped, NEW m \in Message, message' = Append(message, m)
  PROVE  /\ message' \in Seq(Message) /\ Len(message) \in Nat /\ Len(message') = Len(message) + 1
         /\ DOMAIN message = 1..Len(message) /\ DOMAIN message' = 1..(Len(message) + 1)
         /\ message'[Len(message) + 1] = m /\ \A t \in 1..Len(message) : message'[t] = message[t]
  BY DEF StoredTyped

\* What is still allowed is a number, so the messages are not too many.
LEMMA SparingCounts ==
  ASSUME StoredTyped, Sparing PROVE Len(message) + 1 <= MaxThings /\ Len(message) \in Nat
  <1> DEFINE T == {s \in Sockets : socket[s] # NoSocket} \cup Started
  <1>1. IsFiniteSet(Sockets \cup Conversations)
    BY MessagingConstants, FS_Union
  <1>2. T \subseteq Sockets \cup Conversations
    BY DEF Started
  <1>3. Cardinality(T) \in Nat
    BY <1>1, <1>2, FS_Subset, FS_CardinalityType
  <1>4. Len(message) \in Nat
    BY DEF StoredTyped
  <1>5. Cardinality(T) + Len(message) < MaxThings
    BY DEF Sparing
  <1> HIDE DEF T
  <1>6. QED
    BY <1>3, <1>4, <1>5, MessagingConstants

LEMMA CreateMessageSound ==
  ASSUME StoredHalf, NEW r \in Calls, NEW u \in Members, NEW c \in Conversations, CreateMessage(r, u, c) PROVE StoredHalf'
  <1> USE DEF StoredHalf
  <1>1. UNCHANGED <<conversation, rushed, latest>> /\ call[r] = NoCall /\ conversation[c] # Unstarted
        /\ crossed' = IF \E o \in Calls : call[o].pc = "touch" /\ call[o].to = c THEN crossed \cup {c} ELSE crossed
    BY ConversationTyped DEF CreateMessage, Begin
  <1>2. PICK m \in Message : m = [to |-> c, from |-> u] /\ m.to = c
    <2>1. [to |-> c, from |-> u] \in Message
      BY DEF Message
    <2>2. QED
      BY <2>1
  <1>3. message' = Append(message, m)
    BY <1>2 DEF CreateMessage
  <1>4. PICK n : n = Len(message) + 1
    OBVIOUS
  <1>5. /\ message' \in Seq(Message) /\ Len(message) \in Nat /\ Len(message') = n /\ n \in Nat /\ Len(message) < n
        /\ DOMAIN message = 1..Len(message) /\ DOMAIN message' = 1..n
        /\ message'[n] = m /\ \A t \in 1..Len(message) : message'[t] = message[t]
    BY <1>3, <1>4, MessageSent
  <1>6. n <= MaxThings /\ n \in Times
    BY <1>4, <1>5, SparingCounts, MessagingConstants DEF CreateMessage, Times
  <1> DEFINE q == [pc |-> "touch", to |-> c, at |-> n]
  <1>7. q \in CallRecord /\ q.pc = "touch" /\ q.to = c /\ q.at = n
    BY <1>6 DEF CallRecord
  <1>8. call' = [call EXCEPT ![r] = q]
    BY <1>4 DEF CreateMessage, Begin
  <1> HIDE DEF q
  <1>9. call'[r] = q /\ (\A o \in Calls : o # r => call'[o] = call[o]) /\ call' \in [Calls -> CallRecord] /\ call[r].pc = "idle"
    BY <1>1, <1>7, <1>8, CallSet, CallTyped
  <1>10. crossed \subseteq crossed' /\ crossed' \subseteq Conversations \cup Readers
         /\ (c \notin crossed' => \A o \in Calls : ~(call[o].pc = "touch" /\ call[o].to = c))
    BY <1>1 DEF StoredTyped
  <1>11. StoredTyped'
    BY <1>1, <1>5, <1>6, <1>9, <1>10 DEF StoredTyped
  <1>12. ASSUME NEW o \in Calls PROVE CallSound(o)'
    <2>1. CASE o = r
      BY <1>1, <1>5, <1>7, <1>9, <2>1 DEF CallSound
    <2>2. CASE o # r
      <3>1. CallSound(o) /\ call'[o] = call[o]
        BY <1>9, <2>2 DEF ConversationInv
      <3>2. call[o].pc \in {"touch", "seen"} => call[o].at \in Nat
        BY CallTyped, MessagingConstants DEF Times
      <3>3. QED
        BY <1>1, <1>5, <3>1, <3>2 DEF CallSound
    <2>3. QED
      BY <2>1, <2>2
  <1>13. ASSUME NEW ps \in Groups PROVE PairSound(ps)'
    <2>1. PairSound(ps)
      BY DEF ConversationInv
    <2>2. \A o \in Calls : call'[o].pc = "create" => call'[o] = call[o]
      BY <1>7, <1>9
    <2>3. QED
      BY <1>1, <2>1, <2>2 DEF PairSound, Creating
  <1>14. ASSUME NEW d \in Conversations PROVE TimeSound(d)'
    <2>1. TimeSound(d)
      BY DEF ConversationInv
    <2>2. CASE d # c
      <3>1. TimesOf(d)' = TimesOf(d)
        BY <1>2, <1>4, <1>5, <2>2 DEF TimesOf
      <3>2. \A o \in Calls : (call'[o].pc = "touch" /\ call'[o].to = d) <=> (call[o].pc = "touch" /\ call[o].to = d)
        BY <1>7, <1>9, <2>2
      <3>3. \A o \in Calls : call'[o].pc = "touch" /\ call'[o].to = d => call'[o] = call[o]
        BY <1>7, <1>9, <2>2
      <3>4. QED
        BY <1>1, <1>10, <2>1, <3>1, <3>2, <3>3 DEF TimeSound, Touching
    <2>3. CASE d = c
      <3>1. n \in TimesOf(c)' /\ \A t \in TimesOf(c)' : t <= n
        BY <1>2, <1>5 DEF TimesOf
      <3>2. c \notin crossed' => \A o \in Calls : call'[o].pc = "touch" /\ call'[o].to = c => o = r
        BY <1>9, <1>10
      <3>3. QED
        BY <1>1, <1>7, <1>9, <2>3, <3>1, <3>2 DEF TimeSound, Touching
    <2>4. QED
      BY <2>2, <2>3
  <1>15. ASSUME NEW d \in Conversations, NEW v \in Members PROVE ReadSound(d, v)'
    <2>1. ReadSound(d, v) /\ latest[<<d, v>>] \in Times
      BY DEF ConversationInv, StoredTyped, Readers
    <2>2. \A o \in Calls : call'[o].pc = "seen" => call'[o] = call[o]
      BY <1>7, <1>9
    <2>3. latest[<<d, v>>] <= n
      BY <1>5, <2>1, MessagingConstants DEF ReadSound, Times
    <2>4. QED
      BY <1>1, <1>5, <1>10, <2>1, <2>2, <2>3 DEF ReadSound, Reading
  <1>16. QED
    BY <1>11, <1>12, <1>13, <1>14, <1>15 DEF ConversationInv

LEMMA SetLastMessageAtSound ==
  ASSUME StoredHalf, NEW r \in Calls, SetLastMessageAt(r) PROVE StoredHalf'
  <1> USE DEF StoredHalf
  <1>1. UNCHANGED <<message, rushed, crossed, latest>> /\ call[r].pc = "touch" /\ End(r)
    BY DEF SetLastMessageAt, record
  <1>2. PICK c \in Conversations : c = call[r].to
    BY <1>1, CallTyped
  <1>3. PICK at \in Times : at = call[r].at
    BY <1>1, CallTyped
  <1>4. /\ call'[r].pc = "idle" /\ \A o \in Calls : o # r => call'[o] = call[o]
        /\ call' \in [Calls -> CallRecord]
    BY <1>1, EndCall
  <1>5. conversation[c] # Unstarted /\ conversation[c] \in Conversation
    BY <1>1, <1>2, ConversationTyped DEF ConversationInv, CallSound
  <1> DEFINE z == [conversation[c] EXCEPT !.lastMessageAt = at]
  <1>6. z \in Conversation /\ z.of = conversation[c].of /\ z.lastMessageAt = at /\ z.read = conversation[c].read
    BY <1>5 DEF Conversation
  <1>7. conversation' = [conversation EXCEPT ![c] = z]
    BY <1>2, <1>3 DEF SetLastMessageAt, StoredTyped
  <1> HIDE DEF z
  <1>8. /\ conversation'[c] = z /\ conversation'[c] # Unstarted
        /\ \A d \in Conversations : d # c => conversation'[d] = conversation[d]
        /\ conversation' \in [Conversations -> {Unstarted} \cup Conversation]
    BY <1>6, <1>7, ConversationSet
  <1>9. StoredTyped'
    BY <1>1, <1>4, <1>8 DEF StoredTyped
  <1>10. \A d \in Conversations : /\ conversation'[d].of = conversation[d].of
                                  /\ conversation'[d] = Unstarted <=> conversation[d] = Unstarted
    BY <1>5, <1>6, <1>8
  <1>11. \A o \in Calls : call'[o].pc # "idle" => call'[o] = call[o] /\ o # r
    BY <1>4
  <1>12. ASSUME NEW o \in Calls PROVE CallSound(o)'
    <2>1. CallSound(o) /\ (call[o].pc \in {"touch", "seen"} => call[o].to \in Conversations)
      BY CallTyped DEF ConversationInv
    <2>2. QED
      BY <1>1, <1>10, <1>11, <2>1 DEF CallSound
  <1>13. ASSUME NEW ps \in Groups PROVE PairSound(ps)'
    <2>1. PairSound(ps)
      BY DEF ConversationInv
    <2>2. QED
      BY <1>1, <1>10, <1>11, <2>1 DEF PairSound, Creating
  <1>14. ASSUME NEW d \in Conversations PROVE TimeSound(d)'
    <2>1. TimeSound(d) /\ TimesOf(d)' = TimesOf(d)
      BY <1>1 DEF ConversationInv, TimesOf
    <2>2. CASE d # c
      <3>1. \A o \in Calls : (call'[o].pc = "touch" /\ call'[o].to = d) <=> (call[o].pc = "touch" /\ call[o].to = d)
        BY <1>1, <1>2, <1>4, <2>2
      <3>2. QED
        BY <1>1, <1>8, <1>11, <2>1, <2>2, <3>1 DEF TimeSound, Touching
    <2>3. CASE d = c
      <3>1. Touching(r, c)
        BY <1>1, <1>2 DEF Touching
      <3>2. c \notin crossed => /\ at \in TimesOf(c) /\ \A t \in TimesOf(c) : t <= at
                                /\ \A o \in Calls : call[o].pc = "touch" /\ call[o].to = c => o = r
        BY <1>3, <1>5, <2>1, <2>3, <3>1 DEF TimeSound, Touching
      <3>3. c \notin crossed => \A o \in Calls : ~(call'[o].pc = "touch" /\ call'[o].to = c)
        BY <1>11, <3>2
      <3>4. QED
        BY <1>1, <1>6, <1>8, <2>1, <2>3, <3>2, <3>3 DEF TimeSound, Touching
    <2>4. QED
      BY <2>2, <2>3
  <1>15. ASSUME NEW d \in Conversations, NEW v \in Members PROVE ReadSound(d, v)'
    <2>1. ReadSound(d, v)
      BY DEF ConversationInv
    <2>2. conversation[d] # Unstarted => conversation'[d].read = conversation[d].read
      BY <1>6, <1>8
    <2>3. QED
      BY <1>1, <1>10, <1>11, <2>1, <2>2 DEF ReadSound, Reading
  <1>16. QED
    BY <1>9, <1>12, <1>13, <1>14, <1>15 DEF ConversationInv

LEMMA MarkSeenBeginSound ==
  ASSUME StoredHalf, NEW r \in Calls, NEW u \in Members, NEW c \in Conversations, MarkSeenBegin(r, u, c) PROVE StoredHalf'
  <1> USE DEF StoredHalf
  <1>1. UNCHANGED <<conversation, message, rushed, latest>> /\ call[r] = NoCall /\ conversation[c] # Unstarted
        /\ crossed' = IF \E o \in Calls : call[o].pc = "seen" /\ call[o].to = c /\ call[o].by = u
                      THEN crossed \cup {<<c, u>>} ELSE crossed
    BY ConversationTyped DEF MarkSeenBegin, Begin, stored
  <1>2. PICK n \in Times : n = Len(message)
    BY MessagingConstants DEF StoredTyped, Times
  <1> DEFINE q == [pc |-> "seen", to |-> c, by |-> u, at |-> n]
  <1>3. q \in CallRecord /\ q.pc = "seen" /\ q.to = c /\ q.by = u /\ q.at = n
    BY DEF CallRecord
  <1>4. call' = [call EXCEPT ![r] = q]
    BY <1>2 DEF MarkSeenBegin, Begin
  <1> HIDE DEF q
  <1>5. call'[r] = q /\ (\A o \in Calls : o # r => call'[o] = call[o]) /\ call' \in [Calls -> CallRecord] /\ call[r].pc = "idle"
    BY <1>1, <1>3, <1>4, CallSet, CallTyped
  <1>6. <<c, u>> \in Readers
    BY DEF Readers
  <1>7. crossed \subseteq crossed' /\ crossed' \subseteq Conversations \cup Readers
        /\ (<<c, u>> \notin crossed' => \A o \in Calls : ~(call[o].pc = "seen" /\ call[o].to = c /\ call[o].by = u))
    BY <1>1, <1>6 DEF StoredTyped
  <1>8. StoredTyped'
    BY <1>1, <1>5, <1>7 DEF StoredTyped
  <1>9. ASSUME NEW o \in Calls PROVE CallSound(o)'
    <2>1. CASE o = r
      <3>1. n <= Len(message)
        BY <1>2, MessagingConstants DEF Times
      <3>2. QED
        BY <1>1, <1>3, <1>5, <2>1, <3>1 DEF CallSound
    <2>2. CASE o # r
      BY <1>1, <1>5, <2>2 DEF ConversationInv, CallSound
    <2>3. QED
      BY <2>1, <2>2
  <1>10. ASSUME NEW ps \in Groups PROVE PairSound(ps)'
    <2>1. PairSound(ps)
      BY DEF ConversationInv
    <2>2. \A o \in Calls : call'[o].pc = "create" => call'[o] = call[o]
      BY <1>3, <1>5
    <2>3. QED
      BY <1>1, <2>1, <2>2 DEF PairSound, Creating
  <1>11. ASSUME NEW d \in Conversations PROVE TimeSound(d)'
    <2>1. TimeSound(d) /\ TimesOf(d)' = TimesOf(d)
      BY <1>1 DEF ConversationInv, TimesOf
    <2>2. \A o \in Calls : /\ (call'[o].pc = "touch" /\ call'[o].to = d) <=> (call[o].pc = "touch" /\ call[o].to = d)
                           /\ call'[o].pc = "touch" => call'[o] = call[o]
      BY <1>3, <1>5
    <2>3. QED
      BY <1>1, <1>7, <2>1, <2>2 DEF TimeSound, Touching
  <1>12. ASSUME NEW d \in Conversations, NEW v \in Members PROVE ReadSound(d, v)'
    <2>1. ReadSound(d, v) /\ latest[<<d, v>>] \in Times
      BY DEF ConversationInv, StoredTyped, Readers
    <2>2. CASE <<d, v>> = <<c, u>>
      <3>1. latest[<<d, v>>] <= n
        BY <1>2, <2>1 DEF ReadSound
      <3>2. <<d, v>> \notin crossed' => \A o \in Calls : call'[o].pc = "seen" /\ call'[o].to = d /\ call'[o].by = v => o = r
        BY <1>5, <1>7, <2>2
      <3>3. QED
        BY <1>1, <1>3, <1>5, <1>7, <2>1, <3>1, <3>2 DEF ReadSound, Reading
    <2>3. CASE <<d, v>> # <<c, u>>
      <3>1. \A o \in Calls : call'[o].pc = "seen" /\ call'[o].to = d /\ call'[o].by = v => call'[o] = call[o]
        BY <1>3, <1>5, <2>3
      <3>2. QED
        BY <1>1, <1>7, <2>1, <3>1 DEF ReadSound, Reading
    <2>4. QED
      BY <2>2, <2>3
  <1>13. QED
    BY <1>8, <1>9, <1>10, <1>11, <1>12 DEF ConversationInv

LEMMA MarkSeenSound ==
  ASSUME StoredHalf, NEW r \in Calls, MarkSeen(r) PROVE StoredHalf'
  <1> USE DEF StoredHalf
  <1>1. UNCHANGED <<message, rushed, crossed>> /\ call[r].pc = "seen" /\ End(r)
    BY DEF MarkSeen
  <1>2. PICK c \in Conversations, u \in Members : c = call[r].to /\ u = call[r].by
    BY <1>1, CallTyped
  <1>3. PICK at \in Times : at = call[r].at
    BY <1>1, CallTyped
  <1>4. /\ call'[r].pc = "idle" /\ \A o \in Calls : o # r => call'[o] = call[o]
        /\ call' \in [Calls -> CallRecord]
    BY <1>1, EndCall
  <1>5. conversation[c] # Unstarted /\ conversation[c] \in Conversation /\ at <= Len(message)
        /\ conversation[c].read \in [Members -> Times]
    BY <1>1, <1>2, <1>3, ConversationTyped DEF ConversationInv, CallSound
  <1>6. PICK f \in [Members -> Times] : f = [conversation[c].read EXCEPT ![u] = at] /\ f[u] = at
                                     /\ \A v \in Members : v # u => f[v] = conversation[c].read[v]
    <2>1. [conversation[c].read EXCEPT ![u] = at] \in [Members -> Times]
      BY <1>5
    <2>2. QED
      BY <1>5, <2>1
  <1> DEFINE z == [conversation[c] EXCEPT !.read = f]
  <1>7. z \in Conversation /\ z.of = conversation[c].of /\ z.lastMessageAt = conversation[c].lastMessageAt /\ z.read = f
    BY <1>5 DEF Conversation
  <1>8. conversation' = [conversation EXCEPT ![c] = z]
    BY <1>2, <1>3, <1>6 DEF MarkSeen, StoredTyped
  <1> HIDE DEF z
  <1>9. /\ conversation'[c] = z /\ conversation'[c] # Unstarted
        /\ \A d \in Conversations : d # c => conversation'[d] = conversation[d]
        /\ conversation' \in [Conversations -> {Unstarted} \cup Conversation]
    BY <1>7, <1>8, ConversationSet
  <1>10. PICK x : x = <<c, u>>
    OBVIOUS
  <1>11. x \in Readers
    BY <1>10 DEF Readers
  <1>12. latest' = IF at > latest[x] THEN [latest EXCEPT ![x] = at] ELSE latest
    BY <1>2, <1>3, <1>10 DEF MarkSeen
  <1>13. latest[x] \in Times /\ latest[x] \in Nat /\ at \in Nat /\ Len(message) \in Nat
    BY <1>11, MessagingConstants DEF StoredTyped, Times
  <1>14. /\ latest' \in [Readers -> Times] /\ \A y \in Readers : y # x => latest'[y] = latest[y]
         /\ latest'[x] = IF at > latest[x] THEN at ELSE latest[x]
    BY <1>11, <1>12 DEF StoredTyped
  <1>15. StoredTyped'
    BY <1>1, <1>4, <1>9, <1>14 DEF StoredTyped
  <1>16. \A d \in Conversations : /\ conversation'[d].of = conversation[d].of
                                  /\ conversation'[d] = Unstarted <=> conversation[d] = Unstarted
                                  /\ conversation[d] # Unstarted => conversation'[d].lastMessageAt = conversation[d].lastMessageAt
    BY <1>5, <1>7, <1>9
  <1>17. \A o \in Calls : call'[o].pc # "idle" => call'[o] = call[o] /\ o # r
    BY <1>4
  <1>18. ASSUME NEW o \in Calls PROVE CallSound(o)'
    <2>1. CallSound(o) /\ (call[o].pc \in {"touch", "seen"} => call[o].to \in Conversations)
      BY CallTyped DEF ConversationInv
    <2>2. QED
      BY <1>1, <1>16, <1>17, <2>1 DEF CallSound
  <1>19. ASSUME NEW ps \in Groups PROVE PairSound(ps)'
    <2>1. PairSound(ps)
      BY DEF ConversationInv
    <2>2. QED
      BY <1>1, <1>16, <1>17, <2>1 DEF PairSound, Creating
  <1>20. ASSUME NEW d \in Conversations PROVE TimeSound(d)'
    <2>1. TimeSound(d) /\ TimesOf(d)' = TimesOf(d)
      BY <1>1 DEF ConversationInv, TimesOf
    <2>2. \A o \in Calls : (call'[o].pc = "touch" /\ call'[o].to = d) <=> (call[o].pc = "touch" /\ call[o].to = d)
      BY <1>1, <1>4
    <2>3. QED
      BY <1>1, <1>16, <1>17, <2>1, <2>2 DEF TimeSound, Touching
  <1>21. ASSUME NEW d \in Conversations, NEW v \in Members PROVE ReadSound(d, v)'
    <2>1. ReadSound(d, v) /\ <<d, v>> \in Readers
      BY DEF ConversationInv, Readers
    <2>2. CASE <<d, v>> # x
      <3>1. latest'[<<d, v>>] = latest[<<d, v>>]
        BY <1>14, <2>1, <2>2
      <3>2. conversation[d] # Unstarted => conversation'[d].read[v] = conversation[d].read[v]
        <4>1. CASE d = c
          <5>1. v # u
            BY <1>10, <2>2, <4>1
          <5>2. QED
            BY <1>6, <1>7, <1>9, <4>1, <5>1
        <4>2. CASE d # c
          BY <1>9, <4>2
        <4>3. QED
          BY <4>1, <4>2
      <3>3. QED
        BY <1>1, <1>16, <1>17, <2>1, <3>1, <3>2 DEF ReadSound, Reading
    <2>3. CASE <<d, v>> = x
      <3>1. d = c /\ v = u
        BY <1>10, <2>3
      <3>2. latest'[x] <= Len(message)
        BY <1>5, <1>13, <1>14, <2>1, <2>3 DEF ReadSound
      <3>3. Reading(r, c, u)
        BY <1>1, <1>2 DEF Reading
      <3>4. x \notin crossed => latest[x] <= at /\ \A o \in Calls : call[o].pc = "seen" /\ call[o].to = c /\ call[o].by = u => o = r
        BY <1>3, <1>5, <2>1, <2>3, <3>1, <3>3 DEF ReadSound, Reading
      <3>5. x \notin crossed => latest'[x] = at
        BY <1>13, <1>14, <3>4
      <3>6. x \notin crossed => \A o \in Calls : ~(call'[o].pc = "seen" /\ call'[o].to = c /\ call'[o].by = u)
        BY <1>17, <3>4
      <3>7. conversation'[c].read[u] = at
        BY <1>6, <1>7, <1>9
      <3>8. QED
        BY <1>1, <1>9, <2>3, <3>1, <3>2, <3>5, <3>6, <3>7 DEF ReadSound, Reading
    <2>4. QED
      BY <2>2, <2>3
  <1>22. QED
    BY <1>15, <1>18, <1>19, <1>20, <1>21 DEF ConversationInv

\* Calls that end without a write; a touch that is cut short is remembered.
LEMMA CallsCut ==
  ASSUME StoredHalf, UNCHANGED <<conversation, message, rushed, latest>>,
         call' \in [Calls -> CallRecord], \A r \in Calls : call'[r].pc = "idle" \/ call'[r] = call[r],
         crossed \subseteq crossed', crossed' \subseteq Conversations \cup Readers,
         \A r \in Calls : call[r].pc = "touch" /\ call'[r] # call[r] => call[r].to \in crossed'
  PROVE  StoredHalf'
  <1> USE DEF StoredHalf
  <1>1. StoredTyped'
    BY DEF StoredTyped
  <1>2. \A r \in Calls : call'[r].pc # "idle" => call'[r] = call[r]
    OBVIOUS
  <1>3. ASSUME NEW r \in Calls PROVE CallSound(r)'
    BY <1>2 DEF ConversationInv, CallSound
  <1>4. ASSUME NEW ps \in Groups PROVE PairSound(ps)'
    <2>1. PairSound(ps)
      BY DEF ConversationInv
    <2>2. QED
      BY <1>2, <2>1 DEF PairSound, Creating
  <1>5. ASSUME NEW c \in Conversations PROVE TimeSound(c)'
    <2>1. TimeSound(c) /\ TimesOf(c)' = TimesOf(c)
      BY DEF ConversationInv, TimesOf
    <2>2. \A r \in Calls : c \notin crossed' => ((call'[r].pc = "touch" /\ call'[r].to = c) <=> (call[r].pc = "touch" /\ call[r].to = c))
      BY <1>2
    <2>3. QED
      BY <1>2, <2>1, <2>2 DEF TimeSound, Touching
  <1>6. ASSUME NEW c \in Conversations, NEW u \in Members PROVE ReadSound(c, u)'
    <2>1. ReadSound(c, u)
      BY DEF ConversationInv
    <2>2. QED
      BY <1>2, <2>1 DEF ReadSound, Reading
  <1>7. QED
    BY <1>1, <1>3, <1>4, <1>5, <1>6 DEF ConversationInv

LEMMA CallFailsSound ==
  ASSUME StoredHalf, NEW r \in Calls, CallFails(r) PROVE StoredHalf'
  <1>1. UNCHANGED <<conversation, message, rushed, latest>> /\ End(r)
        /\ crossed' = IF call[r].pc = "touch" THEN crossed \cup {call[r].to} ELSE crossed
    BY DEF CallFails, stored
  <1>2. /\ call'[r].pc = "idle" /\ \A o \in Calls : o # r => call'[o] = call[o]
        /\ call' \in [Calls -> CallRecord]
    BY <1>1, EndCall DEF StoredHalf
  <1>3. crossed \subseteq crossed' /\ crossed' \subseteq Conversations \cup Readers
    BY <1>1, CallTyped DEF StoredHalf, StoredTyped
  <1>4. \A o \in Calls : call[o].pc = "touch" /\ call'[o] # call[o] => call[o].to \in crossed'
    BY <1>1, <1>2
  <1>5. QED
    BY <1>1, <1>2, <1>3, <1>4, CallsCut

LEMMA CrashStored ==
  ASSUME StoredHalf, Crash PROVE StoredHalf'
  <1>1. UNCHANGED <<conversation, message, rushed, latest>> /\ call' = [r \in Calls |-> NoCall]
        /\ crossed' = crossed \cup {call[r].to : r \in {o \in Calls : call[o].pc = "touch"}}
    BY DEF Crash, stored
  <1>2. call' \in [Calls -> CallRecord] /\ \A r \in Calls : call'[r].pc = "idle"
    BY <1>1 DEF CallRecord, NoCall
  <1>3. crossed \subseteq crossed' /\ crossed' \subseteq Conversations \cup Readers
    BY <1>1, CallTyped DEF StoredHalf, StoredTyped
  <1>4. \A r \in Calls : call[r].pc = "touch" => call[r].to \in crossed'
    BY <1>1
  <1>5. QED
    BY <1>1, <1>2, <1>3, <1>4, CallsCut

---------------------------------------------------------------------------
(* The steps                                                               *)
LEMMA RoomsKept ==
  ASSUME \A c \in Conversations : conversation[c] # Unstarted => conversation'[c].of = conversation[c].of
  PROVE  \A u \in Members : Rooms(u) \subseteq Rooms(u)'
  BY DEF Rooms, Unstarted

\* A step of a call leaves the sockets alone.
LEMMA CallSteps ==
  ASSUME Halves, StoredHalf', UNCHANGED online, slips' \in 0..MaxSlips,
         \A c \in Conversations : conversation[c] # Unstarted => conversation'[c].of = conversation[c].of
  PROVE  Halves'
  <1>1. OnlineTyped' /\ PresenceInv'
    BY OnlineIdle, RoomsKept DEF Halves
  <1>2. QED
    BY <1>1 DEF Halves, StoredHalf

LEMMA FindExistingDirectSteps ==
  ASSUME Halves, NEW r \in Calls, NEW ps \in Groups, FindExistingDirect(r, ps) PROVE Halves'
  <1>1. UNCHANGED <<conversation, online, slips>>
    BY DEF FindExistingDirect, stored
  <1>2. StoredHalf'
    BY FindExistingDirectSound DEF Halves, StoredHalf
  <1>3. QED
    BY <1>1, <1>2, CallSteps DEF Halves

LEMMA CreateConversationSteps ==
  ASSUME Halves, NEW r \in Calls, NEW c \in Conversations, CreateConversation(r, c) PROVE Halves'
  <1>1. UNCHANGED <<online, slips>> /\ conversation[c] = Unstarted
        /\ \A d \in Conversations : d # c => conversation'[d] = conversation[d]
    BY DEF CreateConversation, Halves, StoredTyped
  <1>2. StoredHalf'
    BY CreateConversationSound DEF Halves, StoredHalf
  <1>3. QED
    BY <1>1, <1>2, CallSteps DEF Halves

LEMMA CreateMessageSteps ==
  ASSUME Halves, NEW r \in Calls, NEW u \in Members, NEW c \in Conversations, CreateMessage(r, u, c) PROVE Halves'
  <1>1. UNCHANGED <<conversation, online, slips>>
    BY DEF CreateMessage
  <1>2. StoredHalf'
    BY CreateMessageSound DEF Halves, StoredHalf
  <1>3. QED
    BY <1>1, <1>2, CallSteps DEF Halves

LEMMA MarkSeenBeginSteps ==
  ASSUME Halves, NEW r \in Calls, NEW u \in Members, NEW c \in Conversations, MarkSeenBegin(r, u, c) PROVE Halves'
  <1>1. UNCHANGED <<conversation, online, slips>>
    BY DEF MarkSeenBegin, stored
  <1>2. StoredHalf'
    BY MarkSeenBeginSound DEF Halves, StoredHalf
  <1>3. QED
    BY <1>1, <1>2, CallSteps DEF Halves

LEMMA SetLastMessageAtSteps ==
  ASSUME Halves, NEW r \in Calls, SetLastMessageAt(r) PROVE Halves'
  <1>1. UNCHANGED <<online, slips>> /\ conversation' = [conversation EXCEPT ![call[r].to].lastMessageAt = call[r].at]
    BY DEF SetLastMessageAt
  <1>2. \A c \in Conversations : conversation'[c].of = conversation[c].of
    BY <1>1 DEF Halves, StoredTyped, Unstarted, Conversation
  <1>3. StoredHalf'
    BY SetLastMessageAtSound DEF Halves, StoredHalf
  <1>4. QED
    BY <1>1, <1>2, <1>3, CallSteps DEF Halves

LEMMA MarkSeenSteps ==
  ASSUME Halves, NEW r \in Calls, MarkSeen(r) PROVE Halves'
  <1>1. UNCHANGED <<online, slips>> /\ conversation' = [conversation EXCEPT ![call[r].to].read[call[r].by] = call[r].at]
    BY DEF MarkSeen
  <1>2. \A c \in Conversations : conversation'[c].of = conversation[c].of
    BY <1>1 DEF Halves, StoredTyped, Unstarted, Conversation
  <1>3. StoredHalf'
    BY MarkSeenSound DEF Halves, StoredHalf
  <1>4. QED
    BY <1>1, <1>2, <1>3, CallSteps DEF Halves

LEMMA CallFailsSteps ==
  ASSUME Halves, NEW r \in Calls, CallFails(r) PROVE Halves'
  <1>1. UNCHANGED <<conversation, online>> /\ Slip
    BY DEF CallFails, stored
  <1>2. slips' \in 0..MaxSlips
    BY <1>1, SlipTyped DEF Halves
  <1>3. StoredHalf'
    BY CallFailsSound DEF Halves, StoredHalf
  <1>4. QED
    BY <1>1, <1>2, <1>3, CallSteps

LEMMA CrashSteps ==
  ASSUME Halves, Crash PROVE Halves'
  <1>1. slips' \in 0..MaxSlips
    BY SlipTyped DEF Halves, Crash
  <1>2. StoredHalf'
    BY CrashStored DEF Halves, StoredHalf
  <1>3. OnlineTyped' /\ PresenceInv'
    BY CrashOnline
  <1>4. QED
    BY <1>1, <1>2, <1>3 DEF Halves, StoredHalf

LEMMA MessagingIdle ==
  ASSUME Halves, UNCHANGED messagingVars PROVE Halves'
  <1>1. UNCHANGED <<conversation, online, slips>> /\ UNCHANGED <<stored, call, rushed, crossed, latest>>
    BY DEF messagingVars, stored, record
  <1>2. StoredHalf'
    BY <1>1, StoredIdle DEF Halves, StoredHalf
  <1>3. QED
    BY <1>1, <1>2, CallSteps DEF Halves

LEMMA MessagingStarts ==
  ASSUME MessagingInit PROVE Halves
  <1> USE DEF MessagingInit
  <1>1. 0 \in Times /\ slips \in 0..MaxSlips
    BY MessagingConstants DEF Times
  <1>2. OnlineTyped
    BY DEF OnlineTyped, SocketsTyped, NoSocket
  <1>3. \A s \in Sockets : ~Connected(s)
    BY DEF Connected
  <1>4. PresenceInv
    BY <1>3 DEF PresenceInv, SocketSound, ToldTrue, Adding, Removing
  <1>5. message \in Seq(Message) /\ Len(message) = 0 /\ DOMAIN message = {} /\ 0 <= MaxThings
    BY MessagingConstants
  <1>6. StoredTyped
    BY <1>1, <1>5 DEF StoredTyped, CallRecord
  <1>7. \A r \in Calls : call[r].pc = "idle"
    BY DEF NoCall
  <1>8. \A c \in Conversations : conversation[c] = Unstarted /\ TimesOf(c) = {}
    BY <1>5 DEF TimesOf
  <1>9. ASSUME NEW ps \in Groups, ps = {} PROVE ~Pair(ps)
    <2>1. Cardinality({}) = 0
      BY FS_EmptySet
    <2>2. Cardinality(ps) = 0
      BY <1>9, <2>1, Zenon
    <2>3. QED
      BY <2>2 DEF Pair
  <1>10. ASSUME NEW ps \in Groups PROVE PairSound(ps)
    BY <1>7, <1>8, <1>9 DEF PairSound, Creating, Unstarted
  <1>11. ASSUME NEW c \in Conversations, NEW u \in Members PROVE ReadSound(c, u)
    <2>1. latest[<<c, u>>] = 0
      BY DEF Readers
    <2>2. QED
      BY <1>5, <1>8, <2>1 DEF ReadSound
  <1>12. ConversationInv
    BY <1>7, <1>8, <1>10, <1>11 DEF ConversationInv, CallSound, TimeSound
  <1>13. QED
    BY <1>1, <1>2, <1>4, <1>6, <1>12 DEF Halves

LEMMA MessagingSteps ==
  ASSUME Halves, [MessagingNext]_messagingVars PROVE Halves'
  <1>1. ASSUME NEW s \in Sockets,
               \/ Authenticate(s) \/ JoinRooms(s) \/ AddConnection(s) \/ AnnounceOnline(s) \/ HandshakeFails(s)
               \/ Disconnect(s) \/ RemoveConnection(s) \/ CountRemaining(s) \/ AnnounceOffline(s) \/ RemovalFails(s)
        PROVE Halves'
    BY <1>1, AuthenticateSound, JoinRoomsSound, AddConnectionSound, AnnounceOnlineSound, HandshakeFailsSound,
       DisconnectSound, RemoveConnectionSound, CountRemainingSound, AnnounceOfflineSound, RemovalFailsSound
  <1>2. ASSUME NEW s \in Sockets, NEW u \in Members, Connect(s, u) PROVE Halves'
    BY <1>2, ConnectSound
  <1>3. ASSUME NEW s \in Sockets, NEW c \in Conversations, JoinConversation(s, c) PROVE Halves'
    BY <1>3, JoinConversationSound
  <1>4. ASSUME NEW r \in Calls, SetLastMessageAt(r) \/ MarkSeen(r) \/ CallFails(r) PROVE Halves'
    BY <1>4, SetLastMessageAtSteps, MarkSeenSteps, CallFailsSteps
  <1>5. ASSUME NEW r \in Calls, NEW ps \in Groups, FindExistingDirect(r, ps) PROVE Halves'
    BY <1>5, FindExistingDirectSteps
  <1>6. ASSUME NEW r \in Calls, NEW c \in Conversations, CreateConversation(r, c) PROVE Halves'
    BY <1>6, CreateConversationSteps
  <1>7. ASSUME NEW r \in Calls, NEW c \in Conversations, NEW u \in Members, CreateMessage(r, u, c) \/ MarkSeenBegin(r, u, c)
        PROVE Halves'
    BY <1>7, CreateMessageSteps, MarkSeenBeginSteps
  <1>8. QED
    BY <1>1, <1>2, <1>3, <1>4, <1>5, <1>6, <1>7, CrashSteps, MessagingIdle DEF MessagingNext

LEMMA MessagingAlways == MessagingSpec => []Halves
  <1>1. MessagingInit => Halves
    BY MessagingStarts
  <1>2. Halves /\ [MessagingNext]_messagingVars => Halves'
    BY MessagingSteps
  <1>3. QED
    BY <1>1, <1>2, PTL DEF MessagingSpec

(* Every variable of the messaging service keeps its type: no handler is  *)
(* ever in a place that MessagingGateway and the services do not have.    *)
THEOREM MessagingTypes == MessagingSpec => []MessagingTypeOK
  <1>1. Halves => MessagingTypeOK
    BY HalvesAreWhole DEF MessagingInv
  <1>2. QED
    BY <1>1, MessagingAlways, PTL

LEMMA PresenceHolds ==
  ASSUME Halves PROVE PresenceTrue
  <1> SUFFICES ASSUME NEW u \in Members, \A s \in Sockets : Connected(s) /\ UserOf(s) = u => Settled(s)
               PROVE  LET here == {s \in Sockets : Connected(s) /\ UserOf(s) = u /\ socket[s].open} IN
                      /\ here \subseteq presence[u] /\ presence[u] \ here \subseteq stranded
                      /\ u \notin disturbed => told[u] = IF presence[u] = {} THEN "offline" ELSE "online"
    BY DEF PresenceTrue
  <1> DEFINE here == {s \in Sockets : Connected(s) /\ UserOf(s) = u /\ socket[s].open}
  <1>1. ASSUME NEW s \in here PROVE s \in presence[u]
    BY SocketFacts DEF Settled, In
  <1>2. ASSUME NEW s \in presence[u], s \notin here PROVE s \in stranded
    <2>1. s \in Sockets
      BY DEF Halves, OnlineTyped
    <2>2. Connected(s) /\ UserOf(s) = u
      BY <2>1 DEF Halves, PresenceInv, SocketSound
    <2>3. Settled(s)
      BY <2>1, <2>2
    <2>4. QED
      BY <1>2, <2>1, <2>2, <2>3, SocketFacts DEF Settled, Out
  <1>3. Adding(u) = {} /\ Removing(u) = {}
    BY DEF Adding, Removing, Settled, In, Out
  <1>4. u \notin disturbed => told[u] = IF presence[u] = {} THEN "offline" ELSE "online"
    BY <1>3 DEF Halves, PresenceInv, ToldTrue
  <1>5. QED
    BY <1>1, <1>2, <1>4

(* Once the handlers of a user are through, the set in Redis holds their  *)
(* open sockets and no other, unless a socket closed during its own       *)
(* handshake or a fault stranded it, and the last broadcast tells whether *)
(* the set is empty (PresenceService, MessagingGateway).                  *)
THEOREM PresenceAlwaysTrue == MessagingSpec => []PresenceTrue
  <1>1. Halves => PresenceTrue
    BY PresenceHolds
  <1>2. QED
    BY <1>1, MessagingAlways, PTL

LEMMA ConversationsHold ==
  ASSUME Halves PROVE ConversationsSound
  <1>1. ASSUME NEW c \in Conversations, NEW d \in Conversations, c # d, conversation[c] # Unstarted,
               conversation[c].of = conversation[d].of, Pair(conversation[c].of)
        PROVE  conversation[c].of \in rushed
    <2>1. conversation[c].of \in Groups
      BY <1>1 DEF Halves, StoredTyped, Conversation
    <2>2. PairSound(conversation[c].of)
      BY <2>1 DEF Halves, ConversationInv
    <2>3. QED
      BY <1>1, <2>2 DEF PairSound
  <1>2. \A s \in Sockets : Connected(s) => socket[s].rooms \subseteq Rooms(UserOf(s))
    BY SocketFacts
  <1>3. ASSUME NEW c \in Conversations, conversation[c] # Unstarted, c \notin crossed,
               \A r \in Calls : call[r].pc = "touch" => call[r].to # c,
               NEW times, times = {t \in DOMAIN message : message[t].to = c}, NEW t \in times \cup {0}
        PROVE  (t = conversation[c].lastMessageAt) = (\A x \in times : x <= t)
    <2>1. times = TimesOf(c) /\ TimeSound(c)
      BY <1>3 DEF TimesOf, Halves, ConversationInv
    <2>2. \A r \in Calls : ~Touching(r, c)
      BY <1>3 DEF Touching
    <2>3. /\ conversation[c].lastMessageAt \in times \cup {0}
          /\ \A x \in times : x <= conversation[c].lastMessageAt
      BY <1>3, <2>1, <2>2 DEF TimeSound
    <2>4. \A x \in times : x \in Nat /\ x > 0
      <3>1. message \in Seq(Message)
        BY DEF Halves, StoredTyped
      <3>2. QED
        BY <1>3, <3>1
    <2>5. PICK last : last = conversation[c].lastMessageAt
      OBVIOUS
    <2>6. last \in Nat /\ t \in Nat
      BY <2>3, <2>4, <2>5
    <2>7. ASSUME \A x \in times : x <= t PROVE t = last
      <3>1. last <= t
        BY <2>3, <2>5, <2>6, <2>7
      <3>2. t <= last
        BY <2>3, <2>5, <2>6
      <3>3. QED
        BY <2>6, <3>1, <3>2
    <2>8. QED
      BY <2>3, <2>5, <2>7
  <1>4. ASSUME NEW c \in Conversations, conversation[c] # Unstarted, NEW u \in Members, <<c, u>> \notin crossed
        PROVE  conversation[c].read[u] = latest[<<c, u>>]
    BY <1>4 DEF Halves, ConversationInv, ReadSound
  <1>5. QED
    BY <1>1, <1>2, <1>3, <1>4 DEF ConversationsSound

(* Two people get two conversations only if both creations looked before  *)
(* either wrote, a socket is in a room only as a participant,             *)
(* lastMessageAt is the time of the last message and lastReadAt the       *)
(* latest that was read, unless two writes crossed or one was cut short   *)
(* (ConversationsService, MessagesService).                               *)
THEOREM ConversationsAlwaysSound == MessagingSpec => []ConversationsSound
  <1>1. Halves => ConversationsSound
    BY ConversationsHold
  <1>2. QED
    BY <1>1, MessagingAlways, PTL

(* The types of the two together, from those of each.                      *)
THEOREM RealtimeTypes == RealtimeSpec => []RealtimeTypeOK
<1>1. NotificationTypeOK /\ MessagingTypeOK => RealtimeTypeOK
  BY DEF RealtimeTypeOK
<1> QED BY <1>1, NotificationTypes, MessagingTypes, PTL DEF RealtimeSpec
=============================================================================
