------------------------------- MODULE Access -------------------------------
(***************************************************************************)
(* Who may do what: the requests of accounts against the table of routes,  *)
(* and the administration of accounts, roles and permissions (src/auth     *)
(* strategies and guards, src/admin, src/users/services/users.service.ts,  *)
(* prisma/seed.ts).                                                        *)
(*                                                                         *)
(* A visit is a request that the guards have let in and whose handler has  *)
(* not finished.  Who asks is read from the database at the guards, what   *)
(* the handler writes is written later.  A request the guards refuse       *)
(* changes nothing.  Roles and permissions are never removed, so the       *)
(* handlers' look for the row they change cannot go stale, and each is one *)
(* step.  Names that no route asks for (USER, seven of the permissions)    *)
(* are left out.                                                           *)
(***************************************************************************)
EXTENDS Routes, FiniteSets

CONSTANTS Accounts,   \* accounts; the rows are never deleted
          First,      \* the one set up as administrator
          MaxVisits   \* bound: requests under way at a time

ASSUME AccessAssumption == First \in Accounts /\ MaxVisits \in Nat \ {0}

Visits == 1..MaxVisits

Nobody == "nobody"   \* a request without a bearer token
Free   == [who |-> "free"]   \* a visit slot that is not in use

RoleNames == {"ADMIN", "SUPPORT"}       \* SUPPORT stands for the roles created later
PermissionNames == {"events:replay"}

VARIABLES
  active,     \* accounts that are not suspended
  roles,      \* account -> its roles
  grants,     \* role that exists -> its permissions
  visit,      \* slot -> Free, or the asker, the route asked for and the one that serves
  slipped     \* history: a handler took rights from one whose own visit was under way

accessVars == <<active, roles, grants, visit, slipped>>

AccessTypeOK ==
  /\ active \subseteq Accounts
  /\ roles \in [Accounts -> SUBSET DOMAIN grants]
  /\ grants \in [{"ADMIN"} -> SUBSET PermissionNames] \cup [RoleNames -> SUBSET PermissionNames]
  /\ \A v \in Visits : visit[v] = Free \/ (visit[v].who \in Accounts \cup {Nobody} /\ visit[v].asked.verb = visit[v].by.verb)
  /\ slipped \in BOOLEAN

\* What the seed leaves, and an account made administrator by hand.
AccessInit ==
  /\ active = Accounts
  /\ roles = [a \in Accounts |-> IF a = First THEN {"ADMIN"} ELSE {}]
  /\ grants = [r \in {"ADMIN"} |-> PermissionNames]
  /\ visit = [v \in Visits |-> Free]
  /\ slipped = FALSE

---------------------------------------------------------------------------
PermissionsOf(a) == UNION {grants[r] : r \in roles[a]}

\* Mutant: the strategy takes a token of an account that was suspended.
MayEnterSuspended(who, r) ==
  IF who = Nobody THEN Admits(r, FALSE, {}, {})
                  ELSE Admits(r, TRUE, roles[who], PermissionsOf(who))

\* The strategy's user, when the token's account is there and active.
MayEnter(who, r) ==
  IF who = Nobody THEN Admits(r, FALSE, {}, {})
                  ELSE Admits(r, who \in active, roles[who], PermissionsOf(who))

Is(r, name, verb, last) ==
  r.of = name /\ r.verb = verb /\ r.path # <<>> /\ r.path[Len(r.path)] = last

Suspends(r)      == Is(r, "AdminUsers", "POST", "suspend") \/ Is(r, "UserAdmin", "DELETE", Id)
Reactivates(r)   == Is(r, "AdminUsers", "POST", "reactivate")
Updates(r)       == Is(r, "UserAdmin", "PATCH", Id)
SetsRoles(r)     == Is(r, "AdminUsers", "PATCH", "roles")
AddsRole(r)      == Is(r, "Rbac", "POST", "roles")
Grants(r)        == Is(r, "Rbac", "PATCH", "permissions")
ReplaysEvents(r) == Is(r, "Outbox", "POST", "replay")

\* The routes an earlier one hides: /payments/:id is registered before
\* /payments/invoices and /payments/transactions, and two controllers declare GET /notifications.
Hidden(r) == /\ r.verb = "GET"
             /\ \/ r.path \in {<<"payments", "invoices">>, <<"payments", "transactions">>}
                \/ r.of = "Notices" /\ r.path = <<"notifications">>

\* What has its own proof of who asks, or needs none: signing in, a processor's event, counting a visitor.
ForAnybody(r) == \/ r.of \in {"Auth", "Tracking"}
                 \/ r.of \in {"Orders", "Payments", "Payouts"} /\ \E k \in DOMAIN r.path : r.path[k] = "webhook"

ChangesAccess(r) == Suspends(r) \/ Reactivates(r) \/ Updates(r) \/ SetsRoles(r) \/ AddsRole(r) \/ Grants(r)

(* What the table of routes says of each request's route and the one that  *)
(* serves it: a closed formula, so that evaluating it settles it.          *)
ASSUME RoutesAsDeclared ==
  \A x \in Dispatch :
    /\ x.by.verb = x.asked.verb
    /\ Hidden(x.asked) \/ x.by = x.asked
    /\ \A authenticated \in BOOLEAN, held \in SUBSET RoleNames, allowed \in SUBSET PermissionNames :
         Admits(x.by, authenticated, held, allowed) =>
           /\ ChangesAccess(x.by) => authenticated /\ "ADMIN" \in held
           /\ ReplaysEvents(x.by) => "events:replay" \in allowed
    /\ Admits(x.by, FALSE, {}, {}) => x.asked.public /\ (x.by.verb # "GET" => ForAnybody(x.by))

Serving == {visit[v] : v \in {v \in Visits : visit[v] # Free}}

\* The lowest free slot is taken.
FirstFree(v) == visit[v] = Free /\ \A w \in 1..v - 1 : visit[w] # Free

ChangingAccess == {x \in Dispatch : ChangesAccess(x.by)}

\* bound: what changes no access runs alone.
Offered == IF Serving = {} THEN Dispatch
           ELSE IF \A y \in Serving : ChangesAccess(y.by) THEN ChangingAccess ELSE {}

(* A request for the path of route x.asked meets the guards of x.by.       *)
Enter(v, who, x) ==
  /\ MayEnter(who, x.by)
  /\ visit' = [visit EXCEPT ![v] = [who |-> who, asked |-> x.asked, by |-> x.by]]
  /\ UNCHANGED <<active, roles, grants, slipped>>

\* The visit ends; the history looks at the rights of all those being served.
Leave(v) ==
  LET served == Serving
  IN  /\ visit' = [visit EXCEPT ![v] = Free]
      /\ slipped' = (slipped \/ \E y \in served : ~MayEnter(y.who, y.by)')

SetActive(v, a, on) ==
  /\ \/ visit[v] # Free /\ Suspends(visit[v].by) /\ ~on
     \/ visit[v] # Free /\ Reactivates(visit[v].by) /\ on
     \/ visit[v] # Free /\ Updates(visit[v].by)
  /\ active' = IF on THEN active \cup {a} ELSE active \ {a}
  /\ UNCHANGED <<roles, grants>>

\* Mutant: roles that do not exist are not refused.
SetAnyRoles(v, a, names) ==
  /\ visit[v] # Free /\ SetsRoles(visit[v].by)
  /\ roles' = [roles EXCEPT ![a] = names]
  /\ UNCHANGED <<active, grants>>

SetRoles(v, a, names) ==
  /\ visit[v] # Free /\ SetsRoles(visit[v].by)
  /\ names \subseteq DOMAIN grants
  /\ roles' = [roles EXCEPT ![a] = names]
  /\ UNCHANGED <<active, grants>>

CreateRole(v, name) ==
  /\ visit[v] # Free /\ AddsRole(visit[v].by) /\ name \notin DOMAIN grants
  /\ grants' = [r \in DOMAIN grants \cup {name} |-> IF r = name THEN {} ELSE grants[r]]
  /\ UNCHANGED <<active, roles>>

SetRolePermissions(v, name, permissions) ==
  /\ visit[v] # Free /\ Grants(visit[v].by) /\ name \in DOMAIN grants
  /\ grants' = [grants EXCEPT ![name] = permissions]
  /\ UNCHANGED <<active, roles>>

\* Any other handler, an answer 400, or a body without isActive.
WriteNothing(v) ==
  /\ visit[v] # Free
  /\ UNCHANGED <<active, roles, grants>>

AccessNext ==
  \E v \in Visits :
    \/ FirstFree(v) /\ \E x \in Offered, who \in Accounts \cup {Nobody} : Enter(v, who, x)
    \/ /\ \/ \E a \in Accounts, on \in BOOLEAN : SetActive(v, a, on)
          \/ \E a \in Accounts, names \in SUBSET RoleNames : SetRoles(v, a, names)
          \/ \E name \in RoleNames : CreateRole(v, name)
          \/ \E name \in RoleNames, permissions \in SUBSET PermissionNames : SetRolePermissions(v, name, permissions)
          \/ WriteNothing(v)
       /\ Leave(v)

AccessSpec == AccessInit /\ [][AccessNext]_accessVars

---------------------------------------------------------------------------
(* Whatever order the modules are registered in, the request for a route   *)
(* is served by that route, except the three hidden ones.                  *)
ServedAsAsked == \A y \in Serving : Hidden(y.asked) \/ y.by = y.asked

(* Every route answers the requests for its path, as the API description   *)
(* of its controller says.                                                 *)
RoutesReachable == \A y \in Serving : y.by = y.asked

(* Without a token nothing is entered but what reads, signs in, brings a   *)
(* processor's event or counts a visitor.                                  *)
NobodyWritesNothing ==
  \A y \in Serving : y.who = Nobody /\ y.by.verb # "GET" => ForAnybody(y.by)

(* Accounts, roles and permissions are changed, and events are replayed,   *)
(* only by an active administrator, replays only with the permission, and  *)
(* a hidden route is no way around: what serves it asks no less.           *)
AdminsAdminister ==
  \A y \in Serving : \/ slipped
                     \/ /\ ChangesAccess(y.by) => y.who \in active /\ "ADMIN" \in roles[y.who]
                        /\ ReplaysEvents(y.by) => "events:replay" \in PermissionsOf(y.who)
                        /\ y.who = Nobody => y.asked.public

(* There is always an administrator who can let others back in, unless a   *)
(* handler took rights from its own asker or from another being served.    *)
AdminRemains == slipped \/ \E a \in active : "ADMIN" \in roles[a]

(* Requests reach the handler they ask for and nobody else's rights.       *)
AccessSound == ServedAsAsked /\ NobodyWritesNothing /\ AdminsAdminister /\ AdminRemains
=============================================================================
