---------------------------- MODULE ContentProofs ---------------------------
(***************************************************************************)
(* The parts of Content, each for every value of its constants and with an *)
(* inductive invariant of its own: who enters which route, the catalog,    *)
(* the shelf, files, invoices, the search index and idempotency keys.      *)
(***************************************************************************)
EXTENDS Content, FiniteSetTheorems, TLAPS

---------------------------------------------------------------------------
(* ACCESS: no visit is served that the guards would not let in.            *)
---------------------------------------------------------------------------
RightsTyped ==
  /\ active \subseteq Accounts
  /\ roles \in [Accounts -> SUBSET DOMAIN grants]
  /\ grants \in [{"ADMIN"} -> SUBSET PermissionNames] \cup [RoleNames -> SUBSET PermissionNames]
  /\ slipped \in BOOLEAN

(* A visit was let in by the guards of the route that serves it.           *)
VisitSet == [who : Accounts \cup {Nobody}, asked : {x.asked : x \in Dispatch}, by : {x.by : x \in Dispatch}]
LetIn(y) == /\ \E x \in Dispatch : y.asked = x.asked /\ y.by = x.by
            /\ y.who = Nobody => Admits(y.by, FALSE, {}, {})

(* As long as no handler took rights from one that was served, the guards  *)
(* would let every visit in again.                                         *)
AccessInv ==
  /\ RightsTyped
  /\ visit \in [Visits -> {Free} \cup VisitSet]
  /\ \A v \in Visits : visit[v] # Free => LetIn(visit[v])
  /\ slipped \/ \A v \in Visits : visit[v] # Free => MayEnter(visit[v].who, visit[v].by)
  /\ AdminRemains

---------------------------------------------------------------------------
\* What an account holds are roles and permissions the guards know.
LEMMA Held ==
  ASSUME NEW a \in Accounts
  PROVE  /\ RightsTyped => roles[a] \in SUBSET RoleNames /\ PermissionsOf(a) \in SUBSET PermissionNames
         /\ RightsTyped' => roles'[a] \in SUBSET RoleNames /\ PermissionsOf(a)' \in SUBSET PermissionNames
  <1>1. ASSUME RightsTyped PROVE roles[a] \in SUBSET RoleNames /\ PermissionsOf(a) \in SUBSET PermissionNames
    <2>1. DOMAIN grants \subseteq RoleNames /\ \A r \in DOMAIN grants : grants[r] \subseteq PermissionNames
      BY <1>1 DEF RightsTyped, RoleNames
    <2>2. roles[a] \subseteq DOMAIN grants
      BY <1>1 DEF RightsTyped
    <2>3. QED
      BY <2>1, <2>2 DEF PermissionsOf
  <1>2. ASSUME RightsTyped' PROVE roles'[a] \in SUBSET RoleNames /\ PermissionsOf(a)' \in SUBSET PermissionNames
    <2>1. DOMAIN grants' \subseteq RoleNames /\ \A r \in DOMAIN grants' : grants'[r] \subseteq PermissionNames
      BY <1>2 DEF RightsTyped, RoleNames
    <2>2. roles'[a] \subseteq DOMAIN grants'
      BY <1>2 DEF RightsTyped
    <2>3. QED
      BY <2>1, <2>2 DEF PermissionsOf
  <1>3. QED
    BY <1>1, <1>2

\* Who may enter a route that changes access is an active administrator.
LEMMA EntersAsAdmin ==
  ASSUME NEW x \in Dispatch, NEW who \in Accounts \cup {Nobody}
  PROVE  /\ RightsTyped /\ MayEnter(who, x.by) =>
              /\ ChangesAccess(x.by) => who \in active /\ "ADMIN" \in roles[who]
              /\ ReplaysEvents(x.by) => "events:replay" \in PermissionsOf(who)
         /\ RightsTyped' /\ MayEnter(who, x.by)' /\ ChangesAccess(x.by) => who \in active' /\ "ADMIN" \in roles'[who]
  <1>1. ASSUME NEW authenticated \in BOOLEAN, NEW held \in SUBSET RoleNames, NEW allowed \in SUBSET PermissionNames,
               Admits(x.by, authenticated, held, allowed)
        PROVE  /\ ChangesAccess(x.by) => authenticated /\ "ADMIN" \in held
               /\ ReplaysEvents(x.by) => "events:replay" \in allowed
    BY <1>1, RoutesAsDeclared
  <1>2. ASSUME Admits(x.by, FALSE, {}, {}) PROVE ~ChangesAccess(x.by) /\ ~ReplaysEvents(x.by)
    <2>1. {} \in SUBSET RoleNames /\ {} \in SUBSET PermissionNames /\ FALSE \in BOOLEAN
      OBVIOUS
    <2>2. (ChangesAccess(x.by) => FALSE) /\ (ReplaysEvents(x.by) => "events:replay" \in {})
      BY <1>1, <1>2, <2>1, ZenonT(30)
    <2>3. QED
      BY <2>2
  <1>3. ASSUME RightsTyped, MayEnter(who, x.by)
        PROVE  /\ ChangesAccess(x.by) => who \in active /\ "ADMIN" \in roles[who]
               /\ ReplaysEvents(x.by) => "events:replay" \in PermissionsOf(who)
    <2>1. CASE who = Nobody
      BY <1>2, <1>3, <2>1 DEF MayEnter
    <2>2. CASE who # Nobody
      <3>1. PICK authenticated \in BOOLEAN : authenticated <=> who \in active
        BY Zenon
      <3>2. Admits(x.by, authenticated, roles[who], PermissionsOf(who))
        BY <1>3, <2>2, <3>1 DEF MayEnter
      <3>3. roles[who] \in SUBSET RoleNames /\ PermissionsOf(who) \in SUBSET PermissionNames
        BY <1>3, <2>2, Held
      <3>4. QED
        BY <1>1, <3>1, <3>2, <3>3
    <2>3. QED
      BY <2>1, <2>2
  <1>4. ASSUME RightsTyped', MayEnter(who, x.by)', ChangesAccess(x.by) PROVE who \in active' /\ "ADMIN" \in roles'[who]
    <2>1. CASE who = Nobody
      BY <1>2, <1>4, <2>1 DEF MayEnter
    <2>2. CASE who # Nobody
      <3>1. PICK authenticated \in BOOLEAN : authenticated <=> who \in active'
        BY Zenon
      <3>2. Admits(x.by, authenticated, roles'[who], PermissionsOf(who)')
        BY <1>4, <2>2, <3>1 DEF MayEnter
      <3>3. roles'[who] \in SUBSET RoleNames /\ PermissionsOf(who)' \in SUBSET PermissionNames
        BY <1>4, <2>2, Held
      <3>4. QED
        BY <1>1, <1>4, <3>1, <3>2, <3>3
    <2>3. QED
      BY <2>1, <2>2
  <1>5. QED
    BY <1>3, <1>4

LEMMA VisitNotFree == Free \notin VisitSet
  BY DEF Free, VisitSet

LEMMA EnterKeeps ==
  ASSUME AccessInv, NEW v \in Visits, NEW x \in Dispatch, NEW who \in Accounts \cup {Nobody}, Enter(v, who, x) PROVE AccessInv'
  <1> DEFINE y == [who |-> who, asked |-> x.asked, by |-> x.by]
  <1>1. y \in VisitSet /\ y.who = who /\ y.asked = x.asked /\ y.by = x.by
    BY DEF VisitSet
  <1>2. MayEnter(who, x.by) /\ visit' = [visit EXCEPT ![v] = y] /\ UNCHANGED <<active, roles, grants, slipped>>
    BY DEF Enter
  <1>3. LetIn(y)
    BY <1>1, <1>2 DEF LetIn, MayEnter
  <1> HIDE DEF y
  <1>4. visit' \in [Visits -> {Free} \cup VisitSet] /\ visit'[v] = y /\ \A w \in Visits : w # v => visit'[w] = visit[w]
    BY <1>1, <1>2 DEF AccessInv
  <1>5. RightsTyped' /\ AdminRemains'
    BY <1>2 DEF AccessInv, RightsTyped, AdminRemains
  <1>6. ASSUME NEW w \in Visits, visit'[w] # Free PROVE LetIn(visit'[w])
    <2>1. CASE w = v
      BY <1>3, <1>4, <2>1
    <2>2. CASE w # v
      BY <1>4, <1>6, <2>2 DEF AccessInv
    <2>3. QED
      BY <2>1, <2>2
  <1>7. ASSUME ~slipped, NEW w \in Visits, visit'[w] # Free PROVE MayEnter(visit[w].who, visit[w].by)'
    <2>1. PICK z : z = visit'[w]
      OBVIOUS
    <2>2. MayEnter(z.who, z.by)
      <3>1. CASE w = v
        BY <1>1, <1>2, <1>4, <2>1, <3>1
      <3>2. CASE w # v
        BY <1>4, <1>7, <2>1, <3>2 DEF AccessInv
      <3>3. QED
        BY <3>1, <3>2
    <2>3. QED
      BY <1>2, <2>1, <2>2 DEF MayEnter, PermissionsOf
  <1>8. QED
    BY <1>2, <1>4, <1>5, <1>6, <1>7 DEF AccessInv

---------------------------------------------------------------------------
(* The handlers: each is asked for, or writes nothing.                     *)
LEMMA HandlersTyped ==
  ASSUME AccessInv, slipped' \in BOOLEAN, NEW v \in Visits,
         \/ \E a \in Accounts, on \in BOOLEAN : SetActive(v, a, on)
         \/ \E a \in Accounts, names \in SUBSET RoleNames : SetRoles(v, a, names)
         \/ \E name \in RoleNames : CreateRole(v, name)
         \/ \E name \in RoleNames, permissions \in SUBSET PermissionNames : SetRolePermissions(v, name, permissions)
         \/ WriteNothing(v)
  PROVE  /\ RightsTyped' /\ visit[v] # Free
         /\ ChangesAccess(visit[v].by) \/ UNCHANGED <<active, roles, grants>>
  <1>1. ASSUME NEW a \in Accounts, NEW on \in BOOLEAN, SetActive(v, a, on)
        PROVE  RightsTyped' /\ visit[v] # Free /\ ChangesAccess(visit[v].by)
    <2>1. visit[v] # Free /\ ChangesAccess(visit[v].by)
      BY <1>1 DEF SetActive, ChangesAccess
    <2>2. active' \subseteq Accounts /\ UNCHANGED <<roles, grants>>
      BY <1>1 DEF SetActive, AccessInv, RightsTyped
    <2>3. QED
      BY <2>1, <2>2 DEF AccessInv, RightsTyped
  <1>2. ASSUME NEW a \in Accounts, NEW names \in SUBSET RoleNames, SetRoles(v, a, names)
        PROVE  RightsTyped' /\ visit[v] # Free /\ ChangesAccess(visit[v].by)
    <2>1. visit[v] # Free /\ ChangesAccess(visit[v].by)
      BY <1>2 DEF SetRoles, ChangesAccess
    <2>2. roles' \in [Accounts -> SUBSET DOMAIN grants] /\ UNCHANGED <<active, grants>>
      BY <1>2 DEF SetRoles, AccessInv, RightsTyped
    <2>3. QED
      BY <2>1, <2>2 DEF AccessInv, RightsTyped
  <1>3. ASSUME NEW name \in RoleNames, CreateRole(v, name)
        PROVE  RightsTyped' /\ visit[v] # Free /\ ChangesAccess(visit[v].by)
    <2>1. visit[v] # Free /\ ChangesAccess(visit[v].by)
      BY <1>3 DEF CreateRole, ChangesAccess
    <2>2. /\ name \notin DOMAIN grants /\ UNCHANGED <<active, roles>>
          /\ grants' = [r \in DOMAIN grants \cup {name} |-> IF r = name THEN {} ELSE grants[r]]
      BY <1>3 DEF CreateRole
    <2>3. DOMAIN grants = {"ADMIN"} /\ name = "SUPPORT" /\ grants \in [{"ADMIN"} -> SUBSET PermissionNames]
      BY <2>2 DEF AccessInv, RightsTyped, RoleNames
    <2>4. DOMAIN grants \cup {name} = RoleNames
      BY <2>3 DEF RoleNames
    <2>5. grants' \in [RoleNames -> SUBSET PermissionNames]
      BY <2>2, <2>3, <2>4
    <2>6. DOMAIN grants \subseteq DOMAIN grants'
      BY <2>4, <2>5
    <2>7. roles' \in [Accounts -> SUBSET DOMAIN grants']
      BY <2>2, <2>6 DEF AccessInv, RightsTyped
    <2>8. QED
      BY <2>1, <2>2, <2>5, <2>7 DEF AccessInv, RightsTyped
  <1>4. ASSUME NEW name \in RoleNames, NEW permissions \in SUBSET PermissionNames, SetRolePermissions(v, name, permissions)
        PROVE  RightsTyped' /\ visit[v] # Free /\ ChangesAccess(visit[v].by)
    <2>1. visit[v] # Free /\ ChangesAccess(visit[v].by)
      BY <1>4 DEF SetRolePermissions, ChangesAccess
    <2>2. grants' = [grants EXCEPT ![name] = permissions] /\ UNCHANGED <<active, roles>>
      BY <1>4 DEF SetRolePermissions
    <2>3. DOMAIN grants' = DOMAIN grants
      BY <2>2
    <2>4. grants' \in [{"ADMIN"} -> SUBSET PermissionNames] \cup [RoleNames -> SUBSET PermissionNames]
      BY <2>2 DEF AccessInv, RightsTyped
    <2>5. roles' \in [Accounts -> SUBSET DOMAIN grants']
      BY <2>2, <2>3 DEF AccessInv, RightsTyped
    <2>6. QED
      BY <2>1, <2>2, <2>4, <2>5 DEF AccessInv, RightsTyped
  <1>5. ASSUME WriteNothing(v) PROVE RightsTyped' /\ visit[v] # Free /\ UNCHANGED <<active, roles, grants>>
    BY <1>5 DEF WriteNothing, AccessInv, RightsTyped
  <1>6. QED
    BY <1>1, <1>2, <1>3, <1>4, <1>5

LEMMA LeaveKeeps ==
  ASSUME AccessInv, NEW v \in Visits, Leave(v), RightsTyped', visit[v] # Free,
         ChangesAccess(visit[v].by) \/ UNCHANGED <<active, roles, grants>>
  PROVE  AccessInv'
  <1>1. visit' = [visit EXCEPT ![v] = Free] /\ slipped' = (slipped \/ \E y \in Serving : ~MayEnter(y.who, y.by)')
    BY DEF Leave
  <1>2. visit' \in [Visits -> {Free} \cup VisitSet] /\ visit'[v] = Free /\ \A w \in Visits : w # v => visit'[w] = visit[w]
    BY <1>1 DEF AccessInv
  <1>3. ASSUME NEW w \in Visits, visit'[w] # Free PROVE LetIn(visit'[w])
    BY <1>2, <1>3 DEF AccessInv
  <1>4. ASSUME NEW w \in Visits, visit[w] # Free PROVE visit[w] \in Serving
    BY <1>4 DEF Serving
  <1>5. ASSUME ~slipped', NEW w \in Visits, visit'[w] # Free PROVE MayEnter(visit[w].who, visit[w].by)'
    <2>1. PICK z : z = visit'[w]
      OBVIOUS
    <2>2. z = visit[w] /\ z \in Serving
      BY <1>2, <1>4, <1>5, <2>1
    <2>3. MayEnter(z.who, z.by)'
      BY <1>1, <1>5, <2>2
    <2>4. QED
      BY <2>1, <2>3 DEF MayEnter, PermissionsOf
  <1>6. AdminRemains'
    <2>1. CASE slipped'
      BY <2>1 DEF AdminRemains
    <2>2. CASE ~slipped' /\ UNCHANGED <<active, roles, grants>>
      BY <1>1, <2>2 DEF AccessInv, AdminRemains
    <2>3. CASE ~slipped' /\ ChangesAccess(visit[v].by)
      <3>1. PICK z \in VisitSet : z = visit[v]
        BY DEF AccessInv
      <3>2. MayEnter(z.who, z.by)'
        BY <1>1, <1>4, <2>3, <3>1
      <3>3. PICK x \in Dispatch : z.by = x.by
        BY <3>1 DEF AccessInv, LetIn
      <3>4. PICK who \in Accounts \cup {Nobody} : who = z.who
        BY <3>1 DEF VisitSet
      <3>5. MayEnter(who, x.by)'
        BY <3>2, <3>3, <3>4 DEF MayEnter, PermissionsOf
      <3>6. who \in active' /\ "ADMIN" \in roles'[who]
        BY <2>3, <3>1, <3>3, <3>5, EntersAsAdmin
      <3>7. QED
        BY <3>6 DEF AdminRemains
    <2>4. QED
      BY <2>1, <2>2, <2>3
  <1>7. QED
    BY <1>2, <1>3, <1>5, <1>6 DEF AccessInv

---------------------------------------------------------------------------
LEMMA AccessStart == AccessInit => AccessInv
  <1> SUFFICES ASSUME AccessInit PROVE AccessInv
    OBVIOUS
  <1>1. grants \in [{"ADMIN"} -> SUBSET PermissionNames] /\ DOMAIN grants = {"ADMIN"}
    BY DEF AccessInit
  <1>2. roles \in [Accounts -> SUBSET {"ADMIN"}]
    BY DEF AccessInit
  <1>3. RightsTyped
    BY <1>1, <1>2 DEF AccessInit, RightsTyped
  <1>4. First \in active /\ "ADMIN" \in roles[First]
    BY AccessAssumption DEF AccessAssumption, AccessInit
  <1>5. AdminRemains
    BY <1>4 DEF AdminRemains
  <1>6. visit \in [Visits -> {Free} \cup VisitSet] /\ \A v \in Visits : visit[v] = Free
    BY DEF AccessInit
  <1>7. QED
    BY <1>3, <1>5, <1>6 DEF AccessInv

LEMMA AccessSteps == AccessInv /\ [AccessNext]_accessVars => AccessInv'
  <1> SUFFICES ASSUME AccessInv, [AccessNext]_accessVars PROVE AccessInv'
    OBVIOUS
  <1>1. CASE UNCHANGED accessVars
    <2>1. UNCHANGED <<active, roles, grants, visit, slipped>>
      BY <1>1 DEF accessVars
    <2>2. RightsTyped' /\ AdminRemains' /\ visit' \in [Visits -> {Free} \cup VisitSet]
      BY <2>1 DEF AccessInv, RightsTyped, AdminRemains
    <2>3. \A v \in Visits : visit'[v] # Free => LetIn(visit'[v])
      BY <2>1 DEF AccessInv
    <2>4. slipped' \/ \A v \in Visits : visit'[v] # Free => MayEnter(visit[v].who, visit[v].by)'
      BY <2>1 DEF AccessInv, MayEnter, PermissionsOf
    <2>5. QED
      BY <2>2, <2>3, <2>4 DEF AccessInv
  <1>2. ASSUME NEW v \in Visits, NEW x \in Offered, NEW who \in Accounts \cup {Nobody}, Enter(v, who, x) PROVE AccessInv'
    <2>1. x \in Dispatch
      BY DEF Offered, ChangingAccess
    <2>2. QED
      BY <1>2, <2>1, EnterKeeps
  <1>3. ASSUME NEW v \in Visits, Leave(v),
               \/ \E a \in Accounts, on \in BOOLEAN : SetActive(v, a, on)
               \/ \E a \in Accounts, names \in SUBSET RoleNames : SetRoles(v, a, names)
               \/ \E name \in RoleNames : CreateRole(v, name)
               \/ \E name \in RoleNames, permissions \in SUBSET PermissionNames : SetRolePermissions(v, name, permissions)
               \/ WriteNothing(v)
        PROVE  AccessInv'
    <2>1. slipped' \in BOOLEAN
      BY <1>3 DEF Leave, AccessInv, RightsTyped
    <2>2. RightsTyped' /\ visit[v] # Free /\ (ChangesAccess(visit[v].by) \/ UNCHANGED <<active, roles, grants>>)
      BY <1>3, <2>1, HandlersTyped
    <2>3. QED
      BY <1>3, <2>2, LeaveKeeps
  <1>4. QED
    BY <1>1, <1>2, <1>3 DEF AccessNext

LEMMA AccessKeeps == AccessSpec => []AccessInv
  <1>1. QED
    BY AccessStart, AccessSteps, PTL DEF AccessSpec

\* For any accounts and any number of visits: requests reach the handler
\* they ask for, without a token nothing is written but what is for anybody,
\* only active administrators change access, and one always remains unless a
\* handler took rights from somebody it served (auth guards, admin, RBAC).
THEOREM AccessAlwaysSound == AccessSpec => []AccessSound
  <1>1. AccessInv => AccessSound
    <2> SUFFICES ASSUME AccessInv PROVE AccessSound
      OBVIOUS
    <2>1. ASSUME NEW y \in Serving
          PROVE  \E x \in Dispatch, who \in Accounts \cup {Nobody} :
                   /\ y.asked = x.asked /\ y.by = x.by /\ y.who = who /\ (y.who = Nobody => Admits(x.by, FALSE, {}, {}))
                   /\ slipped \/ MayEnter(who, x.by)
      <3>1. PICK v \in Visits : visit[v] # Free /\ y = visit[v]
        BY DEF Serving
      <3>2. y \in VisitSet /\ LetIn(y) /\ (slipped \/ MayEnter(y.who, y.by))
        BY <3>1 DEF AccessInv
      <3>3. QED
        BY <3>2 DEF VisitSet, LetIn
    <2>2. ServedAsAsked
      <3>1. ASSUME NEW y \in Serving PROVE Hidden(y.asked) \/ y.by = y.asked
        <4>1. PICK x \in Dispatch : y.asked = x.asked /\ y.by = x.by
          BY <2>1
        <4>2. Hidden(x.asked) \/ x.by = x.asked
          BY RoutesAsDeclared
        <4>3. QED
          BY <4>1, <4>2
      <3>2. QED
        BY <3>1 DEF ServedAsAsked
    <2>3. NobodyWritesNothing
      BY <2>1, RoutesAsDeclared DEF NobodyWritesNothing
    <2>4. AdminsAdminister
      <3>1. ASSUME NEW y \in Serving, ~slipped
            PROVE  /\ ChangesAccess(y.by) => y.who \in active /\ "ADMIN" \in roles[y.who]
                   /\ ReplaysEvents(y.by) => "events:replay" \in PermissionsOf(y.who)
                   /\ y.who = Nobody => y.asked.public
        <4>1. PICK x \in Dispatch, who \in Accounts \cup {Nobody} :
                /\ y.asked = x.asked /\ y.by = x.by /\ y.who = who /\ (y.who = Nobody => Admits(x.by, FALSE, {}, {}))
                /\ MayEnter(who, x.by)
          BY <2>1, <3>1
        <4>2. RightsTyped
          BY DEF AccessInv
        <4>3. /\ ChangesAccess(x.by) => who \in active /\ "ADMIN" \in roles[who]
              /\ ReplaysEvents(x.by) => "events:replay" \in PermissionsOf(who)
          BY <4>1, <4>2, EntersAsAdmin
        <4>4. y.who = Nobody => y.asked.public
          BY <4>1, RoutesAsDeclared
        <4>5. QED
          BY <4>1, <4>3, <4>4
      <3>2. QED
        BY <3>1 DEF AdminsAdminister
    <2>5. QED
      BY <2>2, <2>3, <2>4 DEF AccessInv, AccessSound
  <1>2. QED
    BY <1>1, AccessKeeps, PTL

\* Accounts, roles, permissions and visits keep their types.
THEOREM AccessTypes == AccessSpec => []AccessTypeOK
  <1>1. AccessInv => AccessTypeOK
    <2> SUFFICES ASSUME AccessInv PROVE AccessTypeOK
      OBVIOUS
    <2>1. ASSUME NEW v \in Visits, visit[v] # Free
          PROVE  visit[v].who \in Accounts \cup {Nobody} /\ visit[v].asked.verb = visit[v].by.verb
      <3>1. visit[v] \in VisitSet /\ LetIn(visit[v])
        BY <2>1 DEF AccessInv
      <3>2. PICK x \in Dispatch : visit[v].asked = x.asked /\ visit[v].by = x.by
        BY <3>1 DEF LetIn
      <3>3. x.by.verb = x.asked.verb
        BY RoutesAsDeclared
      <3>4. QED
        BY <3>1, <3>2, <3>3 DEF VisitSet
    <2>2. QED
      BY <2>1 DEF AccessInv, RightsTyped, AccessTypeOK
  <1>2. QED
    BY <1>1, AccessKeeps, PTL

---------------------------------------------------------------------------
(* CATALOG: drops, the job that publishes them, followers and settings.    *)
---------------------------------------------------------------------------
(* The requests                                                            *)
CallRecord == [op : {"rest", "schedule", "publish", "archive", "follow", "unfollow", "settings"},
               pc : {"rest", "brand", "write", "job", "remove", "add", "row"},
               saw : {"none"} \cup Statuses, id : 0..(MaxRows + Horizon), who : {"none"} \cup Fans]

CatalogTyped ==
  /\ brandActive \in BOOLEAN
  /\ follower \in [Fans -> 0..MaxRows] /\ rowsMade \in 0..MaxRows
  /\ drop \in Drop
  /\ job \in Job
  /\ clock \in 0..Horizon
  /\ call \in [Calls -> CallRecord]
  /\ crossed \subseteq {"drop", "settings"} /\ cut \in BOOLEAN

(* What a request has read and asked before it writes.                     *)
Learned(q) ==
  /\ q.op \in {"follow", "unfollow"} => q.who \in Fans
  /\ q.op = "unfollow" /\ q.pc = "write" => q.id # 0
  /\ q.op = "schedule" => q.id \in 0..Horizon
  /\ q.op = "schedule" /\ q.pc \in {"write", "job", "remove", "add"} => q.saw = "DRAFT"
  /\ q.op = "publish" /\ q.pc = "write" => q.saw \in {"DRAFT", "SCHEDULED"}
  /\ q.op = "archive" /\ q.pc = "write" => q.saw # "ARCHIVED"
  /\ q.op = "settings" => q.pc = "write"

(* The rows of settings that are, and those about to be                    *)
Settling == {c \in Calls : call[c].op = "settings"}
SettingsInv ==
  /\ settings \in Nat /\ settings + Cardinality(Settling) <= Cardinality(Calls)
  /\ settings <= 1 \/ "settings" \in crossed

Following    == {f \in Fans : follower[f] # 0}
FollowersInv == followersCount = Cardinality(Following)

(* A schedule call between its row and its job                             *)
Pending(q) == q.op = "schedule" /\ q.pc \in {"job", "remove", "add"}

(* A drop nobody wrote over was scheduled once at most.                    *)
ScheduledOnce ==
  /\ drop.status = "DRAFT" => job.state = "none" /\ \A c \in Calls : ~Pending(call[c])
  /\ drop.status \in {"DRAFT", "SCHEDULED"} => drop.by = "none"
  /\ \A c \in Calls : Pending(call[c]) =>
       /\ job.state = "none" /\ call[c].id = drop.publishAt
       /\ \A d \in Calls : d # c => ~Pending(call[d])
  /\ job.state # "none" => job.due = drop.publishAt
  /\ job.state \in {"reading", "publishing"} => clock >= job.due
  /\ drop.by = "job" => drop.at >= drop.publishAt
  /\ drop.archived => drop.status = "ARCHIVED"
  /\ drop.status = "SCHEDULED" => job.state \in Ahead \cup {"failed"} \/ cut \/ \E c \in Calls : Pending(call[c])

DropInv == (job.state \in Ahead => job.failures < Attempts) /\ ("drop" \notin crossed => ScheduledOnce)

CatalogInv == CatalogTyped /\ (\A c \in Calls : Learned(call[c])) /\ SettingsInv /\ FollowersInv /\ DropInv

---------------------------------------------------------------------------
LEMMA NoCallLearned == NoCall \in CallRecord /\ Learned(NoCall) /\ NoCall.op = "rest" /\ ~Pending(NoCall)
  BY CatalogConstants DEF CatalogConstants, NoCall, CallRecord, Learned, Pending

LEMMA CallSet ==
  ASSUME CatalogTyped, NEW c \in Calls, NEW q \in CallRecord, call' = [call EXCEPT ![c] = q]
  PROVE  call' \in [Calls -> CallRecord] /\ call'[c] = q /\ \A d \in Calls : d # c => call'[d] = call[d]
  BY DEF CatalogTyped

LEMMA LearnedStays ==
  ASSUME CatalogInv, NEW c \in Calls, NEW q, Learned(q), call'[c] = q, \A d \in Calls : d # c => call'[d] = call[d]
  PROVE  \A d \in Calls : Learned(call'[d])
  <1>1. ASSUME NEW d \in Calls PROVE Learned(call'[d])
    <2>1. CASE d = c
      BY <2>1
    <2>2. CASE d # c
      <3>1. Learned(call[d]) /\ call'[d] = call[d]
        BY <2>2 DEF CatalogInv
      <3>2. QED
        BY <3>1
    <2>3. QED
      BY <2>1, <2>2
  <1>2. QED
    BY <1>1

LEMMA CallsCounted == Cardinality(Calls) \in Nat /\ \A S \in SUBSET Calls : IsFiniteSet(S) /\ Cardinality(S) \in Nat /\ Cardinality(S) <= Cardinality(Calls)
  <1>1. IsFiniteSet(Calls)
    BY CatalogConstants DEF CatalogConstants
  <1>2. ASSUME NEW S \in SUBSET Calls PROVE IsFiniteSet(S) /\ Cardinality(S) \in Nat /\ Cardinality(S) <= Cardinality(Calls)
    BY <1>1, FS_Subset, FS_CardinalityType
  <1>3. QED
    BY <1>1, <1>2, FS_CardinalityType

LEMMA SettingsStay ==
  ASSUME CatalogInv, Settling' \subseteq Settling, UNCHANGED settings, crossed \subseteq crossed'
  PROVE  SettingsInv'
  <1>1. Settling \in SUBSET Calls
    BY DEF Settling
  <1>2. IsFiniteSet(Settling) /\ Cardinality(Settling) \in Nat
    BY <1>1, CallsCounted
  <1>3. Cardinality(Settling') \in Nat /\ Cardinality(Settling') <= Cardinality(Settling)
    BY <1>2, FS_Subset, FS_CardinalityType
  <1>4. settings \in Nat /\ settings + Cardinality(Settling) <= Cardinality(Calls) /\ Cardinality(Calls) \in Nat
    BY CallsCounted DEF CatalogInv, SettingsInv
  <1>5. settings' + Cardinality(Settling') <= Cardinality(Calls)
    BY <1>2, <1>3, <1>4
  <1>6. settings' <= 1 \/ "settings" \in crossed'
    BY DEF CatalogInv, SettingsInv
  <1>7. QED
    BY <1>4, <1>5, <1>6 DEF SettingsInv

LEMMA FewerSettle ==
  ASSUME NEW c \in Calls, \A d \in Calls : d # c => call'[d] = call[d], call'[c].op = "settings" => call[c].op = "settings"
  PROVE  Settling' \subseteq Settling
  BY DEF Settling

---------------------------------------------------------------------------
(* A request goes on, and nothing else changes.                            *)
LEMMA CallMoves ==
  ASSUME CatalogInv, NEW c \in Calls, NEW q \in CallRecord, Learned(q), call' = [call EXCEPT ![c] = q],
         UNCHANGED <<brandActive, follower, rowsMade, followersCount, drop, job, clock, settings, crossed>>,
         cut' \in BOOLEAN, cut => cut',
         q.op = "settings" => settings = 0,
         Pending(q) => Pending(call[c]) /\ q.id = call[c].id,
         "drop" \notin crossed /\ Pending(call[c]) /\ ~Pending(q) => cut'
  PROVE  CatalogInv'
  <1>1. call' \in [Calls -> CallRecord] /\ call'[c] = q /\ \A d \in Calls : d # c => call'[d] = call[d]
    BY CallSet DEF CatalogInv
  <1>2. CatalogTyped'
    BY <1>1 DEF CatalogInv, CatalogTyped
  <1>3. \A d \in Calls : Learned(call'[d])
    BY <1>1, LearnedStays
  <1>4. SettingsInv'
    <2>1. CASE q.op # "settings"
      BY <1>1, <2>1, FewerSettle, SettingsStay
    <2>2. CASE settings = 0
      <3>1. Settling' \in SUBSET Calls
        BY DEF Settling
      <3>2. Cardinality(Settling') \in Nat /\ Cardinality(Settling') <= Cardinality(Calls)
        BY <3>1, CallsCounted
      <3>3. settings' = 0
        BY <2>2
      <3>4. QED
        BY <3>2, <3>3, CallsCounted DEF SettingsInv
    <2>3. QED
      BY <2>1, <2>2
  <1>5. FollowersInv'
    BY DEF CatalogInv, FollowersInv, Following
  <1>6. DropInv'
    <2>1. job'.state \in Ahead => job'.failures < Attempts
      BY DEF CatalogInv, DropInv
    <2>2. ASSUME "drop" \notin crossed PROVE ScheduledOnce'
      <3>1. ScheduledOnce
        BY <2>2 DEF CatalogInv, DropInv
      <3>2. \A d \in Calls : Pending(call'[d]) => Pending(call[d]) /\ call'[d].id = call[d].id
        BY <1>1
      <3>3. (\E d \in Calls : Pending(call[d])) => cut' \/ \E d \in Calls : Pending(call'[d])
        BY <1>1, <2>2
      <3>4. drop.status = "SCHEDULED" => job.state \in Ahead \cup {"failed"} \/ cut' \/ \E d \in Calls : Pending(call'[d])
        BY <3>1, <3>3 DEF ScheduledOnce
      <3>5. \A d \in Calls : Pending(call'[d]) =>
              job.state = "none" /\ call'[d].id = drop.publishAt /\ \A e \in Calls : e # d => ~Pending(call'[e])
        BY <3>1, <3>2 DEF ScheduledOnce
      <3>6. drop.status = "DRAFT" => job.state = "none" /\ \A d \in Calls : ~Pending(call'[d])
        BY <3>1, <3>2 DEF ScheduledOnce
      <3>7. QED
        BY <3>1, <3>4, <3>5, <3>6 DEF ScheduledOnce
    <2>3. QED
      BY <2>1, <2>2 DEF DropInv
  <1>7. QED
    BY <1>2, <1>3, <1>4, <1>5, <1>6 DEF CatalogInv

LEMMA CallEnds ==
  ASSUME CatalogInv, NEW c \in Calls, EndCall(c), ~Pending(call[c]),
         UNCHANGED <<brandActive, follower, rowsMade, followersCount, drop, job, clock, settings, crossed, cut>>
  PROVE  CatalogInv'
  BY NoCallLearned, CallMoves DEF EndCall, CatalogInv, CatalogTyped

LEMMA BeginCallSound ==
  ASSUME CatalogInv, NEW c \in Calls, NEW op \in {"schedule", "publish", "archive", "follow", "unfollow"}, NEW saw \in {"none"} \cup Statuses,
         NEW id \in 0..Horizon, NEW who \in {"none"} \cup Fans, op \in {"follow", "unfollow"} => who \in Fans,
         BeginCall(c, op, saw, id, who)
  PROVE  CatalogInv'
  <1> DEFINE q == [op |-> op, pc |-> "brand", saw |-> saw, id |-> id, who |-> who]
  <1>1. q \in CallRecord /\ Learned(q) /\ q.op = op /\ ~Pending(q)
    BY CatalogConstants DEF CatalogConstants, CallRecord, Learned, Pending
  <1>2. /\ call[c] = NoCall /\ call' = [call EXCEPT ![c] = q]
        /\ UNCHANGED <<brandActive, follower, rowsMade, followersCount, drop, job, clock, settings, crossed, cut>>
    BY DEF BeginCall, dropVars, followerVars, histories
  <1>3. ~Pending(call[c])
    BY <1>2, NoCallLearned
  <1> HIDE DEF q
  <1>4. QED
    BY <1>1, <1>2, <1>3, CallMoves DEF CatalogInv, CatalogTyped

\* A step of a call that is not between the drop's row and its job.
LEMMA ProceedSound ==
  ASSUME CatalogInv, NEW c \in Calls, NEW pc \in {"write", "row"}, Proceed(c, pc), call[c].pc # "write",
         call[c].op = "unfollow" => pc = "row", call[c].op = "schedule" => call[c].pc = "brand" /\ call[c].saw = "DRAFT",
         call[c].op = "publish" => call[c].saw \in {"DRAFT", "SCHEDULED"}, call[c].op = "archive" => call[c].saw # "ARCHIVED",
         UNCHANGED <<brandActive, follower, rowsMade, followersCount, drop, job, clock, settings, crossed, cut>>
  PROVE  CatalogInv'
  <1> DEFINE q == [call[c] EXCEPT !.pc = pc]
  <1>1. call[c] \in CallRecord /\ Learned(call[c])
    BY DEF CatalogInv, CatalogTyped
  <1>2. q \in CallRecord /\ q.op = call[c].op /\ q.saw = call[c].saw /\ q.id = call[c].id /\ q.who = call[c].who /\ q.pc = pc
    BY <1>1 DEF CallRecord
  <1>3. call' = [call EXCEPT ![c] = q]
    BY DEF Proceed
  <1> HIDE DEF q
  <1>4. call[c].op # "settings"
    BY <1>1 DEF Learned
  <1>5. Learned(q) /\ ~Pending(q) /\ ~Pending(call[c])
    BY <1>1, <1>2, <1>4 DEF Learned, Pending
  <1>6. QED
    BY <1>2, <1>3, <1>4, <1>5, CallMoves DEF CatalogInv, CatalogTyped

LEMMA CheckBrandSound ==
  ASSUME CatalogInv, NEW c \in Calls,
         CheckBrand(c, {"schedule", "publish", "archive"}, "write") \/ CheckBrand(c, {"follow", "unfollow"}, "row")
  PROVE  CatalogInv'
  <1>1. /\ call[c].pc = "brand" /\ ~Pending(call[c])
        /\ UNCHANGED <<brandActive, follower, rowsMade, followersCount, drop, job, clock, settings, crossed, cut>>
    BY DEF CheckBrand, Doing, Pending, dropVars, followerVars, histories
  <1>2. CASE ~Allowed(c)
    BY <1>1, <1>2, CallEnds DEF CheckBrand
  <1>3. CASE Allowed(c)
    <2>1. /\ call[c].op = "schedule" => call[c].saw = "DRAFT"
          /\ call[c].op = "publish" => call[c].saw \in {"DRAFT", "SCHEDULED"}
          /\ call[c].op = "archive" => call[c].saw # "ARCHIVED"
      BY <1>3 DEF Allowed
    <2>2. CASE CheckBrand(c, {"schedule", "publish", "archive"}, "write")
      <3>1. call[c].op # "unfollow" /\ Proceed(c, "write")
        BY <1>3, <2>2 DEF CheckBrand, Doing
      <3>2. QED
        BY <1>1, <2>1, <3>1, ProceedSound
    <2>3. CASE CheckBrand(c, {"follow", "unfollow"}, "row")
      <3>1. call[c].op # "schedule" /\ Proceed(c, "row")
        BY <1>3, <2>3 DEF CheckBrand, Doing
      <3>2. QED
        BY <1>1, <2>1, <3>1, ProceedSound
    <2>4. QED
      BY <2>2, <2>3
  <1>4. QED
    BY <1>2, <1>3

LEMMA ReadRowSound ==
  ASSUME CatalogInv, NEW c \in Calls, ReadRow(c) PROVE CatalogInv'
  <1>1. /\ call[c].op \in {"follow", "unfollow"} /\ call[c].pc = "row"
        /\ UNCHANGED <<brandActive, follower, rowsMade, followersCount, drop, job, clock, settings, crossed, cut>>
    BY DEF ReadRow, Doing, dropVars, followerVars, histories
  <1>2. call[c] \in CallRecord /\ Learned(call[c]) /\ ~Pending(call[c])
    BY <1>1 DEF CatalogInv, CatalogTyped, Pending
  <1>3. PICK n \in 0..MaxRows : n = follower[call[c].who]
    BY <1>1, <1>2 DEF CatalogInv, CatalogTyped, Learned
  <1>4. CASE (n = 0) = (call[c].op = "follow")
    <2> DEFINE p == [call[c] EXCEPT !.pc = "write"]
               q == [p EXCEPT !.id = n]
    <2>1. q \in CallRecord /\ q.op = call[c].op /\ q.pc = "write" /\ q.id = n /\ q.who = call[c].who
      <3>1. n \in 0..(MaxRows + Horizon)
        BY CatalogConstants DEF CatalogConstants
      <3>2. p \in CallRecord /\ p.op = call[c].op /\ p.pc = "write" /\ p.who = call[c].who
        BY <1>2 DEF CallRecord
      <3> HIDE DEF p
      <3>3. QED
        BY <3>1, <3>2 DEF CallRecord
    <2>2. call' = [call EXCEPT ![c] = q]
      <3>1. call' = [call EXCEPT ![c].pc = "write", ![c].id = n]
        BY <1>3, <1>4 DEF ReadRow
      <3>2. QED
        BY <3>1 DEF CatalogInv, CatalogTyped
    <2> HIDE DEF q
    <2>3. Learned(q) /\ ~Pending(q) /\ q.op # "settings"
      BY <1>1, <1>2, <1>4, <2>1 DEF Learned, Pending
    <2>4. QED
      BY <1>1, <1>2, <2>1, <2>2, <2>3, CallMoves DEF CatalogInv, CatalogTyped
  <1>5. CASE (n = 0) # (call[c].op = "follow")
    <2>1. EndCall(c)
      BY <1>3, <1>5 DEF ReadRow
    <2>2. QED
      BY <1>1, <1>2, <2>1, CallEnds
  <1>6. QED
    BY <1>4, <1>5

LEMMA ReadSettingsSound ==
  ASSUME CatalogInv, NEW c \in Calls, ReadSettings(c) PROVE CatalogInv'
  <1> DEFINE p == [NoCall EXCEPT !.op = "settings"]
             q == [p EXCEPT !.pc = "write"]
  <1>1. q \in CallRecord /\ Learned(q) /\ ~Pending(q)
    <2>1. p \in CallRecord /\ p.op = "settings"
      BY NoCallLearned DEF CallRecord
    <2> HIDE DEF p
    <2>2. q \in CallRecord /\ q.op = "settings" /\ q.pc = "write"
      BY <2>1 DEF CallRecord
    <2> HIDE DEF q
    <2>3. QED
      BY <2>2 DEF Learned, Pending
  <1>2. /\ call[c] = NoCall /\ settings = 0 /\ call' = [call EXCEPT ![c] = q]
        /\ UNCHANGED <<brandActive, follower, rowsMade, followersCount, drop, job, clock, settings, crossed, cut>>
    BY DEF ReadSettings, dropVars, followerVars, histories
  <1>3. ~Pending(call[c])
    BY <1>2, NoCallLearned
  <1> HIDE DEF q
  <1>4. QED
    BY <1>1, <1>2, <1>3, CallMoves DEF CatalogInv, CatalogTyped

LEMMA CutCallSound ==
  ASSUME CatalogInv, NEW c \in Calls, CutCall(c) PROVE CatalogInv'
  <1>1. /\ call' = [call EXCEPT ![c] = NoCall] /\ cut' = (cut \/ \E pc \in {"job", "remove", "add"} : Doing(c, {"schedule"}, pc))
        /\ UNCHANGED <<brandActive, follower, rowsMade, followersCount, drop, job, clock, settings, crossed>>
    BY DEF CutCall, EndCall, dropVars, followerVars
  <1>2. cut' \in BOOLEAN /\ (cut => cut')
    BY <1>1 DEF CatalogInv, CatalogTyped
  <1>3. Pending(call[c]) => cut'
    BY <1>1 DEF Pending, Doing
  <1>4. QED
    BY <1>1, <1>2, <1>3, NoCallLearned, CallMoves

LEMMA GetJobSound ==
  ASSUME CatalogInv, NEW c \in Calls, GetJob(c) PROVE CatalogInv'
  <1>1. /\ call[c].op = "schedule" /\ call[c].pc = "job"
        /\ UNCHANGED <<brandActive, follower, rowsMade, followersCount, drop, job, clock, settings, crossed, cut>>
    BY DEF GetJob, Doing, dropVars, followerVars, histories
  <1>2. PICK pc \in {"add", "remove"} : pc = IF job.state = "none" THEN "add" ELSE "remove"
    OBVIOUS
  <1> DEFINE q == [call[c] EXCEPT !.pc = pc]
  <1>3. call[c] \in CallRecord /\ Learned(call[c])
    BY DEF CatalogInv, CatalogTyped
  <1>4. q \in CallRecord /\ q.op = "schedule" /\ q.saw = call[c].saw /\ q.id = call[c].id /\ q.who = call[c].who /\ q.pc = pc
    BY <1>1, <1>3 DEF CallRecord
  <1>5. call' = [call EXCEPT ![c] = q]
    BY <1>2 DEF GetJob, Proceed
  <1> HIDE DEF q
  <1>6. Learned(q) /\ Pending(q) /\ Pending(call[c])
    BY <1>1, <1>2, <1>3, <1>4 DEF Learned, Pending
  <1>7. QED
    BY <1>1, <1>4, <1>5, <1>6, CallMoves DEF CatalogInv, CatalogTyped

---------------------------------------------------------------------------
(* The drop and its job                                                    *)
LEMMA DropStep ==
  ASSUME CatalogInv, call' \in [Calls -> CallRecord], \A d \in Calls : Learned(call'[d]), Settling' \subseteq Settling,
         UNCHANGED <<brandActive, follower, rowsMade, followersCount, settings, cut>>,
         drop' \in Drop, job' \in Job, clock' \in 0..Horizon, crossed \subseteq crossed', crossed' \subseteq {"drop", "settings"}, DropInv'
  PROVE  CatalogInv'
  <1>1. CatalogTyped'
    BY DEF CatalogInv, CatalogTyped
  <1>2. SettingsInv'
    BY SettingsStay
  <1>3. FollowersInv'
    BY DEF CatalogInv, FollowersInv, Following
  <1>4. QED
    BY <1>1, <1>2, <1>3 DEF CatalogInv

LEMMA PublishedDrop ==
  ASSUME CatalogInv, NEW by \in {"call", "job"}
  PROVE  /\ Published(by) \in Drop /\ Published(by).status = "PUBLISHED" /\ Published(by).by = by /\ Published(by).at = clock
         /\ Published(by).publishAt = drop.publishAt /\ Published(by).archived = drop.archived
  <1> DEFINE p == [drop EXCEPT !.status = "PUBLISHED"]
             r == [p EXCEPT !.by = by]
             x == [r EXCEPT !.at = clock]
  <1>1. p \in Drop /\ p.status = "PUBLISHED" /\ p.publishAt = drop.publishAt /\ p.archived = drop.archived
    BY DEF CatalogInv, CatalogTyped, Drop, Statuses
  <1>2. Published(by) = x
    BY DEF Published
  <1> HIDE DEF p
  <1>3. r \in Drop /\ r.status = "PUBLISHED" /\ r.by = by /\ r.publishAt = drop.publishAt /\ r.archived = drop.archived
    BY <1>1 DEF Drop
  <1> HIDE DEF r
  <1>4. x \in Drop /\ x.status = "PUBLISHED" /\ x.by = by /\ x.at = clock /\ x.publishAt = drop.publishAt /\ x.archived = drop.archived
    BY <1>3 DEF Drop, CatalogInv, CatalogTyped
  <1> HIDE DEF x
  <1>5. QED
    BY <1>2, <1>4

\* A handler writes the drop: nobody did since it read, or it is noted.
LEMMA WriteSound ==
  ASSUME CatalogInv, NEW c \in Calls, call[c].pc = "write", NEW q \in CallRecord, Learned(q), q.op # "settings",
         call' = [call EXCEPT ![c] = q], Written(c), drop' \in Drop, drop.status = call[c].saw /\ "drop" \notin crossed => ScheduledOnce'
  PROVE  CatalogInv'
  <1>1. call' \in [Calls -> CallRecord] /\ call'[c] = q /\ \A d \in Calls : d # c => call'[d] = call[d]
    BY CallSet DEF CatalogInv
  <1>2. /\ crossed' = IF drop.status # call[c].saw THEN crossed \cup {"drop"} ELSE crossed
        /\ UNCHANGED <<brandActive, job, clock, follower, rowsMade, followersCount, settings, cut>>
    BY DEF Written, NoteContest, followerVars
  <1>3. crossed \subseteq crossed' /\ crossed' \subseteq {"drop", "settings"}
    BY <1>2 DEF CatalogInv, CatalogTyped
  <1>4. \A d \in Calls : Learned(call'[d])
    BY <1>1, LearnedStays
  <1>5. Settling' \subseteq Settling
    BY <1>1, FewerSettle
  <1>6. DropInv'
    <2>1. job'.state \in Ahead => job'.failures < Attempts
      BY <1>2 DEF CatalogInv, DropInv
    <2>2. QED
      BY <1>2, <2>1 DEF DropInv
  <1>7. QED
    BY <1>1, <1>2, <1>3, <1>4, <1>5, <1>6, DropStep DEF CatalogInv, CatalogTyped

LEMMA WriteScheduledSound ==
  ASSUME CatalogInv, NEW c \in Calls, WriteScheduled(c) PROVE CatalogInv'
  <1> DEFINE q == [call[c] EXCEPT !.pc = "job"]
             p == [drop EXCEPT !.status = "SCHEDULED"]
             x == [p EXCEPT !.publishAt = call[c].id]
  <1>1. call[c].op = "schedule" /\ call[c].pc = "write" /\ call' = [call EXCEPT ![c] = q] /\ drop' = x /\ Written(c)
    BY DEF WriteScheduled, Doing, Proceed
  <1>2. call[c] \in CallRecord /\ Learned(call[c])
    BY DEF CatalogInv, CatalogTyped
  <1>3. q \in CallRecord /\ q.op = "schedule" /\ q.saw = call[c].saw /\ q.id = call[c].id /\ q.who = call[c].who /\ q.pc = "job"
    BY <1>1, <1>2 DEF CallRecord
  <1> HIDE DEF q
  <1>4. call[c].id \in 0..Horizon /\ call[c].saw = "DRAFT" /\ Learned(q) /\ Pending(q)
    BY <1>1, <1>2, <1>3 DEF Learned, Pending
  <1>5. p \in Drop /\ p.status = "SCHEDULED" /\ p.by = drop.by /\ p.at = drop.at /\ p.archived = drop.archived
    BY DEF CatalogInv, CatalogTyped, Drop, Statuses
  <1> HIDE DEF p
  <1>6. x \in Drop /\ x.status = "SCHEDULED" /\ x.publishAt = call[c].id /\ x.by = drop.by /\ x.at = drop.at /\ x.archived = drop.archived
    BY <1>4, <1>5 DEF Drop
  <1> HIDE DEF x
  <1>7. call'[c] = q /\ \A d \in Calls : d # c => call'[d] = call[d]
    BY <1>1, <1>3, CallSet DEF CatalogInv
  <1>8. ASSUME drop.status = call[c].saw, "drop" \notin crossed PROVE ScheduledOnce'
    <2>1. ScheduledOnce /\ drop.status = "DRAFT"
      BY <1>4, <1>8 DEF CatalogInv, DropInv
    <2>2. job.state = "none" /\ drop.by = "none" /\ ~drop.archived /\ (\A d \in Calls : ~Pending(call[d])) /\ UNCHANGED <<job, clock>>
      BY <1>1, <2>1 DEF ScheduledOnce, Written
    <2>3. \A d \in Calls : d # c => ~Pending(call'[d])
      BY <1>7, <2>2
    <2>4. Pending(call'[c]) /\ call'[c].id = drop'.publishAt
      BY <1>1, <1>3, <1>4, <1>6, <1>7
    <2>5. QED
      BY <1>1, <1>6, <2>2, <2>3, <2>4 DEF ScheduledOnce
  <1>9. QED
    BY <1>1, <1>3, <1>4, <1>6, <1>8, WriteSound

\* The drop leaves draft and schedule: only what was pending is.
LEMMA LeftSchedule ==
  ASSUME CatalogInv, "drop" \notin crossed, drop'.status \in {"PUBLISHED", "ARCHIVED"}, drop'.publishAt = drop.publishAt,
         drop'.archived => drop'.status = "ARCHIVED", drop'.by = "job" => drop'.at >= drop.publishAt,
         \A d \in Calls : Pending(call'[d]) => Pending(call[d]) /\ call'[d].id = call[d].id, UNCHANGED clock,
         job' = job \/ (job'.state = "done" /\ job'.due = job.due /\ job.state # "none")
  PROVE  ScheduledOnce'
  <1>1. ScheduledOnce
    BY DEF CatalogInv, DropInv
  <1>2. \A d \in Calls : Pending(call'[d]) => job.state = "none" /\ call'[d].id = drop'.publishAt /\ \A e \in Calls : e # d => ~Pending(call'[e])
    BY <1>1 DEF ScheduledOnce
  <1>3. \A d \in Calls : Pending(call'[d]) => job'.state = "none"
    BY <1>2
  <1>4. job'.state # "none" => job'.due = drop'.publishAt
    BY <1>1 DEF ScheduledOnce
  <1>5. job'.state \in {"reading", "publishing"} => clock' >= job'.due
    BY <1>1 DEF ScheduledOnce
  <1>6. QED
    BY <1>2, <1>3, <1>4, <1>5 DEF ScheduledOnce

LEMMA WritePublishedSound ==
  ASSUME CatalogInv, NEW c \in Calls, WritePublished(c) PROVE CatalogInv'
  <1>1. /\ call[c].op = "publish" /\ call[c].pc = "write" /\ call' = [call EXCEPT ![c] = NoCall] /\ drop' = Published("call")
        /\ Written(c) /\ UNCHANGED <<job, clock>>
    BY DEF WritePublished, Doing, EndCall, Written
  <1>2. Learned(call[c])
    BY DEF CatalogInv
  <1>3. call[c].saw \in {"DRAFT", "SCHEDULED"}
    BY <1>1, <1>2 DEF Learned
  <1>4. drop' \in Drop /\ drop'.status = "PUBLISHED" /\ drop'.by = "call" /\ drop'.publishAt = drop.publishAt /\ drop'.archived = drop.archived
    BY <1>1, PublishedDrop
  <1>5. call'[c] = NoCall /\ \A d \in Calls : d # c => call'[d] = call[d]
    BY <1>1, NoCallLearned, CallSet DEF CatalogInv
  <1>6. \A d \in Calls : Pending(call'[d]) => Pending(call[d]) /\ call'[d].id = call[d].id
    BY <1>5, NoCallLearned
  <1>7. ASSUME drop.status = call[c].saw, "drop" \notin crossed PROVE ScheduledOnce'
    <2>1. ~drop.archived
      BY <1>3, <1>7 DEF CatalogInv, DropInv, ScheduledOnce
    <2>2. QED
      BY <1>1, <1>4, <1>6, <1>7, <2>1, LeftSchedule
  <1>8. QED
    BY <1>1, <1>4, <1>7, NoCallLearned, WriteSound

LEMMA WriteArchivedSound ==
  ASSUME CatalogInv, NEW c \in Calls, WriteArchived(c) PROVE CatalogInv'
  <1> DEFINE p == [drop EXCEPT !.status = "ARCHIVED"]
             x == [p EXCEPT !.archived = TRUE]
  <1>1. /\ call[c].op = "archive" /\ call[c].pc = "write" /\ call' = [call EXCEPT ![c] = NoCall] /\ drop' = x
        /\ Written(c) /\ UNCHANGED <<job, clock>>
    BY DEF WriteArchived, Doing, EndCall, Written
  <1>2. p \in Drop /\ p.status = "ARCHIVED" /\ p.by = drop.by /\ p.at = drop.at /\ p.publishAt = drop.publishAt
    BY DEF CatalogInv, CatalogTyped, Drop, Statuses
  <1> HIDE DEF p
  <1>3. x \in Drop /\ x.status = "ARCHIVED" /\ x.by = drop.by /\ x.at = drop.at /\ x.publishAt = drop.publishAt
    BY <1>2 DEF Drop
  <1> HIDE DEF x
  <1>4. call'[c] = NoCall /\ \A d \in Calls : d # c => call'[d] = call[d]
    BY <1>1, NoCallLearned, CallSet DEF CatalogInv
  <1>5. \A d \in Calls : Pending(call'[d]) => Pending(call[d]) /\ call'[d].id = call[d].id
    BY <1>4, NoCallLearned
  <1>6. ASSUME drop.status = call[c].saw, "drop" \notin crossed PROVE ScheduledOnce'
    <2>1. drop.by = "job" => drop.at >= drop.publishAt
      BY <1>6 DEF CatalogInv, DropInv, ScheduledOnce
    <2>2. QED
      BY <1>1, <1>3, <1>5, <1>6, <2>1, LeftSchedule
  <1>7. QED
    BY <1>1, <1>3, <1>6, NoCallLearned, WriteSound

\* A schedule call works on the job.
LEMMA JobCall ==
  ASSUME CatalogInv, NEW c \in Calls, NEW q \in CallRecord, Learned(q), q.op # "settings", call' = [call EXCEPT ![c] = q],
         UNCHANGED <<brandActive, drop, clock, follower, rowsMade, followersCount, settings, crossed, cut>>, job' \in Job,
         job'.state \in Ahead => job'.failures < Attempts, "drop" \notin crossed => ScheduledOnce'
  PROVE  CatalogInv'
  <1>1. call' \in [Calls -> CallRecord] /\ call'[c] = q /\ \A d \in Calls : d # c => call'[d] = call[d]
    BY CallSet DEF CatalogInv
  <1>2. \A d \in Calls : Learned(call'[d])
    BY <1>1, LearnedStays
  <1>3. Settling' \subseteq Settling
    BY <1>1, FewerSettle
  <1>4. DropInv'
    BY DEF DropInv
  <1>5. QED
    BY <1>1, <1>2, <1>3, <1>4, DropStep DEF CatalogInv, CatalogTyped

LEMMA RemoveJobSound ==
  ASSUME CatalogInv, NEW c \in Calls, RemoveJob(c) PROVE CatalogInv'
  <1>1. /\ call[c].op = "schedule" /\ call[c].pc = "remove" /\ Pending(call[c])
        /\ UNCHANGED <<brandActive, drop, clock, follower, rowsMade, followersCount, settings, crossed, cut>>
    BY DEF RemoveJob, Doing, followerVars, histories, Pending
  <1>2. "drop" \notin crossed => ScheduledOnce /\ job.state = "none"
    BY <1>1 DEF CatalogInv, DropInv, ScheduledOnce
  <1>3. CASE job.state \in {"reading", "publishing"} /\ EndCall(c) /\ UNCHANGED job
    <2>1. "drop" \in crossed
      BY <1>2, <1>3
    <2>2. QED
      BY <1>1, <1>3, <2>1, NoCallLearned, CallMoves DEF EndCall, CatalogInv, CatalogTyped
  <1>4. CASE Proceed(c, "add") /\ job' = [job EXCEPT !.state = "none"]
    <2> DEFINE q == [call[c] EXCEPT !.pc = "add"]
    <2>1. call[c] \in CallRecord /\ Learned(call[c]) /\ job \in Job
      BY DEF CatalogInv, CatalogTyped
    <2>2. q \in CallRecord /\ q.op = "schedule" /\ q.saw = call[c].saw /\ q.id = call[c].id /\ q.who = call[c].who /\ q.pc = "add"
      BY <1>1, <2>1 DEF CallRecord
    <2>3. call' = [call EXCEPT ![c] = q]
      BY <1>4 DEF Proceed
    <2> HIDE DEF q
    <2>4. Learned(q) /\ Pending(q)
      BY <1>1, <2>1, <2>2 DEF Learned, Pending
    <2>5. job' \in Job /\ job'.state = "none" /\ (job.state = "none" => job' = job)
      BY <1>4, <2>1 DEF Job
    <2>6. call'[c] = q /\ \A d \in Calls : d # c => call'[d] = call[d]
      BY <2>2, <2>3, CallSet DEF CatalogInv
    <2>7. ASSUME "drop" \notin crossed PROVE ScheduledOnce'
      <3>1. \A d \in Calls : (Pending(call'[d]) <=> Pending(call[d])) /\ call'[d].id = call[d].id
        BY <1>1, <2>2, <2>4, <2>6
      <3>2. UNCHANGED <<drop, job, clock, cut>> /\ ScheduledOnce
        BY <1>1, <1>2, <2>5, <2>7
      <3>3. \A d \in Calls : Pending(call'[d]) => job.state = "none" /\ call'[d].id = drop.publishAt /\ \A e \in Calls : e # d => ~Pending(call'[e])
        BY <3>1, <3>2 DEF ScheduledOnce
      <3>4. drop.status = "SCHEDULED" => job.state \in Ahead \cup {"failed"} \/ cut \/ \E d \in Calls : Pending(call'[d])
        BY <3>1, <3>2 DEF ScheduledOnce
      <3>5. drop.status = "DRAFT" => \A d \in Calls : ~Pending(call'[d])
        BY <3>1, <3>2 DEF ScheduledOnce
      <3>6. QED
        BY <3>2, <3>3, <3>4, <3>5 DEF ScheduledOnce
    <2>8. QED
      BY <1>1, <2>2, <2>3, <2>4, <2>5, <2>7, JobCall DEF Ahead
  <1>5. QED
    BY <1>3, <1>4 DEF RemoveJob

LEMMA AddJobSound ==
  ASSUME CatalogInv, NEW c \in Calls, AddJob(c) PROVE CatalogInv'
  <1>1. /\ call[c].op = "schedule" /\ call[c].pc = "add" /\ Pending(call[c]) /\ call' = [call EXCEPT ![c] = NoCall]
        /\ job' = IF job.state = "none" THEN [state |-> "delayed", due |-> call[c].id, failures |-> 0] ELSE job
        /\ UNCHANGED <<brandActive, drop, clock, follower, rowsMade, followersCount, settings, crossed, cut>>
    BY DEF AddJob, Doing, EndCall, followerVars, histories, Pending
  <1>2. Learned(call[c])
    BY DEF CatalogInv
  <1>3. call[c].id \in 0..Horizon
    BY <1>1, <1>2 DEF Learned
  <1>4. job.state = "none" => job' \in Job /\ job'.state = "delayed" /\ job'.due = call[c].id /\ job'.failures = 0
    BY <1>1, <1>3, CatalogConstants DEF CatalogConstants, Job, Ahead
  <1>5. job' \in Job /\ (job'.state \in Ahead => job'.failures < Attempts)
    BY <1>1, <1>4, CatalogConstants DEF CatalogConstants, CatalogInv, CatalogTyped, DropInv
  <1>6. call'[c] = NoCall /\ \A d \in Calls : d # c => call'[d] = call[d]
    BY <1>1, NoCallLearned, CallSet DEF CatalogInv
  <1>7. ASSUME "drop" \notin crossed PROVE ScheduledOnce'
    <2>1. ScheduledOnce
      BY <1>7 DEF CatalogInv, DropInv
    <2>2. job.state = "none" /\ call[c].id = drop.publishAt /\ (\A d \in Calls : d # c => ~Pending(call[d])) /\ drop.status # "DRAFT"
      BY <1>1, <2>1 DEF ScheduledOnce
    <2>3. \A d \in Calls : ~Pending(call'[d])
      BY <1>6, <2>2, NoCallLearned
    <2>4. QED
      BY <1>1, <1>4, <2>1, <2>2, <2>3 DEF ScheduledOnce, Ahead
  <1>8. QED
    BY <1>1, <1>5, <1>7, NoCallLearned, JobCall

\* The worker of the queue takes a step of the job.
LEMMA JobStep ==
  ASSUME CatalogInv, UNCHANGED <<brandActive, follower, rowsMade, followersCount, settings, call, cut>>,
         drop' \in Drop, job' \in Job, clock' \in 0..Horizon, crossed \subseteq crossed', crossed' \subseteq {"drop", "settings"},
         job'.state \in Ahead => job'.failures < Attempts, "drop" \notin crossed' => ScheduledOnce'
  PROVE  CatalogInv'
  <1>1. DropInv'
    BY DEF DropInv
  <1>2. call' \in [Calls -> CallRecord] /\ Settling' \subseteq Settling
    BY DEF CatalogInv, CatalogTyped, Settling
  <1>3. \A d \in Calls : Learned(call'[d])
    BY DEF CatalogInv
  <1>4. QED
    BY <1>1, <1>2, <1>3, DropStep

LEMMA JobMoves ==
  ASSUME CatalogInv, NEW state \in {"done", "failed"} \cup Ahead, NEW n \in 0..Attempts,
         job.state # "none", job'.state = state, job'.due = job.due, job'.failures = n, job' \in Job,
         UNCHANGED <<brandActive, drop, clock, follower, rowsMade, followersCount, settings, call, crossed, cut>>,
         state \in Ahead => n < Attempts, state \in {"reading", "publishing"} /\ "drop" \notin crossed => clock >= job.due,
         state = "done" => drop.status # "SCHEDULED"
  PROVE  CatalogInv'
  <1>1. ASSUME "drop" \notin crossed PROVE ScheduledOnce'
    <2>1. ScheduledOnce
      BY <1>1 DEF CatalogInv, DropInv
    <2>2. (\A d \in Calls : ~Pending(call[d])) /\ drop.status # "DRAFT" /\ job.due = drop.publishAt
      BY <2>1 DEF ScheduledOnce
    <2>3. job'.state # "none"
      BY DEF Ahead
    <2>4. \A d \in Calls : ~Pending(call'[d])
      BY <2>2
    <2>5. QED
      BY <1>1, <2>1, <2>2, <2>3, <2>4 DEF ScheduledOnce
  <1>2. QED
    BY <1>1, JobStep DEF CatalogInv, CatalogTyped

LEMMA TakeJobSound ==
  ASSUME CatalogInv, TakeJob PROVE CatalogInv'
  <1>1. /\ job.state = "delayed" /\ clock >= job.due /\ job' = [job EXCEPT !.state = "reading"]
        /\ UNCHANGED <<brandActive, drop, clock, follower, rowsMade, followersCount, settings, call, crossed, cut>>
    BY DEF TakeJob, followerVars, histories
  <1>2. job \in Job /\ job.failures < Attempts
    BY <1>1 DEF CatalogInv, CatalogTyped, DropInv, Ahead
  <1>3. job' \in Job /\ job'.state = "reading" /\ job'.due = job.due /\ job'.failures = job.failures /\ job.failures \in 0..Attempts
    BY <1>1, <1>2 DEF Job, Ahead
  <1>4. QED
    BY <1>1, <1>2, <1>3, JobMoves DEF Ahead

LEMMA ReadScheduledSound ==
  ASSUME CatalogInv, ReadScheduled PROVE CatalogInv'
  <1>1. PICK state \in {"publishing", "done"} : state = IF drop.status = "SCHEDULED" THEN "publishing" ELSE "done"
    OBVIOUS
  <1>2. /\ job.state = "reading" /\ job' = [job EXCEPT !.state = state]
        /\ UNCHANGED <<brandActive, drop, clock, follower, rowsMade, followersCount, settings, call, crossed, cut>>
    BY <1>1 DEF ReadScheduled, followerVars, histories
  <1>3. job \in Job /\ job.failures < Attempts
    BY <1>2 DEF CatalogInv, CatalogTyped, DropInv, Ahead
  <1>4. job' \in Job /\ job'.state = state /\ job'.due = job.due /\ job'.failures = job.failures /\ job.failures \in 0..Attempts
    BY <1>2, <1>3 DEF Job, Ahead
  <1>5. "drop" \notin crossed => clock >= job.due
    BY <1>2 DEF CatalogInv, DropInv, ScheduledOnce
  <1>6. QED
    BY <1>1, <1>2, <1>3, <1>4, <1>5, JobMoves DEF Ahead

LEMMA FailJobSound ==
  ASSUME CatalogInv, FailJob PROVE CatalogInv'
  <1>1. PICK state \in {"delayed", "failed"} : state = IF job.failures + 1 = Attempts THEN "failed" ELSE "delayed"
    OBVIOUS
  <1> DEFINE p == [job EXCEPT !.failures = @ + 1]
             x == [p EXCEPT !.state = state]
  <1>2. /\ job.state \in {"reading", "publishing"} /\ job' = x
        /\ UNCHANGED <<brandActive, drop, clock, follower, rowsMade, followersCount, settings, call, crossed, cut>>
    BY <1>1 DEF FailJob, followerVars, histories
  <1>3. job \in Job /\ job.failures < Attempts
    BY <1>2 DEF CatalogInv, CatalogTyped, DropInv, Ahead
  <1>4. p \in Job /\ p.due = job.due /\ p.failures = job.failures + 1
    BY <1>3, CatalogConstants DEF CatalogConstants, Job
  <1> HIDE DEF p
  <1>5. x \in Job /\ x.state = state /\ x.due = job.due /\ x.failures = job.failures + 1
    BY <1>4 DEF Job, Ahead
  <1> HIDE DEF x
  <1>6. job.failures + 1 \in 0..Attempts /\ (state = "delayed" => job.failures + 1 < Attempts)
    BY <1>1, <1>3, CatalogConstants DEF CatalogConstants, Job
  <1>7. QED
    BY <1>1, <1>2, <1>5, <1>6, JobMoves DEF Ahead

LEMMA PublishScheduledSound ==
  ASSUME CatalogInv, PublishScheduled PROVE CatalogInv'
  <1>1. /\ job.state = "publishing" /\ drop' = Published("job") /\ job' = [job EXCEPT !.state = "done"]
        /\ crossed' = IF drop.status # "SCHEDULED" THEN crossed \cup {"drop"} ELSE crossed
        /\ UNCHANGED <<brandActive, clock, follower, rowsMade, followersCount, settings, call, cut>>
    BY DEF PublishScheduled, NoteContest, followerVars
  <1>2. job' \in Job /\ job'.state = "done" /\ job'.due = job.due
    BY <1>1 DEF CatalogInv, CatalogTyped, Job
  <1>3. /\ drop' \in Drop /\ drop'.status = "PUBLISHED" /\ drop'.by = "job" /\ drop'.at = clock
        /\ drop'.publishAt = drop.publishAt /\ drop'.archived = drop.archived
    BY <1>1, PublishedDrop
  <1>4. crossed \subseteq crossed' /\ crossed' \subseteq {"drop", "settings"}
    BY <1>1 DEF CatalogInv, CatalogTyped
  <1>5. ASSUME "drop" \notin crossed' PROVE ScheduledOnce'
    <2>1. "drop" \notin crossed /\ drop.status = "SCHEDULED"
      BY <1>1, <1>5
    <2>2. ~drop.archived /\ clock >= drop.publishAt
      BY <1>1, <2>1 DEF CatalogInv, DropInv, ScheduledOnce
    <2>3. \A d \in Calls : Pending(call'[d]) => Pending(call[d]) /\ call'[d].id = call[d].id
      BY <1>1
    <2>4. QED
      BY <1>1, <1>2, <1>3, <2>1, <2>2, <2>3, LeftSchedule
  <1>6. job'.state \notin Ahead
    BY <1>2 DEF Ahead
  <1>7. QED
    BY <1>1, <1>2, <1>3, <1>4, <1>5, <1>6, JobStep DEF CatalogInv, CatalogTyped

LEMMA TickSound ==
  ASSUME CatalogInv, Tick PROVE CatalogInv'
  <1>1. clock' = clock + 1 /\ clock' \in 0..Horizon
    BY CatalogConstants DEF CatalogConstants, Tick, CatalogInv, CatalogTyped
  <1>2. UNCHANGED <<brandActive, drop, job, follower, rowsMade, followersCount, settings, call, crossed, cut>>
    BY DEF Tick, followerVars, histories
  <1>3. ASSUME "drop" \notin crossed PROVE ScheduledOnce'
    <2>1. ScheduledOnce
      BY <1>3 DEF CatalogInv, DropInv
    <2>2. job.state \in {"reading", "publishing"} => clock' >= job.due
      BY <1>1, <2>1 DEF ScheduledOnce, CatalogInv, CatalogTyped, Job
    <2>3. QED
      BY <1>2, <2>1, <2>2 DEF ScheduledOnce
  <1>4. job'.state \in Ahead => job'.failures < Attempts
    BY <1>2 DEF CatalogInv, DropInv
  <1>5. QED
    BY <1>1, <1>2, <1>3, <1>4, JobStep DEF CatalogInv, CatalogTyped

---------------------------------------------------------------------------
(* Followers, settings and the brand                                       *)
\* A request ends with the rows of others changed.
LEMMA RestDrop ==
  ASSUME CatalogInv, NEW c \in Calls, ~Pending(call[c]), EndCall(c), UNCHANGED <<drop, job, clock, cut>>, "drop" \in crossed <=> "drop" \in crossed'
  PROVE  /\ call' \in [Calls -> CallRecord] /\ (\A d \in Calls : Learned(call'[d])) /\ DropInv'
         /\ call'[c] = NoCall /\ \A d \in Calls : d # c => call'[d] = call[d]
  <1>1. call' = [call EXCEPT ![c] = NoCall]
    BY DEF EndCall
  <1>2. call' \in [Calls -> CallRecord] /\ call'[c] = NoCall /\ \A d \in Calls : d # c => call'[d] = call[d]
    BY <1>1, NoCallLearned, CallSet DEF CatalogInv
  <1>3. \A d \in Calls : Learned(call'[d])
    BY <1>2, NoCallLearned, LearnedStays
  <1>4. \A d \in Calls : (Pending(call'[d]) <=> Pending(call[d])) /\ (Pending(call[d]) => call'[d].id = call[d].id)
    <2>1. ASSUME NEW d \in Calls
          PROVE  (Pending(call'[d]) <=> Pending(call[d])) /\ (Pending(call[d]) => call'[d].id = call[d].id)
      <3>1. CASE d = c
        BY <1>2, <3>1, NoCallLearned
      <3>2. CASE d # c
        BY <1>2, <3>2
      <3>3. QED
        BY <3>1, <3>2
    <2>2. QED
      BY <2>1
  <1>5. ASSUME "drop" \notin crossed PROVE ScheduledOnce'
    <2>1. ScheduledOnce
      BY <1>5 DEF CatalogInv, DropInv
    <2>2. \A d \in Calls : Pending(call'[d]) => job.state = "none" /\ call'[d].id = drop.publishAt /\ \A e \in Calls : e # d => ~Pending(call'[e])
      BY <1>4, <2>1 DEF ScheduledOnce
    <2>3. drop.status = "SCHEDULED" => job.state \in Ahead \cup {"failed"} \/ cut \/ \E d \in Calls : Pending(call'[d])
      BY <1>4, <2>1 DEF ScheduledOnce
    <2>4. drop.status = "DRAFT" => \A d \in Calls : ~Pending(call'[d])
      BY <1>4, <2>1 DEF ScheduledOnce
    <2>5. QED
      BY <2>1, <2>2, <2>3, <2>4 DEF ScheduledOnce
  <1>6. DropInv'
    BY <1>5 DEF CatalogInv, DropInv
  <1>7. QED
    BY <1>2, <1>3, <1>6

LEMMA FollowingFinite == IsFiniteSet(Following) /\ Cardinality(Following) \in Nat /\ Cardinality(Following) <= Cardinality(Fans)
  <1>1. Following \subseteq Fans /\ IsFiniteSet(Fans)
    BY CatalogConstants DEF CatalogConstants, Following
  <1>2. QED
    BY <1>1, FS_Subset, FS_CardinalityType

\* The rows of followers change with their number.
LEMMA FollowersStep ==
  ASSUME CatalogInv, NEW c \in Calls, call[c].op \in {"follow", "unfollow"}, EndCall(c),
         UNCHANGED <<brandActive, drop, job, clock, settings, crossed, cut>>,
         follower' \in [Fans -> 0..MaxRows], rowsMade' \in 0..MaxRows, FollowersInv'
  PROVE  CatalogInv'
  <1>1. ~Pending(call[c])
    BY DEF Pending
  <1>2. /\ call' \in [Calls -> CallRecord] /\ (\A d \in Calls : Learned(call'[d])) /\ DropInv'
        /\ call'[c] = NoCall /\ \A d \in Calls : d # c => call'[d] = call[d]
    BY <1>1, RestDrop
  <1>3. CatalogTyped'
    BY <1>2 DEF CatalogInv, CatalogTyped
  <1>4. SettingsInv'
    BY <1>2, NoCallLearned, FewerSettle, SettingsStay
  <1>5. QED
    BY <1>2, <1>3, <1>4 DEF CatalogInv

LEMMA FollowSound ==
  ASSUME CatalogInv, NEW c \in Calls, Follow(c) PROVE CatalogInv'
  <1>1. call[c].op = "follow" /\ EndCall(c) /\ UNCHANGED <<brandActive, drop, job, clock, settings, crossed, cut>>
    BY DEF Follow, Doing, dropVars, histories
  <1>2. Learned(call[c])
    BY DEF CatalogInv
  <1>3. PICK f \in Fans : f = call[c].who
    BY <1>1, <1>2 DEF Learned
  <1>4. CASE follower[f] = 0 /\ rowsMade < MaxRows
    <2>1. rowsMade' = rowsMade + 1 /\ followersCount' = followersCount + 1 /\ follower' = [follower EXCEPT ![f] = rowsMade']
      BY <1>3, <1>4 DEF Follow
    <2>2. rowsMade' \in 0..MaxRows /\ rowsMade' # 0
      BY <1>4, <2>1, CatalogConstants DEF CatalogConstants, CatalogInv, CatalogTyped
    <2>3. follower' \in [Fans -> 0..MaxRows] /\ follower'[f] = rowsMade' /\ \A e \in Fans : e # f => follower'[e] = follower[e]
      BY <2>1, <2>2 DEF CatalogInv, CatalogTyped
    <2>4. Following' = Following \cup {f} /\ f \notin Following
      BY <1>4, <2>2, <2>3 DEF Following
    <2>5. FollowersInv'
      BY <2>1, <2>4, FollowingFinite, FS_AddElement DEF CatalogInv, FollowersInv
    <2>6. QED
      BY <1>1, <2>2, <2>3, <2>5, FollowersStep
  <1>5. CASE ~(follower[f] = 0 /\ rowsMade < MaxRows)
    <2>1. UNCHANGED <<follower, rowsMade, followersCount>>
      BY <1>3, <1>5 DEF Follow, followerVars
    <2>2. FollowersInv'
      BY <2>1 DEF CatalogInv, FollowersInv, Following
    <2>3. QED
      BY <1>1, <2>1, <2>2, FollowersStep DEF CatalogInv, CatalogTyped
  <1>6. QED
    BY <1>4, <1>5

LEMMA UnfollowSound ==
  ASSUME CatalogInv, NEW c \in Calls, Unfollow(c) PROVE CatalogInv'
  <1>1. /\ call[c].op = "unfollow" /\ call[c].pc = "write" /\ EndCall(c)
        /\ UNCHANGED <<brandActive, drop, job, clock, rowsMade, settings, crossed, cut>>
    BY DEF Unfollow, Doing, dropVars, histories
  <1>2. Learned(call[c])
    BY DEF CatalogInv
  <1>3. PICK f \in Fans : f = call[c].who
    BY <1>1, <1>2 DEF Learned
  <1>4. call[c].id # 0
    BY <1>1, <1>2 DEF Learned
  <1>5. CASE follower[f] = call[c].id
    <2>1. follower' = [follower EXCEPT ![f] = 0] /\ followersCount' = followersCount - 1
      BY <1>3, <1>5 DEF Unfollow
    <2>2. follower' \in [Fans -> 0..MaxRows] /\ follower'[f] = 0 /\ \A e \in Fans : e # f => follower'[e] = follower[e]
      BY <2>1, CatalogConstants DEF CatalogConstants, CatalogInv, CatalogTyped
    <2>3. Following' = Following \ {f} /\ f \in Following
      BY <1>4, <1>5, <2>2 DEF Following
    <2>4. FollowersInv'
      BY <2>1, <2>3, FollowingFinite, FS_RemoveElement DEF CatalogInv, FollowersInv
    <2>5. QED
      BY <1>1, <2>2, <2>4, FollowersStep DEF CatalogInv, CatalogTyped
  <1>6. CASE follower[f] # call[c].id
    <2>1. UNCHANGED <<follower, followersCount>>
      BY <1>3, <1>6 DEF Unfollow
    <2>2. FollowersInv'
      BY <2>1 DEF CatalogInv, FollowersInv, Following
    <2>3. QED
      BY <1>1, <2>1, <2>2, FollowersStep DEF CatalogInv, CatalogTyped
  <1>7. QED
    BY <1>5, <1>6

LEMMA SetBrandActiveSound ==
  ASSUME CatalogInv, NEW on \in BOOLEAN, SetBrandActive(on) PROVE CatalogInv'
  <1>1. brandActive' = on /\ UNCHANGED <<follower, rowsMade, followersCount, drop, job, clock, settings, call, crossed, cut>>
    BY DEF SetBrandActive, dropVars, followerVars, histories
  <1>2. CatalogTyped' /\ (\A c \in Calls : Learned(call'[c]))
    BY <1>1 DEF CatalogInv, CatalogTyped
  <1>3. SettingsInv' /\ FollowersInv'
    BY <1>1 DEF CatalogInv, SettingsInv, Settling, FollowersInv, Following
  <1>4. DropInv'
    BY <1>1 DEF CatalogInv, DropInv, ScheduledOnce
  <1>5. QED
    BY <1>2, <1>3, <1>4 DEF CatalogInv

LEMMA CreateSettingsSound ==
  ASSUME CatalogInv, NEW c \in Calls, CreateSettings(c) PROVE CatalogInv'
  <1>1. /\ call[c].op = "settings" /\ EndCall(c) /\ settings' = settings + 1
        /\ crossed' = IF settings > 0 THEN crossed \cup {"settings"} ELSE crossed
        /\ UNCHANGED <<brandActive, follower, rowsMade, followersCount, drop, job, clock, cut>>
    BY DEF CreateSettings, Doing, NoteContest, dropVars, followerVars
  <1>2. ~Pending(call[c]) /\ ("drop" \in crossed <=> "drop" \in crossed') /\ crossed' \subseteq {"drop", "settings"}
    BY <1>1 DEF Pending, CatalogInv, CatalogTyped
  <1>3. /\ call' \in [Calls -> CallRecord] /\ (\A d \in Calls : Learned(call'[d])) /\ DropInv'
        /\ call'[c] = NoCall /\ \A d \in Calls : d # c => call'[d] = call[d]
    BY <1>1, <1>2, RestDrop
  <1>4. CatalogTyped'
    BY <1>1, <1>2, <1>3 DEF CatalogInv, CatalogTyped
  <1>5. Settling' = Settling \ {c} /\ c \in Settling /\ Settling \in SUBSET Calls
    BY <1>1, <1>3, NoCallLearned DEF Settling
  <1>6. IsFiniteSet(Settling) /\ Cardinality(Settling) \in Nat
    BY <1>5, CallsCounted
  <1>7. Cardinality(Settling') = Cardinality(Settling) - 1
    BY <1>5, <1>6, FS_RemoveElement
  <1>8. settings \in Nat /\ settings + Cardinality(Settling) <= Cardinality(Calls) /\ Cardinality(Calls) \in Nat
    BY CallsCounted DEF CatalogInv, SettingsInv
  <1>9. settings' \in Nat /\ settings' + Cardinality(Settling') <= Cardinality(Calls)
    BY <1>1, <1>6, <1>7, <1>8
  <1>10. settings' <= 1 \/ "settings" \in crossed'
    BY <1>1, <1>8
  <1>11. FollowersInv'
    BY <1>1 DEF CatalogInv, FollowersInv, Following
  <1>12. QED
    BY <1>3, <1>4, <1>9, <1>10, <1>11 DEF CatalogInv, SettingsInv

---------------------------------------------------------------------------
LEMMA CatalogStart == CatalogInit => CatalogInv
  <1> SUFFICES ASSUME CatalogInit PROVE CatalogInv
    OBVIOUS
  <1>1. drop \in Drop
    BY CatalogConstants DEF CatalogConstants, CatalogInit, Drop, Statuses
  <1>2. job \in Job
    BY CatalogConstants DEF CatalogConstants, CatalogInit, Job
  <1>3. CatalogTyped
    <2>1. 0 \in 0..MaxRows /\ 0 \in 0..Horizon
      BY CatalogConstants DEF CatalogConstants
    <2>2. follower \in [Fans -> 0..MaxRows] /\ rowsMade \in 0..MaxRows /\ clock \in 0..Horizon
      BY <2>1 DEF CatalogInit
    <2>3. call \in [Calls -> CallRecord]
      BY NoCallLearned DEF CatalogInit
    <2>4. QED
      BY <1>1, <1>2, <2>2, <2>3 DEF CatalogInit, CatalogTyped
  <1>4. \A c \in Calls : call[c] = NoCall /\ Learned(call[c]) /\ ~Pending(call[c])
    BY NoCallLearned DEF CatalogInit
  <1>5. Settling = {} /\ Following = {}
    BY <1>4, NoCallLearned DEF CatalogInit, Settling, Following
  <1>6. SettingsInv /\ FollowersInv
    BY <1>5, CallsCounted, FS_EmptySet DEF CatalogInit, SettingsInv, FollowersInv
  <1>7. DropInv
    BY <1>4 DEF CatalogInit, DropInv, ScheduledOnce, Ahead
  <1>8. QED
    BY <1>3, <1>4, <1>6, <1>7 DEF CatalogInv

LEMMA DropSteps == ASSUME CatalogInv, DropNext PROVE CatalogInv'
  <1>1. ASSUME NEW c \in Calls, NEW at \in 1..Horizon, BeginCall(c, "schedule", drop.status, at, "none") PROVE CatalogInv'
    <2>1. drop.status \in {"none"} \cup Statuses /\ at \in 0..Horizon
      BY CatalogConstants DEF CatalogConstants, CatalogInv, CatalogTyped, Drop
    <2>2. QED
      BY <1>1, <2>1, BeginCallSound
  <1>2. ASSUME NEW c \in Calls, NEW op \in {"publish", "archive"}, BeginCall(c, op, drop.status, 0, "none") PROVE CatalogInv'
    <2>1. drop.status \in {"none"} \cup Statuses /\ 0 \in 0..Horizon
      BY CatalogConstants DEF CatalogConstants, CatalogInv, CatalogTyped, Drop
    <2>2. QED
      BY <1>2, <2>1, BeginCallSound
  <1>3. QED
    BY <1>1, <1>2, CheckBrandSound, WriteScheduledSound, WritePublishedSound, WriteArchivedSound, GetJobSound, RemoveJobSound, AddJobSound,
       CutCallSound, TakeJobSound, ReadScheduledSound, PublishScheduledSound, FailJobSound, TickSound, SetBrandActiveSound DEF DropNext

LEMMA FollowersSteps == ASSUME CatalogInv, FollowersNext PROVE CatalogInv'
  <1>1. ASSUME NEW c \in Calls, NEW op \in {"follow", "unfollow"}, NEW f \in Fans, BeginCall(c, op, "none", 0, f) PROVE CatalogInv'
    <2>1. 0 \in 0..Horizon
      BY CatalogConstants DEF CatalogConstants
    <2>2. QED
      BY <1>1, <2>1, BeginCallSound
  <1>2. QED
    BY <1>1, CheckBrandSound, ReadRowSound, FollowSound, UnfollowSound, CutCallSound, SetBrandActiveSound DEF FollowersNext

LEMMA CatalogSteps == CatalogInv /\ [CatalogNext]_catalogVars => CatalogInv'
  <1> SUFFICES ASSUME CatalogInv, [CatalogNext]_catalogVars PROVE CatalogInv'
    OBVIOUS
  <1>1. CASE UNCHANGED catalogVars
    <2>1. UNCHANGED <<brandActive, follower, rowsMade, followersCount, drop, job, clock, settings, call, crossed, cut>>
      BY <1>1 DEF catalogVars
    <2>2. CatalogTyped' /\ (\A c \in Calls : Learned(call'[c]))
      BY <2>1 DEF CatalogInv, CatalogTyped
    <2>3. SettingsInv' /\ FollowersInv'
      BY <2>1 DEF CatalogInv, SettingsInv, Settling, FollowersInv, Following
    <2>4. DropInv'
      BY <2>1 DEF CatalogInv, DropInv, ScheduledOnce
    <2>5. QED
      BY <2>2, <2>3, <2>4 DEF CatalogInv
  <1>2. CASE SettingsNext
    BY <1>2, ReadSettingsSound, CreateSettingsSound, CutCallSound DEF SettingsNext
  <1>3. QED
    BY <1>1, <1>2, DropSteps, FollowersSteps DEF CatalogNext

LEMMA CatalogKeeps == CatalogSpec => []CatalogInv
  <1>1. QED
    BY CatalogStart, CatalogSteps, PTL DEF CatalogSpec

\* A scheduled drop has its job, is published no earlier than its owner said
\* and stays archived but for handlers that wrote over each other; followers
\* are counted right, and there is one row of settings (drops, brands,
\* settings).
THEOREM CatalogAlwaysSound == CatalogSpec => []CatalogSound
  <1>1. CatalogInv => CatalogSound
    <2> SUFFICES ASSUME CatalogInv PROVE CatalogSound
      OBVIOUS
    <2>1. ScheduledHasJob
      <3>1. ASSUME drop.status = "SCHEDULED", "drop" \notin crossed, ~cut, job.state \notin Ahead \cup {"failed"}
            PROVE  \E c \in Calls, pc \in {"job", "remove", "add"} : Doing(c, {"schedule"}, pc)
        <4>1. PICK c \in Calls : Pending(call[c])
          BY <3>1 DEF CatalogInv, DropInv, ScheduledOnce
        <4>2. PICK pc \in {"job", "remove", "add"} : Doing(c, {"schedule"}, pc)
          BY <4>1 DEF Pending, Doing
        <4>3. QED
          BY <4>2
      <3>2. QED
        BY <3>1 DEF ScheduledHasJob
    <2>2. NotBeforeItsTime /\ ArchivedStays
      BY DEF CatalogInv, DropInv, ScheduledOnce, NotBeforeItsTime, ArchivedStays
    <2>3. FollowersCounted /\ OneSettingsRow
      BY DEF CatalogInv, FollowersInv, Following, SettingsInv, FollowersCounted, OneSettingsRow
    <2>4. QED
      BY <2>1, <2>2, <2>3 DEF CatalogSound
  <1>2. QED
    BY <1>1, CatalogKeeps, PTL

\* Brand, followers, drop, job, settings and requests keep their types.
THEOREM CatalogTypes == CatalogSpec => []CatalogTypeOK
  <1>1. CatalogInv => CatalogTypeOK
    <2> SUFFICES ASSUME CatalogInv PROVE CatalogTypeOK
      OBVIOUS
    <2>1. followersCount \in 0..Cardinality(Fans)
      <3>1. Cardinality(Fans) \in Nat
        BY CatalogConstants, FS_CardinalityType DEF CatalogConstants
      <3>2. QED
        BY <3>1, FollowingFinite DEF CatalogInv, FollowersInv
    <2>2. settings \in 0..Cardinality(Calls)
      <3>1. Settling \in SUBSET Calls
        BY DEF Settling
      <3>2. Cardinality(Settling) \in Nat
        BY <3>1, CallsCounted
      <3>3. QED
        BY <3>2, CallsCounted DEF CatalogInv, SettingsInv
    <2>3. QED
      BY <2>1, <2>2 DEF CatalogInv, CatalogTyped, CatalogTypeOK, CallRecord
  <1>2. QED
    BY <1>1, CatalogKeeps, PTL

---------------------------------------------------------------------------
(* SHELF: what may be seen, changed and sold.                              *)
---------------------------------------------------------------------------
(* The requests, by what they carry                                        *)
Creation == [pc: {"door", "slug", "create"}, op: {"create"}, of: Kinds, slug: 0..MaxSuffix, rival: BOOLEAN]
Change   == [pc: {"door", "write"}, op: {"edit", "remove", "visibility", "variant"}, of: Items, owner: BOOLEAN]
Visit    == [pc: {"door", "show"}, op: {"view"}, of: Items, owner: BOOLEAN]
Dropping == [pc: {"door", "write"}, op: {"unvariant"}, of: Goods, owner: BOOLEAN]
OwnRow   == [pc: {"write"}, op: {"edit brand", "close"}]
Putting  == [pc: {"put"}, op: {"put"}, of: Goods]
Errands  == {AtRest} \cup Creation \cup Change \cup Visit \cup Dropping \cup OwnRow \cup Putting

ShelfTyped ==
  /\ open \in BOOLEAN
  /\ item \in [Items -> {Nil} \cup Item] /\ good \in [Goods -> {NoGood} \cup Good]
  /\ \A i \in Items : item[i].kind = "drop" => item[i].state \in {"DRAFT", "PUBLISHED", "ARCHIVED"}
  /\ taken \in [Goods -> {"no", "cart", "order"}] /\ pulled \subseteq Goods
  /\ clerk \in [Clerks -> Errands]
  /\ overtaken \subseteq Clerks

(* Rows are filled in order; a variant has its product, and what is taken  *)
(* is on sale or was pulled.                                               *)
Sold(g) == good[g] # NoGood /\ (OnSale(g) \/ g \in pulled)
RowsInv ==
  /\ \E k \in 0..MaxItems : \A i \in Items : item[i] = Nil <=> i > k
  /\ \A g \in Goods : good[g] # NoGood => item[good[g].of].kind = "product"
  /\ \A g \in Goods : taken[g] # "no" => Sold(g)

(* What a request works on is there and of its kind.                       *)
Works(c) ==
  /\ clerk[c].pc \in {"door", "write", "show"} /\ clerk[c].op \in {"edit", "remove", "visibility", "variant", "view"} =>
       /\ clerk[c].of \in Items /\ item[clerk[c].of] # Nil
       /\ clerk[c].op \in {"remove", "variant"} => item[clerk[c].of].kind = "product"
       /\ clerk[c].op = "visibility" => item[clerk[c].of].kind = "drop"
  /\ clerk[c].pc \in {"door", "write"} /\ clerk[c].op = "unvariant" => clerk[c].of \in Goods /\ good[clerk[c].of] # NoGood
  /\ clerk[c].pc = "door" /\ clerk[c].op = "view" => clerk[c].owner

Puts(c) == clerk[c].pc = "put" => clerk[c].of \in Goods /\ Sold(clerk[c].of)

(* A creation without a rival has a name that stays free.                  *)
Creates(c, k) == clerk[c].pc \in {"door", "slug", "create"} /\ clerk[c].op = "create" /\ clerk[c].of = k
Named(c) ==
  clerk[c].pc \in {"door", "slug", "create"} /\ clerk[c].op = "create" /\ ~clerk[c].rival =>
    /\ \A d \in Clerks : d # c => ~Creates(d, clerk[c].of)
    /\ clerk[c].pc = "create" => clerk[c].slug \notin Slugs(clerk[c].of)

Guarded(c) ==
  c \notin overtaken =>
    /\ clerk[c].pc \in {"slug", "create", "write"} => open
    /\ clerk[c].pc = "show" => IF clerk[c].owner THEN open ELSE Public(clerk[c].of)

Known(c) == Works(c) /\ Puts(c) /\ Named(c) /\ Guarded(c)

ShelfInv == ShelfTyped /\ RowsInv /\ balked = FALSE /\ \A c \in Clerks : Known(c)

---------------------------------------------------------------------------
LEMMA ClerkTyped ==
  ASSUME ShelfTyped, NEW c \in Clerks
  PROVE  /\ clerk[c] \in Errands
         /\ clerk[c].pc \in {"slug", "create"} => clerk[c] \in Creation
         /\ clerk[c].pc = "put" => clerk[c] \in Putting
         /\ clerk[c].pc = "show" => clerk[c] \in Visit
         /\ clerk[c].pc = "write" => clerk[c] \in Change \cup Dropping \cup OwnRow
         /\ clerk[c].pc = "door" => clerk[c] \in Creation \cup Change \cup Visit \cup Dropping
         /\ clerk[c] # AtRest /\ clerk[c].op = "create" => clerk[c] \in Creation
  <1>1. clerk[c] \in Errands
    BY DEF ShelfTyped
  <1>2. clerk[c] \in Creation => clerk[c].pc \in {"door", "slug", "create"} /\ clerk[c].op = "create"
    BY DEF Creation
  <1>3. clerk[c] \in Change => clerk[c].pc \in {"door", "write"} /\ clerk[c].op \in {"edit", "remove", "visibility", "variant"}
    BY DEF Change
  <1>4. clerk[c] \in Visit => clerk[c].pc \in {"door", "show"} /\ clerk[c].op = "view"
    BY DEF Visit
  <1>5. clerk[c] \in Dropping => clerk[c].pc \in {"door", "write"} /\ clerk[c].op = "unvariant"
    BY DEF Dropping
  <1>6. clerk[c] \in OwnRow => clerk[c].pc = "write" /\ clerk[c].op \in {"edit brand", "close"}
    BY DEF OwnRow
  <1>7. clerk[c] \in Putting => clerk[c].pc = "put" /\ clerk[c].op = "put"
    BY DEF Putting
  <1>8. clerk[c] = AtRest => clerk[c].pc = "rest"
    BY DEF AtRest
  <1>9. clerk[c] = AtRest \/ clerk[c] \in Creation \cup Change \cup Visit \cup Dropping \cup OwnRow \cup Putting
    BY <1>1 DEF Errands
  <1>10. QED
    BY <1>1, <1>2, <1>3, <1>4, <1>5, <1>6, <1>7, <1>8, <1>9

LEMMA Resting == AtRest \in Errands /\ AtRest.pc = "rest"
  BY DEF AtRest, Errands

ShelfColumns == <<open, item, good, taken>>

LEMMA SameSlugs == item' = item => \A k : Slugs(k)' = Slugs(k)
  BY DEF Slugs, IsA

\* What a clerk knows stays true, piece by piece.
Grows ==
  /\ \A i \in Items : item[i] # Nil => item'[i] # Nil /\ item'[i].kind = item[i].kind
  /\ \A g \in Goods : good[g] # NoGood => good'[g] # NoGood

LEMMA WorksStays ==
  ASSUME NEW d \in Clerks, Works(d), clerk'[d] = clerk[d], Grows PROVE Works(d)'
  BY DEF Works, Grows

LEMMA PutsStays ==
  ASSUME NEW d \in Clerks, Puts(d), clerk'[d] = clerk[d],
         \A g \in Goods : Sold(g) /\ clerk[d].pc = "put" /\ clerk[d].of = g => Sold(g)'
  PROVE  Puts(d)'
  <1>1. CASE clerk[d].pc # "put"
    BY <1>1 DEF Puts
  <1>2. CASE clerk[d].pc = "put"
    <2>1. PICK g \in Goods : g = clerk[d].of /\ Sold(g)
      BY <1>2 DEF Puts
    <2>2. Sold(g)' /\ g = clerk'[d].of
      BY <1>2, <2>1
    <2>3. QED
      BY <2>1, <2>2 DEF Puts, Sold, OnSale
  <1>3. QED
    BY <1>1, <1>2

LEMMA NamedStays ==
  ASSUME NEW d \in Clerks, Named(d), clerk'[d] = clerk[d],
         \A e \in Clerks : e # d /\ Creates(e, clerk[d].of)' => Creates(e, clerk[d].of),
         \A k : Slugs(k)' = Slugs(k)
  PROVE  Named(d)'
  <1>1. ASSUME NEW e \in Clerks, e # d, ~Creates(e, clerk[d].of) PROVE ~Creates(e, clerk[d].of)'
    BY <1>1
  <1>2. Slugs(clerk[d].of)' = Slugs(clerk[d].of)
    <2>1. PICK k : k = clerk[d].of
      OBVIOUS
    <2>2. clerk'[d].of = k /\ Slugs(k)' = Slugs(k)
      BY <2>1
    <2>3. QED
      BY <2>1, <2>2 DEF Slugs, IsA
  <1>3. QED
    BY <1>1, <1>2 DEF Named, Creates

LEMMA GuardedStays ==
  ASSUME NEW d \in Clerks, Guarded(d), clerk'[d] = clerk[d], d \notin overtaken' => d \notin overtaken,
         d \notin overtaken' /\ open /\ (clerk[d].pc \in {"slug", "create", "write"} \/ (clerk[d].pc = "show" /\ clerk[d].owner)) => open',
         d \notin overtaken' /\ clerk[d].pc = "show" /\ ~clerk[d].owner /\ Public(clerk[d].of) => Public(clerk[d].of)'
  PROVE  Guarded(d)'
  BY DEF Guarded, Public

\* One clerk moves and the rows stay.
LEMMA ClerkMoves ==
  ASSUME ShelfInv, NEW c \in Clerks, NEW q \in Errands, clerk' = [clerk EXCEPT ![c] = q],
         UNCHANGED ShelfColumns, UNCHANGED <<balked, pulled>>, overtaken' = overtaken \/ overtaken' = overtaken \ {c},
         q.pc \in {"door", "slug", "create"} /\ q.op = "create" => Creates(c, q.of),
         Known(c)'
  PROVE  ShelfInv'
  <1>1. clerk'[c] = q /\ (\A d \in Clerks : d # c => clerk'[d] = clerk[d]) /\ clerk' \in [Clerks -> Errands]
    BY DEF ShelfInv, ShelfTyped
  <1>2. UNCHANGED <<open, item, good, taken, balked, pulled>> /\ \A k : Slugs(k)' = Slugs(k)
    BY SameSlugs DEF ShelfColumns
  <1>3. ShelfTyped'
    BY <1>1, <1>2 DEF ShelfInv, ShelfTyped
  <1>4. RowsInv'
    BY <1>2 DEF ShelfInv, RowsInv, Sold, OnSale
  <1>5. ASSUME NEW d \in Clerks, d # c PROVE Known(d)'
    <2>1. clerk'[d] = clerk[d] /\ Works(d) /\ Puts(d) /\ Named(d) /\ Guarded(d)
      BY <1>1, <1>5 DEF ShelfInv, Known
    <2>2. Works(d)'
      BY <1>2, <2>1, WorksStays DEF Grows
    <2>3. Puts(d)'
      BY <1>2, <2>1, PutsStays DEF Sold, OnSale
    <2>4. \A e \in Clerks : \A k : Creates(e, k)' => Creates(e, k)
      <3>1. ASSUME NEW e \in Clerks, NEW k, Creates(e, k)' PROVE Creates(e, k)
        <4>1. CASE e = c
          BY <1>1, <3>1, <4>1 DEF Creates
        <4>2. CASE e # c
          BY <1>1, <3>1, <4>2 DEF Creates
        <4>3. QED
          BY <4>1, <4>2
      <3>2. QED
        BY <3>1
    <2>5. Named(d)'
      <3>1. ASSUME NEW e \in Clerks, Creates(e, clerk[d].of)' PROVE Creates(e, clerk[d].of)
        BY <2>1, <2>4, <3>1 DEF Creates
      <3>2. QED
        BY <1>2, <2>1, <3>1, NamedStays
    <2>6. Guarded(d)'
      BY <1>2, <1>5, <2>1 DEF Guarded, Public
    <2>7. QED
      BY <2>2, <2>3, <2>5, <2>6 DEF Known
  <1>6. QED
    BY <1>2, <1>3, <1>4, <1>5 DEF ShelfInv

LEMMA RestKnown ==
  ASSUME NEW c \in Clerks, clerk'[c] = AtRest PROVE Known(c)'
  BY Resting DEF Known, Works, Puts, Named, Guarded

LEMMA QuitSound ==
  ASSUME ShelfInv, NEW c \in Clerks, Quit(c), UNCHANGED <<balked, pulled>>, UNCHANGED shelfRows PROVE ShelfInv'
  <1>1. clerk' = [clerk EXCEPT ![c] = AtRest] /\ overtaken' = overtaken \ {c} /\ UNCHANGED ShelfColumns
    BY DEF Quit, ShelfColumns, shelfRows
  <1>2. clerk'[c] = AtRest
    BY <1>1 DEF ShelfInv, ShelfTyped
  <1>3. Known(c)'
    BY <1>2, RestKnown
  <1>4. QED
    BY <1>1, <1>3, Resting, ClerkMoves

\* A request that is not a creation comes to the door.
LEMMA AskForSound ==
  ASSUME ShelfInv, NEW c \in Clerks, NEW op \in {"edit", "remove", "visibility", "variant", "unvariant"}, NEW x, AskFor(c, op, x),
         op = "unvariant" => x \in Goods /\ good[x] # NoGood,
         op # "unvariant" => x \in Items /\ item[x] # Nil,
         op \in {"remove", "variant"} => item[x].kind = "product", op = "visibility" => item[x].kind = "drop"
  PROVE  ShelfInv'
  <1> DEFINE q == [pc |-> "door", op |-> op, of |-> x, owner |-> TRUE]
  <1>1. q \in Errands /\ q.pc = "door" /\ q.op = op /\ q.of = x /\ q.owner
    <2>1. CASE op = "unvariant"
      BY <2>1 DEF Errands, Dropping
    <2>2. CASE op # "unvariant"
      BY <2>2 DEF Errands, Change
    <2>3. QED
      BY <2>1, <2>2
  <1>2. clerk' = [clerk EXCEPT ![c] = q] /\ UNCHANGED ShelfColumns /\ UNCHANGED <<overtaken, balked, pulled>>
    BY DEF AskFor, Come, SameShelf, shelfRows, shelfHistory, ShelfColumns
  <1> HIDE DEF q
  <1>3. clerk'[c] = q /\ UNCHANGED <<item, good>>
    BY <1>2 DEF ShelfInv, ShelfTyped, ShelfColumns
  <1>4. Known(c)'
    BY <1>1, <1>3 DEF Known, Works, Puts, Named, Guarded
  <1>5. QED
    BY <1>1, <1>2, <1>4, ClerkMoves

LEMMA KindsKnown ==
  ASSUME ShelfInv, NEW i \in Items PROVE item[i].kind \in Kinds => item[i] # Nil
  BY DEF Nil, Kinds

LEMMA AskSound ==
  ASSUME ShelfInv, NEW c \in Clerks, NEW i \in Items,
         \/ EditProduct(c, i) \/ EditDrop(c, i) \/ EditContents(c, i) \/ HideDrop(c, i) \/ RemoveBegin(c, i) \/ VariantBegin(c, i)
  PROVE  ShelfInv'
  <1>1. \/ IsA(i, "product") /\ (AskFor(c, "edit", i) \/ AskFor(c, "remove", i) \/ AskFor(c, "variant", i))
        \/ IsA(i, "drop") /\ (AskFor(c, "edit", i) \/ AskFor(c, "visibility", i))
    BY DEF EditProduct, EditDrop, EditContents, HideDrop, RemoveBegin, VariantBegin
  <1>2. item[i] # Nil
    BY <1>1, KindsKnown DEF IsA, Kinds
  <1>3. QED
    BY <1>1, <1>2, AskForSound DEF IsA

LEMMA AskVariantSound ==
  ASSUME ShelfInv, NEW c \in Clerks, NEW g \in Goods, EditVariant(c, g) \/ VariantFind(c, g) PROVE ShelfInv'
  <1>1. good[g] # NoGood
    BY DEF EditVariant, VariantFind
  <1>2. CASE VariantFind(c, g)
    BY <1>1, <1>2, AskForSound DEF VariantFind
  <1>3. CASE EditVariant(c, g)
    <2>1. PICK i : i = good[g].of
      OBVIOUS
    <2>2. i \in Items /\ item[i].kind = "product"
      BY <1>1, <2>1 DEF ShelfInv, ShelfTyped, RowsInv, Good
    <2>3. item[i] # Nil
      BY <2>2, KindsKnown DEF Kinds
    <2>4. AskFor(c, "edit", i)
      BY <1>3, <2>1 DEF EditVariant
    <2>5. QED
      BY <2>2, <2>3, <2>4, AskForSound
  <1>4. QED
    BY <1>2, <1>3

LEMMA AskToSeeSound ==
  ASSUME ShelfInv, NEW c \in Clerks, NEW i \in Items, NEW owner \in BOOLEAN, AskToSee(c, i, owner) PROVE ShelfInv'
  <1>1. PICK pc \in {"show", "door"} : pc = IF Public(i) THEN "show" ELSE "door"
    OBVIOUS
  <1>2. PICK own \in BOOLEAN : own = (owner /\ ~Public(i))
    OBVIOUS
  <1> DEFINE q == [pc |-> pc, op |-> "view", of |-> i, owner |-> own]
  <1>3. q \in Errands /\ q.pc = pc /\ q.op = "view" /\ q.of = i /\ q.owner = own
    BY DEF Errands, Visit
  <1>4. clerk' = [clerk EXCEPT ![c] = q] /\ UNCHANGED ShelfColumns /\ UNCHANGED <<overtaken, balked, pulled>> /\ item[i] # Nil
    BY <1>1, <1>2 DEF AskToSee, Come, SameShelf, shelfRows, shelfHistory, ShelfColumns
  <1>5. pc = "door" => own
    BY <1>1, <1>2 DEF AskToSee
  <1>6. pc = "show" => ~own /\ Public(i)
    BY <1>1, <1>2
  <1> HIDE DEF q
  <1>7. clerk'[c] = q /\ UNCHANGED <<item, good>>
    BY <1>4 DEF ShelfInv, ShelfTyped, ShelfColumns
  <1>8. Works(c)'
    BY <1>3, <1>4, <1>5, <1>7 DEF Works
  <1>9. Guarded(c)'
    BY <1>3, <1>6, <1>7 DEF Guarded, Public
  <1>10. Known(c)'
    BY <1>3, <1>7, <1>8, <1>9 DEF Known, Puts, Named
  <1>11. QED
    BY <1>3, <1>4, <1>10, ClerkMoves

LEMMA BrandBeginSound ==
  ASSUME ShelfInv, NEW c \in Clerks, NEW op \in {"edit brand", "close"}, BrandBegin(c, op) PROVE ShelfInv'
  <1> DEFINE q == [pc |-> "write", op |-> op]
  <1>1. q \in Errands /\ q.pc = "write" /\ q.op = op
    BY DEF Errands, OwnRow
  <1>2. clerk' = [clerk EXCEPT ![c] = q] /\ UNCHANGED ShelfColumns /\ UNCHANGED <<overtaken, balked, pulled>> /\ open
    BY DEF BrandBegin, Come, SameShelf, shelfRows, shelfHistory, ShelfColumns
  <1> HIDE DEF q
  <1>3. clerk'[c] = q /\ open'
    BY <1>2 DEF ShelfInv, ShelfTyped, ShelfColumns
  <1>4. Known(c)'
    BY <1>1, <1>3 DEF Known, Works, Puts, Named, Guarded
  <1>5. QED
    BY <1>1, <1>2, <1>4, ClerkMoves

LEMMA PutBeginSound ==
  ASSUME ShelfInv, NEW c \in Clerks, NEW g \in Goods, PutBegin(c, g) PROVE ShelfInv'
  <1> DEFINE q == [pc |-> "put", op |-> "put", of |-> g]
  <1>1. q \in Errands /\ q.pc = "put" /\ q.op = "put" /\ q.of = g
    BY DEF Errands, Putting
  <1>2. /\ clerk' = [clerk EXCEPT ![c] = q] /\ UNCHANGED ShelfColumns /\ UNCHANGED <<overtaken, balked, pulled>>
        /\ good[g].state = "active" /\ item[good[g].of].state = "active"
    BY DEF PutBegin, Come, SameShelf, shelfRows, shelfHistory, ShelfColumns
  <1> HIDE DEF q
  <1>3. clerk'[c] = q /\ UNCHANGED <<item, good, pulled>>
    BY <1>2 DEF ShelfInv, ShelfTyped, ShelfColumns
  <1>4. good[g] # NoGood /\ OnSale(g)
    BY <1>2 DEF NoGood, OnSale
  <1>5. Puts(c)'
    BY <1>1, <1>3, <1>4 DEF Puts, Sold, OnSale
  <1>6. Known(c)'
    BY <1>1, <1>3, <1>5 DEF Known, Works, Named, Guarded
  <1>7. QED
    BY <1>1, <1>2, <1>6, ClerkMoves

LEMMA DoorSound ==
  ASSUME ShelfInv, NEW c \in Clerks, Door(c) PROVE ShelfInv'
  <1>1. clerk[c].pc = "door" /\ UNCHANGED shelfRows
    BY DEF Door, In
  <1>2. CASE ~open
    BY <1>1, <1>2, QuitSound DEF Door, QuitQuietly
  <1>3. CASE open
    <2>1. PICK pc \in {"slug", "show", "write"} :
            pc = IF clerk[c].op = "create" THEN "slug" ELSE IF clerk[c].op = "view" THEN "show" ELSE "write"
      OBVIOUS
    <2> DEFINE q == [clerk[c] EXCEPT !.pc = pc]
    <2>2. clerk[c] \in Creation \cup Change \cup Visit \cup Dropping /\ Works(c) /\ Named(c)
      BY <1>1, ClerkTyped DEF ShelfInv, Known
    <2>3. q \in Errands /\ q.pc = pc /\ q.op = clerk[c].op /\ q.of = clerk[c].of
      BY <2>1, <2>2 DEF Errands, Creation, Change, Visit, Dropping
    <2>4. clerk[c] \in Creation => q.rival = clerk[c].rival
      BY DEF Creation
    <2>5. clerk[c] \in Visit => q.owner = clerk[c].owner
      BY DEF Visit
    <2>6. clerk[c].op = "create" <=> clerk[c] \in Creation
      BY <2>2 DEF Creation, Change, Visit, Dropping
    <2>7. clerk[c].op = "view" <=> clerk[c] \in Visit
      BY <2>2 DEF Creation, Change, Visit, Dropping
    <2>8. clerk' = [clerk EXCEPT ![c] = q] /\ UNCHANGED ShelfColumns /\ UNCHANGED <<overtaken, balked, pulled>>
      BY <1>1, <1>3, <2>1 DEF Door, Advance, shelfRows, shelfHistory, ShelfColumns
    <2> HIDE DEF q
    <2>9. clerk'[c] = q /\ (\A d \in Clerks : d # c => clerk'[d] = clerk[d]) /\ UNCHANGED <<open, item, good>>
      BY <2>8 DEF ShelfInv, ShelfTyped, ShelfColumns
    <2>10. Works(c)'
      BY <1>1, <2>1, <2>2, <2>3, <2>9 DEF Works
    <2>11. Named(c)'
      BY <1>1, <2>1, <2>2, <2>3, <2>4, <2>6, <2>9 DEF Named, Creates
    <2>12. Guarded(c)'
      <3>1. pc = "show" => q.owner
        BY <1>1, <2>1, <2>2, <2>5, <2>7 DEF Works
      <3>2. QED
        BY <1>3, <2>3, <2>9, <3>1 DEF Guarded
    <2>13. Known(c)'
      BY <2>3, <2>9, <2>10, <2>11, <2>12 DEF Known, Puts
    <2>14. q.pc \in {"door", "slug", "create"} /\ q.op = "create" => Creates(c, q.of)
      BY <1>1, <2>3 DEF Creates
    <2>15. QED
      BY <2>3, <2>8, <2>13, <2>14, ClerkMoves
  <1>4. QED
    BY <1>2, <1>3

LEMMA LookUpSlugSound ==
  ASSUME ShelfInv, NEW c \in Clerks, LookUpSlug(c) PROVE ShelfInv'
  <1>1. clerk[c].pc = "slug" /\ UNCHANGED ShelfColumns /\ UNCHANGED <<overtaken, balked, pulled>>
    BY DEF LookUpSlug, In, SameShelf, shelfRows, shelfHistory, ShelfColumns
  <1>2. PICK s \in (0..MaxSuffix) \ Slugs(clerk[c].of) : clerk' = [clerk EXCEPT ![c].pc = "create", ![c].slug = s]
    BY DEF LookUpSlug
  <1> DEFINE p == [clerk[c] EXCEPT !.pc = "create"]
             q == [p EXCEPT !.slug = s]
  <1>3. clerk[c] \in Creation /\ Named(c) /\ Guarded(c)
    BY <1>1, ClerkTyped DEF ShelfInv, Known
  <1>4. p \in Creation /\ p.pc = "create" /\ p.op = "create" /\ p.of = clerk[c].of /\ p.rival = clerk[c].rival
    BY <1>3 DEF Creation
  <1>5. q \in Creation /\ q.pc = "create" /\ q.op = "create" /\ q.of = clerk[c].of /\ q.rival = clerk[c].rival /\ q.slug = s
    <2> HIDE DEF p
    <2>1. QED
      BY <1>4 DEF Creation
  <1>6. clerk' = [clerk EXCEPT ![c] = q]
    BY <1>2 DEF ShelfInv, ShelfTyped
  <1> HIDE DEF q
  <1>7. clerk'[c] = q /\ (\A d \in Clerks : d # c => clerk'[d] = clerk[d]) /\ UNCHANGED <<open, item, good>> /\ q \in Errands
    BY <1>1, <1>5, <1>6 DEF ShelfInv, ShelfTyped, ShelfColumns, Errands
  <1>8. clerk[c].op = "create"
    BY <1>3 DEF Creation
  <1>9. s \notin Slugs(clerk[c].of)' /\ clerk'[c].of = clerk[c].of
    <2>1. PICK k : k = clerk[c].of
      OBVIOUS
    <2>2. Slugs(k)' = Slugs(k)
      BY <1>7, SameSlugs
    <2>3. clerk'[c].of = k
      BY <1>5, <1>7, <2>1
    <2>4. QED
      BY <1>2, <2>1, <2>2, <2>3 DEF Slugs, IsA
  <1>10. Named(c)'
    BY <1>1, <1>3, <1>5, <1>7, <1>8, <1>9 DEF Named, Creates
  <1>11. Guarded(c)'
    BY <1>1, <1>3, <1>5, <1>7 DEF Guarded
  <1>12. Known(c)'
    BY <1>5, <1>7, <1>10, <1>11 DEF Known, Works, Puts
  <1>13. Creates(c, q.of)
    BY <1>1, <1>5, <1>8 DEF Creates
  <1>14. QED
    BY <1>1, <1>6, <1>7, <1>12, <1>13, ClerkMoves

---------------------------------------------------------------------------
(* Rows change                                                             *)
LEMMA RowStep ==
  ASSUME ShelfInv, ShelfTyped', RowsInv', Grows, balked' = balked,
         \A d \in Clerks : clerk'[d] = clerk[d] \/ clerk'[d] = AtRest,
         \A g \in Goods : Sold(g) /\ (\E d \in Clerks : clerk[d].pc = "put" /\ clerk[d].of = g) => Sold(g)',
         \A k : Slugs(k)' = Slugs(k),
         \A d \in Clerks : clerk'[d] = clerk[d] => Guarded(d)'
  PROVE  ShelfInv'
  <1>1. ASSUME NEW d \in Clerks PROVE Known(d)'
    <2>1. CASE clerk'[d] = AtRest
      BY <2>1, RestKnown
    <2>2. CASE clerk'[d] = clerk[d]
      <3>1. Works(d) /\ Puts(d) /\ Named(d) /\ Guarded(d)'
        BY <2>2 DEF ShelfInv, Known
      <3>2. Works(d)'
        BY <2>2, <3>1, WorksStays
      <3>3. Puts(d)'
        BY <2>2, <3>1, PutsStays
      <3>4. ASSUME NEW e \in Clerks, Creates(e, clerk[d].of)' PROVE Creates(e, clerk[d].of)
        <4>1. CASE clerk'[e] = AtRest
          BY <2>2, <3>4, <4>1, Resting DEF Creates
        <4>2. CASE clerk'[e] = clerk[e]
          BY <2>2, <3>4, <4>2 DEF Creates
        <4>3. QED
          BY <4>1, <4>2
      <3>5. Named(d)'
        BY <2>2, <3>1, <3>4, NamedStays
      <3>6. QED
        BY <3>1, <3>2, <3>3, <3>5 DEF Known
    <2>3. QED
      BY <2>1, <2>2
  <1>2. QED
    BY <1>1 DEF ShelfInv

\* A request ends with a change of the rows.
LEMMA RestSet ==
  ASSUME ShelfTyped, NEW c \in Clerks, clerk' = [clerk EXCEPT ![c] = AtRest]
  PROVE  /\ clerk' \in [Clerks -> Errands] /\ clerk'[c] = AtRest
         /\ \A d \in Clerks : (d # c => clerk'[d] = clerk[d]) /\ (clerk'[d] = clerk[d] \/ clerk'[d] = AtRest)
  BY Resting DEF ShelfTyped

LEMMA ItemChanges ==
  ASSUME ShelfInv, NEW i \in Items, item[i] # Nil, NEW x \in Item, x.kind = item[i].kind, x.slug = item[i].slug,
         item' = [item EXCEPT ![i] = x], x.kind = "drop" => x.state \in {"DRAFT", "PUBLISHED", "ARCHIVED"}
  PROVE  /\ item'[i] = x /\ \A j \in Items : j # i => item'[j] = item[j]
         /\ item' \in [Items -> {Nil} \cup Item]
         /\ \A j \in Items : item'[j].kind = "drop" => item'[j].state \in {"DRAFT", "PUBLISHED", "ARCHIVED"}
         /\ \A j \in Items : (item'[j] = Nil <=> item[j] = Nil) /\ item'[j].kind = item[j].kind
         /\ \E k \in 0..MaxItems : \A j \in Items : item'[j] = Nil <=> j > k
         /\ \A k : Slugs(k)' = Slugs(k)
  <1>1. item'[i] = x /\ (\A j \in Items : j # i => item'[j] = item[j]) /\ item' \in [Items -> {Nil} \cup Item]
    BY DEF ShelfInv, ShelfTyped
  <1>2. x # Nil
    BY DEF Item, Nil, Kinds
  <1>3. \A j \in Items : (item'[j] = Nil <=> item[j] = Nil) /\ item'[j].kind = item[j].kind
    BY <1>1, <1>2
  <1>4. \A j \in Items : item'[j].slug = item[j].slug
    BY <1>1
  <1>5. \E k \in 0..MaxItems : \A j \in Items : item'[j] = Nil <=> j > k
    BY <1>3 DEF ShelfInv, RowsInv
  <1>6. ASSUME NEW k PROVE Slugs(k)' = Slugs(k)
    BY <1>3, <1>4 DEF Slugs, IsA
  <1>7. \A j \in Items : item'[j].kind = "drop" => item'[j].state \in {"DRAFT", "PUBLISHED", "ARCHIVED"}
    BY <1>1 DEF ShelfInv, ShelfTyped
  <1>8. QED
    BY <1>1, <1>3, <1>5, <1>6, <1>7

\* What is hidden has overtaken who was about to show it.
LEMMA HiddenGuarded ==
  ASSUME ShelfInv, NEW d \in Clerks, clerk'[d] = clerk[d], NEW i \in Items, UNCHANGED open,
         \A j \in Items : j # i => item'[j] = item[j],
         d \notin overtaken' => d \notin overtaken /\ d \notin Overturned(open, [Showing EXCEPT ![i] = FALSE])
  PROVE  Guarded(d)'
  <1>1. Guarded(d)
    BY DEF ShelfInv, Known
  <1>2. ASSUME d \notin overtaken', clerk[d].pc = "show", ~clerk[d].owner, Public(clerk[d].of) PROVE Public(clerk[d].of)'
    <2>1. PICK j \in Items : j = clerk[d].of
      BY <1>2, ClerkTyped DEF ShelfInv, Visit
    <2>2. [Showing EXCEPT ![i] = FALSE][j]
      BY <1>2, <2>1 DEF Overturned, In
    <2>3. j # i
      BY <2>2 DEF Showing
    <2>4. item'[j] = item[j] /\ clerk'[d].of = j
      BY <2>1, <2>3
    <2>5. QED
      BY <1>2, <2>1, <2>4 DEF Public
  <1>3. QED
    BY <1>1, <1>2, GuardedStays

LEMMA SameGuarded ==
  ASSUME ShelfInv, NEW d \in Clerks, clerk'[d] = clerk[d], UNCHANGED <<open, item>>, d \notin overtaken' => d \notin overtaken
  PROVE  Guarded(d)'
  BY DEF ShelfInv, Known, Guarded, Public

LEMMA CreateVariantSound ==
  ASSUME ShelfInv, NEW c \in Clerks, NEW g \in Goods, CreateVariant(c, g) PROVE ShelfInv'
  <1>1. /\ clerk[c].pc = "write" /\ clerk[c].op = "variant" /\ good[g] = NoGood
        /\ clerk' = [clerk EXCEPT ![c] = AtRest] /\ overtaken' = overtaken \ {c} /\ UNCHANGED <<balked, pulled, open, item, taken>>
    BY DEF CreateVariant, Asks, In, QuitQuietly, Quit
  <1>2. Works(c)
    BY DEF ShelfInv, Known
  <1>3. PICK i \in Items : i = clerk[c].of /\ item[i].kind = "product"
    BY <1>1, <1>2 DEF Works
  <1> DEFINE x == [state |-> "active", of |-> i]
  <1>4. x \in Good /\ x # NoGood /\ x.of = i
    BY DEF Good, NoGood
  <1>5. good' = [good EXCEPT ![g] = x]
    BY <1>3 DEF CreateVariant
  <1> HIDE DEF x
  <1>6. good'[g] = x /\ (\A h \in Goods : h # g => good'[h] = good[h]) /\ good' \in [Goods -> {NoGood} \cup Good]
    BY <1>4, <1>5 DEF ShelfInv, ShelfTyped
  <1>7. /\ clerk' \in [Clerks -> Errands] /\ clerk'[c] = AtRest
        /\ \A d \in Clerks : (d # c => clerk'[d] = clerk[d]) /\ (clerk'[d] = clerk[d] \/ clerk'[d] = AtRest)
    BY <1>1, RestSet DEF ShelfInv
  <1>8. ShelfTyped'
    BY <1>1, <1>6, <1>7 DEF ShelfInv, ShelfTyped
  <1>9. \A h \in Goods : Sold(h) => h # g /\ good'[h] = good[h] /\ Sold(h)'
    BY <1>1, <1>6 DEF Sold, OnSale
  <1>10. RowsInv'
    BY <1>1, <1>3, <1>4, <1>6, <1>9 DEF ShelfInv, RowsInv
  <1>11. Grows
    BY <1>1, <1>4, <1>6 DEF Grows
  <1>12. \A k : Slugs(k)' = Slugs(k)
    BY <1>1, SameSlugs
  <1>13. ASSUME NEW d \in Clerks, clerk'[d] = clerk[d] PROVE Guarded(d)'
    <2>1. d # c
      BY <1>1, <1>7, <1>13, Resting
    <2>2. QED
      BY <1>1, <1>13, <2>1, SameGuarded
  <1>14. QED
    BY <1>1, <1>7, <1>8, <1>9, <1>10, <1>11, <1>12, <1>13, RowStep

LEMMA RemoveSound ==
  ASSUME ShelfInv, NEW c \in Clerks, Remove(c) PROVE ShelfInv'
  <1>1. /\ clerk[c].pc = "write" /\ clerk[c].op = "remove" /\ clerk' = [clerk EXCEPT ![c] = AtRest]
        /\ UNCHANGED <<open, good, taken, balked>>
    BY DEF Remove, Asks, In
  <1>2. Works(c)
    BY DEF ShelfInv, Known
  <1>3. PICK i \in Items : i = clerk[c].of /\ item[i].kind = "product" /\ item[i] # Nil
    BY <1>1, <1>2 DEF Works
  <1> DEFINE x == [item[i] EXCEPT !.state = "inactive"]
  <1>4. x \in Item /\ x.kind = item[i].kind /\ x.slug = item[i].slug
    BY <1>3 DEF ShelfInv, ShelfTyped, Item
  <1>5. item' = [item EXCEPT ![i] = x]
    BY <1>3 DEF Remove
  <1>6. overtaken' = (overtaken \cup Overturned(open, [Showing EXCEPT ![i] = FALSE])) \ {c}
    BY <1>3 DEF Remove
  <1>7. pulled' = pulled \cup {g \in {h \in Goods : good[h] # NoGood /\ good[h].of = i} :
                                 taken[g] # "no" \/ \E d \in Clerks : clerk[d].pc = "put" /\ clerk[d].of = g}
    BY <1>3 DEF Remove, TakenFrom, In
  <1> HIDE DEF x
  <1>8. /\ item'[i] = x /\ \A j \in Items : j # i => item'[j] = item[j]
        /\ item' \in [Items -> {Nil} \cup Item]
        /\ \A j \in Items : item'[j].kind = "drop" => item'[j].state \in {"DRAFT", "PUBLISHED", "ARCHIVED"}
        /\ \A j \in Items : (item'[j] = Nil <=> item[j] = Nil) /\ item'[j].kind = item[j].kind
        /\ \E k \in 0..MaxItems : \A j \in Items : item'[j] = Nil <=> j > k
        /\ \A k : Slugs(k)' = Slugs(k)
    BY <1>3, <1>4, <1>5, ItemChanges
  <1>9. /\ clerk' \in [Clerks -> Errands] /\ clerk'[c] = AtRest
        /\ \A d \in Clerks : (d # c => clerk'[d] = clerk[d]) /\ (clerk'[d] = clerk[d] \/ clerk'[d] = AtRest)
    BY <1>1, RestSet DEF ShelfInv
  <1>10. pulled \subseteq pulled' /\ pulled' \subseteq Goods /\ overtaken' \subseteq Clerks
    BY <1>6, <1>7 DEF ShelfInv, ShelfTyped, Overturned
  <1>11. ShelfTyped'
    BY <1>1, <1>8, <1>9, <1>10 DEF ShelfInv, ShelfTyped
  <1>12. ASSUME NEW g \in Goods, Sold(g), taken[g] # "no" \/ \E d \in Clerks : clerk[d].pc = "put" /\ clerk[d].of = g PROVE Sold(g)'
    <2>1. good[g] # NoGood /\ good[g].of \in Items
      BY <1>12 DEF Sold, ShelfInv, ShelfTyped, Good
    <2>2. CASE good[g].of = i
      BY <1>1, <1>7, <1>12, <2>1, <2>2 DEF Sold
    <2>3. CASE good[g].of # i
      BY <1>1, <1>8, <1>10, <1>12, <2>1, <2>3 DEF Sold, OnSale
    <2>4. QED
      BY <2>2, <2>3
  <1>13. RowsInv'
    <2>1. ASSUME NEW g \in Goods, good'[g] # NoGood PROVE item'[good'[g].of].kind = "product"
      BY <1>1, <1>8, <2>1 DEF ShelfInv, ShelfTyped, RowsInv, Good
    <2>2. ASSUME NEW g \in Goods, taken'[g] # "no" PROVE Sold(g)'
      BY <1>1, <1>12, <2>2 DEF ShelfInv, RowsInv
    <2>3. QED
      BY <1>8, <2>1, <2>2 DEF RowsInv
  <1>14. Grows
    BY <1>1, <1>8 DEF Grows
  <1>15. ASSUME NEW d \in Clerks, clerk'[d] = clerk[d] PROVE Guarded(d)'
    <2>1. d # c
      BY <1>1, <1>9, <1>15, Resting
    <2>2. QED
      BY <1>1, <1>6, <1>8, <1>15, <2>1, HiddenGuarded
  <1>16. QED
    BY <1>1, <1>8, <1>9, <1>11, <1>12, <1>13, <1>14, <1>15, RowStep

LEMMA RemoveVariantSound ==
  ASSUME ShelfInv, NEW c \in Clerks, RemoveVariant(c) PROVE ShelfInv'
  <1>1. /\ clerk[c].pc = "write" /\ clerk[c].op = "unvariant" /\ clerk' = [clerk EXCEPT ![c] = AtRest] /\ overtaken' = overtaken \ {c}
        /\ UNCHANGED <<open, item, taken, balked>>
    BY DEF RemoveVariant, Asks, In, Quit
  <1>2. Works(c)
    BY DEF ShelfInv, Known
  <1>3. PICK g \in Goods : g = clerk[c].of /\ good[g] # NoGood
    BY <1>1, <1>2 DEF Works
  <1> DEFINE x == [good[g] EXCEPT !.state = "inactive"]
  <1>4. x \in Good /\ x # NoGood /\ x.of = good[g].of
    BY <1>3 DEF ShelfInv, ShelfTyped, Good, NoGood
  <1>5. good' = [good EXCEPT ![g] = x]
    BY <1>3 DEF RemoveVariant
  <1>6. pulled' = pulled \cup {h \in {g} : taken[h] # "no" \/ \E d \in Clerks : clerk[d].pc = "put" /\ clerk[d].of = h}
    BY <1>3 DEF RemoveVariant, TakenFrom, In
  <1> HIDE DEF x
  <1>7. good'[g] = x /\ (\A h \in Goods : h # g => good'[h] = good[h]) /\ good' \in [Goods -> {NoGood} \cup Good]
    BY <1>4, <1>5 DEF ShelfInv, ShelfTyped
  <1>8. /\ clerk' \in [Clerks -> Errands] /\ clerk'[c] = AtRest
        /\ \A d \in Clerks : (d # c => clerk'[d] = clerk[d]) /\ (clerk'[d] = clerk[d] \/ clerk'[d] = AtRest)
    BY <1>1, RestSet DEF ShelfInv
  <1>9. ShelfTyped'
    BY <1>1, <1>6, <1>7, <1>8 DEF ShelfInv, ShelfTyped
  <1>10. ASSUME NEW h \in Goods, Sold(h), taken[h] # "no" \/ \E d \in Clerks : clerk[d].pc = "put" /\ clerk[d].of = h PROVE Sold(h)'
    <2>1. CASE h = g
      BY <1>4, <1>6, <1>7, <1>10, <2>1 DEF Sold
    <2>2. CASE h # g
      BY <1>1, <1>6, <1>7, <1>10, <2>2 DEF Sold, OnSale
    <2>3. QED
      BY <2>1, <2>2
  <1>11. RowsInv'
    <2>1. ASSUME NEW h \in Goods, good'[h] # NoGood PROVE item'[good'[h].of].kind = "product"
      BY <1>1, <1>3, <1>4, <1>7, <2>1 DEF ShelfInv, RowsInv
    <2>2. ASSUME NEW h \in Goods, taken'[h] # "no" PROVE Sold(h)'
      BY <1>1, <1>10, <2>2 DEF ShelfInv, RowsInv
    <2>3. QED
      BY <1>1, <2>1, <2>2 DEF ShelfInv, RowsInv
  <1>12. Grows
    BY <1>1, <1>4, <1>7 DEF Grows
  <1>13. \A k : Slugs(k)' = Slugs(k)
    BY <1>1, SameSlugs
  <1>14. ASSUME NEW d \in Clerks, clerk'[d] = clerk[d] PROVE Guarded(d)'
    <2>1. d # c
      BY <1>1, <1>8, <1>14, Resting
    <2>2. QED
      BY <1>1, <1>14, <2>1, SameGuarded
  <1>15. QED
    BY <1>1, <1>8, <1>9, <1>10, <1>11, <1>12, <1>13, <1>14, RowStep

\* Nothing that was public stops to be.
LEMMA ShownGuarded ==
  ASSUME ShelfInv, NEW d \in Clerks, clerk'[d] = clerk[d], UNCHANGED open,
         d \notin overtaken' => d \notin overtaken, \A j \in Items : Public(j) => Public(j)'
  PROVE  Guarded(d)'
  <1>1. Guarded(d)
    BY DEF ShelfInv, Known
  <1>2. ASSUME clerk[d].pc = "show", Public(clerk[d].of) PROVE Public(clerk[d].of)'
    <2>1. PICK j \in Items : j = clerk[d].of
      BY <1>2, ClerkTyped DEF ShelfInv, Visit
    <2>2. Public(j) /\ clerk'[d].of = j
      BY <1>2, <2>1
    <2>3. Public(j)'
      BY <2>2
    <2>4. QED
      BY <2>1, <2>2, <2>3 DEF Public
  <1>3. QED
    BY <1>1, <1>2, GuardedStays

\* A drop changes, and with it no variant.
LEMMA DropChanges ==
  ASSUME ShelfInv, NEW i \in Items, item[i].kind = "drop", NEW x \in Item, x.kind = "drop", x.slug = item[i].slug,
         item' = [item EXCEPT ![i] = x], x.state \in {"DRAFT", "PUBLISHED", "ARCHIVED"}, UNCHANGED <<open, good, taken, balked, pulled>>,
         clerk' \in [Clerks -> Errands], \A d \in Clerks : clerk'[d] = clerk[d] \/ clerk'[d] = AtRest,
         overtaken' \subseteq Clerks, \A d \in Clerks : clerk'[d] = clerk[d] => Guarded(d)'
  PROVE  ShelfInv'
  <1>1. item[i] # Nil
    BY KindsKnown DEF Kinds
  <1>2. /\ item'[i] = x /\ \A j \in Items : j # i => item'[j] = item[j]
        /\ item' \in [Items -> {Nil} \cup Item]
        /\ \A j \in Items : item'[j].kind = "drop" => item'[j].state \in {"DRAFT", "PUBLISHED", "ARCHIVED"}
        /\ \A j \in Items : (item'[j] = Nil <=> item[j] = Nil) /\ item'[j].kind = item[j].kind
        /\ \E k \in 0..MaxItems : \A j \in Items : item'[j] = Nil <=> j > k
        /\ \A k : Slugs(k)' = Slugs(k)
    BY <1>1, ItemChanges
  <1>3. ShelfTyped'
    BY <1>2 DEF ShelfInv, ShelfTyped
  <1>4. \A g \in Goods : good[g] # NoGood => good[g].of \in Items /\ good[g].of # i /\ item[good[g].of].kind = "product"
    BY DEF ShelfInv, ShelfTyped, RowsInv, Good
  <1>5. \A g \in Goods : Sold(g) => Sold(g)'
    BY <1>2, <1>4 DEF Sold, OnSale
  <1>6. RowsInv'
    <2>1. \A g \in Goods : good'[g] # NoGood => item'[good'[g].of].kind = "product"
      BY <1>2, <1>4
    <2>2. \A g \in Goods : taken'[g] # "no" => Sold(g)'
      BY <1>5 DEF ShelfInv, RowsInv
    <2>3. QED
      BY <1>2, <2>1, <2>2 DEF RowsInv
  <1>7. Grows
    BY <1>2 DEF Grows
  <1>8. QED
    BY <1>2, <1>3, <1>5, <1>6, <1>7, RowStep

LEMMA UpdateVisibilitySound ==
  ASSUME ShelfInv, NEW c \in Clerks, NEW private \in BOOLEAN, UpdateVisibility(c, private) PROVE ShelfInv'
  <1>1. /\ clerk[c].pc = "write" /\ clerk[c].op = "visibility" /\ clerk' = [clerk EXCEPT ![c] = AtRest]
        /\ UNCHANGED <<open, good, taken, balked, pulled>>
    BY DEF UpdateVisibility, Asks, In
  <1>2. Works(c)
    BY DEF ShelfInv, Known
  <1>3. PICK i \in Items : i = clerk[c].of /\ item[i].kind = "drop" /\ item[i] # Nil
    BY <1>1, <1>2 DEF Works
  <1> DEFINE x == [item[i] EXCEPT !.private = private]
  <1>4. x \in Item /\ x.kind = item[i].kind /\ x.slug = item[i].slug /\ x.state = item[i].state /\ x.private = private
    BY <1>3 DEF ShelfInv, ShelfTyped, Item
  <1>5. item' = [item EXCEPT ![i] = x]
    BY <1>3 DEF UpdateVisibility
  <1>6. overtaken' = (IF private THEN overtaken \cup Overturned(open, [Showing EXCEPT ![i] = FALSE]) ELSE overtaken) \ {c}
    BY <1>3 DEF UpdateVisibility
  <1> HIDE DEF x
  <1>7. item'[i] = x /\ \A j \in Items : j # i => item'[j] = item[j]
    BY <1>5 DEF ShelfInv, ShelfTyped
  <1>8. /\ clerk' \in [Clerks -> Errands] /\ clerk'[c] = AtRest
        /\ \A d \in Clerks : (d # c => clerk'[d] = clerk[d]) /\ (clerk'[d] = clerk[d] \/ clerk'[d] = AtRest)
    BY <1>1, RestSet DEF ShelfInv
  <1>9. overtaken' \subseteq Clerks
    BY <1>6 DEF ShelfInv, ShelfTyped, Overturned
  <1>10. ASSUME NEW d \in Clerks, clerk'[d] = clerk[d] PROVE Guarded(d)'
    <2>1. d # c
      BY <1>1, <1>8, <1>10, Resting
    <2>2. CASE private
      BY <1>1, <1>6, <1>7, <1>10, <2>1, <2>2, HiddenGuarded
    <2>3. CASE ~private
      <3>1. \A j \in Items : Public(j) => Public(j)'
        BY <1>4, <1>7, <2>3 DEF Public
      <3>2. QED
        BY <1>1, <1>6, <1>10, <2>1, <2>3, <3>1, ShownGuarded
    <2>4. QED
      BY <2>2, <2>3
  <1>11. x.state \in {"DRAFT", "PUBLISHED", "ARCHIVED"}
    BY <1>3, <1>4 DEF ShelfInv, ShelfTyped
  <1>12. QED
    BY <1>1, <1>3, <1>4, <1>5, <1>8, <1>9, <1>10, <1>11, DropChanges

LEMMA MoveDropSound ==
  ASSUME ShelfInv, NEW i \in Items, MoveDrop(i) PROVE ShelfInv'
  <1>1. item[i].kind = "drop" /\ item[i].state # "ARCHIVED" /\ UNCHANGED <<open, good, taken, clerk, balked, pulled>>
    BY DEF MoveDrop, IsA
  <1>2. PICK to \in {"PUBLISHED", "ARCHIVED"} \ {item[i].state} :
          item' = [item EXCEPT ![i].state = to] /\ IF to = "ARCHIVED" THEN Hide(i) ELSE UNCHANGED overtaken
    BY DEF MoveDrop
  <1>3. item[i] \in Item
    BY <1>1, KindsKnown DEF ShelfInv, ShelfTyped, Kinds
  <1> DEFINE x == [item[i] EXCEPT !.state = to]
  <1>4. x \in Item /\ x.kind = "drop" /\ x.slug = item[i].slug /\ x.state = to
    BY <1>1, <1>2, <1>3 DEF Item
  <1>5. item' = [item EXCEPT ![i] = x]
    BY <1>2
  <1> HIDE DEF x
  <1>6. item'[i] = x /\ \A j \in Items : j # i => item'[j] = item[j]
    BY <1>5 DEF ShelfInv, ShelfTyped
  <1>7. clerk' \in [Clerks -> Errands] /\ \A d \in Clerks : clerk'[d] = clerk[d]
    BY <1>1 DEF ShelfInv, ShelfTyped
  <1>8. overtaken' \subseteq Clerks
    BY <1>2 DEF ShelfInv, ShelfTyped, Overturned, Hide
  <1>9. ASSUME NEW d \in Clerks PROVE Guarded(d)'
    <2>1. CASE to = "ARCHIVED"
      BY <1>1, <1>2, <1>6, <1>7, <1>9, <2>1, HiddenGuarded DEF Hide
    <2>2. CASE to # "ARCHIVED"
      <3>1. item[i].state = "DRAFT"
        BY <1>1, <1>2, <2>2 DEF ShelfInv, ShelfTyped
      <3>2. ~Public(i)
        BY <3>1 DEF Public
      <3>3. \A j \in Items : Public(j) => Public(j)'
        BY <1>6, <3>2 DEF Public
      <3>4. QED
        BY <1>1, <1>2, <1>7, <1>9, <2>2, <3>3, ShownGuarded
    <2>3. QED
      BY <2>1, <2>2
  <1>10. QED
    BY <1>1, <1>2, <1>4, <1>5, <1>7, <1>8, <1>9, DropChanges

\* The brand opens or closes: who relied on it has been overtaken.
LEMMA OpenSound ==
  ASSUME ShelfInv, NEW b \in BOOLEAN, open' = b, UNCHANGED <<item, good, taken, balked, pulled>>,
         clerk' \in [Clerks -> Errands], \A d \in Clerks : clerk'[d] = clerk[d] \/ clerk'[d] = AtRest,
         overtaken' \subseteq Clerks,
         \A d \in Clerks : clerk'[d] = clerk[d] /\ d \notin overtaken' => clerk[d] = AtRest \/ d \notin overtaken \cup Overturned(b, Showing)
  PROVE  ShelfInv'
  <1>1. ShelfTyped'
    BY DEF ShelfInv, ShelfTyped
  <1>2. RowsInv' /\ \A g \in Goods : Sold(g) => Sold(g)'
    BY DEF ShelfInv, RowsInv, Sold, OnSale
  <1>3. Grows /\ \A k : Slugs(k)' = Slugs(k)
    BY SameSlugs DEF Grows
  <1>4. ASSUME NEW d \in Clerks, clerk'[d] = clerk[d] PROVE Guarded(d)'
    <2>1. CASE clerk[d] = AtRest
      BY <1>4, <2>1, Resting DEF Guarded
    <2>2. CASE d \notin overtaken \cup Overturned(b, Showing)
      <3>1. Guarded(d)
        BY DEF ShelfInv, Known
      <3>2. clerk[d].pc \in {"slug", "create", "write"} => b
        BY <2>2 DEF Overturned
      <3>3. clerk[d].pc = "show" => IF clerk[d].owner THEN b ELSE Showing[clerk[d].of]
        BY <2>2 DEF Overturned, In
      <3>4. QED
        BY <1>4, <2>2, <3>1, <3>2, <3>3 DEF Guarded, Public
    <2>3. QED
      BY <1>4, <2>1, <2>2 DEF Guarded
  <1>5. QED
    BY <1>1, <1>2, <1>3, <1>4, RowStep

LEMMA CloseBrandSound ==
  ASSUME ShelfInv, NEW c \in Clerks, CloseBrand(c) PROVE ShelfInv'
  <1>1. /\ open' = FALSE /\ UNCHANGED <<item, good, taken, balked, pulled>> /\ clerk' = [clerk EXCEPT ![c] = AtRest]
        /\ overtaken' = (overtaken \cup Overturned(FALSE, Showing)) \ {c}
    BY DEF CloseBrand
  <1>2. /\ clerk' \in [Clerks -> Errands] /\ clerk'[c] = AtRest
        /\ \A d \in Clerks : (d # c => clerk'[d] = clerk[d]) /\ (clerk'[d] = clerk[d] \/ clerk'[d] = AtRest)
    BY <1>1, RestSet DEF ShelfInv
  <1>3. overtaken' \subseteq Clerks
    BY <1>1 DEF ShelfInv, ShelfTyped, Overturned
  <1>4. ASSUME NEW d \in Clerks, clerk'[d] = clerk[d], d \notin overtaken'
        PROVE  clerk[d] = AtRest \/ d \notin overtaken \cup Overturned(FALSE, Showing)
    BY <1>1, <1>2, <1>4
  <1>5. QED
    BY <1>1, <1>2, <1>3, <1>4, OpenSound

LEMMA AdministerSound ==
  ASSUME ShelfInv, Administer PROVE ShelfInv'
  <1>1. PICK b \in BOOLEAN : SetOpen(b)
    BY DEF Administer
  <1>2. open' = b /\ overtaken' = overtaken \cup Overturned(b, Showing) /\ UNCHANGED <<item, good, taken, clerk, balked, pulled>>
    BY <1>1 DEF SetOpen, Administer
  <1>3. clerk' \in [Clerks -> Errands] /\ \A d \in Clerks : clerk'[d] = clerk[d]
    BY <1>2 DEF ShelfInv, ShelfTyped
  <1>4. overtaken' \subseteq Clerks
    BY <1>2 DEF ShelfInv, ShelfTyped, Overturned
  <1>5. QED
    BY <1>2, <1>3, <1>4, OpenSound

---------------------------------------------------------------------------
(* Carts and orders                                                        *)
LEMMA PutSound ==
  ASSUME ShelfInv, NEW c \in Clerks, Put(c) PROVE ShelfInv'
  <1>1. /\ clerk[c].pc = "put" /\ clerk' = [clerk EXCEPT ![c] = AtRest] /\ overtaken' = overtaken \ {c}
        /\ UNCHANGED <<balked, pulled, open, item, good>>
        /\ taken' = [taken EXCEPT ![clerk[c].of] = IF @ = "no" THEN "cart" ELSE @]
    BY DEF Put, In, QuitQuietly, Quit
  <1>2. PICK g \in Goods : g = clerk[c].of /\ Sold(g)
    BY <1>1 DEF ShelfInv, Known, Puts
  <1>3. taken' \in [Goods -> {"no", "cart", "order"}] /\ \A h \in Goods : h # g => taken'[h] = taken[h]
    BY <1>1, <1>2 DEF ShelfInv, ShelfTyped
  <1>4. /\ clerk' \in [Clerks -> Errands] /\ clerk'[c] = AtRest
        /\ \A d \in Clerks : (d # c => clerk'[d] = clerk[d]) /\ (clerk'[d] = clerk[d] \/ clerk'[d] = AtRest)
    BY <1>1, RestSet DEF ShelfInv
  <1>5. ShelfTyped'
    BY <1>1, <1>3, <1>4 DEF ShelfInv, ShelfTyped
  <1>6. \A h \in Goods : Sold(h) => Sold(h)'
    BY <1>1 DEF Sold, OnSale
  <1>7. RowsInv'
    BY <1>1, <1>2, <1>3, <1>6 DEF ShelfInv, RowsInv
  <1>8. Grows /\ \A k : Slugs(k)' = Slugs(k)
    BY <1>1, SameSlugs DEF Grows
  <1>9. ASSUME NEW d \in Clerks, clerk'[d] = clerk[d] PROVE Guarded(d)'
    <2>1. d # c
      BY <1>1, <1>4, <1>9, Resting
    <2>2. QED
      BY <1>1, <1>9, <2>1, SameGuarded
  <1>10. QED
    BY <1>1, <1>4, <1>5, <1>6, <1>7, <1>8, <1>9, RowStep

LEMMA OrderSound ==
  ASSUME ShelfInv, NEW g \in Goods, Order(g) PROVE ShelfInv'
  <1>1. taken[g] = "cart" /\ taken' = [taken EXCEPT ![g] = "order"] /\ UNCHANGED <<open, item, good, clerk, overtaken, balked, pulled>>
    BY DEF Order, shelfHistory
  <1>2. taken' \in [Goods -> {"no", "cart", "order"}] /\ \A h \in Goods : taken'[h] # "no" => taken[h] # "no"
    BY <1>1 DEF ShelfInv, ShelfTyped
  <1>3. ShelfTyped'
    BY <1>1, <1>2 DEF ShelfInv, ShelfTyped
  <1>4. \A h \in Goods : Sold(h) => Sold(h)'
    BY <1>1 DEF Sold, OnSale
  <1>5. RowsInv'
    BY <1>1, <1>2, <1>4 DEF ShelfInv, RowsInv
  <1>6. Grows /\ \A k : Slugs(k)' = Slugs(k)
    BY <1>1, SameSlugs DEF Grows
  <1>7. \A d \in Clerks : clerk'[d] = clerk[d] /\ Guarded(d)'
    BY <1>1, SameGuarded
  <1>8. QED
    BY <1>1, <1>3, <1>4, <1>5, <1>6, <1>7, RowStep

---------------------------------------------------------------------------
(* Creation                                                                *)
LEMMA CreateBeginSound ==
  ASSUME ShelfInv, NEW c \in Clerks, NEW kind \in Kinds, CreateBegin(c, kind) PROVE ShelfInv'
  <1> DEFINE R == {d \in Clerks : clerk[d] # AtRest /\ clerk[d].op = "create" /\ clerk[d].of = kind}
             met == [d \in R |-> [clerk[d] EXCEPT !.rival = TRUE]]
  <1>1. PICK some \in BOOLEAN : some = (R # {})
    OBVIOUS
  <1> DEFINE q == [pc |-> "door", op |-> "create", of |-> kind, slug |-> 0, rival |-> some]
  <1>2. /\ clerk[c] = AtRest /\ UNCHANGED <<open, item, good, taken, overtaken, balked, pulled>>
        /\ clerk' = [d \in Clerks |-> IF d = c THEN q ELSE IF d \in R THEN met[d] ELSE clerk[d]]
    BY <1>1 DEF CreateBegin, SameShelf, shelfRows, shelfHistory
  <1>3. q \in Creation /\ q.pc = "door" /\ q.op = "create" /\ q.of = kind /\ q.rival = some
    BY ShelfConstants DEF ShelfConstants, Creation
  <1>4. \A d \in R : clerk[d] \in Creation
    BY ClerkTyped DEF ShelfInv
  <1>5. ASSUME NEW d \in R
        PROVE  /\ met[d] \in Creation /\ met[d].pc = clerk[d].pc /\ met[d].op = clerk[d].op /\ met[d].of = clerk[d].of /\ met[d].rival
    BY <1>4 DEF Creation
  <1>6. c \notin R
    BY <1>2
  <1>7. R \subseteq Clerks /\ \A d \in Clerks : d \in R <=> clerk[d] # AtRest /\ clerk[d].op = "create" /\ clerk[d].of = kind
    OBVIOUS
  <1> HIDE DEF q, met, R
  <1>8. /\ clerk'[c] = q /\ \A d \in R : clerk'[d] = met[d]
        /\ \A d \in Clerks : d # c /\ d \notin R => clerk'[d] = clerk[d]
    BY <1>2, <1>6, <1>7
  <1>9. clerk' \in [Clerks -> Errands]
    <2>1. \A d \in Clerks : (IF d = c THEN q ELSE IF d \in R THEN met[d] ELSE clerk[d]) \in Errands
      BY <1>3, <1>5 DEF Errands, ShelfInv, ShelfTyped
    <2>2. QED
      BY <1>2, <2>1
  <1>10. ShelfTyped' /\ RowsInv'
    BY <1>2, <1>9 DEF ShelfInv, ShelfTyped, RowsInv, Sold, OnSale
  <1>11. ASSUME NEW d \in Clerks, d # c, NEW k, Creates(d, k)' PROVE Creates(d, k)
    <2>1. CASE d \in R
      BY <1>5, <1>8, <1>11, <2>1 DEF Creates
    <2>2. CASE d \notin R
      BY <1>8, <1>11, <2>2 DEF Creates
    <2>3. QED
      BY <2>1, <2>2
  <1>12. ASSUME NEW d \in Clerks, d \notin R PROVE ~Creates(d, kind)
    BY <1>7, <1>12, Resting DEF Creates
  <1>13. Known(c)'
    <2>1. ASSUME ~some, NEW d \in Clerks, d # c PROVE ~Creates(d, kind)'
      BY <1>1, <1>11, <1>12, <2>1
    <2>2. Named(c)'
      BY <1>3, <1>8, <2>1 DEF Named, Creates
    <2>3. QED
      BY <1>3, <1>8, <2>2 DEF Known, Works, Puts, Guarded
  <1>14. ASSUME NEW d \in R PROVE Known(d)'
    <2>1. Guarded(d) /\ clerk[d].pc \in {"door", "slug", "create"} /\ clerk[d].op = "create"
      BY <1>4, <1>7 DEF ShelfInv, Known, Creation
    <2>2. clerk'[d].pc = clerk[d].pc /\ clerk'[d].op = "create" /\ clerk'[d].rival
      BY <1>5, <1>8, <2>1
    <2>3. QED
      BY <1>2, <2>1, <2>2 DEF Known, Works, Puts, Named, Guarded
  <1>15. ASSUME NEW d \in Clerks, d # c, d \notin R PROVE Known(d)'
    <2>1. clerk'[d] = clerk[d] /\ Works(d) /\ Puts(d) /\ Named(d) /\ Guarded(d)
      BY <1>8, <1>15 DEF ShelfInv, Known
    <2>2. Works(d)'
      BY <1>2, <2>1, WorksStays DEF Grows
    <2>3. Puts(d)'
      BY <1>2, <2>1, PutsStays DEF Sold, OnSale
    <2>4. Guarded(d)'
      BY <1>2, <2>1, SameGuarded
    <2>5. Named(d)'
      <3>1. CASE clerk[d].pc \in {"door", "slug", "create"} /\ clerk[d].op = "create"
        <4>1. clerk[d].of # kind
          BY <1>12, <1>15, <3>1 DEF Creates
        <4>2. ~Creates(c, clerk[d].of)'
          BY <1>3, <1>8, <2>1, <4>1 DEF Creates
        <4>3. ASSUME NEW e \in Clerks, e # d, Creates(e, clerk[d].of)' PROVE Creates(e, clerk[d].of)
          <5>1. e # c
            BY <4>2, <4>3
          <5>2. PICK k : k = clerk[d].of
            OBVIOUS
          <5>3. Creates(e, k)'
            BY <2>1, <4>3, <5>2 DEF Creates
          <5>4. QED
            BY <1>11, <5>1, <5>2, <5>3
        <4>4. \A k : Slugs(k)' = Slugs(k)
          BY <1>2, SameSlugs
        <4>5. QED
          BY <2>1, <4>3, <4>4, NamedStays
      <3>2. CASE ~(clerk[d].pc \in {"door", "slug", "create"} /\ clerk[d].op = "create")
        BY <2>1, <3>2 DEF Named
      <3>3. QED
        BY <3>1, <3>2
    <2>6. QED
      BY <2>2, <2>3, <2>4, <2>5 DEF Known
  <1>16. QED
    BY <1>2, <1>10, <1>13, <1>14, <1>15 DEF ShelfInv

\* The name is taken: another creation was under way.
LEMMA CreateRefused ==
  ASSUME ShelfInv, NEW c \in Clerks, CreateItem(c), clerk[c].slug \in Slugs(clerk[c].of) PROVE ShelfInv'
  <1>1. /\ clerk[c].pc = "create" /\ balked' = (balked \/ ~clerk[c].rival) /\ UNCHANGED item
        /\ Quit(c) /\ UNCHANGED <<open, good, taken, pulled>>
    BY DEF CreateItem, In
  <1>2. clerk[c] \in Creation /\ Named(c) /\ balked = FALSE
    BY <1>1, ClerkTyped DEF ShelfInv, Known
  <1>3. clerk[c].op = "create" /\ clerk[c].rival \in BOOLEAN
    BY <1>2 DEF Creation
  <1>4. clerk[c].rival
    BY <1>1, <1>2, <1>3 DEF Named
  <1>5. UNCHANGED balked
    BY <1>1, <1>2, <1>4
  <1>6. QED
    BY <1>1, <1>5, QuitSound DEF shelfRows

\* The name is free: the next row is the new one's.
LEMMA CreateDone ==
  ASSUME ShelfInv, NEW c \in Clerks, CreateItem(c), clerk[c].slug \notin Slugs(clerk[c].of) PROVE ShelfInv'
  <1> DEFINE free == {i \in Items : item[i] = Nil}
  <1>1. /\ clerk[c].pc = "create" /\ free # {} /\ UNCHANGED <<open, good, taken, pulled, balked>>
        /\ clerk' = [clerk EXCEPT ![c] = AtRest] /\ overtaken' = overtaken \ {c}
    BY DEF CreateItem, In, Quit
  <1>2. clerk[c] \in Creation
    BY <1>1, ClerkTyped DEF ShelfInv
  <1>3. PICK kind \in Kinds, s \in 0..MaxSuffix : clerk[c].of = kind /\ clerk[c].slug = s /\ clerk[c].op = "create"
    BY <1>2 DEF Creation
  <1>4. PICK state \in {"DRAFT", "active"} : state = IF kind = "drop" THEN "DRAFT" ELSE "active"
    OBVIOUS
  <1> DEFINE x == [kind |-> kind, slug |-> s, private |-> FALSE, state |-> state]
  <1>5. x \in Item /\ x.kind = kind /\ x.state = state /\ x # Nil
    <2>1. x \in Item /\ x.kind = kind /\ x.state = state
      BY DEF Item
    <2> HIDE DEF x
    <2>2. QED
      BY <2>1 DEF Nil, Kinds
  <1>6. PICK k \in 0..MaxItems : \A i \in Items : item[i] = Nil <=> i > k
    BY DEF ShelfInv, RowsInv
  <1>7. free = (k + 1)..MaxItems /\ k < MaxItems /\ k + 1 \in Items
    BY <1>1, <1>6, ShelfConstants DEF Items, ShelfConstants
  <1>8. MaxItems + 1 - Cardinality(free) = k + 1
    <2>1. k + 1 \in Int /\ MaxItems \in Int /\ k + 1 <= MaxItems
      BY <1>7, ShelfConstants DEF ShelfConstants
    <2>2. Cardinality((k + 1)..MaxItems) = MaxItems - (k + 1) + 1
      BY <2>1, FS_Interval
    <2>3. Cardinality(free) = Cardinality((k + 1)..MaxItems)
      BY <1>7
    <2> HIDE DEF free
    <2>4. QED
      BY <2>1, <2>2, <2>3
  <1>9. item' = [item EXCEPT ![k + 1] = x]
    BY <1>3, <1>4, <1>8 DEF CreateItem
  <1> DEFINE n == k + 1
  <1>10. n \in Items /\ item[n] = Nil /\ item' = [item EXCEPT ![n] = x]
    BY <1>6, <1>7, <1>9 DEF Items
  <1>11. \A i \in Items : i > n <=> i > k /\ i # n
    BY <1>6, ShelfConstants DEF Items, ShelfConstants
  <1>12. n \in 0..MaxItems
    BY <1>10 DEF Items
  <1> HIDE DEF x, free, n
  <1>13. item'[n] = x /\ (\A i \in Items : i # n => item'[i] = item[i]) /\ item' \in [Items -> {Nil} \cup Item]
    BY <1>5, <1>10 DEF ShelfInv, ShelfTyped
  <1>14. /\ clerk' \in [Clerks -> Errands] /\ clerk'[c] = AtRest
         /\ \A d \in Clerks : (d # c => clerk'[d] = clerk[d]) /\ (clerk'[d] = clerk[d] \/ clerk'[d] = AtRest)
    BY <1>1, RestSet DEF ShelfInv
  <1>15. ShelfTyped'
    <2>1. \A i \in Items : item'[i].kind = "drop" => item'[i].state \in {"DRAFT", "PUBLISHED", "ARCHIVED"}
      BY <1>4, <1>5, <1>13 DEF ShelfInv, ShelfTyped
    <2>2. QED
      BY <1>1, <1>13, <1>14, <2>1 DEF ShelfInv, ShelfTyped
  <1>16. \A g \in Goods : good[g] # NoGood => good[g].of \in Items /\ good[g].of # n /\ item[good[g].of].kind = "product"
    BY <1>10, KindsKnown DEF ShelfInv, ShelfTyped, RowsInv, Good, Kinds
  <1>17. \A g \in Goods : Sold(g) => Sold(g)'
    BY <1>1, <1>13, <1>16 DEF Sold, OnSale
  <1>18. RowsInv'
    <2>1. \A i \in Items : item'[i] = Nil <=> i > n
      BY <1>5, <1>6, <1>11, <1>13
    <2>2. \A g \in Goods : good'[g] # NoGood => item'[good'[g].of].kind = "product"
      BY <1>1, <1>13, <1>16
    <2>3. \A g \in Goods : taken'[g] # "no" => Sold(g)'
      BY <1>1, <1>17 DEF ShelfInv, RowsInv
    <2>4. QED
      BY <1>12, <2>1, <2>2, <2>3 DEF RowsInv
  <1>19. Grows
    BY <1>1, <1>10, <1>13 DEF Grows
  <1>20. ASSUME NEW l \in Kinds, l # kind PROVE Slugs(l)' = Slugs(l)
    <2>1. item[n].kind # l /\ item'[n].kind # l
      BY <1>5, <1>10, <1>13, <1>20 DEF Nil, Kinds
    <2>2. \A i \in Items : (item'[i].kind = l <=> item[i].kind = l) /\ (item[i].kind = l => item'[i].slug = item[i].slug)
      BY <1>13, <2>1
    <2>3. QED
      BY <2>2 DEF Slugs, IsA
  <1>21. Creates(c, kind)
    BY <1>1, <1>3 DEF Creates
  <1>22. ASSUME NEW d \in Clerks, d # c PROVE Known(d)'
    <2>1. clerk'[d] = clerk[d] /\ Works(d) /\ Puts(d) /\ Named(d) /\ Guarded(d)
      BY <1>14, <1>22 DEF ShelfInv, Known
    <2>2. Works(d)'
      BY <1>19, <2>1, WorksStays
    <2>3. Puts(d)'
      BY <1>17, <2>1, PutsStays
    <2>4. Named(d)'
      <3>1. CASE clerk[d].pc \in {"door", "slug", "create"} /\ clerk[d].op = "create" /\ ~clerk[d].rival
        <4>1. PICK l \in Kinds : l = clerk[d].of
          <5>1. clerk[d] \in Creation
            BY <3>1, ClerkTyped, Resting DEF ShelfInv
          <5>2. QED
            BY <5>1 DEF Creation
        <4>2. l # kind
          BY <1>21, <1>22, <2>1, <3>1, <4>1 DEF Named
        <4>3. Slugs(l)' = Slugs(l) /\ l = clerk'[d].of
          BY <1>20, <2>1, <4>1, <4>2
        <4>4. ASSUME NEW e \in Clerks, e # d PROVE ~Creates(e, l)'
          <5>1. ~Creates(e, l)
            BY <2>1, <3>1, <4>1, <4>4 DEF Named
          <5>2. QED
            BY <1>14, <5>1, Resting DEF Creates
        <4>5. clerk[d].pc = "create" => clerk[d].slug \notin Slugs(l)'
          BY <2>1, <3>1, <4>1, <4>3 DEF Named
        <4>6. \A e \in Clerks : e # d => ~Creates(e, clerk[d].of)'
          BY <2>1, <4>1, <4>4 DEF Creates
        <4>7. clerk[d].pc = "create" => clerk[d].slug \notin Slugs(clerk[d].of)'
          BY <2>1, <4>1, <4>5 DEF Slugs, IsA
        <4>8. QED
          BY <2>1, <4>6, <4>7 DEF Named, Creates, Slugs, IsA
      <3>2. CASE ~(clerk[d].pc \in {"door", "slug", "create"} /\ clerk[d].op = "create" /\ ~clerk[d].rival)
        BY <2>1, <3>2 DEF Named
      <3>3. QED
        BY <3>1, <3>2
    <2>5. Guarded(d)'
      <3>1. ASSUME clerk[d].pc = "show", Public(clerk[d].of) PROVE Public(clerk[d].of)'
        <4>1. PICK j \in Items : j = clerk[d].of /\ item[j] # Nil
          BY <2>1, <3>1, ClerkTyped DEF ShelfInv, Visit, Works
        <4>2. item'[j] = item[j] /\ clerk'[d].of = j
          BY <1>10, <1>13, <2>1, <4>1
        <4>3. QED
          BY <3>1, <4>1, <4>2 DEF Public
      <3>2. QED
        BY <1>1, <1>22, <2>1, <3>1, GuardedStays
    <2>6. QED
      BY <2>2, <2>3, <2>4, <2>5 DEF Known
  <1>23. Known(c)'
    BY <1>14, RestKnown
  <1>24. QED
    BY <1>1, <1>15, <1>18, <1>22, <1>23 DEF ShelfInv

---------------------------------------------------------------------------
LEMMA ShelfStart == ShelfInit => ShelfInv
  <1> SUFFICES ASSUME ShelfInit PROVE ShelfInv
    OBVIOUS
  <1>1. ShelfTyped
    <2>1. \A i \in Items : item[i].kind # "drop"
      BY DEF ShelfInit, Nil
    <2>2. QED
      BY <2>1, Resting DEF ShelfInit, ShelfTyped
  <1>2. RowsInv
    <2>1. 0 \in 0..MaxItems /\ \A i \in Items : item[i] = Nil /\ i > 0
      BY ShelfConstants DEF ShelfInit, ShelfConstants, Items
    <2>2. \A i \in Items : item[i] = Nil <=> i > 0
      BY <2>1
    <2>3. QED
      BY <2>1, <2>2 DEF ShelfInit, RowsInv
  <1>3. ASSUME NEW c \in Clerks PROVE Known(c)
    BY Resting DEF ShelfInit, Known, Works, Puts, Named, Guarded
  <1>4. QED
    BY <1>1, <1>2, <1>3 DEF ShelfInv, ShelfInit

LEMMA ShelfSteps == ShelfInv /\ [ShelfNext]_shelfVars => ShelfInv'
  <1> SUFFICES ASSUME ShelfInv, [ShelfNext]_shelfVars PROVE ShelfInv'
    OBVIOUS
  <1>1. CASE UNCHANGED shelfVars
    <2>1. UNCHANGED <<open, item, good, taken, clerk, overtaken, balked, pulled>>
      BY <1>1 DEF shelfVars, shelfRows, shelfHistory
    <2>2. ShelfTyped' /\ RowsInv' /\ balked' = FALSE
      BY <2>1 DEF ShelfInv, ShelfTyped, RowsInv, Sold, OnSale
    <2>3. \A c \in Clerks : Works(c)' /\ Puts(c)' /\ Guarded(c)'
      BY <2>1 DEF ShelfInv, Known, Works, Puts, Guarded, Sold, OnSale, Public
    <2>4. \A c \in Clerks : Named(c)'
      BY <2>1 DEF ShelfInv, Known, Named, Creates, Slugs, IsA
    <2>5. QED
      BY <2>2, <2>3, <2>4 DEF ShelfInv, Known
  <1>2. ASSUME NEW c \in Clerks, NEW i \in Items,
               \/ EditProduct(c, i) \/ EditDrop(c, i) \/ EditContents(c, i) \/ HideDrop(c, i) \/ RemoveBegin(c, i) \/ VariantBegin(c, i)
        PROVE  ShelfInv'
    BY <1>2, AskSound
  <1>3. ASSUME NEW c \in Clerks, NEW g \in Goods, EditVariant(c, g) \/ VariantFind(c, g) PROVE ShelfInv'
    BY <1>3, AskVariantSound
  <1>4. ASSUME NEW c \in Clerks, CreateItem(c) PROVE ShelfInv'
    BY <1>4, CreateRefused, CreateDone
  <1>5. ASSUME NEW c \in Clerks, Show(c) \/ Edit(c) \/ Walk(c) PROVE ShelfInv'
    BY <1>5, QuitSound DEF Show, Edit, Walk, QuitQuietly
  <1>6. ASSUME NEW c \in Clerks, Door(c) \/ LookUpSlug(c) \/ Remove(c) \/ RemoveVariant(c) \/ CloseBrand(c) \/ Put(c) PROVE ShelfInv'
    BY <1>6, DoorSound, LookUpSlugSound, RemoveSound, RemoveVariantSound, CloseBrandSound, PutSound
  <1>7. QED
    BY <1>1, <1>2, <1>3, <1>4, <1>5, <1>6, AskToSeeSound, CreateVariantSound, PutBeginSound, CreateBeginSound, BrandBeginSound,
       UpdateVisibilitySound, MoveDropSound, OrderSound, AdministerSound DEF ShelfNext

LEMMA ShelfKeeps == ShelfSpec => []ShelfInv
  <1>1. QED
    BY ShelfStart, ShelfSteps, PTL DEF ShelfSpec

\* Nothing of a closed brand is written and nothing hidden is shown but by a
\* request that had asked before, a name without a rival is never refused,
\* and what a cart holds was on sale (brands, products, drops and cart).
THEOREM ShelfAlwaysSound == ShelfSpec => []ShelfSound
  <1>1. ShelfInv => ShelfSound
    <2> SUFFICES ASSUME ShelfInv PROVE ShelfSound
      OBVIOUS
    <2>1. DoorsHold
      BY DEF ShelfInv, Known, Guarded, Public, DoorsHold, In
    <2>2. NamesFree /\ TakenOnSale
      BY DEF ShelfInv, RowsInv, Sold, NamesFree, TakenOnSale
    <2>3. QED
      BY <2>1, <2>2 DEF ShelfSound
  <1>2. QED
    BY <1>1, ShelfKeeps, PTL

\* Rows, requests and the history keep their types.
THEOREM ShelfTypes == ShelfSpec => []ShelfTypeOK
  <1>1. Errands \subseteq {AtRest} \cup Clerk
    BY DEF Errands, Clerk, Creation, Change, Visit, Dropping, OwnRow, Putting
  <1>2. ShelfInv => ShelfTypeOK
    BY <1>1 DEF ShelfInv, ShelfTyped, ShelfTypeOK
  <1>3. QED
    BY <1>2, ShelfKeeps, PTL

---------------------------------------------------------------------------
(* MEDIA: files and the rows that name them.                               *)
---------------------------------------------------------------------------
Upload == [op : {"none", "set", "clear", "add", "remove"},
           pc : {"none", "save", "delete", "write"}, saw : 0..MaxFiles, new : 0..MaxFiles]

MediaTyped ==
  /\ filesMade \in 0..MaxFiles /\ picture \in 0..filesMade
  /\ gallery \subseteq 1..filesMade /\ files \subseteq 1..filesMade
  /\ upload \in [Uploads -> Upload]
  /\ broken \in BOOLEAN /\ untidy \in BOOLEAN

(* What a request has saved nobody else has or knows; what it read was a   *)
(* picture or a media row, never both; and past its deletion the file it   *)
(* read is gone.                                                           *)
Fresh(u) == upload[u].new # 0 =>
  /\ upload[u].new \in files /\ upload[u].new \notin gallery /\ upload[u].new # picture
  /\ \A v \in Uploads : upload[v].saw # upload[u].new /\ (v # u => upload[v].new # upload[u].new)
Seen(u) ==
  /\ upload[u].saw <= filesMade /\ upload[u].new <= filesMade
  /\ upload[u].op \in {"set", "clear"} => upload[u].saw \notin gallery
  /\ upload[u].op = "remove" => upload[u].saw # picture /\ upload[u].saw # 0
  /\ upload[u].op = "add" => upload[u].saw = 0 /\ (upload[u].pc = "write" => upload[u].new # 0)
  /\ upload[u].op = "none" => upload[u].saw = 0
  /\ upload[u].op \notin {"set", "add"} \/ upload[u].pc = "save" => upload[u].new = 0
Gone(u) == upload[u].pc = "write" /\ upload[u].saw # 0 => upload[u].saw \notin files \/ untidy

MediaInv == /\ MediaTyped /\ picture \notin gallery
            /\ \A u \in Uploads : Fresh(u) /\ Seen(u) /\ Gone(u)
            /\ RowsHaveFiles /\ FilesHaveRows

---------------------------------------------------------------------------
LEMMA SlotTyped ==
  ASSUME MediaTyped, NEW u \in Uploads
  PROVE  /\ upload[u] \in Upload /\ upload[u].saw \in Nat /\ upload[u].new \in Nat
         /\ upload[u].saw \in 0..MaxFiles /\ upload[u].new \in 0..MaxFiles
         /\ filesMade \in Nat /\ picture \in Nat
  BY MediaConstants DEF MediaTyped, Upload

\* A slot takes the value q, and the others stay.
Becomes(u, q) == /\ upload'[u] = q /\ upload' \in [Uploads -> Upload]
                 /\ \A v \in Uploads : v # u => upload'[v] = upload[v]

LEMMA SlotSet ==
  ASSUME MediaTyped, NEW u \in Uploads, NEW q \in Upload, upload' = [upload EXCEPT ![u] = q]
  PROVE  Becomes(u, q)
  BY DEF MediaTyped, Becomes

LEMMA IdleSlot == NoUpload \in Upload /\ NoUpload.op = "none" /\ NoUpload.pc = "none" /\ NoUpload.saw = 0 /\ NoUpload.new = 0
  BY MediaConstants DEF NoUpload, Upload

\* A request begins: what it saw was in a row, and nobody just saved it.
LEMMA BeginSound ==
  ASSUME MediaInv, NEW u \in Uploads, upload[u] = NoUpload, NEW op \in {"set", "clear", "add", "remove"},
         NEW pc \in {"save", "delete"}, NEW f \in 0..filesMade, BeginUpload(u, op, pc, f),
         UNCHANGED <<picture, gallery, files, filesMade, broken, untidy>>,
         op \in {"set", "clear"} => f = picture, op = "add" => f = 0, op = "remove" => f \in gallery
  PROVE  MediaInv'
  <1> DEFINE q == [op |-> op, pc |-> pc, saw |-> f, new |-> 0]
  <1>1. q \in Upload /\ q.op = op /\ q.pc = pc /\ q.saw = f /\ q.new = 0
    BY MediaConstants DEF MediaInv, MediaTyped, Upload
  <1>2. upload' = [upload EXCEPT ![u] = q]
    BY DEF BeginUpload
  <1> HIDE DEF q
  <1>3. Becomes(u, q)
    BY <1>1, <1>2, SlotSet DEF MediaInv
  <1>4. MediaTyped'
    BY <1>3 DEF MediaInv, MediaTyped, Becomes
  <1>5. \A v \in Uploads : upload[v].new # 0 => upload[v].new # f
    <2>1. op \in {"set", "clear"} \/ op = "add" \/ op = "remove"
      OBVIOUS
    <2>2. QED
      BY <2>1 DEF MediaInv, Fresh
  <1>6. ASSUME NEW v \in Uploads PROVE Fresh(v)'
    BY <1>1, <1>3, <1>5 DEF MediaInv, Fresh, Becomes
  <1>7. ASSUME NEW v \in Uploads PROVE Seen(v)'
    <2>1. f \in Int /\ f <= filesMade /\ 0 <= filesMade
      BY SlotTyped DEF MediaInv
    <2>2. f \in gallery => f # picture /\ f # 0
      BY DEF MediaInv, MediaTyped
    <2>3. op \in {"set", "clear"} => f \notin gallery
      BY DEF MediaInv
    <2>4. Seen(v)
      BY DEF MediaInv
    <2>5. CASE v = u
      BY <1>1, <1>3, <2>1, <2>2, <2>3, <2>5 DEF Seen, Becomes
    <2>6. CASE v # u
      BY <1>3, <2>4, <2>6 DEF Seen, Becomes
    <2>7. QED
      BY <2>5, <2>6
  <1>8. ASSUME NEW v \in Uploads PROVE Gone(v)'
    BY <1>1, <1>3 DEF MediaInv, Gone, Becomes
  <1>9. upload[u].pc = "none" /\ upload[u].new = 0
    BY IdleSlot
  <1>10. RowsHaveFiles'
    BY <1>3, <1>9 DEF MediaInv, RowsHaveFiles, Becomes
  <1>11. FilesHaveRows'
    <2>1. ASSUME NEW g \in files, NEW v \in Uploads, upload[v].new = g PROVE upload'[v].new = g
      <3>1. g # 0
        BY DEF MediaInv, MediaTyped
      <3>2. QED
        BY <1>3, <1>9, <2>1, <3>1 DEF Becomes
    <2>2. QED
      BY <2>1 DEF MediaInv, FilesHaveRows
  <1>12. QED
    BY <1>4, <1>6, <1>7, <1>8, <1>10, <1>11 DEF MediaInv

LEMMA ReadPictureSound ==
  ASSUME MediaInv, NEW u \in Uploads, NEW op \in {"set", "clear"}, ReadPicture(u, op) PROVE MediaInv'
  BY BeginSound DEF ReadPicture, MediaInv, MediaTyped

LEMMA ReadOwnerSound ==
  ASSUME MediaInv, NEW u \in Uploads, ReadOwner(u) PROVE MediaInv'
  <1>1. 0 \in 0..filesMade
    BY SlotTyped DEF MediaInv
  <1>2. QED
    BY <1>1, BeginSound DEF ReadOwner

LEMMA ReadMediaSound ==
  ASSUME MediaInv, NEW u \in Uploads, NEW f \in 1..MaxFiles, ReadMedia(u, f) PROVE MediaInv'
  <1>1. f \in gallery /\ f \in 0..filesMade
    BY DEF ReadMedia, MediaInv, MediaTyped
  <1>2. QED
    BY <1>1, BeginSound DEF ReadMedia

LEMMA SaveFileSound ==
  ASSUME MediaInv, NEW u \in Uploads, SaveFile(u) PROVE MediaInv'
  <1>1. /\ UNCHANGED <<picture, gallery, broken, untidy>> /\ filesMade' = filesMade + 1 /\ files' = files \cup {filesMade'}
        /\ filesMade < MaxFiles /\ upload[u].op \in {"set", "add"} /\ upload[u].pc = "save"
    BY DEF SaveFile, Uploading
  <1>2. PICK new : new = filesMade'
    OBVIOUS
  <1>3. /\ new \in 1..MaxFiles /\ new \in Nat /\ new > filesMade /\ filesMade \in Nat
        /\ gallery \subseteq 1..filesMade /\ files \subseteq 1..filesMade /\ picture \in 0..filesMade
    BY <1>1, <1>2, MediaConstants DEF MediaInv, MediaTyped
  <1>4. PICK pc \in {"delete", "write"} : pc = IF upload[u].op = "set" THEN "delete" ELSE "write"
    OBVIOUS
  <1> DEFINE p == [upload[u] EXCEPT !.new = new]
             q == [p EXCEPT !.pc = pc]
  <1>5. p \in Upload /\ p.op = upload[u].op /\ p.saw = upload[u].saw /\ p.new = new
    <2>1. new \in 0..MaxFiles /\ upload[u] \in Upload
      BY <1>3, SlotTyped DEF MediaInv
    <2>2. QED
      BY <2>1 DEF Upload
  <1>6. q \in Upload /\ q.op = upload[u].op /\ q.saw = upload[u].saw /\ q.new = new /\ q.pc = pc
    <2> HIDE DEF p
    <2>1. QED
      BY <1>5 DEF Upload
  <1>7. upload' = [upload EXCEPT ![u] = q]
    BY <1>2, <1>4 DEF SaveFile, MediaInv, MediaTyped
  <1> HIDE DEF q
  <1>8. Becomes(u, q)
    BY <1>6, <1>7, SlotSet DEF MediaInv
  <1>9. MediaTyped'
    <2>1. filesMade' \in 0..MaxFiles /\ picture' \in 0..filesMade' /\ gallery' \subseteq 1..filesMade' /\ files' \subseteq 1..filesMade'
      BY <1>1, <1>2, <1>3
    <2>2. QED
      BY <1>1, <1>8, <2>1 DEF MediaInv, MediaTyped, Becomes
  <1>10. ASSUME NEW v \in Uploads PROVE upload[v].new < new /\ upload[v].saw < new
    <2>1. Seen(v)
      BY DEF MediaInv
    <2>2. QED
      BY <1>3, <2>1, SlotTyped DEF Seen, MediaInv
  <1>11. new \notin gallery /\ new # picture /\ new \in files' /\ new # 0
    BY <1>1, <1>2, <1>3
  <1>12. ASSUME NEW v \in Uploads PROVE Fresh(v)'
    <2>1. \A w \in Uploads : upload'[w].saw = upload[w].saw /\ upload'[w].saw # new /\ (w # u => upload'[w].new # new)
      <3>1. ASSUME NEW w \in Uploads PROVE upload'[w].saw = upload[w].saw
        BY <1>6, <1>8 DEF Becomes
      <3>2. ASSUME NEW w \in Uploads PROVE upload[w].saw # new /\ upload[w].new # new
        BY <1>3, <1>10, SlotTyped DEF MediaInv
      <3>3. QED
        BY <1>8, <3>1, <3>2 DEF Becomes
    <2>2. CASE v = u
      BY <1>1, <1>6, <1>8, <1>11, <2>1, <2>2 DEF Fresh, Becomes
    <2>3. CASE v # u
      <3>1. Fresh(v) /\ upload'[v] = upload[v]
        BY <1>8, <2>3 DEF MediaInv, Becomes
      <3>2. upload'[u].new = new /\ upload[v].new # new
        BY <1>6, <1>8, <2>1, <2>3, <3>1 DEF Becomes
      <3>3. QED
        BY <1>1, <1>8, <2>1, <3>1, <3>2 DEF Fresh, Becomes
    <2>4. QED
      BY <2>2, <2>3
  <1>13. ASSUME NEW v \in Uploads PROVE Seen(v)'
    <2>1. Seen(v) /\ upload'[v].saw = upload[v].saw /\ upload'[v].op = upload[v].op
      BY <1>6, <1>8 DEF MediaInv, Becomes
    <2>2. upload'[v].saw <= filesMade' /\ upload'[v].new <= filesMade'
      <3>1. upload'[v].new = IF v = u THEN new ELSE upload[v].new
        BY <1>6, <1>8 DEF Becomes
      <3>2. QED
        BY <1>2, <1>3, <1>10, <2>1, <3>1, SlotTyped DEF MediaInv
    <2>3. CASE v = u
      BY <1>1, <1>4, <1>6, <1>8, <1>11, <2>1, <2>2, <2>3 DEF Seen, Becomes
    <2>4. CASE v # u
      BY <1>1, <1>8, <2>1, <2>2, <2>4 DEF Seen, Becomes
    <2>5. QED
      BY <2>3, <2>4
  <1>14. ASSUME NEW v \in Uploads PROVE Gone(v)'
    <2>1. Gone(v) /\ upload[v].saw # new /\ (upload[u].op = "add" => upload[u].saw = 0)
      BY <1>3, <1>10, SlotTyped DEF MediaInv, Seen
    <2>2. CASE v = u
      BY <1>1, <1>4, <1>6, <1>8, <2>1, <2>2 DEF Gone, Becomes
    <2>3. CASE v # u
      BY <1>1, <1>2, <1>8, <2>1, <2>3 DEF Gone, Becomes
    <2>4. QED
      BY <2>2, <2>3
  <1>15. RowsHaveFiles'
    BY <1>1, <1>8 DEF MediaInv, RowsHaveFiles, Becomes
  <1>16. FilesHaveRows'
    <2>1. ASSUME NEW f \in files PROVE f \in gallery \cup {picture} \/ untidy \/ \E v \in Uploads : upload'[v].new = f
      <3>1. upload[u].new = 0 /\ f # 0
        BY <1>1 DEF MediaInv, MediaTyped, Seen
      <3>2. f \in gallery \cup {picture} \/ untidy \/ \E v \in Uploads : v # u /\ upload[v].new = f
        BY <3>1 DEF MediaInv, FilesHaveRows
      <3>3. QED
        BY <1>8, <3>2 DEF Becomes
    <2>2. upload'[u].new = new
      BY <1>6, <1>8 DEF Becomes
    <2>3. QED
      BY <1>1, <1>2, <2>1, <2>2 DEF FilesHaveRows
  <1>17. QED
    BY <1>1, <1>9, <1>12, <1>13, <1>14, <1>15, <1>16 DEF MediaInv

LEMMA DeleteFileSound ==
  ASSUME MediaInv, NEW u \in Uploads, DeleteFile(u) PROVE MediaInv'
  <1>1. /\ UNCHANGED <<picture, gallery, filesMade, broken>> /\ upload[u].op \in {"set", "clear", "remove"} /\ upload[u].pc = "delete"
        /\ \/ files' = files \ {upload[u].saw} /\ untidy' = untidy
           \/ files' = files /\ untidy' = TRUE
    BY DEF DeleteFile, Uploading
  <1> DEFINE q == [upload[u] EXCEPT !.pc = "write"]
  <1>2. q \in Upload /\ q.op = upload[u].op /\ q.saw = upload[u].saw /\ q.new = upload[u].new /\ q.pc = "write"
    BY SlotTyped DEF MediaInv, Upload
  <1>3. upload' = [upload EXCEPT ![u] = q]
    BY DEF DeleteFile
  <1> HIDE DEF q
  <1>4. Becomes(u, q)
    BY <1>2, <1>3, SlotSet DEF MediaInv
  <1>5. MediaTyped'
    BY <1>1, <1>4 DEF MediaInv, MediaTyped, Becomes
  <1>6. \A v \in Uploads : upload'[v].op = upload[v].op /\ upload'[v].saw = upload[v].saw /\ upload'[v].new = upload[v].new
    BY <1>2, <1>4 DEF Becomes
  <1>7. \A v \in Uploads : upload'[v].pc = IF v = u THEN "write" ELSE upload[v].pc
    BY <1>2, <1>4 DEF Becomes
  <1>8. ASSUME NEW v \in Uploads PROVE Fresh(v)'
    <2>1. Fresh(v)
      BY DEF MediaInv
    <2>2. upload[v].new # 0 => upload[v].new \in files'
      BY <1>1, <2>1 DEF Fresh
    <2>3. QED
      BY <1>1, <1>6, <2>1, <2>2 DEF Fresh
  <1>9. ASSUME NEW v \in Uploads PROVE Seen(v)'
    BY <1>1, <1>6, <1>7 DEF MediaInv, Seen
  <1>10. ASSUME NEW v \in Uploads PROVE Gone(v)'
    <2>1. Gone(v)
      BY DEF MediaInv
    <2>2. CASE v = u
      BY <1>1, <1>6, <2>2 DEF Gone
    <2>3. CASE v # u
      BY <1>1, <1>6, <1>7, <2>1, <2>3 DEF Gone
    <2>4. QED
      BY <2>2, <2>3
  <1>11. RowsHaveFiles'
    <2>1. \A f \in files \ files' : upload'[u].pc = "write" /\ upload'[u].saw = f
      BY <1>1, <1>6, <1>7
    <2>2. \A f, v \in Uploads : upload[v].pc = "write" => upload'[v].pc = "write"
      BY <1>7
    <2>3. QED
      BY <1>1, <1>6, <2>1, <2>2 DEF MediaInv, RowsHaveFiles
  <1>12. FilesHaveRows'
    BY <1>1, <1>6 DEF MediaInv, FilesHaveRows
  <1>13. QED
    BY <1>1, <1>5, <1>8, <1>9, <1>10, <1>11, <1>12 DEF MediaInv

\* A request ends: the other slots keep what they had.
LEMMA EndSlot ==
  ASSUME MediaInv, NEW u \in Uploads, EndUpload(u)
  PROVE  /\ Becomes(u, NoUpload)
         /\ upload'[u].op = "none" /\ upload'[u].pc = "none" /\ upload'[u].saw = 0 /\ upload'[u].new = 0
  BY IdleSlot, SlotSet DEF MediaInv, EndUpload, Becomes

\* A request that ends with the rows as they are or with its file in one.
LEMMA EndSound ==
  ASSUME MediaInv, NEW u \in Uploads, EndUpload(u), UNCHANGED <<files, filesMade>>, broken' \in BOOLEAN, untidy' \in BOOLEAN,
         broken => broken', untidy => untidy',
         picture' \in {0, picture, upload[u].new}, gallery' \subseteq gallery \cup ({upload[u].new} \ {0}),
         picture' \notin gallery',
         \A f \in (gallery' \cup ({picture'} \ {0})) : f \in gallery \cup {picture} => upload[u].pc # "write" \/ upload[u].saw # f \/ broken',
         \A f \in files : f \in gallery \cup {picture} \/ upload[u].new = f => f \in gallery' \cup {picture'} \/ untidy'
  PROVE  MediaInv'
  <1>1. /\ Becomes(u, NoUpload)
        /\ upload'[u].op = "none" /\ upload'[u].pc = "none" /\ upload'[u].saw = 0 /\ upload'[u].new = 0
    BY EndSlot
  <1>2. upload[u].new \in 0..filesMade /\ (upload[u].new # 0 => upload[u].new \in files)
    <2>1. Seen(u) /\ Fresh(u)
      BY DEF MediaInv
    <2>2. QED
      BY <2>1, SlotTyped DEF Seen, Fresh, MediaInv
  <1>3. MediaTyped'
    <2>1. picture' \in 0..filesMade
      BY <1>2, SlotTyped DEF MediaInv, MediaTyped
    <2>2. gallery' \subseteq 1..filesMade
      BY <1>2 DEF MediaInv, MediaTyped
    <2>3. QED
      BY <1>1, <2>1, <2>2 DEF MediaInv, MediaTyped, Becomes
  <1>4. ASSUME NEW v \in Uploads PROVE Fresh(v)'
    <2>1. CASE v = u
      BY <1>1, <2>1 DEF Fresh
    <2>2. CASE v # u
      <3>1. Fresh(v) /\ Fresh(u) /\ upload'[v] = upload[v]
        BY <1>1, <2>2 DEF MediaInv, Becomes
      <3>2. upload[v].new # 0 => upload[v].new \notin gallery' /\ upload[v].new # picture'
        BY <2>2, <3>1 DEF Fresh
      <3>3. QED
        BY <1>1, <3>1, <3>2 DEF Fresh, Becomes
    <2>3. QED
      BY <2>1, <2>2
  <1>5. ASSUME NEW v \in Uploads PROVE Seen(v)'
    <2>1. CASE v = u
      BY <1>1, <2>1, SlotTyped DEF Seen, MediaInv
    <2>2. CASE v # u
      <3>1. Seen(v) /\ upload'[v] = upload[v]
        BY <1>1, <2>2 DEF MediaInv, Becomes
      <3>2. upload[u].new # 0 => upload[v].saw # upload[u].new
        BY DEF MediaInv, Fresh
      <3>3. QED
        BY <3>1, <3>2 DEF Seen
    <2>3. QED
      BY <2>1, <2>2
  <1>6. ASSUME NEW v \in Uploads PROVE Gone(v)'
    BY <1>1 DEF MediaInv, Gone, Becomes
  <1>7. RowsHaveFiles'
    <2> SUFFICES ASSUME NEW f \in gallery' \cup ({picture'} \ {0})
                 PROVE  f \in files' \/ broken' \/ \E v \in Uploads : upload'[v].pc = "write" /\ upload'[v].saw = f
      BY DEF RowsHaveFiles
    <2>1. CASE f = upload[u].new
      <3>1. f # 0
        BY <1>3 DEF MediaTyped
      <3>2. QED
        BY <1>2, <2>1, <3>1
    <2>2. CASE f # upload[u].new
      <3>1. f \in gallery \cup ({picture} \ {0})
        BY <2>2
      <3>2. f \in files \/ broken \/ \E v \in Uploads : upload[v].pc = "write" /\ upload[v].saw = f
        BY <3>1 DEF MediaInv, RowsHaveFiles
      <3>3. ASSUME NEW v \in Uploads, upload[v].pc = "write", upload[v].saw = f PROVE broken' \/ (upload'[v].pc = "write" /\ upload'[v].saw = f)
        BY <1>1, <3>1, <3>3 DEF Becomes
      <3>4. QED
        BY <3>2, <3>3
    <2>3. QED
      BY <2>1, <2>2
  <1>8. FilesHaveRows'
    <2>1. ASSUME NEW f \in files PROVE f \in gallery' \cup {picture'} \/ untidy' \/ \E v \in Uploads : upload'[v].new = f
      BY <1>1 DEF MediaInv, FilesHaveRows, Becomes
    <2>2. QED
      BY <2>1 DEF FilesHaveRows
  <1>9. QED
    BY <1>3, <1>4, <1>5, <1>6, <1>7, <1>8 DEF MediaInv

LEMMA WritePictureSound ==
  ASSUME MediaInv, NEW u \in Uploads, WritePicture(u) PROVE MediaInv'
  <1>1. /\ EndUpload(u) /\ UNCHANGED <<gallery, files, filesMade, broken>> /\ picture' = upload[u].new
        /\ untidy' = (untidy \/ picture \notin {0, upload[u].saw}) /\ upload[u].op \in {"set", "clear"} /\ upload[u].pc = "write"
    BY DEF WritePicture, Uploading
  <1>2. Fresh(u) /\ Seen(u) /\ Gone(u) /\ 0 \notin files /\ 0 \notin gallery /\ broken \in BOOLEAN /\ untidy \in BOOLEAN
    BY DEF MediaInv, MediaTyped
  <1>3. picture' \notin gallery'
    BY <1>1, <1>2 DEF Fresh
  <1>4. ASSUME NEW f \in gallery' \cup ({picture'} \ {0}), f \in gallery \cup {picture} PROVE upload[u].saw # f
    BY <1>1, <1>2, <1>4 DEF Fresh, Seen
  <1>5. ASSUME NEW f \in files, f \in gallery \cup {picture} \/ upload[u].new = f PROVE f \in gallery' \cup {picture'} \/ untidy'
    BY <1>1, <1>2, <1>5 DEF Gone
  <1>6. QED
    BY <1>1, <1>2, <1>3, <1>4, <1>5, EndSound

LEMMA CreateMediaSound ==
  ASSUME MediaInv, NEW u \in Uploads, CreateMedia(u) PROVE MediaInv'
  <1>1. /\ EndUpload(u) /\ UNCHANGED <<picture, files, filesMade, broken, untidy>> /\ gallery' = gallery \cup {upload[u].new}
        /\ upload[u].op = "add" /\ upload[u].pc = "write"
    BY DEF CreateMedia, Uploading
  <1>2. Fresh(u) /\ Seen(u) /\ 0 \notin gallery /\ broken \in BOOLEAN /\ untidy \in BOOLEAN /\ picture \notin gallery
    BY DEF MediaInv, MediaTyped
  <1>3. upload[u].new # 0 /\ upload[u].saw = 0 /\ upload[u].new # picture
    BY <1>1, <1>2 DEF Seen, Fresh
  <1>4. ASSUME NEW f \in gallery' \cup ({picture'} \ {0}) PROVE upload[u].saw # f
    BY <1>1, <1>2, <1>3
  <1>5. QED
    BY <1>1, <1>2, <1>3, <1>4, EndSound

LEMMA DeleteMediaSound ==
  ASSUME MediaInv, NEW u \in Uploads, DeleteMedia(u) PROVE MediaInv'
  <1>1. /\ EndUpload(u) /\ UNCHANGED <<picture, files, filesMade, broken, untidy>> /\ gallery' = gallery \ {upload[u].saw}
        /\ upload[u].op = "remove" /\ upload[u].pc = "write"
    BY DEF DeleteMedia, Uploading
  <1>2. Fresh(u) /\ Seen(u) /\ Gone(u) /\ 0 \notin files /\ broken \in BOOLEAN /\ untidy \in BOOLEAN /\ picture \notin gallery
    BY DEF MediaInv, MediaTyped
  <1>3. upload[u].new = 0 /\ upload[u].saw # picture /\ upload[u].saw # 0
    BY <1>1, <1>2 DEF Seen
  <1>4. ASSUME NEW f \in gallery' \cup ({picture'} \ {0}) PROVE upload[u].saw # f
    BY <1>1, <1>3
  <1>5. ASSUME NEW f \in files, f \in gallery \cup {picture} \/ upload[u].new = f PROVE f \in gallery' \cup {picture'} \/ untidy'
    BY <1>1, <1>2, <1>3, <1>5 DEF Gone
  <1>6. QED
    BY <1>1, <1>2, <1>4, <1>5, EndSound

LEMMA DropUploadSound ==
  ASSUME MediaInv, NEW u \in Uploads, DropUpload(u) PROVE MediaInv'
  <1>1. /\ EndUpload(u) /\ UNCHANGED <<picture, gallery, files, filesMade>>
        /\ broken' = (broken \/ (upload[u].pc = "write" /\ upload[u].saw # 0)) /\ untidy' = (untidy \/ upload[u].new # 0)
    BY DEF DropUpload
  <1>2. 0 \notin files /\ 0 \notin gallery /\ broken \in BOOLEAN /\ untidy \in BOOLEAN /\ picture \notin gallery
    BY DEF MediaInv, MediaTyped
  <1>3. ASSUME NEW f \in gallery' \cup ({picture'} \ {0}), upload[u].pc = "write", upload[u].saw = f PROVE broken'
    BY <1>1, <1>2, <1>3
  <1>4. ASSUME NEW f \in files, f \in gallery \cup {picture} \/ upload[u].new = f PROVE f \in gallery' \cup {picture'} \/ untidy'
    BY <1>1, <1>2, <1>4
  <1>5. QED
    BY <1>1, <1>2, <1>3, <1>4, EndSound

---------------------------------------------------------------------------
LEMMA MediaStarts == MediaInit => MediaInv
  <1> SUFFICES ASSUME MediaInit PROVE MediaInv
    OBVIOUS
  <1>1. MediaTyped
    <2>1. filesMade \in 0..MaxFiles /\ picture \in 0..filesMade
      BY MediaConstants DEF MediaInit
    <2>2. upload \in [Uploads -> Upload]
      BY IdleSlot DEF MediaInit
    <2>3. QED
      BY <2>1, <2>2 DEF MediaInit, MediaTyped
  <1>2. QED
    BY <1>1, IdleSlot DEF MediaInit, MediaInv, Fresh, Seen, Gone, RowsHaveFiles, FilesHaveRows

LEMMA MediaSteps == MediaInv /\ [MediaNext]_mediaVars => MediaInv'
  <1> SUFFICES ASSUME MediaInv, [MediaNext]_mediaVars PROVE MediaInv'
    OBVIOUS
  <1>1. ASSUME NEW u \in Uploads, NEW op \in {"set", "clear"}, ReadPicture(u, op) PROVE MediaInv'
    BY <1>1, ReadPictureSound
  <1>2. ASSUME NEW u \in Uploads, NEW f \in 1..MaxFiles, ReadMedia(u, f) PROVE MediaInv'
    BY <1>2, ReadMediaSound
  <1>3. ASSUME NEW u \in Uploads,
               ReadOwner(u) \/ SaveFile(u) \/ DeleteFile(u) \/ WritePicture(u) \/ CreateMedia(u) \/ DeleteMedia(u) \/ DropUpload(u)
        PROVE MediaInv'
    BY <1>3, ReadOwnerSound, SaveFileSound, DeleteFileSound, WritePictureSound, CreateMediaSound, DeleteMediaSound, DropUploadSound
  <1>4. CASE UNCHANGED mediaVars
    BY <1>4 DEF mediaVars, MediaInv, MediaTyped, Fresh, Seen, Gone, RowsHaveFiles, FilesHaveRows
  <1>5. QED
    BY <1>1, <1>2, <1>3, <1>4 DEF MediaNext

(* A row names a file that is there, and a file is named by a row or by    *)
(* the request that saved it, but for the races and deaths the history     *)
(* names (brand-assets, profile, drop-media, product-media services).      *)
THEOREM FilesAlwaysMatch == MediaSpec => []FilesMatchRows
  <1>1. MediaInv => FilesMatchRows
    BY DEF MediaInv, FilesMatchRows
  <1>2. QED
    BY <1>1, MediaStarts, MediaSteps, PTL DEF MediaSpec

(* Files, picture, gallery and requests keep their types: a request deletes *)
(* and names only files that were saved.                                   *)
THEOREM MediaTypes == MediaSpec => []MediaTypeOK
  <1>1. MediaInv => MediaTypeOK
    BY DEF MediaInv, MediaTyped, MediaTypeOK, Upload
  <1>2. QED
    BY <1>1, MediaStarts, MediaSteps, PTL DEF MediaSpec

---------------------------------------------------------------------------
(* INVOICES: one for each bill, with numbers that run on.                  *)
---------------------------------------------------------------------------
Count  == Cardinality(Issued)
Errand == [pc : {"existing", "count", "create"}, bill : Bills, rival : BOOLEAN,
           number : 0..(Cardinality(Bills) + 1), year : 0..Years]

(* No number is beyond the count, and without a straddle none is missing.  *)
Numbered ==
  /\ \A b \in Issued : invoice[b].number <= Count
  /\ NumbersRunOn

(* A call without a rival is alone, with a bill that has no invoice and a  *)
(* number that nobody has.  A number that was taken since it was counted   *)
(* was taken in the same year, unless the year turned in between.          *)
CallKnows(d) ==
  /\ desk[d] # Vacant /\ ~desk[d].rival =>
       /\ \A e \in Desks : e # d => desk[e] = Vacant
       /\ desk[d].pc \in {"count", "create"} => desk[d].bill \notin Issued
       /\ desk[d].pc = "create" => desk[d].number = Count + 1
  /\ desk[d].pc = "create" =>
       /\ desk[d].number \in 1..(Count + 1)
       /\ straddled \/ desk[d].year = year
       /\ \/ straddled \/ desk[d].number = Count + 1
          \/ \E b \in Issued : invoice[b].number = desk[d].number /\ invoice[b].year = desk[d].year

InvoiceInv == /\ InvoiceTypeOK /\ ~refused /\ Numbered
              /\ \A d \in Desks : CallKnows(d)

---------------------------------------------------------------------------
LEMMA DeskTyped ==
  ASSUME InvoiceTypeOK, NEW d \in Desks
  PROVE  /\ desk[d] # Vacant <=> desk[d] \in Errand
         /\ desk[d].pc \in {"existing", "count", "create"} <=> desk[d] \in Errand
         /\ desk[d] \in Errand => desk[d].bill \in Bills /\ desk[d].rival \in BOOLEAN
  BY DEF InvoiceTypeOK, Errand, Vacant

LEMMA CountTyped ==
  ASSUME InvoiceTypeOK
  PROVE  /\ IsFiniteSet(Issued) /\ Count \in Nat /\ Cardinality(Bills) \in Nat /\ Count <= Cardinality(Bills)
         /\ \A b \in Bills \ Issued : Count + 1 <= Cardinality(Bills)
         /\ \A b \in Bills : b \in Issued <=> invoice[b] # NoInvoice
         /\ \A b \in Issued : invoice[b] \in Invoice /\ invoice[b].number \in Nat \ {0}
  <1>1. Issued \subseteq Bills /\ IsFiniteSet(Bills)
    BY InvoiceConstants DEF Issued
  <1>2. IsFiniteSet(Issued) /\ Count \in Nat /\ Cardinality(Bills) \in Nat /\ Count <= Cardinality(Bills)
    BY <1>1, FS_Subset, FS_CardinalityType DEF Count
  <1>3. ASSUME NEW b \in Bills \ Issued PROVE Count + 1 <= Cardinality(Bills)
    <2>1. Issued # Bills
      OBVIOUS
    <2>2. Count # Cardinality(Bills)
      BY <1>1, <2>1, FS_Subset DEF Count
    <2>3. QED
      BY <1>2, <2>2
  <1>4. \A b \in Bills : b \in Issued <=> invoice[b] # NoInvoice
    BY DEF Issued
  <1>5. ASSUME NEW b \in Issued PROVE invoice[b] \in Invoice /\ invoice[b].number \in Nat \ {0}
    <2>1. invoice[b] \in Invoice
      BY <1>5 DEF Issued, InvoiceTypeOK
    <2>2. QED
      BY <2>1, <1>2 DEF Invoice
  <1>6. QED
    BY <1>2, <1>3, <1>4, <1>5

\* A call moves on, knowing what it should; the rows stay.
LEMMA CallStep ==
  ASSUME InvoiceInv, NEW d \in Desks, NEW q \in Errand, desk' = [desk EXCEPT ![d] = q],
         desk[d] # Vacant, q.bill = desk[d].bill, q.rival = desk[d].rival,
         UNCHANGED <<paid, invoice, year, refused, straddled>>,
         q.pc \in {"count", "create"} /\ ~q.rival => q.bill \notin Issued,
         q.pc = "create" => q.number = Count + 1 /\ q.year = year
  PROVE  InvoiceInv'
  <1>1. /\ desk'[d] = q /\ \A e \in Desks : e # d => desk'[e] = desk[e]
        /\ q # Vacant /\ desk' \in [Desks -> {Vacant} \cup Errand]
    BY DEF InvoiceInv, InvoiceTypeOK, Errand, Vacant
  <1>2. Issued' = Issued /\ Count' = Count /\ Count \in Nat
    BY CountTyped DEF Issued, Count, InvoiceInv
  <1>3. InvoiceTypeOK'
    BY <1>1 DEF InvoiceInv, InvoiceTypeOK, Errand
  <1>4. Numbered'
    BY <1>2 DEF InvoiceInv, Numbered, NumbersRunOn, Count
  <1>5. ASSUME NEW e \in Desks PROVE CallKnows(e)'
    <2>1. CallKnows(d) /\ CallKnows(e)
      BY DEF InvoiceInv
    <2>2. CASE e = d
      BY <1>1, <1>2, <2>1, <2>2 DEF CallKnows
    <2>3. CASE e # d
      BY <1>1, <1>2, <2>1, <2>3 DEF CallKnows
    <2>4. QED
      BY <2>2, <2>3
  <1>6. QED
    BY <1>3, <1>4, <1>5 DEF InvoiceInv

\* A call ends; the rows stay.
LEMMA EndDesk ==
  ASSUME InvoiceInv, NEW d \in Desks, Clear(d), UNCHANGED <<paid, invoice, year, refused, straddled>>
  PROVE  InvoiceInv'
  <1>1. /\ desk'[d] = Vacant /\ \A e \in Desks : e # d => desk'[e] = desk[e]
        /\ desk' \in [Desks -> {Vacant} \cup Errand]
    BY DEF InvoiceInv, InvoiceTypeOK, Errand, Clear
  <1>2. Issued' = Issued /\ Count' = Count
    BY DEF Issued, Count
  <1>3. InvoiceTypeOK'
    BY <1>1 DEF InvoiceInv, InvoiceTypeOK, Errand
  <1>4. Numbered'
    BY <1>2 DEF InvoiceInv, Numbered, NumbersRunOn, Count
  <1>5. ASSUME NEW e \in Desks PROVE CallKnows(e)'
    BY <1>1, <1>2 DEF InvoiceInv, CallKnows, Vacant
  <1>6. QED
    BY <1>3, <1>4, <1>5 DEF InvoiceInv

LEMMA GenerateBeginSound ==
  ASSUME InvoiceInv, NEW d \in Desks, NEW b \in Bills, GenerateBegin(d, b) PROVE InvoiceInv'
  <1> DEFINE others == {e \in Desks : desk[e] # Vacant}
             q == [pc |-> "existing", bill |-> b, rival |-> others # {}, number |-> 0, year |-> 0]
  <1>1. /\ desk[d] = Vacant /\ UNCHANGED <<paid, invoice, year, refused, straddled>>
        /\ desk' = [e \in Desks |-> IF e = d THEN q ELSE IF e \in others THEN [desk[e] EXCEPT !.rival = TRUE] ELSE Vacant]
    BY DEF GenerateBegin
  <1>2. q \in Errand /\ q.pc = "existing" /\ q.rival = (others # {}) /\ q # Vacant
    <2>1. 0 \in 0..(Cardinality(Bills) + 1) /\ 0 \in 0..Years
      BY CountTyped, InvoiceConstants DEF InvoiceInv
    <2>2. QED
      BY <2>1 DEF Errand, Vacant
  <1> HIDE DEF q
  <1>3. desk'[d] = q
    BY <1>1
  <1>4. ASSUME NEW e \in Desks, e # d
        PROVE  /\ desk[e] = Vacant => desk'[e] = Vacant
               /\ desk[e] # Vacant => /\ desk'[e] \in Errand /\ desk'[e].rival = TRUE /\ desk'[e].pc = desk[e].pc
                                      /\ desk'[e].number = desk[e].number /\ desk'[e].year = desk[e].year
    <2>1. CASE desk[e] = Vacant
      BY <1>1, <1>4, <2>1
    <2>2. CASE desk[e] # Vacant
      <3>1. desk[e] \in Errand
        BY <2>2, DeskTyped DEF InvoiceInv
      <3>2. desk'[e] = [desk[e] EXCEPT !.rival = TRUE]
        BY <1>1, <1>4, <2>2
      <3>3. QED
        BY <2>2, <3>1, <3>2 DEF Errand
    <2>3. QED
      BY <2>1, <2>2
  <1>5. desk' \in [Desks -> {Vacant} \cup Errand]
    <2>1. \A e \in Desks : desk'[e] \in {Vacant} \cup Errand
      BY <1>2, <1>3, <1>4
    <2>2. QED
      BY <1>1, <2>1
  <1>6. Issued' = Issued /\ Count' = Count
    BY <1>1 DEF Issued, Count
  <1>7. InvoiceTypeOK'
    BY <1>1, <1>5 DEF InvoiceInv, InvoiceTypeOK, Errand
  <1>8. Numbered'
    BY <1>1, <1>6 DEF InvoiceInv, Numbered, NumbersRunOn, Count
  <1>9. ASSUME NEW e \in Desks PROVE CallKnows(e)'
    <2>1. CASE e = d
      BY <1>2, <1>3, <1>4, <2>1 DEF CallKnows
    <2>2. CASE e # d
      <3>1. CallKnows(e)
        BY DEF InvoiceInv
      <3>2. Vacant.pc # "create"
        BY DEF Vacant
      <3>3. QED
        BY <1>1, <1>4, <1>6, <2>2, <3>1, <3>2 DEF CallKnows
    <2>3. QED
      BY <2>1, <2>2
  <1>10. QED
    BY <1>1, <1>7, <1>8, <1>9 DEF InvoiceInv

LEMMA FindInvoiceSound ==
  ASSUME InvoiceInv, NEW d \in Desks, FindInvoice(d) PROVE InvoiceInv'
  <1>1. desk[d].pc = "existing" /\ UNCHANGED <<paid, invoice, year, refused, straddled>>
    BY DEF FindInvoice, OnDesk
  <1>2. CASE desk[d].bill \in Issued
    BY <1>1, <1>2, EndDesk DEF FindInvoice
  <1>3. CASE desk[d].bill \notin Issued
    <2> DEFINE q == [desk[d] EXCEPT !.pc = "count"]
    <2>1. desk[d] # Vacant /\ q \in Errand /\ q.bill = desk[d].bill /\ q.rival = desk[d].rival /\ q.pc = "count"
      BY <1>1, DeskTyped DEF Errand, InvoiceInv
    <2>2. desk' = [desk EXCEPT ![d] = q]
      BY <1>3 DEF FindInvoice
    <2> HIDE DEF q
    <2>3. QED
      BY <1>1, <1>3, <2>1, <2>2, CallStep
  <1>4. QED
    BY <1>2, <1>3

LEMMA GenerateInvoiceNumberSound ==
  ASSUME InvoiceInv, NEW d \in Desks, GenerateInvoiceNumber(d) PROVE InvoiceInv'
  <1>1. desk[d].pc = "count" /\ UNCHANGED <<paid, invoice, year, refused, straddled>>
    BY DEF GenerateInvoiceNumber, OnDesk
  <1>2. desk[d] # Vacant /\ desk[d] \in Errand
    BY <1>1, DeskTyped DEF InvoiceInv
  <1> DEFINE x == [desk[d] EXCEPT !.pc = "create"]
             y == [x EXCEPT !.year = year]
             q == [y EXCEPT !.number = Count + 1]
  <1>3. x \in Errand /\ x.bill = desk[d].bill /\ x.rival = desk[d].rival /\ x.pc = "create"
    BY <1>2 DEF Errand
  <1>4. y \in Errand /\ y.bill = desk[d].bill /\ y.rival = desk[d].rival /\ y.pc = "create" /\ y.year = year
    <2> HIDE DEF x
    <2>1. year \in 0..Years
      BY DEF InvoiceInv, InvoiceTypeOK
    <2>2. QED
      BY <1>3, <2>1 DEF Errand
  <1>5. /\ q \in Errand /\ q.bill = desk[d].bill /\ q.rival = desk[d].rival /\ q.pc = "create" /\ q.year = year
        /\ q.number = Count + 1
    <2> HIDE DEF y
    <2>1. Count + 1 \in 0..(Cardinality(Bills) + 1)
      BY CountTyped DEF InvoiceInv
    <2>2. QED
      BY <1>4, <2>1 DEF Errand
  <1>6. desk' = [desk EXCEPT ![d] = q]
    BY DEF GenerateInvoiceNumber, InvoiceInv, InvoiceTypeOK, Count
  <1> HIDE DEF q
  <1>7. ~q.rival => q.bill \notin Issued
    BY <1>1, <1>2, <1>5 DEF InvoiceInv, CallKnows
  <1>8. QED
    BY <1>1, <1>2, <1>5, <1>6, <1>7, CallStep

LEMMA CreateInvoiceSound ==
  ASSUME InvoiceInv, NEW d \in Desks, CreateInvoice(d) PROVE InvoiceInv'
  <1> DEFINE new == [number |-> desk[d].number, year |-> desk[d].year]
  <1>1. desk[d].pc = "create" /\ Clear(d) /\ UNCHANGED <<paid, year, straddled>>
    BY DEF CreateInvoice, OnDesk
  <1>2. desk[d] # Vacant /\ desk[d] \in Errand /\ CallKnows(d) /\ InvoiceTypeOK /\ Numbered /\ ~refused
    BY <1>1, DeskTyped DEF InvoiceInv
  <1>3. PICK b \in Bills : b = desk[d].bill
    BY <1>2, DeskTyped
  <1>4. PICK n \in Nat : n = Count
    BY <1>2, CountTyped
  <1>5. CASE b \in Issued \/ \E c \in Issued : invoice[c] = new
    <2>1. refused' = (refused \/ ~desk[d].rival) /\ UNCHANGED invoice
      BY <1>3, <1>5 DEF CreateInvoice
    <2>2. ASSUME ~desk[d].rival PROVE FALSE
      <3>1. b \notin Issued /\ desk[d].number = n + 1
        BY <1>1, <1>2, <1>3, <1>4, <2>2 DEF CallKnows
      <3>2. PICK c \in Issued : invoice[c] = new
        BY <1>5, <3>1
      <3>3. invoice[c].number = n + 1
        BY <3>1, <3>2
      <3>4. invoice[c].number <= n
        BY <1>2, <1>4 DEF Numbered
      <3>5. QED
        BY <3>3, <3>4
    <2>3. refused = FALSE /\ desk[d].rival = TRUE
      BY <1>2, <2>2, DeskTyped DEF InvoiceTypeOK
    <2>4. refused' = refused
      BY <2>1, <2>3, Zenon
    <2>5. QED
      BY <1>1, <2>1, <2>4, EndDesk
  <1>6. CASE ~(b \in Issued \/ \E c \in Issued : invoice[c] = new)
    <2>1. invoice' = [invoice EXCEPT ![b] = new] /\ refused' = refused
      BY <1>3, <1>6 DEF CreateInvoice
    <2>2. desk[d].number \in 1..(n + 1) /\ desk[d].year \in 0..Years /\ n + 1 <= Cardinality(Bills) /\ Cardinality(Bills) \in Nat
      BY <1>1, <1>2, <1>4, <1>6, CountTyped DEF CallKnows, Errand
    <2>3. new \in Invoice /\ new # NoInvoice /\ new.number = desk[d].number /\ new.year = desk[d].year
      <3>1. desk[d].number \in 1..Cardinality(Bills)
        BY <2>2
      <3>2. QED
        BY <2>2, <3>1 DEF Invoice, NoInvoice
    <2> HIDE DEF new
    <2>4. /\ invoice'[b] = new /\ \A c \in Bills : c # b => invoice'[c] = invoice[c]
          /\ invoice' \in [Bills -> {NoInvoice} \cup Invoice]
      BY <1>2, <2>1, <2>3 DEF InvoiceTypeOK
    <2>5. Issued' = Issued \cup {b} /\ b \notin Issued
      BY <1>6, <2>3, <2>4 DEF Issued
    <2>6. Count' = n + 1
      BY <1>2, <1>4, <2>5, FS_AddElement, CountTyped DEF Count
    <2>7. /\ desk'[d] = Vacant /\ \A e \in Desks : e # d => desk'[e] = desk[e]
          /\ desk' \in [Desks -> {Vacant} \cup Errand]
      BY <1>1, <1>2 DEF InvoiceTypeOK, Errand, Clear
    <2>8. InvoiceTypeOK'
      BY <1>1, <1>2, <2>1, <2>4, <2>7 DEF InvoiceTypeOK, Errand
    <2>9. ASSUME ~straddled PROVE desk[d].number = n + 1 /\ desk[d].year = year
      <3>1. desk[d].year = year
        BY <1>1, <1>2, <2>9 DEF CallKnows
      <3>2. ~\E c \in Issued : invoice[c].number = desk[d].number /\ invoice[c].year = desk[d].year
        <4>1. ASSUME NEW c \in Issued, invoice[c].number = desk[d].number, invoice[c].year = desk[d].year PROVE invoice[c] = new
          <5>1. invoice[c] \in Invoice
            BY <1>2, CountTyped
          <5>2. QED
            BY <2>3, <4>1, <5>1 DEF Invoice
        <4>2. QED
          BY <1>6, <4>1
      <3>3. QED
        BY <1>1, <1>2, <1>4, <2>9, <3>1, <3>2 DEF CallKnows
    <2>10. Numbered'
      <3>1. ASSUME NEW c \in Issued' PROVE invoice'[c].number <= n + 1
        <4>1. CASE c = b
          BY <2>2, <2>3, <2>4, <4>1
        <4>2. CASE c # b
          <5>1. c \in Issued /\ c \in Bills
            BY <2>5, <4>2 DEF Issued
          <5>2. invoice'[c].number <= n /\ invoice'[c].number \in Nat
            BY <1>2, <1>4, <2>4, <4>2, <5>1, CountTyped DEF Numbered
          <5>3. QED
            BY <5>2
        <4>3. QED
          BY <4>1, <4>2
      <3>2. ASSUME ~straddled PROVE {invoice'[c].number : c \in Issued'} = 1..(n + 1)
        <4>1. {invoice[c].number : c \in Issued} = 1..n
          BY <1>2, <1>4, <3>2 DEF Numbered, NumbersRunOn, Count
        <4>2. \A c \in Issued : invoice'[c] = invoice[c]
          BY <2>4, <2>5 DEF Issued
        <4>3. {invoice'[c].number : c \in Issued'} = {invoice[c].number : c \in Issued} \cup {invoice'[b].number}
          BY <2>5, <4>2
        <4>4. invoice'[b].number = n + 1
          BY <2>3, <2>4, <2>9, <3>2
        <4>5. QED
          BY <4>1, <4>3, <4>4
      <3>3. QED
        BY <1>1, <2>6, <3>1, <3>2 DEF Numbered, NumbersRunOn, Count
    <2>11. ASSUME NEW e \in Desks PROVE CallKnows(e)'
      <3>1. CASE e = d
        BY <2>7, <3>1 DEF CallKnows, Vacant
      <3>2. CASE e # d
        <4>1. CallKnows(e) /\ desk'[e] = desk[e]
          BY <2>7, <3>2 DEF InvoiceInv
        <4>2. desk[e] # Vacant => desk[e].rival
          BY <1>2, <3>2, <4>1 DEF CallKnows
        <4>3. ASSUME desk[e].pc = "create"
              PROVE  /\ desk[e].number \in 1..((n + 1) + 1) /\ (straddled \/ desk[e].year = year)
                     /\ \/ straddled \/ desk[e].number = (n + 1) + 1
                        \/ \E c \in Issued' : invoice'[c].number = desk[e].number /\ invoice'[c].year = desk[e].year
          <5>1. /\ desk[e].number \in 1..(n + 1) /\ (straddled \/ desk[e].year = year)
                /\ \/ straddled \/ desk[e].number = n + 1
                   \/ \E c \in Issued : invoice[c].number = desk[e].number /\ invoice[c].year = desk[e].year
            BY <1>4, <4>1, <4>3 DEF CallKnows
          <5>2. CASE straddled
            BY <5>1, <5>2
          <5>3. CASE ~straddled /\ desk[e].number = n + 1
            BY <2>3, <2>4, <2>5, <2>9, <5>1, <5>3
          <5>4. ASSUME NEW c \in Issued, invoice[c].number = desk[e].number, invoice[c].year = desk[e].year
                PROVE  c \in Issued' /\ invoice'[c] = invoice[c]
            BY <2>4, <2>5 DEF Issued
          <5>5. QED
            BY <5>1, <5>2, <5>3, <5>4
        <4>4. QED
          BY <1>1, <2>6, <4>1, <4>2, <4>3 DEF CallKnows
      <3>3. QED
        BY <3>1, <3>2
    <2>12. QED
      BY <1>2, <2>1, <2>8, <2>10, <2>11 DEF InvoiceInv
  <1>7. QED
    BY <1>5, <1>6

LEMMA PaymentMovesSound ==
  ASSUME InvoiceInv, NEW b \in Bills, PaymentMoves(b) PROVE InvoiceInv'
  <1>1. UNCHANGED <<invoice, desk, year, refused, straddled>> /\ paid' \in [Bills -> {"open", "SUCCEEDED", "REFUNDED"}]
    BY DEF PaymentMoves, InvoiceInv, InvoiceTypeOK
  <1>2. Issued' = Issued /\ Count' = Count
    BY <1>1 DEF Issued, Count
  <1>3. InvoiceTypeOK'
    BY <1>1 DEF InvoiceInv, InvoiceTypeOK
  <1>4. QED
    BY <1>1, <1>2, <1>3 DEF InvoiceInv, Numbered, NumbersRunOn, Count, CallKnows

LEMMA NewYearSound ==
  ASSUME InvoiceInv, NewYear PROVE InvoiceInv'
  <1>1. /\ UNCHANGED <<paid, invoice, desk, refused>> /\ year < Years /\ year' = year + 1
        /\ straddled' = (straddled \/ \E d \in Desks : desk[d].pc = "create")
    BY DEF NewYear, OnDesk
  <1>2. Issued' = Issued /\ Count' = Count
    BY <1>1 DEF Issued, Count
  <1>3. InvoiceTypeOK'
    <2>1. year' \in 0..Years
      BY <1>1, InvoiceConstants DEF InvoiceInv, InvoiceTypeOK
    <2>2. straddled' \in BOOLEAN
      BY <1>1 DEF InvoiceInv, InvoiceTypeOK
    <2>3. QED
      BY <1>1, <2>1, <2>2 DEF InvoiceInv, InvoiceTypeOK
  <1>4. Numbered'
    BY <1>1, <1>2 DEF InvoiceInv, Numbered, NumbersRunOn, Count
  <1>5. ASSUME NEW d \in Desks PROVE CallKnows(d)'
    BY <1>1, <1>2 DEF InvoiceInv, CallKnows
  <1>6. QED
    BY <1>1, <1>3, <1>4, <1>5 DEF InvoiceInv

---------------------------------------------------------------------------
LEMMA InvoicesStart == InvoiceInit => InvoiceInv
  <1> SUFFICES ASSUME InvoiceInit PROVE InvoiceInv
    OBVIOUS
  <1>1. InvoiceTypeOK
    <2>1. year \in 0..Years
      BY InvoiceConstants DEF InvoiceInit
    <2>2. QED
      BY <2>1 DEF InvoiceInit, InvoiceTypeOK
  <1>2. Issued = {} /\ Count = 0
    <2>1. Issued = {}
      BY DEF InvoiceInit, Issued
    <2>2. QED
      BY <2>1, FS_EmptySet DEF Count
  <1>3. {invoice[b].number : b \in Issued} = 1..Count
    BY <1>2
  <1>4. QED
    BY <1>1, <1>2, <1>3 DEF InvoiceInit, InvoiceInv, Numbered, NumbersRunOn, Count, CallKnows, Vacant

LEMMA InvoiceSteps == InvoiceInv /\ [InvoiceNext]_invoiceVars => InvoiceInv'
  <1> SUFFICES ASSUME InvoiceInv, [InvoiceNext]_invoiceVars PROVE InvoiceInv'
    OBVIOUS
  <1>1. ASSUME NEW d \in Desks, NEW b \in Bills, GenerateBegin(d, b) PROVE InvoiceInv'
    BY <1>1, GenerateBeginSound
  <1>2. ASSUME NEW d \in Desks, FindInvoice(d) \/ GenerateInvoiceNumber(d) \/ CreateInvoice(d) PROVE InvoiceInv'
    BY <1>2, FindInvoiceSound, GenerateInvoiceNumberSound, CreateInvoiceSound
  <1>3. ASSUME NEW d \in Desks, DropInvoice(d) PROVE InvoiceInv'
    BY <1>3, EndDesk DEF DropInvoice
  <1>4. ASSUME NEW b \in Bills, PaymentMoves(b) PROVE InvoiceInv'
    BY <1>4, PaymentMovesSound
  <1>5. CASE UNCHANGED invoiceVars
    BY <1>5 DEF invoiceVars, InvoiceInv, InvoiceTypeOK, Numbered, NumbersRunOn, Count, Issued, CallKnows
  <1>6. QED
    BY <1>1, <1>2, <1>3, <1>4, <1>5, NewYearSound DEF InvoiceNext

(* Invoices are numbered without gap or repetition, and a call is refused  *)
(* only for a rival, for any number of payments, requests and years        *)
(* (InvoicesService.generate).                                             *)
THEOREM InvoicesAlwaysSound == InvoiceSpec => []InvoicesSound
  <1>1. InvoiceInv => InvoicesSound
    BY DEF InvoiceInv, Numbered, InvoicesSound
  <1>2. QED
    BY <1>1, InvoicesStart, InvoiceSteps, PTL DEF InvoiceSpec

(* Invoices, their numbers and years, and the requests keep their types.   *)
THEOREM InvoiceTypes == InvoiceSpec => []InvoiceTypeOK
  <1>1. InvoiceInv => InvoiceTypeOK
    BY DEF InvoiceInv
  <1>2. QED
    BY <1>1, InvoicesStart, InvoiceSteps, PTL DEF InvoiceSpec

---------------------------------------------------------------------------
(* IDEMPOTENCY: a key stands for one effect and one answer.                *)
---------------------------------------------------------------------------
Stage(t)  == attempt[t].stage
Path(t)   == attempt[t].path
Answer(t) == attempt[t].answer

(* A try has a path once it has begun; the answer it carries is its own    *)
(* until the key is stored, and then the stored one.                       *)
Told(t) ==
  /\ Stage(t) # "new" => Path(t) \in Paths
  /\ Stage(t) \in {"new", "locked", "handling"} => Answer(t) = "none"
  /\ Stage(t) = "storing" => Answer(t) = t /\ t \in effects
  /\ Stage(t) \in {"releasing", "done"} /\ Answer(t) \in Tries
       => keyRow = [path |-> Path(t), answer |-> Answer(t)]

\* The stored answer is that of a handler that ran.
Stored ==
  keyRow # NoRow => keyRow.answer \in effects /\ Path(keyRow.answer) = keyRow.path

AnswerInv == Stored /\ \A t \in Tries : Told(t) /\ (t \in effects => Stage(t) # "new")

(* A try at work without the lock has cost a lapse.  Counted with the      *)
(* effects, these are covered by lapses, but for one effect: that of the   *)
(* lock's holder on its way to the key, or of the handler that stored it,  *)
(* after which a holder of the lock no longer reaches the handler.         *)
Live(t)  == Stage(t) \in {"locked", "handling", "storing"}
Loose    == {t \in Tries : Live(t) /\ keyLock # t}
Spent    == effects \cup Loose
Holder(stage) == \E t \in Tries : keyLock = t /\ Stage(t) = stage

RunsInv ==
  \/ Cardinality(Spent) <= lapses
  \/ /\ Cardinality(Spent) <= 1 + lapses
     /\ Holder("storing") \/ (keyRow # NoRow /\ ~Holder("handling"))

KeyInv == KeyTypeOK /\ AnswerInv /\ RunsInv

---------------------------------------------------------------------------
(* What a try's step leaves of the others.                                 *)
LEMMA OtherTries ==
  ASSUME KeyTypeOK, NEW t \in Tries, NEW stage, NEW answer, Reach(t, stage, answer)
  PROVE  /\ Stage(t)' = stage /\ Answer(t)' = answer /\ Path(t)' = Path(t)
         /\ \A u \in Tries \ {t} : attempt'[u] = attempt[u]
  BY DEF KeyTypeOK, Reach, Stage, Answer, Path

LEMMA ReachType ==
  ASSUME KeyTypeOK, NEW t \in Tries, NEW stage \in Stages, NEW answer \in KeyAnswers,
         Reach(t, stage, answer)
  PROVE  attempt' \in [Tries -> [stage : Stages, path : {"none"} \cup Paths, answer : KeyAnswers]]
  <1>1. attempt' = [attempt EXCEPT ![t] = [attempt[t] EXCEPT !.stage = stage, !.answer = answer]]
    BY DEF KeyTypeOK, Reach
  <1>2. [attempt[t] EXCEPT !.stage = stage, !.answer = answer]
          \in [stage : Stages, path : {"none"} \cup Paths, answer : KeyAnswers]
    BY DEF KeyTypeOK
  <1>3. QED
    BY <1>1, <1>2 DEF KeyTypeOK

LEMMA KeyTypeStep ==
  ASSUME KeyTypeOK, AnswerInv, [KeyNext]_keyVars
  PROVE  KeyTypeOK'
  <1> USE DEF KeyTypeOK, Stages, KeyAnswers
  <1>1. CASE UNCHANGED keyVars
    BY <1>1 DEF keyVars
  <1>2. ASSUME NEW t \in Tries, NEW path \in Paths, AcquireKey(t, path) PROVE KeyTypeOK'
    BY <1>2 DEF AcquireKey
  <1>3. ASSUME NEW t \in Tries, FindKey(t) PROVE KeyTypeOK'
    <2>1. keyRow # NoRow => keyRow.answer \in Tries
      BY DEF KeyRows
    <2>2. attempt' \in [Tries -> [stage : Stages, path : {"none"} \cup Paths, answer : KeyAnswers]]
      BY <1>3, <2>1, ReachType DEF FindKey
    <2>3. QED
      BY <1>3, <2>2 DEF FindKey
  <1>4. ASSUME NEW t \in Tries, Handle(t) PROVE KeyTypeOK'
    <2>1. attempt' \in [Tries -> [stage : Stages, path : {"none"} \cup Paths, answer : KeyAnswers]]
      BY <1>4, ReachType DEF Handle
    <2>2. QED
      BY <1>4, <2>1 DEF Handle
  <1>5. ASSUME NEW t \in Tries, StoreKey(t) PROVE KeyTypeOK'
    <2>1. attempt[t].path \in Paths
      BY <1>5 DEF StoreKey, AnswerInv, Told, Stage, Path
    <2>2. keyRow' \in {NoRow} \cup KeyRows
      BY <1>5, <2>1 DEF StoreKey, KeyRows
    <2>3. QED
      BY <1>5, <2>2 DEF StoreKey, Reach
  <1>6. ASSUME NEW t \in Tries, ReleaseKey(t) PROVE KeyTypeOK'
    BY <1>6, ReachType DEF ReleaseKey
  <1>7. ASSUME NEW t \in Tries, DieWithKey(t) PROVE KeyTypeOK'
    BY <1>7, ReachType DEF DieWithKey
  <1>8. CASE ExpireKeyLock
    BY <1>8 DEF ExpireKeyLock
  <1>9. QED
    BY <1>1, <1>2, <1>3, <1>4, <1>5, <1>6, <1>7, <1>8 DEF KeyNext

---------------------------------------------------------------------------
LEMMA AnswerStep ==
  ASSUME KeyTypeOK, AnswerInv, [KeyNext]_keyVars
  PROVE  AnswerInv'
  <1> USE DEF AnswerInv, Stored, Told
  <1>0. effects \subseteq Tries
    BY DEF KeyTypeOK
  <1>1. CASE UNCHANGED keyVars
    BY <1>1 DEF keyVars, Stage, Path, Answer
  <1>2. ASSUME NEW t \in Tries, NEW path \in Paths, AcquireKey(t, path) PROVE AnswerInv'
    <2>1. /\ Stage(t) = "new" /\ Stage(t)' \in {"locked", "done"} /\ Path(t)' = path
          /\ Stage(t)' = "locked" => Answer(t)' = "none"
          /\ Stage(t)' = "done" => Answer(t)' = "conflict"
          /\ \A u \in Tries \ {t} : attempt'[u] = attempt[u]
          /\ keyRow' = keyRow /\ effects' = effects
      BY <1>2 DEF AcquireKey, KeyTypeOK, Stage, Path, Answer
    <2>2. QED
      BY <1>0, <2>1, KeyConstants DEF Stage, Path, Answer
  <1>3. ASSUME NEW t \in Tries, FindKey(t) PROVE AnswerInv'
    <2>1. keyRow' = keyRow /\ effects' = effects /\ Stage(t) = "locked"
      BY <1>3 DEF FindKey, Stage
    <2>2. CASE Reach(t, "handling", "none")
      BY <1>0, <2>1, <2>2, OtherTries DEF Stage, Path, Answer
    <2>3. CASE keyRow # NoRow /\ Reach(t, "releasing", IF keyRow.path = attempt[t].path THEN keyRow.answer ELSE "conflict")
      <3>1. keyRow \in KeyRows
        BY <2>3 DEF KeyTypeOK
      <3>2. keyRow = [path |-> keyRow.path, answer |-> keyRow.answer]
        BY <3>1 DEF KeyRows
      <3>3. Answer(t)' \in Tries => keyRow.path = Path(t) /\ keyRow.answer = Answer(t)'
        BY <2>3, OtherTries, KeyConstants DEF Path
      <3>4. QED
        BY <1>0, <2>1, <2>3, <3>2, <3>3, OtherTries DEF Stage, Path, Answer
    <2>4. QED
      BY <1>3, <2>2, <2>3 DEF FindKey
  <1>4. ASSUME NEW t \in Tries, Handle(t) PROVE AnswerInv'
    <2>1. keyRow' = keyRow /\ effects \subseteq effects' /\ effects' \subseteq effects \cup {t} /\ Stage(t) = "handling"
      BY <1>4 DEF Handle, Stage
    <2>2. CASE Reach(t, "storing", t) /\ t \in effects'
      BY <1>0, <2>1, <2>2, OtherTries DEF Stage, Path, Answer
    <2>3. CASE Reach(t, "releasing", "error")
      BY <1>0, <2>1, <2>3, OtherTries, KeyConstants DEF Stage, Path, Answer
    <2>4. QED
      BY <1>4, <2>2, <2>3 DEF Handle
  <1>5. ASSUME NEW t \in Tries, StoreKey(t) PROVE AnswerInv'
    <2>1. effects' = effects /\ Stage(t) = "storing" /\ t \in effects /\ Path(t) \in Paths
      BY <1>5 DEF StoreKey, Stage
    <2>2. CASE keyRow = NoRow /\ keyRow' = [path |-> attempt[t].path, answer |-> t] /\ Reach(t, "releasing", t)
      <3>1. \A u \in Tries : Stage(u) \in {"releasing", "done"} => Answer(u) \notin Tries
        BY <2>2, KeyConstants DEF NoRow
      <3>2. QED
        BY <1>0, <2>1, <2>2, <3>1, OtherTries DEF Stage, Path, Answer
    <2>3. CASE keyRow' = keyRow /\ Reach(t, "releasing", "error")
      BY <1>0, <2>1, <2>3, OtherTries, KeyConstants DEF Stage, Path, Answer
    <2>4. QED
      BY <1>5, <2>2, <2>3 DEF StoreKey
  <1>6. ASSUME NEW t \in Tries, ReleaseKey(t) PROVE AnswerInv'
    <2>1. keyRow' = keyRow /\ effects' = effects /\ Stage(t) = "releasing" /\ Reach(t, "done", Answer(t))
      BY <1>6 DEF ReleaseKey, Stage, Answer
    <2>2. QED
      BY <1>0, <2>1, OtherTries DEF Stage, Path, Answer
  <1>7. ASSUME NEW t \in Tries, DieWithKey(t) PROVE AnswerInv'
    <2>1. keyRow' = keyRow /\ effects' = effects /\ Stage(t) # "new" /\ Reach(t, "done", "error")
      BY <1>7 DEF DieWithKey, Stage
    <2>2. QED
      BY <1>0, <2>1, OtherTries, KeyConstants DEF Stage, Path, Answer
  <1>8. CASE ExpireKeyLock
    BY <1>8 DEF ExpireKeyLock, Stage, Path, Answer
  <1>9. QED
    BY <1>1, <1>2, <1>3, <1>4, <1>5, <1>6, <1>7, <1>8 DEF KeyNext

---------------------------------------------------------------------------
LEMMA SpentFinite ==
  ASSUME KeyTypeOK
  PROVE  Spent \subseteq Tries /\ IsFiniteSet(Spent) /\ Cardinality(Spent) \in Nat
  <1>1. Spent \subseteq Tries
    BY DEF KeyTypeOK, Spent, Loose
  <1>2. QED
    BY <1>1, KeyConstants, FS_Subset, FS_CardinalityType

(* A step that brings no try into the count, or one.                       *)
LEMMA SpentBound ==
  ASSUME KeyTypeOK, KeyTypeOK', NEW t
  PROVE  /\ Cardinality(Spent) \in Nat /\ Cardinality(Spent)' \in Nat
         /\ Spent' \subseteq Spent => Cardinality(Spent)' <= Cardinality(Spent)
         /\ Spent' \subseteq Spent \cup {t} => Cardinality(Spent)' <= Cardinality(Spent) + 1
  <1>1. IsFiniteSet(Spent) /\ Cardinality(Spent) \in Nat
    BY SpentFinite
  <1>2. Cardinality(Spent)' \in Nat
    <2>1. Spent' \subseteq Tries
      BY DEF KeyTypeOK, Spent, Loose
    <2>2. QED
      BY <2>1, KeyConstants, FS_Subset, FS_CardinalityType
  <1>3. Spent' \subseteq Spent => Cardinality(Spent)' <= Cardinality(Spent)
    BY <1>1, FS_Subset
  <1>4. /\ IsFiniteSet(Spent \cup {t}) /\ Cardinality(Spent \cup {t}) \in Nat
        /\ Cardinality(Spent \cup {t}) <= Cardinality(Spent) + 1
    BY <1>1, FS_AddElement, FS_CardinalityType
  <1>5. Spent' \subseteq Spent \cup {t} => Cardinality(Spent)' <= Cardinality(Spent) + 1
    BY <1>1, <1>2, <1>4, FS_Subset
  <1>6. QED
    BY <1>1, <1>2, <1>3, <1>5

LEMMA RunsStep ==
  ASSUME KeyTypeOK, KeyTypeOK', AnswerInv, RunsInv, [KeyNext]_keyVars
  PROVE  RunsInv'
  <1> USE DEF Loose, Live, Spent, Holder
  <1>0. effects \subseteq Tries /\ lapses \in Nat /\ lapses' \in Nat /\ keyLock \in Tries \cup {"nobody"}
        /\ "nobody" \notin Tries
    BY KeyConstants DEF KeyTypeOK
  <1>1. CASE UNCHANGED keyVars
    BY <1>1 DEF keyVars, RunsInv, Stage
  <1>2. ASSUME NEW t \in Tries, NEW path \in Paths, AcquireKey(t, path) PROVE RunsInv'
    <2>1. /\ Stage(t) = "new" /\ Stage(t)' \in {"locked", "done"}
          /\ keyLock = "nobody" => Stage(t)' = "locked" /\ keyLock' = t
          /\ keyLock # "nobody" => Stage(t)' = "done" /\ keyLock' = keyLock
          /\ \A u \in Tries \ {t} : Stage(u)' = Stage(u)
          /\ keyRow' = keyRow /\ effects' = effects /\ lapses' = lapses
      BY <1>2 DEF AcquireKey, KeyTypeOK, Stage
    <2>2. Spent' \subseteq Spent
      BY <1>0, <2>1
    <2>3. (Holder("storing") => Holder("storing")') /\ (Holder("handling")' => Holder("handling"))
      BY <1>0, <2>1
    <2>4. QED
      BY <1>0, <2>1, <2>2, <2>3, SpentBound DEF RunsInv
  <1>3. ASSUME NEW t \in Tries, FindKey(t) PROVE RunsInv'
    <2>1. /\ Stage(t) = "locked" /\ keyLock' = keyLock
          /\ keyRow' = keyRow /\ effects' = effects /\ lapses' = lapses
          /\ Stage(t)' = IF keyRow = NoRow THEN "handling" ELSE "releasing"
          /\ \A u \in Tries \ {t} : Stage(u)' = Stage(u)
      BY <1>3, OtherTries DEF FindKey, Stage
    <2>2. Spent' \subseteq Spent
      BY <2>1
    <2>3. Holder("storing") => Holder("storing")'
      BY <2>1
    <2>4. keyRow # NoRow /\ Holder("handling")' => Holder("handling")
      BY <2>1
    <2>5. QED
      BY <1>0, <2>1, <2>2, <2>3, <2>4, SpentBound DEF RunsInv
  <1>4. ASSUME NEW t \in Tries, Handle(t) PROVE RunsInv'
    <2>1. /\ Stage(t) = "handling" /\ keyLock' = keyLock /\ keyRow' = keyRow
          /\ \A u \in Tries \ {t} : Stage(u)' = Stage(u)
          /\ \/ Stage(t)' = "storing" /\ effects' = effects \cup {t} /\ lapses' = lapses
             \/ Stage(t)' = "releasing" /\ effects' = effects /\ lapses' = lapses
             \/ Stage(t)' = "releasing" /\ effects' = effects \cup {t} /\ lapses' = lapses + 1
      BY <1>4, OtherTries DEF Handle, Stage
    <2>2. (Holder("storing") => Holder("storing")') /\ (Holder("handling")' => Holder("handling"))
      BY <2>1
    <2>3. CASE lapses' = lapses + 1
      <3>1. Spent' \subseteq Spent \cup {t}
        BY <2>1
      <3>2. Cardinality(Spent)' <= Cardinality(Spent) + 1 /\ Cardinality(Spent) \in Nat /\ Cardinality(Spent)' \in Nat
        BY <3>1, SpentBound
      <3>3. QED
        BY <1>0, <2>1, <2>2, <2>3, <3>2 DEF RunsInv
    <2>4. CASE lapses' = lapses /\ (keyLock # t \/ Stage(t)' = "releasing")
      <3>1. Spent' \subseteq Spent
        BY <1>0, <2>1, <2>4
      <3>2. QED
        BY <1>0, <2>1, <2>2, <2>4, <3>1, SpentBound DEF RunsInv
    <2>5. CASE keyLock = t /\ Stage(t)' = "storing" /\ lapses' = lapses
      <3>1. Holder("handling") /\ ~Holder("storing") /\ Holder("storing")'
        BY <2>1, <2>5
      <3>2. Spent' \subseteq Spent \cup {t}
        BY <2>1
      <3>3. Cardinality(Spent)' <= Cardinality(Spent) + 1 /\ Cardinality(Spent) \in Nat /\ Cardinality(Spent)' \in Nat
        BY <3>2, SpentBound
      <3>4. QED
        BY <1>0, <2>5, <3>1, <3>3 DEF RunsInv
    <2>6. QED
      BY <2>1, <2>3, <2>4, <2>5
  <1>5. ASSUME NEW t \in Tries, StoreKey(t) PROVE RunsInv'
    <2>1. /\ Stage(t) = "storing" /\ Stage(t)' = "releasing" /\ keyLock' = keyLock
          /\ effects' = effects /\ lapses' = lapses
          /\ \A u \in Tries \ {t} : Stage(u)' = Stage(u)
      BY <1>5, OtherTries DEF StoreKey, Stage
    <2>2. keyRow' # NoRow
      BY <1>5, KeyConstants, KeyTypeOK' DEF StoreKey, KeyTypeOK, NoRow, AnswerInv, Told, Stage, Path
    <2>3. Spent' \subseteq Spent
      BY <2>1
    <2>4. /\ Holder("handling")' => Holder("handling")
          /\ Holder("storing") => Holder("storing")' \/ ~Holder("handling")'
      BY <2>1
    <2>5. QED
      BY <1>0, <2>1, <2>2, <2>3, <2>4, SpentBound DEF RunsInv
  <1>6. ASSUME NEW t \in Tries, ReleaseKey(t) PROVE RunsInv'
    <2>1. /\ Stage(t) = "releasing" /\ Stage(t)' = "done"
          /\ keyLock' = IF keyLock = t THEN "nobody" ELSE keyLock
          /\ keyRow' = keyRow /\ effects' = effects /\ lapses' = lapses
          /\ \A u \in Tries \ {t} : Stage(u)' = Stage(u)
      BY <1>6, OtherTries DEF ReleaseKey, Stage
    <2>2. Spent' \subseteq Spent
      BY <1>0, <2>1
    <2>3. (Holder("storing") => Holder("storing")') /\ (Holder("handling")' => Holder("handling"))
      BY <1>0, <2>1
    <2>4. QED
      BY <1>0, <2>1, <2>2, <2>3, SpentBound DEF RunsInv
  <1>7. ASSUME NEW t \in Tries, DieWithKey(t) PROVE RunsInv'
    <2>1. /\ Stage(t) \in {"locked", "handling", "storing", "releasing"} /\ Stage(t)' = "done"
          /\ keyLock' = keyLock /\ keyRow' = keyRow /\ effects' = effects
          /\ lapses' = IF Stage(t) = "storing" THEN lapses + 1 ELSE lapses
          /\ \A u \in Tries \ {t} : Stage(u)' = Stage(u)
      BY <1>7, OtherTries DEF DieWithKey, Stage
    <2>2. Spent' \subseteq Spent
      BY <2>1
    <2>3. Holder("handling")' => Holder("handling")
      BY <2>1
    <2>4. Holder("storing") => Holder("storing")' \/ lapses' = lapses + 1
      BY <2>1
    <2>5. QED
      BY <1>0, <2>1, <2>2, <2>3, <2>4, SpentBound DEF RunsInv
  <1>8. CASE ExpireKeyLock
    <2>1. PICK h \in Tries : h = keyLock
      BY <1>0, <1>8 DEF ExpireKeyLock
    <2>2. /\ keyLock' = "nobody" /\ keyRow' = keyRow /\ effects' = effects
          /\ \A u \in Tries : Stage(u)' = Stage(u)
          /\ lapses' = IF Live(h) THEN lapses + 1 ELSE lapses
      BY <1>8, <2>1 DEF ExpireKeyLock, Stage
    <2>3. ~Holder("storing")' /\ ~Holder("handling")'
      BY <1>0, <2>2
    <2>4. CASE ~Live(h)
      <3>1. Spent' \subseteq Spent /\ ~Holder("storing") /\ ~Holder("handling")
        BY <2>1, <2>2, <2>4
      <3>2. QED
        BY <1>0, <2>2, <2>3, <2>4, <3>1, SpentBound DEF RunsInv
    <2>5. CASE Live(h) /\ Stage(h) # "storing"
      <3>1. Spent' \subseteq Spent \cup {h} /\ ~Holder("storing")
        BY <2>1, <2>2, <2>5
      <3>2. Cardinality(Spent)' <= Cardinality(Spent) + 1 /\ Cardinality(Spent) \in Nat /\ Cardinality(Spent)' \in Nat
        BY <3>1, SpentBound
      <3>3. QED
        BY <1>0, <2>2, <2>3, <2>5, <3>1, <3>2 DEF RunsInv
    <2>6. CASE Stage(h) = "storing"
      <3>1. h \in effects
        BY <2>6 DEF AnswerInv, Told
      <3>2. Spent' \subseteq Spent
        BY <2>1, <2>2, <3>1
      <3>3. QED
        BY <1>0, <2>2, <2>6, <3>2, SpentBound DEF RunsInv
    <2>7. QED
      BY <2>4, <2>5, <2>6
  <1>9. QED
    BY <1>1, <1>2, <1>3, <1>4, <1>5, <1>6, <1>7, <1>8 DEF KeyNext

---------------------------------------------------------------------------
LEMMA KeyInvariant == KeySpec => []KeyInv
  <1>1. KeyInit => KeyInv
    <2> SUFFICES ASSUME KeyInit PROVE KeyInv
      OBVIOUS
    <2>1. KeyTypeOK
      BY DEF KeyInit, KeyTypeOK, Stages, KeyAnswers
    <2>2. AnswerInv
      BY KeyConstants DEF KeyInit, AnswerInv, Stored, Told, Stage, Path, Answer
    <2>3. Spent = {}
      BY DEF KeyInit, Spent, Loose, Live, Stage
    <2>4. Cardinality(Spent) <= lapses
      BY <2>3, FS_EmptySet DEF KeyInit
    <2>5. QED
      BY <2>1, <2>2, <2>4 DEF KeyInv, RunsInv
  <1>2. KeyInv /\ [KeyNext]_keyVars => KeyInv'
    BY KeyTypeStep, AnswerStep, RunsStep DEF KeyInv
  <1>3. QED
    BY <1>1, <1>2, PTL DEF KeySpec

(* Every variable keeps its type: the lock, the stored key and where each  *)
(* request with the key has got to.                                        *)
THEOREM KeyTypeCorrect == KeySpec => []KeyTypeOK
  <1>1. KeyInv => KeyTypeOK
    BY DEF KeyInv
  <1>2. QED
    BY <1>1, KeyInvariant, PTL

(* However many requests repeat a key, in whatever order the interceptor   *)
(* lets them at the lock, the row and the handler: the handler has its     *)
(* effect once and once more per lapse, and all repetitions get one answer.*)
THEOREM KeyCorrect == KeySpec => []KeySound
  <1>1. KeyInv => RunsOnce
    <2> SUFFICES ASSUME KeyInv PROVE Cardinality(effects) <= 1 + lapses
      BY DEF RunsOnce
    <2>1. lapses \in Nat /\ effects \in SUBSET Spent /\ IsFiniteSet(Spent) /\ Cardinality(Spent) \in Nat
      BY SpentFinite DEF KeyInv, KeyTypeOK, Spent
    <2>2. Cardinality(effects) <= Cardinality(Spent) /\ Cardinality(effects) \in Nat
      BY <2>1, FS_Subset, FS_CardinalityType
    <2>3. Cardinality(Spent) <= 1 + lapses
      BY <2>1 DEF KeyInv, RunsInv
    <2>4. QED
      BY <2>1, <2>2, <2>3
  <1>2. KeyInv => SameAnswer
    <2> SUFFICES ASSUME KeyInv, NEW t \in Tries, Answer(t) \in Tries
                 PROVE  /\ Answer(t) \in effects
                        /\ Path(Answer(t)) = Path(t)
                        /\ Stage(t) = "done" => keyRow.answer = Answer(t)
      BY DEF SameAnswer, Stage, Path, Answer
    <2>1. Stage(t) \in Stages /\ Stored /\ Told(t)
      BY DEF KeyInv, KeyTypeOK, AnswerInv, Stage
    <2>2. CASE Stage(t) = "storing"
      BY <2>1, <2>2 DEF Told
    <2>3. CASE Stage(t) \in {"releasing", "done"}
      <3>1. keyRow = [path |-> Path(t), answer |-> Answer(t)]
        BY <2>1, <2>3 DEF Told
      <3>2. keyRow # NoRow
        BY <3>1, KeyConstants DEF NoRow
      <3>3. QED
        BY <2>1, <3>1, <3>2 DEF Stored
    <2>4. CASE Stage(t) \in {"new", "locked", "handling"}
      BY <2>1, <2>4, KeyConstants DEF Told
    <2>5. QED
      BY <2>1, <2>2, <2>3, <2>4 DEF Stages
  <1>3. KeyInv => KeySound
    BY <1>1, <1>2 DEF KeySound
  <1>4. QED
    BY <1>3, KeyInvariant, PTL

---------------------------------------------------------------------------
(* SEARCH: the index catches up with the rows.                             *)
---------------------------------------------------------------------------
(* What was read is no newer than the last reading, nor than its row.      *)
SearchTypeInv ==
  /\ SearchTypeOK /\ cursor <= lastRead
  /\ \A r \in Rows : writing[r] # 0 => row[r].version < MaxVersion
  /\ \A s \in Syncs : sync[s].since <= lastRead /\ (sync[s].pc = "push" => sync[s].started <= lastRead)
  /\ \A s \in Syncs, r \in Rows : sync[s].found[r] <= row[r].version

(* Row r is in the index, or changed no earlier than t.                    *)
Indexed(r, t) == document[r] = row[r].version \/ row[r].updatedAt >= t

(* A synchronisation that has not read answers for the rows before since;  *)
(* one that has, for those before it started that it does not still hold.  *)
SearchAnswers(s, r) ==
  /\ sync[s].pc \in {"start", "read"} => Indexed(r, sync[s].since)
  /\ sync[s].pc = "push" => Indexed(r, sync[s].started) \/ sync[s].found[r] = row[r].version

CatchesUp == \/ late \/ backwards
             \/ \A r \in Rows : Indexed(r, cursor) /\ \A s \in Syncs : SearchAnswers(s, r)

SearchInv == SearchTypeInv /\ CatchesUp

Synchronisation == [pc : {"none", "start", "read", "push"}, since : 0..MaxTime, started : 0..MaxTime,
                    found : [Rows -> 0..MaxVersion]]

\* What one synchronisation becomes.
LEMMA SyncSet ==
  ASSUME SearchTypeOK, NEW s \in Syncs, NEW z \in Synchronisation, sync' = [sync EXCEPT ![s] = z]
  PROVE  /\ sync'[s] = z /\ \A t \in Syncs : t # s => sync'[t] = sync[t]
         /\ sync' \in [Syncs -> Synchronisation]
  BY DEF SearchTypeOK, Synchronisation

LEMMA SearchTyped ==
  ASSUME SearchTypeOK
  PROVE  cursor \in Nat /\ lastRead \in Nat /\ time \in Nat
  BY SearchConstants DEF SearchTypeOK

LEMMA RowTyped ==
  ASSUME SearchTypeOK, NEW r \in Rows
  PROVE  /\ row[r].version \in Nat /\ row[r].version > 0 /\ row[r].updatedAt \in Nat
         /\ document[r] \in Nat /\ writing[r] \in Nat
  <1>1. row[r] \in [version : 1..MaxVersion, updatedAt : 1..MaxTime] /\ document[r] \in 0..MaxVersion /\ writing[r] \in 0..MaxTime
    BY DEF SearchTypeOK
  <1>2. QED
    BY <1>1, SearchConstants

LEMMA SyncTyped ==
  ASSUME SearchTypeOK, NEW s \in Syncs
  PROVE  /\ sync[s] \in Synchronisation /\ sync[s].since \in 0..MaxTime /\ sync[s].started \in 0..MaxTime
         /\ sync[s].since \in Nat /\ sync[s].started \in Nat
         /\ sync[s].found \in [Rows -> 0..MaxVersion] /\ \A r \in Rows : sync[s].found[r] \in Nat
  <1>1. sync[s] \in Synchronisation
    BY DEF SearchTypeOK, Synchronisation
  <1>2. sync[s].since \in 0..MaxTime /\ sync[s].started \in 0..MaxTime /\ sync[s].found \in [Rows -> 0..MaxVersion]
    BY <1>1 DEF Synchronisation
  <1>3. \A r \in Rows : sync[s].found[r] \in 0..MaxVersion
    BY <1>2
  <1>4. QED
    BY <1>1, <1>2, <1>3, SearchConstants

LEMMA NothingFound ==
  ASSUME SearchTypeOK, NEW r \in Rows, NEW f, f = 0
  PROVE  f <= row[r].version /\ row[r].version # 0 /\ row[r].updatedAt >= 0
  BY RowTyped

LEMMA NoSyncTyped ==
  /\ NoSync \in Synchronisation /\ NoSync.pc = "none" /\ NoSync.since = 0 /\ NoSync.started = 0
  /\ \A r \in Rows : NoSync.found[r] = 0
  BY SearchConstants DEF NoSync, Nothing, Synchronisation

\* A step that changes one synchronisation, and the cursor, and nothing else.
LEMMA SyncMoves ==
  ASSUME SearchInv, NEW s \in Syncs, NEW z \in Synchronisation, sync' = [sync EXCEPT ![s] = z],
         UNCHANGED <<row, writing, document, time, late, backwards>>,
         cursor' \in 0..MaxTime, lastRead' \in 0..MaxTime, lastRead <= lastRead', cursor' <= lastRead',
         z.since <= lastRead', z.pc = "push" => z.started <= lastRead',
         \A r \in Rows : z.found[r] <= row[r].version,
         late \/ backwards \/ \A r \in Rows : Indexed(r, cursor') /\ SearchAnswers(s, r)'
  PROVE  SearchInv'
  <1>1. SearchTypeOK
    BY DEF SearchInv, SearchTypeInv
  <1>2. /\ sync'[s] = z /\ \A t \in Syncs : t # s => sync'[t] = sync[t]
        /\ sync' \in [Syncs -> Synchronisation]
    BY <1>1, SyncSet
  <1>3. SearchTypeOK'
    BY <1>1, <1>2 DEF SearchTypeOK, Synchronisation
  <1>4. ASSUME NEW t \in Syncs
        PROVE  /\ sync'[t].since <= lastRead' /\ (sync'[t].pc = "push" => sync'[t].started <= lastRead')
               /\ \A r \in Rows : sync'[t].found[r] <= row'[r].version
    <2>1. CASE t = s
      BY <1>2, <2>1
    <2>2. CASE t # s
      <3>1. sync'[t] = sync[t] /\ sync[t].since <= lastRead /\ (sync[t].pc = "push" => sync[t].started <= lastRead)
            /\ \A r \in Rows : sync[t].found[r] <= row[r].version
        BY <1>2, <2>2 DEF SearchInv, SearchTypeInv
      <3>2. sync[t].since \in Nat /\ sync[t].started \in Nat /\ lastRead \in Nat /\ lastRead' \in Nat
        BY <1>1, <1>3, SearchTyped, RowTyped, SyncTyped DEF SearchTypeOK
      <3>3. QED
        BY <3>1, <3>2
    <2>3. QED
      BY <2>1, <2>2
  <1>5. SearchTypeInv'
    BY <1>3, <1>4 DEF SearchInv, SearchTypeInv
  <1>6. ASSUME ~late, ~backwards, NEW r \in Rows, NEW t \in Syncs PROVE Indexed(r, cursor)' /\ SearchAnswers(t, r)'
    <2>1. Indexed(r, cursor)'
      BY <1>6 DEF Indexed
    <2>2. t # s => SearchAnswers(t, r)'
      BY <1>2, <1>6 DEF SearchInv, CatchesUp, SearchAnswers, Indexed
    <2>3. QED
      BY <1>6, <2>1, <2>2
  <1>7. \A r \in Rows : late \/ backwards \/ Indexed(r, cursor)'
    BY DEF Indexed
  <1>8. QED
    BY <1>5, <1>6, <1>7 DEF SearchInv, CatchesUp

LEMMA ElapseSound ==
  ASSUME SearchInv, Elapse PROVE SearchInv'
  <1>1. UNCHANGED <<row, writing, document, cursor, sync, lastRead, late, backwards>> /\ time' \in 1..MaxTime
    BY SearchConstants DEF Elapse, SearchInv, SearchTypeInv, SearchTypeOK
  <1>2. QED
    BY <1>1 DEF SearchInv, SearchTypeInv, SearchTypeOK, CatchesUp, Indexed, SearchAnswers

LEMMA BeginUpdateSound ==
  ASSUME SearchInv, NEW r \in Rows, BeginUpdate(r) PROVE SearchInv'
  <1>1. SearchTypeOK /\ time \in 0..MaxTime
    BY SearchConstants DEF SearchInv, SearchTypeInv, SearchTypeOK
  <1>2. /\ UNCHANGED <<row, document, cursor, sync, time, lastRead, late, backwards>> /\ row[r].version < MaxVersion
        /\ writing' = [writing EXCEPT ![r] = time]
    BY DEF BeginUpdate
  <1>3. SearchTypeOK'
    BY <1>1, <1>2 DEF SearchTypeOK
  <1>4. \A q \in Rows : writing'[q] # 0 => row'[q].version < MaxVersion
    BY <1>1, <1>2 DEF SearchInv, SearchTypeInv, SearchTypeOK
  <1>5. QED
    BY <1>2, <1>3, <1>4 DEF SearchInv, SearchTypeInv, CatchesUp, Indexed, SearchAnswers

\* A commit that is not late is stamped after every cursor and reading.
LEMMA CommitSound ==
  ASSUME SearchInv, NEW r \in Rows, Commit(r) PROVE SearchInv'
  <1>1. SearchTypeOK
    BY DEF SearchInv, SearchTypeInv
  <1>2. PICK v : v = row[r].version + 1
    OBVIOUS
  <1>3. PICK at : at = writing[r]
    OBVIOUS
  <1>4. v \in 1..MaxVersion /\ at \in 1..MaxTime /\ row[r].version \in Nat \ {0}
    BY <1>1, <1>2, <1>3, SearchTyped, RowTyped, SyncTyped, SearchConstants DEF SearchInv, SearchTypeInv, SearchTypeOK, Commit
  <1> DEFINE z == [version |-> v, updatedAt |-> at]
  <1>5. row' = [row EXCEPT ![r] = z]
    BY <1>1, <1>2, <1>3 DEF Commit, SearchTypeOK
  <1>6. z \in [version : 1..MaxVersion, updatedAt : 1..MaxTime] /\ z.version = v /\ z.updatedAt = at
    BY <1>4
  <1> HIDE DEF z
  <1>7. /\ row'[r] = z /\ \A q \in Rows : q # r => row'[q] = row[q]
        /\ row' \in [Rows -> [version : 1..MaxVersion, updatedAt : 1..MaxTime]]
    BY <1>1, <1>5, <1>6 DEF SearchTypeOK
  <1>8. /\ writing' = [writing EXCEPT ![r] = 0] /\ late' = (late \/ at < lastRead)
        /\ UNCHANGED <<document, cursor, sync, time, lastRead, backwards>>
    BY <1>3 DEF Commit
  <1>9. SearchTypeOK'
    BY <1>1, <1>7, <1>8, SearchConstants DEF SearchTypeOK
  <1>10. \A q \in Rows : writing'[q] # 0 => row'[q].version < MaxVersion
    BY <1>1, <1>7, <1>8 DEF SearchInv, SearchTypeInv, SearchTypeOK
  <1>11. ASSUME NEW s \in Syncs, NEW q \in Rows PROVE sync'[s].found[q] <= row'[q].version
    <2>1. sync[s].found[q] <= row[q].version /\ sync[s].found[q] \in Nat /\ row[q].version \in Nat
      BY <1>1, SearchTyped, RowTyped, SyncTyped DEF SearchInv, SearchTypeInv
    <2>2. QED
      BY <1>2, <1>4, <1>6, <1>7, <1>8, <2>1
  <1>12. SearchTypeInv'
    BY <1>8, <1>9, <1>10, <1>11 DEF SearchInv, SearchTypeInv
  <1>15. row'[r].updatedAt = at /\ at \in Nat /\ (~late' => at >= lastRead)
    <2>1. at \in Nat /\ lastRead \in Nat
      BY <1>1, <1>4, SearchTyped
    <2>2. ~late' => ~(at < lastRead)
      BY <1>8
    <2>3. row'[r].updatedAt = at
      BY <1>6, <1>7
    <2>4. QED
      BY <2>1, <2>2, <2>3
  <1>13. ASSUME ~late', ~backwards', NEW q \in Rows, NEW s \in Syncs PROVE Indexed(q, cursor)' /\ SearchAnswers(s, q)'
    <2>1. Indexed(q, cursor) /\ SearchAnswers(s, q)
      BY <1>8, <1>13 DEF SearchInv, CatchesUp
    <2>2. CASE q # r
      BY <1>7, <1>8, <2>1, <2>2 DEF Indexed, SearchAnswers
    <2>3. CASE q = r
      <3>1. at >= lastRead /\ row'[r].updatedAt = at /\ at \in Nat
        BY <1>15, <1>13
      <3>2. cursor <= lastRead /\ sync[s].since <= lastRead /\ (sync[s].pc = "push" => sync[s].started <= lastRead)
        BY DEF SearchInv, SearchTypeInv
      <3>3. cursor \in Nat /\ lastRead \in Nat /\ sync[s].since \in Nat /\ sync[s].started \in Nat
        BY <1>1, SearchTyped, RowTyped, SyncTyped
      <3>4. row'[r].updatedAt >= cursor /\ row'[r].updatedAt >= sync[s].since
            /\ (sync[s].pc = "push" => row'[r].updatedAt >= sync[s].started)
        BY <3>1, <3>2, <3>3
      <3>5. QED
        BY <1>8, <2>3, <3>4 DEF Indexed, SearchAnswers
    <2>4. QED
      BY <2>2, <2>3
  <1>14. ASSUME ~late', ~backwards', NEW q \in Rows PROVE Indexed(q, cursor)'
    <2>1. Indexed(q, cursor)
      BY <1>8, <1>14 DEF SearchInv, CatchesUp
    <2>2. cursor <= lastRead /\ cursor \in Nat /\ lastRead \in Nat
      BY <1>1, SearchTyped, RowTyped, SyncTyped DEF SearchInv, SearchTypeInv
    <2>3. CASE q # r
      BY <1>7, <1>8, <2>1, <2>3 DEF Indexed
    <2>4. CASE q = r
      <3>1. row'[r].updatedAt >= cursor
        BY <1>14, <1>15, <2>2
      <3>2. QED
        BY <1>8, <2>4, <3>1 DEF Indexed
    <2>5. QED
      BY <2>3, <2>4
  <1>16. QED
    BY <1>12, <1>13, <1>14 DEF SearchInv, CatchesUp

LEMMA BeginSyncSound ==
  ASSUME SearchInv, NEW s \in Syncs, NEW since \in {0, cursor}, BeginSync(s, since) PROVE SearchInv'
  <1>1. SearchTypeOK /\ cursor <= lastRead /\ cursor \in 0..MaxTime /\ lastRead \in 0..MaxTime /\ lastRead <= lastRead
    BY SearchTyped, SearchConstants DEF SearchInv, SearchTypeInv, SearchTypeOK
  <1> DEFINE y == [NoSync EXCEPT !.pc = "start"]
             z == [y EXCEPT !.since = since]
  <1>2. since \in 0..MaxTime /\ since <= lastRead
    BY <1>1, SearchConstants
  <1>3. y \in Synchronisation /\ y.pc = "start" /\ y.since = 0 /\ \A r \in Rows : y.found[r] = 0
    BY NoSyncTyped DEF Synchronisation
  <1>4. sync' = [sync EXCEPT ![s] = z]
    BY DEF BeginSync
  <1> HIDE DEF y
  <1>5. z \in Synchronisation /\ z.pc = "start" /\ z.since = since /\ \A r \in Rows : z.found[r] = 0
    BY <1>2, <1>3 DEF Synchronisation
  <1> HIDE DEF z
  <1>6. UNCHANGED <<row, writing, document, cursor, time, lastRead, late, backwards>>
    BY DEF BeginSync
  <1>7. sync'[s] = z
    BY <1>1, <1>4, <1>5, SyncSet
  <1>8. \A r \in Rows : z.found[r] <= row[r].version /\ row[r].updatedAt >= 0
    BY <1>1, <1>5, NothingFound
  <1>9. late \/ backwards \/ \A r \in Rows : Indexed(r, cursor') /\ SearchAnswers(s, r)'
    BY <1>5, <1>6, <1>7, <1>8 DEF SearchInv, CatchesUp, SearchAnswers, Indexed
  <1>10. QED
    BY <1>1, <1>2, <1>4, <1>5, <1>6, <1>8, <1>9, SyncMoves

LEMMA StampSyncSound ==
  ASSUME SearchInv, NEW s \in Syncs, StampSync(s) PROVE SearchInv'
  <1>1. SearchTypeOK /\ cursor <= lastRead /\ cursor \in 0..MaxTime /\ lastRead \in 0..MaxTime /\ lastRead <= lastRead /\ time \in 0..MaxTime
    BY SearchTyped, SearchConstants DEF SearchInv, SearchTypeInv, SearchTypeOK
  <1>2. sync[s] \in Synchronisation /\ sync[s].since <= lastRead /\ sync[s].pc = "start"
        /\ \A r \in Rows : sync[s].found[r] <= row[r].version
    BY <1>1, SearchTyped, RowTyped, SyncTyped DEF SearchInv, SearchTypeInv, StampSync
  <1> DEFINE y == [sync[s] EXCEPT !.pc = "read"]
             z == [y EXCEPT !.started = time]
  <1>3. sync' = [sync EXCEPT ![s] = z]
    BY <1>1 DEF StampSync, SearchTypeOK
  <1>4. y \in Synchronisation /\ y.pc = "read" /\ y.since = sync[s].since /\ y.found = sync[s].found
    BY <1>2 DEF Synchronisation
  <1> HIDE DEF y
  <1>5. z \in Synchronisation /\ z.pc = "read" /\ z.since = sync[s].since /\ z.found = sync[s].found
    BY <1>1, <1>4 DEF Synchronisation
  <1> HIDE DEF z
  <1>6. UNCHANGED <<row, writing, document, cursor, time, lastRead, late, backwards>>
    BY DEF StampSync
  <1>7. sync'[s] = z
    BY <1>1, <1>3, <1>5, SyncSet
  <1>8. late \/ backwards \/ \A r \in Rows : Indexed(r, cursor') /\ SearchAnswers(s, r)'
    BY <1>2, <1>5, <1>6, <1>7 DEF SearchInv, CatchesUp, SearchAnswers, Indexed
  <1>9. QED
    BY <1>1, <1>2, <1>3, <1>5, <1>6, <1>8, SyncMoves

\* A row it does not find was in the index when it began.
LEMMA FindManySound ==
  ASSUME SearchInv, NEW s \in Syncs, FindMany(s) PROVE SearchInv'
  <1>1. SearchTypeOK /\ cursor <= lastRead /\ cursor \in 0..MaxTime /\ lastRead \in 0..MaxTime /\ lastRead <= lastRead
    BY SearchTyped, SearchConstants DEF SearchInv, SearchTypeInv, SearchTypeOK
  <1>2. sync[s] \in Synchronisation /\ sync[s].since <= lastRead /\ sync[s].pc = "read"
    BY <1>1, SearchTyped, RowTyped, SyncTyped DEF SearchInv, SearchTypeInv, FindMany
  <1>3. PICK f \in [Rows -> 0..MaxVersion] : f = [r \in Rows |-> IF r \in Since(s) THEN row[r].version ELSE 0]
    <2>1. ASSUME NEW r \in Rows PROVE row[r].version \in 0..MaxVersion
      <3>1. row[r].version \in 1..MaxVersion
        BY <1>1 DEF SearchTypeOK
      <3>2. QED
        BY <3>1, SearchConstants
    <2>2. 0 \in 0..MaxVersion
      BY SearchConstants
    <2>3. [r \in Rows |-> IF r \in Since(s) THEN row[r].version ELSE 0] \in [Rows -> 0..MaxVersion]
      BY <2>1, <2>2
    <2>4. QED
      BY <2>3
  <1> DEFINE y == [sync[s] EXCEPT !.pc = "push"]
             z == [y EXCEPT !.found = f]
  <1>4. sync' = [sync EXCEPT ![s] = z]
    BY <1>1, <1>3 DEF FindMany, SearchTypeOK
  <1>5. y \in Synchronisation /\ y.pc = "push" /\ y.since = sync[s].since /\ y.started = sync[s].started
    BY <1>2 DEF Synchronisation
  <1> HIDE DEF y
  <1>6. z \in Synchronisation /\ z.pc = "push" /\ z.since = sync[s].since /\ z.started = sync[s].started /\ z.found = f
    BY <1>3, <1>5 DEF Synchronisation
  <1> HIDE DEF z
  <1>7. UNCHANGED <<row, writing, document, cursor, time, late, backwards>> /\ NoteRead(s)
    BY DEF FindMany
  <1>8. sync'[s] = z
    BY <1>1, <1>4, <1>6, SyncSet
  <1>9. sync[s].started \in 0..MaxTime /\ sync[s].since \in 0..MaxTime
    BY <1>2 DEF Synchronisation
  <1>10. lastRead' \in 0..MaxTime /\ lastRead <= lastRead' /\ sync[s].started <= lastRead'
         /\ cursor' <= lastRead' /\ sync[s].since <= lastRead'
    BY <1>1, <1>2, <1>7, <1>9, SearchConstants DEF NoteRead
  <1>11. ASSUME NEW r \in Rows PROVE z.found[r] <= row[r].version
    <2>1. f[r] = row[r].version \/ f[r] = 0
      BY <1>3
    <2>2. row[r].version \in Nat
      BY <1>1, RowTyped
    <2>3. QED
      BY <1>6, <2>1, <2>2
  <1>12. ASSUME ~late, ~backwards, NEW r \in Rows PROVE Indexed(r, cursor') /\ SearchAnswers(s, r)'
    <2>1. Indexed(r, cursor) /\ Indexed(r, sync[s].since)
      BY <1>2, <1>12 DEF SearchInv, CatchesUp, SearchAnswers
    <2>2. document[r] = row[r].version \/ f[r] = row[r].version
      BY <1>3, <2>1 DEF Indexed, Since
    <2>3. QED
      BY <1>6, <1>7, <1>8, <2>1, <2>2 DEF Indexed, SearchAnswers
  <1>13. QED
    BY <1>1, <1>4, <1>6, <1>7, <1>10, <1>11, <1>12, SyncMoves

LEMMA AbortSyncSound ==
  ASSUME SearchInv, NEW s \in Syncs, AbortSync(s) PROVE SearchInv'
  <1>1. SearchTypeOK /\ cursor <= lastRead /\ cursor \in 0..MaxTime /\ lastRead \in 0..MaxTime /\ lastRead <= lastRead
    BY SearchTyped, SearchConstants DEF SearchInv, SearchTypeInv, SearchTypeOK
  <1>2. sync' = [sync EXCEPT ![s] = NoSync] /\ UNCHANGED <<row, writing, document, cursor, time, lastRead, late, backwards>>
    BY DEF AbortSync
  <1>3. sync'[s] = NoSync
    BY <1>1, <1>2, NoSyncTyped, SyncSet
  <1>4. \A r \in Rows : NoSync.found[r] <= row[r].version
    BY <1>1, NothingFound, NoSyncTyped
  <1>5. late \/ backwards \/ \A r \in Rows : Indexed(r, cursor') /\ SearchAnswers(s, r)'
    BY <1>2, <1>3, NoSyncTyped DEF SearchInv, CatchesUp, SearchAnswers
  <1>6. NoSync.since <= lastRead' /\ lastRead' = lastRead /\ cursor' = cursor
    BY <1>1, <1>2, SearchTyped, NoSyncTyped
  <1>7. QED
    BY <1>1, <1>2, <1>4, <1>5, <1>6, NoSyncTyped, SyncMoves

\* It holds nothing any more, so the rows before it started are in the index.
LEMMA SetCursorSound ==
  ASSUME SearchInv, NEW s \in Syncs, SetCursor(s) PROVE SearchInv'
  <1>1. SearchTypeOK /\ cursor <= lastRead /\ cursor \in 0..MaxTime /\ lastRead \in 0..MaxTime /\ lastRead <= lastRead
    BY SearchTyped, SearchConstants DEF SearchInv, SearchTypeInv, SearchTypeOK
  <1>2. /\ sync' = [sync EXCEPT ![s] = NoSync] /\ UNCHANGED <<row, writing, document, time, lastRead, late, backwards>>
        /\ cursor' = sync[s].started /\ sync[s].pc = "push" /\ sync[s].found = Nothing
    BY DEF SetCursor
  <1>3. sync'[s] = NoSync
    BY <1>1, <1>2, NoSyncTyped, SyncSet
  <1>4. cursor' \in 0..MaxTime /\ cursor' <= lastRead
    BY <1>1, <1>2, SearchTyped, RowTyped, SyncTyped DEF SearchInv, SearchTypeInv, Synchronisation
  <1>5. \A r \in Rows : NoSync.found[r] <= row[r].version /\ row[r].version # 0 /\ sync[s].found[r] = 0
    BY <1>1, <1>2, SearchTyped, RowTyped, SyncTyped, NoSyncTyped DEF Nothing
  <1>6. late \/ backwards \/ \A r \in Rows : Indexed(r, cursor') /\ SearchAnswers(s, r)'
    BY <1>2, <1>3, <1>5, NoSyncTyped DEF SearchInv, CatchesUp, SearchAnswers, Indexed
  <1>7. NoSync.since <= lastRead' /\ lastRead' = lastRead
    BY <1>1, <1>2, SearchTyped, NoSyncTyped
  <1>8. QED
    BY <1>1, <1>2, <1>4, <1>5, <1>6, <1>7, NoSyncTyped, SyncMoves

\* An older version over a newer one is what "backwards" remembers.
LEMMA UpsertSound ==
  ASSUME SearchInv, NEW s \in Syncs, NEW r \in Rows, Upsert(s, r) PROVE SearchInv'
  <1>1. SearchTypeOK /\ SearchTypeInv
    BY DEF SearchInv, SearchTypeInv
  <1>2. sync[s] \in Synchronisation /\ sync[s].pc = "push" /\ sync[s].found \in [Rows -> 0..MaxVersion]
    BY <1>1, SearchTyped, RowTyped, SyncTyped DEF Upsert, Synchronisation
  <1>3. PICK f \in [Rows -> 0..MaxVersion] : f = [sync[s].found EXCEPT ![r] = 0]
    <2>1. 0 \in 0..MaxVersion
      BY SearchConstants
    <2>2. [sync[s].found EXCEPT ![r] = 0] \in [Rows -> 0..MaxVersion]
      BY <1>2, <2>1
    <2>3. QED
      BY <2>2
  <1>4. PICK v \in 0..MaxVersion : v = sync[s].found[r]
    BY <1>2
  <1> DEFINE z == [sync[s] EXCEPT !.found = f]
  <1>5. sync' = [sync EXCEPT ![s] = z]
    BY <1>1, <1>3 DEF Upsert, SearchTypeOK
  <1>6. z \in Synchronisation /\ z.pc = "push" /\ z.since = sync[s].since /\ z.started = sync[s].started /\ z.found = f
    BY <1>2, <1>3 DEF Synchronisation
  <1> HIDE DEF z
  <1>7. /\ sync'[s] = z /\ \A t \in Syncs : t # s => sync'[t] = sync[t]
        /\ sync' \in [Syncs -> Synchronisation]
    BY <1>1, <1>5, <1>6, SyncSet
  <1>8. /\ document' = [document EXCEPT ![r] = v] /\ backwards' = (backwards \/ document[r] > v)
        /\ UNCHANGED <<row, writing, cursor, time, lastRead, late>>
    BY <1>4 DEF Upsert
  <1>9. document'[r] = v /\ (\A q \in Rows : q # r => document'[q] = document[q]) /\ document' \in [Rows -> 0..MaxVersion]
    BY <1>1, <1>8 DEF SearchTypeOK
  <1>10. SearchTypeOK'
    BY <1>1, <1>7, <1>8, <1>9 DEF SearchTypeOK, Synchronisation
  <1>11. ASSUME NEW t \in Syncs
         PROVE  /\ sync'[t].since <= lastRead' /\ (sync'[t].pc = "push" => sync'[t].started <= lastRead')
                /\ \A q \in Rows : sync'[t].found[q] <= row'[q].version
    <2>1. /\ sync[t].since <= lastRead /\ (sync[t].pc = "push" => sync[t].started <= lastRead)
          /\ \A q \in Rows : sync[t].found[q] <= row[q].version
      BY <1>1 DEF SearchTypeInv
    <2>2. CASE t # s
      BY <1>7, <1>8, <2>1, <2>2
    <2>3. CASE t = s
      <3>1. ASSUME NEW q \in Rows PROVE f[q] <= row[q].version
        <4>1. f[q] = sync[s].found[q] \/ f[q] = 0
          BY <1>2, <1>3
        <4>2. sync[s].found[q] <= row[q].version
          BY <2>1, <2>3
        <4>3. QED
          BY <1>1, <4>1, <4>2, NothingFound
      <3>2. QED
        BY <1>2, <1>6, <1>7, <1>8, <2>1, <2>3, <3>1
    <2>4. QED
      BY <2>2, <2>3
  <1>12. SearchTypeInv'
    BY <1>1, <1>8, <1>10, <1>11 DEF SearchTypeInv
  <1>13. v <= row[r].version /\ row[r].version \in Nat /\ document[r] \in Nat
    BY <1>1, <1>4, SearchTyped, RowTyped, SyncTyped DEF SearchTypeInv
  <1>14. ASSUME ~late', ~backwards', NEW q \in Rows, NEW at, Indexed(q, at) PROVE Indexed(q, at)'
    <2>1. CASE q # r
      BY <1>8, <1>9, <1>14, <2>1 DEF Indexed
    <2>2. CASE q = r
      <3>0. ~(document[r] > v)
        BY <1>8, <1>14
      <3>1. document[r] <= v
        BY <1>4, <1>13, <3>0, SearchConstants
      <3>2. document[r] = row[r].version => v = row[r].version
        BY <1>13, <3>1
      <3>3. QED
        BY <1>8, <1>9, <1>14, <2>2, <3>2 DEF Indexed
    <2>3. QED
      BY <2>1, <2>2
  <1>15. ASSUME ~late', ~backwards', NEW q \in Rows PROVE Indexed(q, cursor)'
    <2>1. PICK at : at = cursor /\ at = cursor'
      BY <1>8
    <2>2. Indexed(q, at)
      BY <1>8, <1>15, <2>1 DEF SearchInv, CatchesUp
    <2>3. Indexed(q, at)'
      BY <1>14, <1>15, <2>2
    <2>4. QED
      BY <2>1, <2>3 DEF Indexed
  <1>16. ASSUME ~late', ~backwards', NEW q \in Rows, NEW t \in Syncs PROVE SearchAnswers(t, q)'
    <2>1. SearchAnswers(t, q)
      BY <1>8, <1>16 DEF SearchInv, CatchesUp
    <2>2. PICK since, started : since = sync[t].since /\ started = sync[t].started
      OBVIOUS
    <2>3. sync'[t].since = since /\ sync'[t].started = started /\ sync'[t].pc = sync[t].pc
      BY <1>2, <1>6, <1>7, <2>2
    <2>4. (Indexed(q, since) => Indexed(q, since)') /\ (Indexed(q, started) => Indexed(q, started)')
      BY <1>14, <1>16
    <2>5. sync[t].found[q] = row[q].version =>
            sync'[t].found[q] = row'[q].version \/ document'[q] = row'[q].version
      <3>1. CASE t # s \/ q # r
        BY <1>2, <1>3, <1>6, <1>7, <1>8, <3>1
      <3>2. CASE t = s /\ q = r
        BY <1>4, <1>8, <1>9, <3>2
      <3>3. QED
        BY <3>1, <3>2
    <2>6. QED
      BY <2>1, <2>2, <2>3, <2>4, <2>5 DEF SearchAnswers, Indexed
  <1>17. QED
    BY <1>12, <1>15, <1>16 DEF SearchInv, CatchesUp

LEMMA SearchStep ==
  ASSUME SearchInv, [SearchNext]_searchVars PROVE SearchInv'
  <1>1. CASE Elapse
    BY <1>1, ElapseSound
  <1>2. ASSUME NEW r \in Rows, BeginUpdate(r) \/ Commit(r) PROVE SearchInv'
    BY <1>2, BeginUpdateSound, CommitSound
  <1>3. ASSUME NEW s \in Syncs,
               \/ \E since \in {0, cursor} : BeginSync(s, since)
               \/ StampSync(s) \/ FindMany(s) \/ SetCursor(s) \/ AbortSync(s)
               \/ \E r \in Rows : Upsert(s, r)
        PROVE  SearchInv'
    BY <1>3, BeginSyncSound, StampSyncSound, FindManySound, SetCursorSound, AbortSyncSound, UpsertSound
  <1>4. CASE UNCHANGED searchVars
    BY <1>4 DEF searchVars, SearchInv, SearchTypeInv, SearchTypeOK, CatchesUp, Indexed, SearchAnswers
  <1>5. QED
    BY <1>1, <1>2, <1>3, <1>4 DEF SearchNext

LEMMA SearchStarts ==
  ASSUME SearchInit PROVE SearchInv
  <1>1. \A s \in Syncs : sync[s] = NoSync
    BY DEF SearchInit
  <1>2. SearchTypeOK
    <2>1. 1 \in 1..MaxVersion /\ 1 \in 1..MaxTime /\ 0 \in 0..MaxTime /\ 0 \in 0..MaxVersion
      BY SearchConstants
    <2>2. row \in [Rows -> [version : 1..MaxVersion, updatedAt : 1..MaxTime]]
      BY <2>1 DEF SearchInit
    <2>3. writing \in [Rows -> 0..MaxTime] /\ document \in [Rows -> 0..MaxVersion]
      BY <2>1 DEF SearchInit, Nothing
    <2>4. sync \in [Syncs -> Synchronisation]
      BY NoSyncTyped DEF SearchInit
    <2>5. QED
      BY <2>1, <2>2, <2>3, <2>4 DEF SearchInit, SearchTypeOK, Synchronisation
  <1>3. SearchTypeInv
    BY <1>1, <1>2, NoSyncTyped DEF SearchInit, SearchTypeInv, Nothing
  <1>4. CatchesUp
    BY <1>1, NoSyncTyped DEF SearchInit, CatchesUp, Indexed, SearchAnswers
  <1>5. QED
    BY <1>3, <1>4 DEF SearchInv

(* In every state of the search index, for any rows and any overlapping    *)
(* synchronisations that may fail anywhere: a row that is not in the index *)
(* as it is will be found by the next pass, or one under way has it,       *)
(* unless a commit was late or an older version was written over a newer.  *)
THEOREM IndexAlwaysCatchesUp == SearchSpec => []IndexCatchesUp
  <1>1. SearchInit => SearchInv
    BY SearchStarts
  <1>2. SearchInv /\ [SearchNext]_searchVars => SearchInv'
    BY SearchStep
  <1>3. SearchInv => IndexCatchesUp
    BY DEF SearchInv, CatchesUp, Indexed, IndexCatchesUp
  <1>4. QED
    BY <1>1, <1>2, <1>3, PTL DEF SearchSpec

---------------------------------------------------------------------------
(* The parts together.                                                     *)
---------------------------------------------------------------------------
(* The synchronisations, the cursor and the rows keep their types.         *)
THEOREM SearchTypes == SearchSpec => []SearchTypeOK
  <1>1. SearchInit => SearchInv
    BY SearchStarts
  <1>2. SearchInv /\ [SearchNext]_searchVars => SearchInv'
    BY SearchStep
  <1>3. SearchInv => SearchTypeOK
    BY DEF SearchInv, SearchTypeInv
  <1>4. QED
    BY <1>1, <1>2, <1>3, PTL DEF SearchSpec

(* Every variable of the seven parts keeps its type.                       *)
THEOREM ContentTypes == ContentSpec => []ContentTypeOK
  <1>1. /\ AccessTypeOK /\ CatalogTypeOK /\ MediaTypeOK /\ SearchTypeOK
        /\ KeyTypeOK /\ ShelfTypeOK /\ InvoiceTypeOK
        => ContentTypeOK
    BY DEF ContentTypeOK
  <1>2. QED
    BY <1>1, AccessTypes, CatalogTypes, MediaTypes, SearchTypes, KeyTypeCorrect, ShelfTypes,
       InvoiceTypes, PTL DEF ContentSpec

(* What is in the catalog and on the shelf is sound: the drop, its job, the*)
(* followers and the settings, and what may be seen and sold.              *)
THEOREM WaresAlwaysSound == CatalogSpec /\ ShelfSpec => []WaresSound
  <1>1. CatalogSound /\ ShelfSound => WaresSound
    BY DEF WaresSound
  <1>2. QED
    BY <1>1, CatalogAlwaysSound, ShelfAlwaysSound, PTL

(* Files match the rows that name them, and invoices are numbered without  *)
(* gap or repetition.                                                      *)
THEOREM PapersAlwaysSound == MediaSpec /\ InvoiceSpec => []PapersSound
  <1>1. FilesMatchRows /\ InvoicesSound => PapersSound
    BY DEF PapersSound
  <1>2. QED
    BY <1>1, FilesAlwaysMatch, InvoicesAlwaysSound, PTL
=============================================================================
