------------------------------- MODULE Deals --------------------------------
(***************************************************************************)
(* From a brief to an agreed deal: briefs, one creator's applications to   *)
(* them, deals, proposals, milestones and responsibilities (src/briefs,    *)
(* src/applications, src/deals).                                           *)
(*                                                                         *)
(* Every handler reads the row, checks its status, and writes without a    *)
(* condition in a later step.  A deal has the identity of its application  *)
(* (applicationId is unique); a milestone and a responsibility behave      *)
(* alike and are both tasks.  Titles, amounts, dates and splits are left   *)
(* out: what a proposal says is the proposal itself.                       *)
(***************************************************************************)
EXTENDS Integers, FiniteSets

CONSTANTS
  Briefs, Applications, Proposals, Tasks,
  Users,         \* the participants of the deals: brand owner, creator, admins
  Requests,      \* handlers in flight at the same time
  MaxDeaths      \* bound on handlers that end between two steps

ASSUME DealConstants == MaxDeaths \in Nat

VARIABLES
  brief,         \* briefs.status
  application,   \* applications: status and brief
  told,          \* notifications: type and application
  deal,          \* deals: status and the proposal its terms come from
  proposal,      \* deal_proposals: deal, author, status; history: who accepted it
  task,          \* milestones and responsibilities: deal and whether completed
  request,       \* the handler in each slot
  crossed,       \* history: rows on which two handlers were at work at once
  cut            \* history: rows whose handler ended half-way

rows    == <<brief, application, told, deal, proposal, task>>
history == <<crossed, cut>>
vars    == <<rows, request, history>>

Nothing  == [status |-> "none"]
Active   == {"PENDING", "ACCEPTED"}
Closed   == {"COMPLETED", "CANCELLED"}
Decided  == {"ACCEPTED", "REJECTED", "WITHDRAWN"}
Brief       == {"none", "OPEN", "CLOSED", "ARCHIVED", "removed"}
Application == [status: Active \cup Decided \cup {"removed"}, brief: Briefs]
Deal        == [status: {"NEGOTIATING", "ACTIVE"} \cup Closed, terms: Proposals]
Proposal    == [status: {"PENDING", "ACCEPTED", "REJECTED", "SUPERSEDED"},
                deal: Applications, by: Users, agreed: SUBSET Users]
Task        == [status: {"open", "completed", "removed"}, deal: Applications]
Row      == ({"brief", "apply"} \X Briefs) \cup ({"application", "deal"} \X Applications)

Idle     == [pc |-> "idle"]
Handlers ==
  [pc: {"brief.write"}, row: {"brief"} \X Briefs, to: {"CLOSED", "ARCHIVED"}]
  \cup [pc: {"apply"}, row: {"apply"} \X Briefs]
  \cup [pc: {"decide", "tell"}, row: {"application"} \X Applications, to: Decided \cup {"RECEIVED"}]
  \cup [pc: {"deal.create", "task.create"}, row: {"deal"} \X Applications]
  \cup [pc: {"deal.close"}, row: {"deal"} \X Applications, to: Closed]
  \cup [pc: {"supersede", "propose"}, row: {"deal"} \X Applications, by: Users]
  \cup [pc: {"accept", "activate", "reject"}, row: {"deal"} \X Applications, proposal: Proposals, by: Users]

\* The foreign keys: no row outlives the one it refers to.
KeysHold ==
  /\ \A a \in Applications : application[a] # Nothing /\ brief[application[a].brief] = "removed"
                              => application[a].status = "removed"
  /\ \A a \in Applications : deal[a] # Nothing => application[a].status \in Active \cup Decided
  /\ \A p \in Proposals : proposal[p] # Nothing => deal[proposal[p].deal] # Nothing
  /\ \A t \in Tasks : task[t] # Nothing => deal[task[t].deal] # Nothing

TypeOK ==
  /\ KeysHold
  /\ brief \in [Briefs -> Brief]
  /\ application \in [Applications -> {Nothing} \cup Application]
  /\ told \subseteq (Decided \cup {"RECEIVED"}) \X Applications
  /\ deal \in [Applications -> {Nothing} \cup Deal]
  /\ proposal \in [Proposals -> {Nothing} \cup Proposal]
  /\ task \in [Tasks -> {Nothing} \cup Task]
  /\ request \in [Requests -> {Idle} \cup Handlers]
  /\ crossed \subseteq Row /\ cut \subseteq Row

Init ==
  /\ brief = [b \in Briefs |-> "none"] /\ application = [a \in Applications |-> Nothing]
  /\ told = {} /\ deal = [a \in Applications |-> Nothing]
  /\ proposal = [p \in Proposals |-> Nothing] /\ task = [t \in Tasks |-> Nothing]
  /\ request = [r \in Requests |-> Idle]
  /\ crossed = {} /\ cut = {}

---------------------------------------------------------------------------
At(r, pc) == request[r].pc = pc
Id(r)     == request[r].row[2]
On(row)   == {r \in Requests : request[r] # Idle /\ request[r].row = row}

\* A handler has read its row and passed the checks.
Start(r, h) ==
  /\ request[r] = Idle
  /\ request' = [request EXCEPT ![r] = h]
  /\ crossed' = IF On(h.row) = {} THEN crossed ELSE crossed \cup {h.row}
  /\ UNCHANGED <<rows, cut>>
Goto(r, pc) == request' = [request EXCEPT ![r].pc = pc] /\ UNCHANGED history
Finish(r)   == request' = [request EXCEPT ![r] = Idle] /\ UNCHANGED history

Die(r) ==
  /\ request[r] # Idle /\ Cardinality(cut) < MaxDeaths                    \* bound
  /\ cut' = cut \cup {request[r].row}
  /\ request' = [request EXCEPT ![r] = Idle]
  /\ UNCHANGED <<rows, crossed>>

---------------------------------------------------------------------------
(* BriefsService                                                           *)
CreateBrief(b) ==
  /\ brief[b] = "none"
  /\ brief' = [brief EXCEPT ![b] = "OPEN"]
  /\ UNCHANGED <<application, told, deal, proposal, task, request, history>>

CloseBegin(r, b)   == brief[b] = "OPEN" /\ Start(r, [pc |-> "brief.write", row |-> <<"brief", b>>, to |-> "CLOSED"])
ArchiveBegin(r, b) == /\ brief[b] \in {"OPEN", "CLOSED"}
                      /\ Start(r, [pc |-> "brief.write", row |-> <<"brief", b>>, to |-> "ARCHIVED"])

BriefWrite(r) ==
  /\ At(r, "brief.write")
  /\ brief' = IF brief[Id(r)] = "removed" THEN brief ELSE [brief EXCEPT ![Id(r)] = request[r].to]
  /\ Finish(r)
  /\ UNCHANGED <<application, told, deal, proposal, task>>

ApplicationsTo(b) == {a \in Applications : application[a] # Nothing /\ application[a].brief = b}

\* Mutant: the removal cascades to applications that have a deal.
RemoveCascading(b) ==
  /\ brief[b] \notin {"none", "removed"}
  /\ brief' = [brief EXCEPT ![b] = "removed"]
  /\ application' = [a \in Applications |->
       IF a \in ApplicationsTo(b) THEN [application[a] EXCEPT !.status = "removed"] ELSE application[a]]
  /\ UNCHANGED <<told, deal, proposal, task, request, history>>

\* The applications go with their brief; one that has a deal keeps both.
RemoveBrief(b) ==
  /\ brief[b] \notin {"none", "removed"} /\ \A a \in ApplicationsTo(b) : deal[a] = Nothing
  /\ brief' = [brief EXCEPT ![b] = "removed"]
  /\ application' = [a \in Applications |->
       IF a \in ApplicationsTo(b) THEN [application[a] EXCEPT !.status = "removed"] ELSE application[a]]
  /\ UNCHANGED <<told, deal, proposal, task, request, history>>

---------------------------------------------------------------------------
(* ApplicationsService                                                     *)
\* Mutant: an application that is still open does not count.
ApplyTwice(r, b) ==
  /\ brief[b] = "OPEN" /\ \A a \in ApplicationsTo(b) : application[a].status # "ACCEPTED"
  /\ Start(r, [pc |-> "apply", row |-> <<"apply", b>>])

ApplyBegin(r, b) ==
  /\ brief[b] = "OPEN" /\ \A a \in ApplicationsTo(b) : application[a].status \notin Active
  /\ Start(r, [pc |-> "apply", row |-> <<"apply", b>>])

ApplyCreate(r, a) ==
  /\ At(r, "apply") /\ application[a] = Nothing /\ brief[Id(r)] # "removed"
  /\ application' = [application EXCEPT ![a] = [status |-> "PENDING", brief |-> Id(r)]]
  /\ request' = [request EXCEPT ![r] = [pc |-> "tell", row |-> <<"application", a>>, to |-> "RECEIVED"]]
  /\ UNCHANGED <<brief, told, deal, proposal, task, history>>

ApplyRefused(r) == At(r, "apply") /\ brief[Id(r)] = "removed" /\ Finish(r) /\ UNCHANGED rows

\* withdraw by the applicant; accept and reject by the brand's owner.
DecideBegin(r, a, s) ==
  /\ application[a].status = "PENDING" /\ s \in Decided
  /\ Start(r, [pc |-> "decide", row |-> <<"application", a>>, to |-> s])

DecideWrite(r) ==
  /\ At(r, "decide")
  /\ IF application[Id(r)].status = "removed" THEN Finish(r) /\ UNCHANGED application
     ELSE Goto(r, "tell") /\ application' = [application EXCEPT ![Id(r)].status = request[r].to]
  /\ UNCHANGED <<brief, told, deal, proposal, task>>

(* NotificationsService.create                                             *)
Tell(r) ==
  /\ At(r, "tell")
  /\ told' = told \cup {<<request[r].to, Id(r)>>}
  /\ Finish(r)
  /\ UNCHANGED <<brief, application, deal, proposal, task>>

---------------------------------------------------------------------------
(* DealsService                                                            *)
DealBegin(r, a) ==
  /\ application[a].status = "ACCEPTED" /\ deal[a] = Nothing
  /\ Start(r, [pc |-> "deal.create", row |-> <<"deal", a>>])

Fresh(d, u) == [status |-> "PENDING", deal |-> d, by |-> u, agreed |-> {}]

\* The deal and its first proposal are one statement.
DealCreate(r, u, p) ==
  LET a == Id(r) IN
  /\ At(r, "deal.create") /\ deal[a] = Nothing /\ application[a].status # "removed" /\ proposal[p] = Nothing
  /\ deal' = [deal EXCEPT ![a] = [status |-> "NEGOTIATING", terms |-> p]]
  /\ proposal' = [proposal EXCEPT ![p] = Fresh(a, u)]
  /\ Finish(r)
  /\ UNCHANGED <<brief, application, told, task>>

DealRefused(r) ==
  /\ At(r, "deal.create") /\ (deal[Id(r)] # Nothing \/ application[Id(r)].status = "removed")
  /\ Finish(r) /\ UNCHANGED rows

CompleteBegin(r, d) ==
  /\ deal[d].status = "ACTIVE"
  /\ Start(r, [pc |-> "deal.close", row |-> <<"deal", d>>, to |-> "COMPLETED"])
CancelBegin(r, d) ==
  /\ deal[d].status \in {"NEGOTIATING", "ACTIVE"}
  /\ Start(r, [pc |-> "deal.close", row |-> <<"deal", d>>, to |-> "CANCELLED"])

CloseDeal(r) ==
  /\ At(r, "deal.close")
  /\ deal' = [deal EXCEPT ![Id(r)].status = request[r].to]
  /\ Finish(r)
  /\ UNCHANGED <<brief, application, told, proposal, task>>

---------------------------------------------------------------------------
(* ProposalsService                                                        *)
ProposeBegin(r, d, u) ==
  /\ deal[d].status = "NEGOTIATING"
  /\ Start(r, [pc |-> "supersede", row |-> <<"deal", d>>, by |-> u])

Of(d) == {p \in Proposals : proposal[p] # Nothing /\ proposal[p].deal = d}

\* Mutant: a new proposal leaves the open ones open.
SupersedeNone(r) == At(r, "supersede") /\ Goto(r, "propose") /\ UNCHANGED rows

Supersede(r) ==
  /\ At(r, "supersede")
  /\ proposal' = [p \in Proposals |-> IF p \in Of(Id(r)) /\ proposal[p].status = "PENDING"
                                      THEN [proposal[p] EXCEPT !.status = "SUPERSEDED"] ELSE proposal[p]]
  /\ Goto(r, "propose")
  /\ UNCHANGED <<brief, application, told, deal, task>>

Propose(r, p) ==
  /\ At(r, "propose") /\ proposal[p] = Nothing
  /\ proposal' = [proposal EXCEPT ![p] = Fresh(Id(r), request[r].by)]
  /\ Finish(r)
  /\ UNCHANGED <<brief, application, told, deal, task>>

\* Mutant: the deal may have left the negotiation.
AnswerAnyDeal(r, p, u, pc) ==
  /\ proposal[p].status = "PENDING" /\ proposal[p].by # u
  /\ Start(r, [pc |-> pc, row |-> <<"deal", proposal[p].deal>>, proposal |-> p, by |-> u])

\* decide, the common head of accept and reject
Answer(r, p, u, pc) ==
  /\ proposal[p].status = "PENDING" /\ proposal[p].by # u
  /\ deal[proposal[p].deal].status = "NEGOTIATING"
  /\ Start(r, [pc |-> pc, row |-> <<"deal", proposal[p].deal>>, proposal |-> p, by |-> u])

AcceptProposal(r) ==
  LET p == request[r].proposal IN
  /\ At(r, "accept")
  /\ proposal' = [proposal EXCEPT ![p].status = "ACCEPTED", ![p].agreed = @ \cup {request[r].by}]
  /\ Goto(r, "activate")
  /\ UNCHANGED <<brief, application, told, deal, task>>

Activate(r) ==
  /\ At(r, "activate")
  /\ deal' = [deal EXCEPT ![Id(r)] = [status |-> "ACTIVE", terms |-> request[r].proposal]]
  /\ Finish(r)
  /\ UNCHANGED <<brief, application, told, proposal, task>>

Reject(r) ==
  /\ At(r, "reject")
  /\ proposal' = [proposal EXCEPT ![request[r].proposal].status = "REJECTED"]
  /\ Finish(r)
  /\ UNCHANGED <<brief, application, told, deal, task>>

---------------------------------------------------------------------------
(* MilestonesService and ResponsibilitiesService.  Only create looks at    *)
(* the deal's status.                                                      *)
TaskBegin(r, d) ==
  /\ deal[d].status \in {"NEGOTIATING", "ACTIVE"}
  /\ Start(r, [pc |-> "task.create", row |-> <<"deal", d>>])

TaskCreate(r, t) ==
  /\ At(r, "task.create") /\ task[t] = Nothing
  /\ task' = [task EXCEPT ![t] = [status |-> "open", deal |-> Id(r)]]
  /\ Finish(r)
  /\ UNCHANGED <<brief, application, told, deal, proposal>>

CompleteTask(t) ==
  /\ task[t].status = "open"
  /\ task' = [task EXCEPT ![t].status = "completed"]
  /\ UNCHANGED <<brief, application, told, deal, proposal, request, history>>

RemoveTask(t) ==
  /\ task[t].status \in {"open", "completed"}
  /\ task' = [task EXCEPT ![t].status = "removed"]
  /\ UNCHANGED <<brief, application, told, deal, proposal, request, history>>

---------------------------------------------------------------------------
\* bound: briefs and applications move on before the first deal only, and a deal
\* moves on only if nothing but its own application happened before it.
Open    == \A a \in Applications : deal[a] = Nothing
Calm(d) == /\ \A a \in Applications \ {d} : application[a] = Nothing
           /\ \A b \in Briefs : brief[b] \in {"none", "OPEN"}
           /\ \A row \in crossed \cup cut : row[1] = "deal"

BriefStep(r) == \/ BriefWrite(r)
                \/ Open /\ \E b \in Briefs : CloseBegin(r, b) \/ ArchiveBegin(r, b)
ApplicationStep(r) ==
  \/ ApplyRefused(r) \/ DecideWrite(r) \/ Tell(r)
  \/ Open /\ \E b \in Briefs : ApplyBegin(r, b)
  \/ Open /\ \E a \in Applications, s \in Decided : DecideBegin(r, a, s)
  \/ \E a \in Applications : ApplyCreate(r, a)
DealStep(r) ==
  \/ DealRefused(r) \/ CloseDeal(r)
  \/ \E d \in Applications : \/ DealBegin(r, d)
                             \/ Calm(d) /\ (CompleteBegin(r, d) \/ CancelBegin(r, d))
  \/ \E u \in Users, p \in Proposals : DealCreate(r, u, p)
ProposalStep(r) ==
  \/ Supersede(r) \/ AcceptProposal(r) \/ Activate(r) \/ Reject(r)
  \/ \E d \in Applications, u \in Users : Calm(d) /\ ProposeBegin(r, d, u)
  \/ \E p \in Proposals : \/ Propose(r, p)
                          \/ \E u \in Users, pc \in {"accept", "reject"} :
                               Answer(r, p, u, pc) /\ Calm(proposal[p].deal)
TaskStep(r) == \/ \E d \in Applications : Calm(d) /\ TaskBegin(r, d)
               \/ \E t \in Tasks : TaskCreate(r, t)

Next == \/ \E b \in Briefs : CreateBrief(b) \/ RemoveBrief(b)
        \/ \E t \in Tasks : CompleteTask(t) \/ RemoveTask(t)
        \/ \E r \in Requests : BriefStep(r) \/ ApplicationStep(r) \/ DealStep(r) \/ ProposalStep(r)
                               \/ TaskStep(r) \/ Die(r)
Spec == Init /\ [][Next]_vars

---------------------------------------------------------------------------
Undisturbed(row) == row \notin crossed \cup cut /\ On(row) = {}

(* A creator has at most one active application to a brief, and has been   *)
(* told of each decision, with the decision that stands: unless two        *)
(* handlers were at work on the row at once, or one ended half-way.        *)
ApplicationsSound ==
  /\ \A a, c \in Applications :
       /\ a # c /\ {application[a].status, application[c].status} \subseteq Active
       /\ application[a].brief = application[c].brief
       => crossed \cap {<<"apply", application[a].brief>>, <<"application", a>>, <<"application", c>>} # {}
  /\ \A a \in Applications :
       application[a].status \in Decided /\ Undisturbed(<<"application", a>>)
         => {n \in told : n[2] = a} = {<<"RECEIVED", a>>, <<application[a].status, a>>}

(* An agreed deal stands on an accepted application and on one accepted    *)
(* proposal, whose terms it has, which one participant made and another    *)
(* took; no proposal stays open beside it, and while it is negotiated only *)
(* one is open: unless two handlers were at work on it at once, or one     *)
(* ended half-way.                                                         *)
TermsAgreed ==
  \A d \in Applications : deal[d] # Nothing =>
    /\ application[d].status = "ACCEPTED" \/ <<"application", d>> \in crossed
    /\ Undisturbed(<<"deal", d>>) =>
         LET open == {p \in Of(d) : proposal[p].status = "PENDING"}
             won  == {p \in Of(d) : proposal[p].status = "ACCEPTED"} IN
         /\ deal[d].status = "NEGOTIATING" => (Cardinality(open) <= 1 /\ won = {})
         /\ deal[d].status \in {"ACTIVE", "COMPLETED"} =>
              (open = {} /\ won = {deal[d].terms} /\ \A p \in won : proposal[p].by \notin proposal[p].agreed)

(* A completed or cancelled deal is never brought back, nor given new      *)
(* tasks, but by a handler that was at work on it when it was closed.      *)
DealsEndOnce ==
  [][\A d \in Applications : deal[d].status \in Closed /\ <<"deal", d>> \notin crossed
       => /\ deal'[d] = deal[d]
          /\ \A t \in Tasks : task[t] = Nothing /\ task'[t] # Nothing => task'[t].deal # d]_vars
=============================================================================
