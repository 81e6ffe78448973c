-------------------------- MODULE AgreementsProofs ---------------------------
(***************************************************************************)
(* From the brief to the signed contract, for any number of rows, users    *)
(* and handlers.                                                           *)
(*                                                                         *)
(* Deals: its types and foreign keys; that an undisturbed deal has the     *)
(* terms of its one accepted proposal and stands on an accepted            *)
(* application; that an applicant was told what stands; that a closed deal *)
(* stays closed.                                                           *)
(* Contracts: its types, that an executed contract is signed by both       *)
(* parties and that the status tells the signatures when nothing overlaps, *)
(* and that a final status stays.                                          *)
(***************************************************************************)
EXTENDS Agreements, FiniteSetTheorems, TLAPS

---------------------------------------------------------------------------
(* DEALS                                                                   *)
---------------------------------------------------------------------------
OnDealPcs  == {"deal.close", "supersede", "propose", "accept", "activate", "reject", "task.create"}
AnswerPcs  == {"accept", "activate", "reject"}

(* What a handler works on exists, whoever answers a proposal did not make *)
(* it, and a decision is one of the three.                                 *)
Placed(r) ==
  /\ request[r].pc \in {"decide", "tell", "deal.create"} => application[Id(r)] # Nothing
  /\ At(r, "decide") => request[r].to \in Decided
  /\ request[r].pc \in OnDealPcs => deal[Id(r)] # Nothing
  /\ request[r].pc \in AnswerPcs =>
       LET p == proposal[request[r].proposal] IN p # Nothing /\ p.deal = Id(r) /\ p.by # request[r].by

DealsTypeInv ==
  /\ TypeOK
  /\ \A r \in Requests : Placed(r)
  /\ \A n \in told : application[n[2]] # Nothing
  /\ \A p \in Proposals : proposal[p] # Nothing => proposal[p].by \notin proposal[p].agreed

(* One handler at a time is at work on a row until two cross on it.        *)
OneAtATime ==
  \A row \in Row \ crossed : \A r, s \in On(row) : r = s

(* What a handler of a deal has read still holds while it is alone.        *)
DealRead(r) ==
  request[r].row \notin crossed =>
    /\ At(r, "deal.create") => deal[Id(r)] = Nothing
    /\ request[r].pc \in {"deal.close", "task.create"} => deal[Id(r)].status \in {"NEGOTIATING", "ACTIVE"}
    /\ At(r, "deal.close") /\ request[r].to = "COMPLETED" => deal[Id(r)].status = "ACTIVE"
    /\ request[r].pc \in OnDealPcs \ {"deal.close", "task.create"} => deal[Id(r)].status = "NEGOTIATING"

(* And what a decision has read, or the creation of a deal: but the brief  *)
(* may have been removed since.                                            *)
DecisionRead(r) ==
  /\ At(r, "decide") /\ request[r].row \notin crossed => application[Id(r)].status \in {"PENDING", "removed"}
  /\ At(r, "deal.create") /\ <<"application", Id(r)>> \notin crossed
       => application[Id(r)].status \in {"ACCEPTED", "removed"}

ReadInv ==
  /\ OneAtATime
  /\ \A r \in Requests : request[r] # Idle => DealRead(r) /\ DecisionRead(r)
  /\ \A d \in Applications : deal[d] # Nothing =>
       application[d].status = "ACCEPTED" \/ <<"application", d>> \in crossed

Pending(d) == {p \in Of(d) : proposal[p].status = "PENDING"}
Won(d)     == {p \in Of(d) : proposal[p].status = "ACCEPTED"}
Steady(row) == row \notin crossed \cup cut

(* The proposals of a deal between two handlers, and half-way through one. *)
AtRest(d) ==
  /\ deal[d].status = "NEGOTIATING" => Won(d) = {} /\ \A p, q \in Pending(d) : p = q
  /\ deal[d].status \in {"ACTIVE", "COMPLETED"} => Pending(d) = {} /\ Won(d) = {deal[d].terms}

Midway(r, d) ==
  /\ At(r, "propose") => Pending(d) = {} /\ Won(d) = {}
  /\ At(r, "activate") => Pending(d) = {} /\ Won(d) = {request[r].proposal}
  /\ request[r].pc \in {"accept", "reject"} => proposal[request[r].proposal].status = "PENDING"

TermsKept(d) ==
  Steady(<<"deal", d>>) /\ deal[d] # Nothing =>
    /\ \A r \in On(<<"deal", d>>) : Midway(r, d)
    /\ (\A r \in On(<<"deal", d>>) : request[r].pc \notin {"propose", "activate"}) => AtRest(d)
TermsInv == \A d \in Applications : TermsKept(d)

(* The notifications of an application between two handlers, and while the *)
(* last one is still to be sent.                                           *)
Heard(a) == {n \in told : n[2] = a}
Telling(a) == {r \in On(<<"application", a>>) : At(r, "tell")}
Received(a) == <<"RECEIVED", a>>

HeardKept(a) ==
  Steady(<<"application", a>>) /\ application[a] # Nothing /\ application[a].status # "removed" =>
    /\ application[a].status = "PENDING" /\ Telling(a) = {} => Heard(a) = {Received(a)}
    /\ application[a].status = "PENDING" =>
         \A r \in Telling(a) : request[r].to = "RECEIVED" /\ Heard(a) = {}
    /\ application[a].status \in Decided /\ Telling(a) = {}
         => Heard(a) = {Received(a), <<application[a].status, a>>}
    /\ application[a].status \in Decided =>
         \A r \in Telling(a) : request[r].to = application[a].status /\ Heard(a) = {Received(a)}

OneActive ==
  /\ \A a, c \in Applications :
       /\ a # c /\ {application[a].status, application[c].status} \subseteq Active
       /\ application[a].brief = application[c].brief
       => crossed \cap {<<"apply", application[a].brief>>, <<"application", a>>, <<"application", c>>} # {}
  /\ \A r \in Requests : At(r, "apply") /\ request[r].row \notin crossed =>
       \A a \in ApplicationsTo(Id(r)) : application[a].status \in Active => <<"application", a>> \in crossed

ApplicationsInv == OneActive /\ \A a \in Applications : HeardKept(a)

---------------------------------------------------------------------------
(* The slots                                                               *)
LEMMA SlotTyped ==
  ASSUME TypeOK, NEW r \in Requests
  PROVE  /\ request[r] \in {Idle} \cup Handlers
         /\ request[r] # Idle <=> request[r].pc # "idle"
         /\ At(r, "brief.write") => request[r].row = <<"brief", Id(r)>> /\ Id(r) \in Briefs
                                     /\ request[r].to \in {"CLOSED", "ARCHIVED"}
         /\ At(r, "apply") => request[r].row = <<"apply", Id(r)>> /\ Id(r) \in Briefs
         /\ request[r].pc \in {"decide", "tell"} => request[r].row = <<"application", Id(r)>> /\ Id(r) \in Applications
                                     /\ request[r].to \in Decided \cup {"RECEIVED"}
         /\ request[r].pc \in OnDealPcs \cup {"deal.create"}
              => request[r].row = <<"deal", Id(r)>> /\ Id(r) \in Applications
         /\ At(r, "deal.close") => request[r].to \in Closed
         /\ request[r].pc \in {"supersede", "propose"} \cup AnswerPcs => request[r].by \in Users
         /\ request[r].pc \in AnswerPcs => request[r].proposal \in Proposals
         /\ request[r].pc \in {"idle", "brief.write", "apply", "decide", "tell", "deal.create"} \cup OnDealPcs
         /\ request[r] # Idle => request[r].row \in Row
  <1>1. request[r] \in {Idle} \cup Handlers
    BY DEF TypeOK
  <1>2. CASE request[r] = Idle
    BY <1>2 DEF Idle, At, Id, OnDealPcs, AnswerPcs
  <1>3. CASE request[r] \in Handlers
    <2>1. CASE request[r] \in [pc: {"brief.write"}, row: {"brief"} \X Briefs, to: {"CLOSED", "ARCHIVED"}]
      BY <2>1, <1>1 DEF Idle, At, Id, OnDealPcs, AnswerPcs, Row
    <2>2. CASE request[r] \in [pc: {"apply"}, row: {"apply"} \X Briefs]
      BY <2>2, <1>1 DEF Idle, At, Id, OnDealPcs, AnswerPcs, Row
    <2>3. CASE request[r] \in [pc: {"decide", "tell"}, row: {"application"} \X Applications,
                               to: Decided \cup {"RECEIVED"}]
      BY <2>3, <1>1 DEF Idle, At, Id, OnDealPcs, AnswerPcs, Row
    <2>4. CASE request[r] \in [pc: {"deal.create", "task.create"}, row: {"deal"} \X Applications]
      BY <2>4, <1>1 DEF Idle, At, Id, OnDealPcs, AnswerPcs, Row
    <2>5. CASE request[r] \in [pc: {"deal.close"}, row: {"deal"} \X Applications, to: Closed]
      BY <2>5, <1>1 DEF Idle, At, Id, OnDealPcs, AnswerPcs, Row
    <2>6. CASE request[r] \in [pc: {"supersede", "propose"}, row: {"deal"} \X Applications, by: Users]
      BY <2>6, <1>1 DEF Idle, At, Id, OnDealPcs, AnswerPcs, Row
    <2>7. CASE request[r] \in [pc: {"accept", "activate", "reject"}, row: {"deal"} \X Applications,
                               proposal: Proposals, by: Users]
      BY <2>7, <1>1 DEF Idle, At, Id, OnDealPcs, AnswerPcs, Row
    <2>8. QED
      BY <1>3, <2>1, <2>2, <2>3, <2>4, <2>5, <2>6, <2>7 DEF Handlers
  <1>4. QED
    BY <1>1, <1>2, <1>3

\* A slot that is given another record.
LEMMA SlotSet ==
  ASSUME TypeOK, NEW r \in Requests, NEW h \in {Idle} \cup Handlers,
         request' = [request EXCEPT ![r] = h]
  PROVE  /\ request' \in [Requests -> {Idle} \cup Handlers]
         /\ request'[r] = h
         /\ \A s \in Requests : s # r => request'[s] = request[s]
  BY DEF TypeOK

\* A handler that goes on to its next step.
LEMMA SlotGoes ==
  ASSUME TypeOK, NEW r \in Requests, NEW pc,
         \/ At(r, "decide") /\ pc = "tell"
         \/ At(r, "supersede") /\ pc = "propose"
         \/ At(r, "accept") /\ pc = "activate",
         Goto(r, pc)
  PROVE  /\ request' \in [Requests -> {Idle} \cup Handlers]
         /\ request'[r].pc = pc /\ request'[r].row = request[r].row /\ request'[r] # Idle
         /\ At(r, "decide") => request'[r].to = request[r].to
         /\ At(r, "accept") => request'[r].proposal = request[r].proposal /\ request'[r].by = request[r].by
         /\ \A s \in Requests : s # r => request'[s] = request[s]
  <1> DEFINE h == [request[r] EXCEPT !.pc = pc]
  <1>1. request' = [request EXCEPT ![r] = h]
    BY DEF Goto
  <1>2. request[r] \in Handlers
    BY SlotTyped DEF At, Idle
  <1>3. CASE At(r, "decide") /\ pc = "tell"
    <2>1. request[r] \in [pc: {"decide", "tell"}, row: {"application"} \X Applications,
                               to: Decided \cup {"RECEIVED"}]
      BY <1>2, <1>3 DEF Handlers, At
    <2>2. /\ h \in [pc: {"decide", "tell"}, row: {"application"} \X Applications, to: Decided \cup {"RECEIVED"}]
          /\ h.pc = pc /\ h.row = request[r].row /\ h.to = request[r].to
      BY <2>1, <1>3
    <2>3. h \in Handlers /\ h # Idle
      BY <2>2, <1>3 DEF Handlers, Idle
    <2>4. QED
      BY <1>1, <1>3, <2>2, <2>3, SlotSet DEF At
  <1>4. CASE At(r, "supersede") /\ pc = "propose"
    <2>1. request[r] \in [pc: {"supersede", "propose"}, row: {"deal"} \X Applications, by: Users]
      BY <1>2, <1>4 DEF Handlers, At
    <2>2. /\ h \in [pc: {"supersede", "propose"}, row: {"deal"} \X Applications, by: Users]
          /\ h.pc = pc /\ h.row = request[r].row
      BY <2>1, <1>4
    <2>3. h \in Handlers /\ h # Idle
      BY <2>2, <1>4 DEF Handlers, Idle
    <2>4. QED
      BY <1>1, <1>4, <2>2, <2>3, SlotSet DEF At
  <1>5. CASE At(r, "accept") /\ pc = "activate"
    <2>1. request[r] \in [pc: {"accept", "activate", "reject"}, row: {"deal"} \X Applications,
                          proposal: Proposals, by: Users]
      BY <1>2, <1>5 DEF Handlers, At
    <2>2. /\ h \in [pc: {"accept", "activate", "reject"}, row: {"deal"} \X Applications,
                    proposal: Proposals, by: Users]
          /\ h.pc = pc /\ h.row = request[r].row /\ h.proposal = request[r].proposal /\ h.by = request[r].by
      BY <2>1, <1>5
    <2>3. h \in Handlers /\ h # Idle
      BY <2>2, <1>5 DEF Handlers, Idle
    <2>4. QED
      BY <1>1, <1>5, <2>2, <2>3, SlotSet DEF At
  <1>6. QED
    BY <1>3, <1>4, <1>5

\* A handler that has read its row.
LEMMA SlotStarts ==
  ASSUME TypeOK, NEW r \in Requests, NEW h \in Handlers, Start(r, h)
  PROVE  /\ request' \in [Requests -> {Idle} \cup Handlers]
         /\ request[r] = Idle /\ request'[r] = h /\ h # Idle /\ h.row \in Row
         /\ \A s \in Requests : s # r => request'[s] = request[s]
         /\ crossed' \subseteq Row /\ crossed \subseteq crossed' /\ cut' = cut
         /\ h.row \notin crossed' => On(h.row) = {}
         /\ crossed' \subseteq crossed \cup {h.row}
         /\ UNCHANGED rows
  <1>1. h.row \in Row /\ h # Idle
    BY DEF Handlers, Row, Idle
  <1>2. crossed \subseteq Row
    BY DEF TypeOK
  <1>3. QED
    BY <1>1, <1>2, SlotSet DEF Start

\* A handler that ends, by itself or because its process dies.
LEMMA SlotEnds ==
  ASSUME TypeOK, NEW r \in Requests, Finish(r) \/ Die(r)
  PROVE  /\ request' \in [Requests -> {Idle} \cup Handlers]
         /\ request'[r] = Idle
         /\ \A s \in Requests : s # r => request'[s] = request[s]
         /\ crossed' = crossed /\ cut \subseteq cut'
         /\ Finish(r) => cut' = cut
         /\ Die(r) => cut' = cut \cup {request[r].row} /\ cut' \subseteq Row /\ UNCHANGED rows
  <1>1. request' = [request EXCEPT ![r] = Idle]
    BY DEF Finish, Die
  <1>2. Die(r) => request[r].row \in Row
    BY SlotTyped DEF Die
  <1>3. cut \subseteq Row
    BY DEF TypeOK
  <1>4. QED
    BY <1>1, <1>2, <1>3, SlotSet DEF Finish, Die, history

---------------------------------------------------------------------------
(* The steps                                                               *)
\* What a handler has read when it starts.
HasRead(h) ==
  /\ h.pc \in {"brief.write", "apply", "decide"} \cup {"deal.create", "deal.close", "task.create"}
              \cup {"supersede", "accept", "reject"}
  /\ h.pc = "apply" => \A a \in ApplicationsTo(h.row[2]) : application[a].status \notin Active
  /\ h.pc = "decide" => application[h.row[2]].status = "PENDING" /\ h.to \in Decided
  /\ h.pc = "deal.create" => application[h.row[2]].status = "ACCEPTED" /\ deal[h.row[2]] = Nothing
  /\ h.pc \in {"deal.close", "task.create"} => deal[h.row[2]].status \in {"NEGOTIATING", "ACTIVE"}
  /\ h.pc = "deal.close" /\ h.to = "COMPLETED" => deal[h.row[2]].status = "ACTIVE"
  /\ h.pc \in {"supersede", "accept", "reject"} => deal[h.row[2]].status = "NEGOTIATING"
  /\ h.pc \in {"accept", "reject"} =>
       LET p == proposal[h.proposal] IN p.status = "PENDING" /\ p.deal = h.row[2] /\ p.by # h.by

Starts(r) == \E h \in Handlers : HasRead(h) /\ Start(r, h)

LEMMA BriefStarts ==
  ASSUME TypeOK, NEW r \in Requests, NEW b \in Briefs, CloseBegin(r, b) \/ ArchiveBegin(r, b)
  PROVE  Starts(r)
  <1>1. CASE CloseBegin(r, b)
    <2> DEFINE h == [pc |-> "brief.write", row |-> <<"brief", b>>, to |-> "CLOSED"]
    <2>1. h \in Handlers /\ HasRead(h)
      BY DEF Handlers, HasRead
    <2>2. Start(r, h)
      BY <1>1 DEF CloseBegin
    <2>3. QED
      BY <2>1, <2>2 DEF Starts
  <1>2. CASE ArchiveBegin(r, b)
    <2> DEFINE h == [pc |-> "brief.write", row |-> <<"brief", b>>, to |-> "ARCHIVED"]
    <2>1. h \in Handlers /\ HasRead(h)
      BY DEF Handlers, HasRead
    <2>2. Start(r, h)
      BY <1>2 DEF ArchiveBegin
    <2>3. QED
      BY <2>1, <2>2 DEF Starts
  <1>3. QED
    BY <1>1, <1>2

LEMMA ApplicationStarts ==
  ASSUME TypeOK, NEW r \in Requests,
         \/ \E b \in Briefs : ApplyBegin(r, b)
         \/ \E a \in Applications, s \in Decided : DecideBegin(r, a, s)
  PROVE  Starts(r)
  <1>1. CASE \E b \in Briefs : ApplyBegin(r, b)
    <2>1. PICK b \in Briefs : ApplyBegin(r, b)
      BY <1>1
    <2> DEFINE h == [pc |-> "apply", row |-> <<"apply", b>>]
    <2>2. h \in Handlers /\ HasRead(h)
      BY <2>1 DEF Handlers, HasRead, ApplyBegin
    <2>3. Start(r, h)
      BY <2>1 DEF ApplyBegin
    <2>4. QED
      BY <2>2, <2>3 DEF Starts
  <1>2. CASE \E a \in Applications, s \in Decided : DecideBegin(r, a, s)
    <2>1. PICK a \in Applications, s \in Decided : DecideBegin(r, a, s)
      BY <1>2
    <2> DEFINE h == [pc |-> "decide", row |-> <<"application", a>>, to |-> s]
    <2>2. h \in Handlers /\ HasRead(h)
      BY <2>1 DEF Handlers, HasRead, DecideBegin
    <2>3. Start(r, h)
      BY <2>1 DEF DecideBegin
    <2>4. QED
      BY <2>2, <2>3 DEF Starts
  <1>3. QED
    BY <1>1, <1>2

LEMMA DealStarts ==
  ASSUME TypeOK, NEW r \in Requests, NEW d \in Applications,
         DealBegin(r, d) \/ CompleteBegin(r, d) \/ CancelBegin(r, d) \/ TaskBegin(r, d)
  PROVE  Starts(r)
  <1>1. CASE DealBegin(r, d)
    <2> DEFINE h == [pc |-> "deal.create", row |-> <<"deal", d>>]
    <2>1. h \in Handlers /\ HasRead(h)
      BY <1>1 DEF Handlers, HasRead, DealBegin
    <2>2. Start(r, h)
      BY <1>1 DEF DealBegin
    <2>3. QED
      BY <2>1, <2>2 DEF Starts
  <1>2. CASE CompleteBegin(r, d)
    <2> DEFINE h == [pc |-> "deal.close", row |-> <<"deal", d>>, to |-> "COMPLETED"]
    <2>1. h \in Handlers /\ HasRead(h)
      BY <1>2 DEF Handlers, HasRead, CompleteBegin, Closed
    <2>2. Start(r, h)
      BY <1>2 DEF CompleteBegin
    <2>3. QED
      BY <2>1, <2>2 DEF Starts
  <1>3. CASE CancelBegin(r, d)
    <2> DEFINE h == [pc |-> "deal.close", row |-> <<"deal", d>>, to |-> "CANCELLED"]
    <2>1. h \in Handlers /\ HasRead(h)
      BY <1>3 DEF Handlers, HasRead, CancelBegin, Closed
    <2>2. Start(r, h)
      BY <1>3 DEF CancelBegin
    <2>3. QED
      BY <2>1, <2>2 DEF Starts
  <1>4. CASE TaskBegin(r, d)
    <2> DEFINE h == [pc |-> "task.create", row |-> <<"deal", d>>]
    <2>1. h \in Handlers /\ HasRead(h)
      BY <1>4 DEF Handlers, HasRead, TaskBegin
    <2>2. Start(r, h)
      BY <1>4 DEF TaskBegin
    <2>3. QED
      BY <2>1, <2>2 DEF Starts
  <1>5. QED
    BY <1>1, <1>2, <1>3, <1>4

LEMMA ProposalStarts ==
  ASSUME TypeOK, NEW r \in Requests, NEW u \in Users,
         \/ \E d \in Applications : ProposeBegin(r, d, u)
         \/ \E p \in Proposals, pc \in {"accept", "reject"} : Answer(r, p, u, pc)
  PROVE  Starts(r)
  <1>1. CASE \E d \in Applications : ProposeBegin(r, d, u)
    <2>1. PICK d \in Applications : ProposeBegin(r, d, u)
      BY <1>1
    <2> DEFINE h == [pc |-> "supersede", row |-> <<"deal", d>>, by |-> u]
    <2>2. h \in Handlers /\ HasRead(h)
      BY <2>1 DEF Handlers, HasRead, ProposeBegin
    <2>3. Start(r, h)
      BY <2>1 DEF ProposeBegin
    <2>4. QED
      BY <2>2, <2>3 DEF Starts
  <1>2. CASE \E p \in Proposals, pc \in {"accept", "reject"} : Answer(r, p, u, pc)
    <2>1. PICK p \in Proposals, pc \in {"accept", "reject"} : Answer(r, p, u, pc)
      BY <1>2
    <2> DEFINE h == [pc |-> pc, row |-> <<"deal", proposal[p].deal>>, proposal |-> p, by |-> u]
    <2>2. proposal[p] \in Proposal
      BY <2>1 DEF TypeOK, Answer, Nothing
    <2>3. proposal[p].deal \in Applications
      BY <2>2 DEF Proposal
    <2>4. h \in Handlers /\ HasRead(h)
      BY <2>1, <2>3 DEF Handlers, HasRead, Answer
    <2>5. Start(r, h)
      BY <2>1 DEF Answer
    <2>6. QED
      BY <2>4, <2>5 DEF Starts
  <1>3. QED
    BY <1>1, <1>2

\* The steps of one slot that are not its start.
Proceeds(r) ==
  \/ Die(r) \/ BriefWrite(r) \/ ApplyRefused(r) \/ DecideWrite(r) \/ Tell(r) \/ DealRefused(r)
  \/ CloseDeal(r) \/ Supersede(r) \/ AcceptProposal(r) \/ Activate(r) \/ Reject(r)
  \/ \E a \in Applications : ApplyCreate(r, a)
  \/ \E u \in Users, p \in Proposals : DealCreate(r, u, p)
  \/ \E p \in Proposals : Propose(r, p)
  \/ \E t \in Tasks : TaskCreate(r, t)

\* A step is one of a slot, which starts or goes on, or has no slot.
LEMMA StepsOfNext ==
  ASSUME TypeOK, Next
  PROVE  \/ \E b \in Briefs : CreateBrief(b) \/ RemoveBrief(b)
         \/ \E t \in Tasks : CompleteTask(t) \/ RemoveTask(t)
         \/ \E r \in Requests : Starts(r) \/ Proceeds(r)
  <1>1. ASSUME NEW r \in Requests, BriefStep(r)
        PROVE  Starts(r) \/ Proceeds(r)
    BY <1>1, BriefStarts DEF BriefStep, Proceeds
  <1>2. ASSUME NEW r \in Requests, ApplicationStep(r)
        PROVE  Starts(r) \/ Proceeds(r)
    BY <1>2, ApplicationStarts DEF ApplicationStep, Proceeds
  <1>3. ASSUME NEW r \in Requests, DealStep(r)
        PROVE  Starts(r) \/ Proceeds(r)
    BY <1>3, DealStarts DEF DealStep, Proceeds
  <1>4. ASSUME NEW r \in Requests, ProposalStep(r)
        PROVE  Starts(r) \/ Proceeds(r)
    BY <1>4, ProposalStarts DEF ProposalStep, Proceeds
  <1>5. ASSUME NEW r \in Requests, TaskStep(r)
        PROVE  Starts(r) \/ Proceeds(r)
    BY <1>5, DealStarts DEF TaskStep, Proceeds
  <1>6. QED
    BY <1>1, <1>2, <1>3, <1>4, <1>5 DEF Next, Proceeds

---------------------------------------------------------------------------
(* Types                                                                   *)
RowsTyped ==
  /\ brief \in [Briefs -> Brief]
  /\ application \in [Applications -> {Nothing} \cup Application]
  /\ told \subseteq (Decided \cup {"RECEIVED"}) \X Applications
  /\ deal \in [Applications -> {Nothing} \cup Deal]
  /\ proposal \in [Proposals -> {Nothing} \cup Proposal]
  /\ task \in [Tasks -> {Nothing} \cup Task]

RowsSound ==
  /\ KeysHold /\ RowsTyped
  /\ \A n \in told : application[n[2]] # Nothing
  /\ \A p \in Proposals : proposal[p] # Nothing => proposal[p].by \notin proposal[p].agreed

\* No row goes for good, and a proposal stays with its deal and its author.
RowsStay ==
  /\ \A a \in Applications : application[a] # Nothing => application'[a] # Nothing
  /\ \A a \in Applications : deal[a] # Nothing => deal'[a] # Nothing
  /\ \A p \in Proposals : proposal[p] # Nothing =>
       proposal'[p] # Nothing /\ proposal'[p].deal = proposal[p].deal /\ proposal'[p].by = proposal[p].by

LEMMA RowsSame ==
  ASSUME DealsTypeInv, UNCHANGED rows
  PROVE  RowsSound' /\ RowsStay
  BY DEF DealsTypeInv, TypeOK, RowsSound, RowsTyped, RowsStay, KeysHold, rows

LEMMA BriefRows ==
  ASSUME DealsTypeInv,
         \/ \E b \in Briefs : CreateBrief(b)
         \/ \E r \in Requests : BriefWrite(r)
  PROVE  RowsSound' /\ RowsStay
  <1>1. \A b \in Briefs : brief'[b] = "removed" => brief[b] = "removed"
    <2>1. CASE \E b \in Briefs : CreateBrief(b)
      BY <2>1 DEF CreateBrief, DealsTypeInv, TypeOK
    <2>2. ASSUME NEW r \in Requests, BriefWrite(r)
          PROVE  \A b \in Briefs : brief'[b] = "removed" => brief[b] = "removed"
      BY <2>2, SlotTyped DEF BriefWrite, DealsTypeInv, TypeOK
    <2>3. QED
      BY <2>1, <2>2
  <1>2. UNCHANGED <<application, told, deal, proposal, task>>
    BY DEF CreateBrief, BriefWrite
  <1>3. brief' \in [Briefs -> Brief]
    <2>1. CASE \E b \in Briefs : CreateBrief(b)
      BY <2>1 DEF CreateBrief, DealsTypeInv, TypeOK, Brief
    <2>2. ASSUME NEW r \in Requests, BriefWrite(r)
          PROVE  brief' \in [Briefs -> Brief]
      BY <2>2, SlotTyped DEF BriefWrite, DealsTypeInv, TypeOK, Brief
    <2>3. QED
      BY <2>1, <2>2
  <1>4. KeysHold'
    <2>1. \A a \in Applications : application[a] # Nothing => application[a].brief \in Briefs
      BY DEF DealsTypeInv, TypeOK, Application
    <2>2. QED
      BY <1>1, <1>2, <2>1 DEF KeysHold, DealsTypeInv, TypeOK
  <1>5. QED
    BY <1>2, <1>3, <1>4 DEF DealsTypeInv, TypeOK, RowsSound, RowsTyped, RowsStay

LEMMA RemoveBriefRows ==
  ASSUME DealsTypeInv, NEW b \in Briefs, RemoveBrief(b)
  PROVE  RowsSound' /\ RowsStay
  <1>1. \A a \in Applications : application[a] # Nothing =>
          application[a] \in Application /\ application'[a] # Nothing /\ application'[a] \in Application
          /\ application'[a].brief = application[a].brief
    BY DEF RemoveBrief, DealsTypeInv, TypeOK, Application, Nothing, ApplicationsTo
  <1>2. \A a \in Applications : IF a \in ApplicationsTo(b) THEN application'[a].status = "removed"
                                                           ELSE application'[a] = application[a]
    BY <1>1 DEF RemoveBrief, ApplicationsTo, Application
  <1>3. UNCHANGED <<told, deal, proposal, task>> /\ brief' = [brief EXCEPT ![b] = "removed"]
        /\ \A a \in ApplicationsTo(b) : deal[a] = Nothing
    BY DEF RemoveBrief
  <1>4. application' \in [Applications -> {Nothing} \cup Application]
    <2>1. \A a \in Applications : application'[a] \in {Nothing} \cup Application
      BY <1>1, <1>2 DEF ApplicationsTo
    <2>2. application' = [a \in Applications |-> application'[a]]
      BY DEF RemoveBrief
    <2>3. QED
      BY <2>1, <2>2
  <1>5. KeysHold'
    <2>1. \A a \in Applications : application'[a] # Nothing /\ brief'[application'[a].brief] = "removed"
                                    => application'[a].status = "removed"
      BY <1>1, <1>2, <1>3 DEF KeysHold, DealsTypeInv, TypeOK, ApplicationsTo
    <2>2. \A a \in Applications : deal'[a] # Nothing => application'[a].status \in Active \cup Decided
      BY <1>2, <1>3 DEF KeysHold, DealsTypeInv, TypeOK
    <2>3. QED
      BY <1>3, <2>1, <2>2 DEF KeysHold, DealsTypeInv, TypeOK
  <1>6. \A n \in told : n[2] \in Applications
    BY DEF DealsTypeInv, TypeOK
  <1>7. QED
    BY <1>1, <1>3, <1>4, <1>5, <1>6 DEF DealsTypeInv, TypeOK, RowsSound, RowsTyped, RowsStay, Brief

LEMMA ApplyCreateRows ==
  ASSUME DealsTypeInv, NEW r \in Requests, NEW a \in Applications, ApplyCreate(r, a)
  PROVE  RowsSound' /\ RowsStay
  <1> DEFINE new == [status |-> "PENDING", brief |-> Id(r)]
  <1>1. /\ application' = [application EXCEPT ![a] = new] /\ application[a] = Nothing
        /\ UNCHANGED <<brief, told, deal, proposal, task>> /\ Id(r) \in Briefs /\ brief[Id(r)] # "removed"
    BY SlotTyped DEF ApplyCreate, DealsTypeInv, history
  <1>2. new \in Application /\ new # Nothing /\ new.status = "PENDING" /\ new.brief = Id(r)
    BY <1>1 DEF Application, Active, Nothing
  <1> HIDE DEF new
  <1>3. application'[a] = new /\ \A c \in Applications : c # a => application'[c] = application[c]
    BY <1>1 DEF DealsTypeInv, TypeOK
  <1>4. application' \in [Applications -> {Nothing} \cup Application]
    BY <1>1, <1>2 DEF DealsTypeInv, TypeOK
  <1>5. KeysHold'
    BY <1>1, <1>2, <1>3 DEF KeysHold, DealsTypeInv, TypeOK, Active
  <1>6. \A n \in told : n[2] \in Applications
    BY DEF DealsTypeInv, TypeOK
  <1>7. QED
    BY <1>1, <1>2, <1>3, <1>4, <1>5, <1>6 DEF DealsTypeInv, TypeOK, RowsSound, RowsTyped, RowsStay

LEMMA DecideRows ==
  ASSUME DealsTypeInv, NEW r \in Requests, DecideWrite(r)
  PROVE  RowsSound' /\ RowsStay
  <1>1. CASE UNCHANGED application
    BY <1>1, RowsSame DEF DecideWrite, rows
  <1>2. CASE application' = [application EXCEPT ![Id(r)].status = request[r].to]
             /\ application[Id(r)].status # "removed"
    <2>1. Id(r) \in Applications /\ application[Id(r)] # Nothing /\ request[r].to \in Decided
      BY SlotTyped DEF DecideWrite, DealsTypeInv, Placed, At
    <2>2. PICK a \in Applications, s \in Decided : a = Id(r) /\ s = request[r].to
      BY <2>1
    <2>3. application[a] \in Application /\ application[a].status # "removed"
      BY <1>2, <2>1, <2>2 DEF DealsTypeInv, TypeOK
    <2> DEFINE new == [application[a] EXCEPT !.status = s]
    <2>4. new \in Application /\ new # Nothing /\ new.status = s /\ new.brief = application[a].brief
      BY <2>2, <2>3 DEF Application, Nothing, Decided
    <2>5. application' = [application EXCEPT ![a] = new]
      BY <1>2, <2>2
    <2> HIDE DEF new
    <2>6. application'[a] = new /\ \A c \in Applications : c # a => application'[c] = application[c]
      BY <2>5 DEF DealsTypeInv, TypeOK
    <2>7. application' \in [Applications -> {Nothing} \cup Application]
      BY <2>4, <2>5 DEF DealsTypeInv, TypeOK
    <2>8. UNCHANGED <<brief, told, deal, proposal, task>>
      BY DEF DecideWrite
    <2>9. KeysHold'
      BY <2>3, <2>4, <2>6, <2>8, <2>1, <2>2 DEF KeysHold, DealsTypeInv, TypeOK
    <2>10. \A n \in told : n[2] \in Applications
      BY DEF DealsTypeInv, TypeOK
    <2>11. QED
      BY <2>4, <2>6, <2>7, <2>8, <2>9, <2>10 DEF DealsTypeInv, TypeOK, RowsSound, RowsTyped, RowsStay
  <1>3. QED
    BY <1>1, <1>2 DEF DecideWrite

LEMMA TellRows ==
  ASSUME DealsTypeInv, NEW r \in Requests, Tell(r)
  PROVE  RowsSound' /\ RowsStay
  <1>1. /\ told' = told \cup {<<request[r].to, Id(r)>>} /\ UNCHANGED <<brief, application, deal, proposal, task>>
        /\ Id(r) \in Applications /\ request[r].to \in Decided \cup {"RECEIVED"} /\ application[Id(r)] # Nothing
    BY SlotTyped DEF Tell, DealsTypeInv, Placed, At
  <1>2. told' \subseteq (Decided \cup {"RECEIVED"}) \X Applications
    BY <1>1 DEF DealsTypeInv, TypeOK
  <1>3. \A n \in told' : application'[n[2]] # Nothing
    BY <1>1 DEF DealsTypeInv
  <1>4. QED
    BY <1>1, <1>2, <1>3 DEF DealsTypeInv, TypeOK, RowsSound, RowsTyped, RowsStay, KeysHold

LEMMA DealRows ==
  ASSUME DealsTypeInv, NEW r \in Requests, CloseDeal(r) \/ Activate(r)
  PROVE  RowsSound' /\ RowsStay
  <1>1. PICK d \in Applications : d = Id(r) /\ deal[d] # Nothing
    BY SlotTyped DEF CloseDeal, Activate, DealsTypeInv, Placed, At, OnDealPcs
  <1>2. deal[d] \in Deal
    BY <1>1 DEF DealsTypeInv, TypeOK
  <1>3. PICK new : new \in Deal /\ deal' = [deal EXCEPT ![d] = new]
    <2>1. CASE CloseDeal(r)
      <3> DEFINE h == [deal[d] EXCEPT !.status = request[r].to]
      <3>1. h \in Deal
        BY <1>2, <2>1, SlotTyped DEF Deal, CloseDeal, DealsTypeInv
      <3>2. deal' = [deal EXCEPT ![d] = h]
        BY <1>1, <2>1 DEF CloseDeal
      <3>3. QED
        BY <3>1, <3>2
    <2>2. CASE Activate(r)
      <3>1. request[r].proposal \in Proposals
        BY <2>2, SlotTyped DEF Activate, DealsTypeInv, At, AnswerPcs
      <3>2. QED
        BY <1>1, <2>2, <3>1 DEF Deal, Activate
    <2>3. QED
      BY <2>1, <2>2
  <1>4. UNCHANGED <<brief, application, told, proposal, task>>
    BY DEF CloseDeal, Activate
  <1>5. new # Nothing
    BY <1>3 DEF Deal, Nothing, Closed
  <1>6. /\ deal'[d] # Nothing /\ \A c \in Applications : c # d => deal'[c] = deal[c]
        /\ deal' \in [Applications -> {Nothing} \cup Deal]
    BY <1>3, <1>5 DEF DealsTypeInv, TypeOK
  <1>7. \A p \in Proposals : proposal[p] # Nothing => proposal[p].deal \in Applications
    BY DEF DealsTypeInv, TypeOK, Proposal
  <1>8. \A t \in Tasks : task[t] # Nothing => task[t].deal \in Applications
    BY DEF DealsTypeInv, TypeOK, Task
  <1>9. KeysHold'
    BY <1>1, <1>4, <1>6, <1>7, <1>8 DEF KeysHold, DealsTypeInv, TypeOK
  <1>10. QED
    BY <1>1, <1>4, <1>6, <1>9 DEF DealsTypeInv, TypeOK, RowsSound, RowsTyped, RowsStay

LEMMA ProposalRows ==
  ASSUME DealsTypeInv, NEW r \in Requests, AcceptProposal(r) \/ Reject(r)
  PROVE  RowsSound' /\ RowsStay
  <1>1. PICK p \in Proposals : p = request[r].proposal /\ proposal[p] # Nothing
                               /\ proposal[p].by # request[r].by /\ request[r].by \in Users
    BY SlotTyped DEF AcceptProposal, Reject, DealsTypeInv, Placed, At, AnswerPcs
  <1>2. proposal[p] \in Proposal /\ proposal[p].by \notin proposal[p].agreed
    BY <1>1 DEF DealsTypeInv, TypeOK
  <1>3. PICK new \in Proposal : /\ proposal' = [proposal EXCEPT ![p] = new] /\ new.deal = proposal[p].deal
                                /\ new.by = proposal[p].by /\ new.by \notin new.agreed
    <2>1. CASE AcceptProposal(r)
      <3> DEFINE h == [proposal[p] EXCEPT !.status = "ACCEPTED", !.agreed = @ \cup {request[r].by}]
      <3>1. h \in Proposal /\ h.deal = proposal[p].deal /\ h.by = proposal[p].by /\ h.by \notin h.agreed
        BY <1>1, <1>2 DEF Proposal
      <3>2. proposal' = [proposal EXCEPT ![p] = h]
        BY <1>1, <1>2, <2>1 DEF AcceptProposal, Proposal
      <3>3. QED
        BY <3>1, <3>2
    <2>2. CASE Reject(r)
      <3> DEFINE h == [proposal[p] EXCEPT !.status = "REJECTED"]
      <3>1. h \in Proposal /\ h.deal = proposal[p].deal /\ h.by = proposal[p].by /\ h.by \notin h.agreed
        BY <1>1, <1>2 DEF Proposal
      <3>2. proposal' = [proposal EXCEPT ![p] = h]
        BY <1>1, <2>2 DEF Reject
      <3>3. QED
        BY <3>1, <3>2
    <2>3. QED
      BY <2>1, <2>2
  <1>4. UNCHANGED <<brief, application, told, deal, task>>
    BY DEF AcceptProposal, Reject
  <1>5. new # Nothing
    BY <1>3 DEF Proposal, Nothing
  <1>6. /\ proposal'[p] = new /\ \A q \in Proposals : q # p => proposal'[q] = proposal[q]
        /\ proposal' \in [Proposals -> {Nothing} \cup Proposal]
    BY <1>3, <1>5 DEF DealsTypeInv, TypeOK
  <1>7. KeysHold'
    BY <1>1, <1>3, <1>4, <1>6 DEF KeysHold, DealsTypeInv, TypeOK
  <1>8. QED
    BY <1>1, <1>3, <1>4, <1>5, <1>6, <1>7 DEF DealsTypeInv, TypeOK, RowsSound, RowsTyped, RowsStay

LEMMA SupersedeRows ==
  ASSUME DealsTypeInv, NEW r \in Requests, Supersede(r)
  PROVE  /\ RowsSound' /\ RowsStay
         /\ \A p \in Proposals : proposal'[p] # proposal[p] =>
              proposal[p] # Nothing /\ proposal[p].status = "PENDING" /\ proposal'[p].status = "SUPERSEDED"
         /\ \A p \in Of(Id(r)) : proposal[p].status = "PENDING" => proposal'[p].status = "SUPERSEDED"
         /\ \A p \in Proposals : proposal'[p] # proposal[p] => proposal[p].deal = Id(r)
         /\ \A p \in Proposals : proposal'[p] = Nothing <=> proposal[p] = Nothing
  <1>1. UNCHANGED <<brief, application, told, deal, task>>
    BY DEF Supersede
  <1>2. \A p \in Proposals : proposal'[p] = IF p \in Of(Id(r)) /\ proposal[p].status = "PENDING"
                                            THEN [proposal[p] EXCEPT !.status = "SUPERSEDED"] ELSE proposal[p]
    BY DEF Supersede
  <1>3. ASSUME NEW p \in Proposals, proposal[p] # Nothing
        PROVE  /\ proposal'[p] \in Proposal /\ proposal'[p] # Nothing
               /\ proposal'[p].deal = proposal[p].deal /\ proposal'[p].by = proposal[p].by
               /\ proposal'[p].agreed = proposal[p].agreed
               /\ IF p \in Of(Id(r)) /\ proposal[p].status = "PENDING"
                  THEN proposal'[p].status = "SUPERSEDED" ELSE proposal'[p] = proposal[p]
    <2>1. proposal[p] \in Proposal
      BY <1>3 DEF DealsTypeInv, TypeOK
    <2>2. CASE p \in Of(Id(r)) /\ proposal[p].status = "PENDING"
      BY <1>2, <2>1, <2>2 DEF Proposal, Nothing
    <2>3. CASE ~(p \in Of(Id(r)) /\ proposal[p].status = "PENDING")
      BY <1>2, <1>3, <2>1, <2>3
    <2>4. QED
      BY <2>2, <2>3
  <1>4. \A p \in Proposals : proposal[p] = Nothing => proposal'[p] = Nothing
    BY <1>2 DEF Of
  <1>5. proposal' \in [Proposals -> {Nothing} \cup Proposal]
    <2>1. \A p \in Proposals : proposal'[p] \in {Nothing} \cup Proposal
      BY <1>3, <1>4
    <2>2. proposal' = [p \in Proposals |-> proposal'[p]]
      BY DEF Supersede
    <2>3. QED
      BY <2>1, <2>2
  <1>6. KeysHold'
    BY <1>1, <1>3, <1>4 DEF KeysHold, DealsTypeInv, TypeOK
  <1>7. RowsSound' /\ RowsStay
    BY <1>1, <1>3, <1>4, <1>5, <1>6 DEF DealsTypeInv, TypeOK, RowsSound, RowsTyped, RowsStay
  <1>8. QED
    BY <1>3, <1>4, <1>7 DEF Of

LEMMA FreshTyped ==
  ASSUME NEW d \in Applications, NEW u \in Users
  PROVE  /\ Fresh(d, u) \in Proposal /\ Fresh(d, u) # Nothing /\ Fresh(d, u).deal = d
         /\ Fresh(d, u).by = u /\ Fresh(d, u).agreed = {} /\ Fresh(d, u).status = "PENDING"
  BY DEF Fresh, Proposal, Nothing

LEMMA ProposeRows ==
  ASSUME DealsTypeInv, NEW r \in Requests, NEW p \in Proposals, Propose(r, p)
  PROVE  RowsSound' /\ RowsStay
  <1>1. Id(r) \in Applications /\ deal[Id(r)] # Nothing /\ request[r].by \in Users
    BY SlotTyped DEF Propose, DealsTypeInv, Placed, At, OnDealPcs
  <1>2. PICK new : /\ new \in Proposal /\ new # Nothing /\ new.deal = Id(r) /\ new.by \notin new.agreed
                   /\ proposal' = [proposal EXCEPT ![p] = new]
    <2>1. proposal' = [proposal EXCEPT ![p] = Fresh(Id(r), request[r].by)]
      BY DEF Propose
    <2>2. Fresh(Id(r), request[r].by) \in Proposal /\ Fresh(Id(r), request[r].by) # Nothing
          /\ Fresh(Id(r), request[r].by).deal = Id(r)
          /\ Fresh(Id(r), request[r].by).by \notin Fresh(Id(r), request[r].by).agreed
      BY <1>1, FreshTyped
    <2>3. QED
      BY <2>1, <2>2
  <1>3. UNCHANGED <<brief, application, told, deal, task>> /\ proposal[p] = Nothing
    BY DEF Propose
  <1>4. /\ proposal'[p] = new /\ \A q \in Proposals : q # p => proposal'[q] = proposal[q]
        /\ proposal' \in [Proposals -> {Nothing} \cup Proposal]
    BY <1>2 DEF DealsTypeInv, TypeOK
  <1>5. KeysHold'
    BY <1>1, <1>2, <1>3, <1>4 DEF KeysHold, DealsTypeInv, TypeOK
  <1>6. QED
    BY <1>2, <1>3, <1>4, <1>5 DEF DealsTypeInv, TypeOK, RowsSound, RowsTyped, RowsStay

LEMMA DealCreateRows ==
  ASSUME DealsTypeInv, NEW r \in Requests, NEW u \in Users, NEW p \in Proposals, DealCreate(r, u, p)
  PROVE  RowsSound' /\ RowsStay
  <1>1. PICK d \in Applications : /\ d = Id(r) /\ deal[d] = Nothing /\ application[d] # Nothing
                                  /\ application[d].status # "removed"
    BY SlotTyped DEF DealCreate, DealsTypeInv, Placed, At
  <1>2. PICK new : /\ new \in Proposal /\ new # Nothing /\ new.deal = d /\ new.by \notin new.agreed
                   /\ proposal' = [proposal EXCEPT ![p] = new]
    BY <1>1, FreshTyped DEF DealCreate
  <1>3. PICK agreed : /\ agreed \in Deal /\ agreed # Nothing /\ deal' = [deal EXCEPT ![d] = agreed]
    <2>1. [status |-> "NEGOTIATING", terms |-> p] \in Deal /\ [status |-> "NEGOTIATING", terms |-> p] # Nothing
      BY DEF Deal, Nothing
    <2>2. QED
      BY <1>1, <2>1 DEF DealCreate
  <1>4. UNCHANGED <<brief, application, told, task>> /\ proposal[p] = Nothing
    BY DEF DealCreate
  <1>5. /\ proposal'[p] = new /\ \A q \in Proposals : q # p => proposal'[q] = proposal[q]
        /\ proposal' \in [Proposals -> {Nothing} \cup Proposal]
    BY <1>2 DEF DealsTypeInv, TypeOK
  <1>6. /\ deal'[d] = agreed /\ \A c \in Applications : c # d => deal'[c] = deal[c]
        /\ deal' \in [Applications -> {Nothing} \cup Deal]
    BY <1>3 DEF DealsTypeInv, TypeOK
  <1>7. application[d].status \in Active \cup Decided
    BY <1>1 DEF DealsTypeInv, TypeOK, Application
  <1>8. /\ \A q \in Proposals : proposal[q] # Nothing => proposal[q].deal \in Applications
        /\ \A t \in Tasks : task[t] # Nothing => task[t].deal \in Applications
    BY DEF DealsTypeInv, TypeOK, Proposal, Task
  <1>9. KeysHold'
    BY <1>1, <1>2, <1>3, <1>4, <1>5, <1>6, <1>7, <1>8 DEF KeysHold, DealsTypeInv, TypeOK
  <1>10. QED
    BY <1>1, <1>2, <1>3, <1>4, <1>5, <1>6, <1>9 DEF DealsTypeInv, TypeOK, RowsSound, RowsTyped, RowsStay

LEMMA TaskRows ==
  ASSUME DealsTypeInv,
         \/ \E t \in Tasks : CompleteTask(t) \/ RemoveTask(t)
         \/ \E r \in Requests, t \in Tasks : TaskCreate(r, t)
  PROVE  RowsSound' /\ RowsStay
  <1>1. PICK t \in Tasks, new \in Task : /\ new # Nothing /\ task' = [task EXCEPT ![t] = new]
                                              /\ deal[new.deal] # Nothing
    <2>1. ASSUME NEW t \in Tasks, NEW s \in {"completed", "removed"}, task[t] # Nothing,
                 task' = [task EXCEPT ![t].status = s]
          PROVE  \E new \in Task : /\ new # Nothing /\ task' = [task EXCEPT ![t] = new]
                                    /\ deal[new.deal] # Nothing
      <3> DEFINE h == [task[t] EXCEPT !.status = s]
      <3>1. task[t] \in Task /\ deal[task[t].deal] # Nothing
        BY <2>1 DEF DealsTypeInv, TypeOK, KeysHold
      <3>2. h \in Task /\ h # Nothing /\ h.deal = task[t].deal
        BY <3>1 DEF Task, Nothing
      <3>3. QED
        BY <2>1, <3>1, <3>2
    <2>2. ASSUME NEW r \in Requests, NEW t \in Tasks, TaskCreate(r, t)
          PROVE  \E new \in Task : /\ new # Nothing /\ task' = [task EXCEPT ![t] = new]
                                    /\ deal[new.deal] # Nothing
      <3> DEFINE h == [status |-> "open", deal |-> Id(r)]
      <3>1. Id(r) \in Applications /\ deal[Id(r)] # Nothing
        BY <2>2, SlotTyped DEF TaskCreate, DealsTypeInv, Placed, At, OnDealPcs
      <3>2. h \in Task /\ h # Nothing /\ h.deal = Id(r)
        BY <3>1 DEF Task, Nothing
      <3>3. QED
        BY <2>2, <3>1, <3>2 DEF TaskCreate
    <2>3. QED
      BY <2>1, <2>2 DEF CompleteTask, RemoveTask, Nothing
  <1>2. UNCHANGED <<brief, application, told, deal, proposal>>
    BY DEF CompleteTask, RemoveTask, TaskCreate
  <1>3. /\ task'[t] = new /\ \A q \in Tasks : q # t => task'[q] = task[q]
        /\ task' \in [Tasks -> {Nothing} \cup Task]
    BY <1>1 DEF DealsTypeInv, TypeOK
  <1>4. KeysHold'
    BY <1>1, <1>2, <1>3 DEF KeysHold, DealsTypeInv, TypeOK
  <1>5. QED
    BY <1>2, <1>3, <1>4 DEF DealsTypeInv, TypeOK, RowsSound, RowsTyped, RowsStay

LEMMA RowsStep ==
  ASSUME DealsTypeInv, Next
  PROVE  RowsSound' /\ RowsStay
  <1>1. CASE \E b \in Briefs : CreateBrief(b) \/ RemoveBrief(b)
    BY <1>1, BriefRows, RemoveBriefRows
  <1>2. CASE \E t \in Tasks : CompleteTask(t) \/ RemoveTask(t)
    BY <1>2, TaskRows
  <1>3. ASSUME NEW r \in Requests, Starts(r)
        PROVE  RowsSound' /\ RowsStay
    BY <1>3, RowsSame DEF Starts, Start, rows
  <1>4. ASSUME NEW r \in Requests, Die(r) \/ ApplyRefused(r) \/ DealRefused(r)
        PROVE  RowsSound' /\ RowsStay
    BY <1>4, RowsSame DEF Die, ApplyRefused, DealRefused, rows
  <1>5. ASSUME NEW r \in Requests, Proceeds(r), ~(Die(r) \/ ApplyRefused(r) \/ DealRefused(r))
        PROVE  RowsSound' /\ RowsStay
    BY <1>5, BriefRows, DecideRows, TellRows, DealRows, SupersedeRows, ProposalRows, ApplyCreateRows,
       DealCreateRows, ProposeRows, TaskRows DEF Proceeds
  <1>6. TypeOK
    BY DEF DealsTypeInv
  <1>7. QED
    BY <1>1, <1>2, <1>3, <1>4, <1>5, <1>6, StepsOfNext

LEMMA PlacedStays ==
  ASSUME DealsTypeInv, RowsStay, NEW r \in Requests, request'[r] = request[r]
  PROVE  Placed(r)'
  <1>1. Placed(r) /\ Id(r)' = Id(r)
    BY DEF DealsTypeInv, Id
  <1>2. request[r].pc \in {"decide", "tell", "deal.create"} \cup OnDealPcs => Id(r) \in Applications
    BY SlotTyped DEF DealsTypeInv
  <1>3. request[r].pc \in AnswerPcs => request[r].proposal \in Proposals
    BY SlotTyped DEF DealsTypeInv
  <1>4. QED
    BY <1>1, <1>2, <1>3 DEF Placed, At, RowsStay

\* What a step does to the slots.
SlotsSound ==
  /\ request \in [Requests -> {Idle} \cup Handlers] /\ crossed \subseteq Row /\ cut \subseteq Row
  /\ \A r \in Requests : Placed(r)

LEMMA StartSlots ==
  ASSUME DealsTypeInv, NEW r \in Requests, Starts(r)
  PROVE  SlotsSound'
  <1>1. TypeOK
    BY DEF DealsTypeInv
  <1>2. PICK h \in Handlers : HasRead(h) /\ Start(r, h)
    BY DEF Starts
  <1>3. /\ request' \in [Requests -> {Idle} \cup Handlers] /\ request'[r] = h /\ crossed' \subseteq Row
        /\ cut' = cut /\ UNCHANGED rows /\ \A s \in Requests : s # r => request'[s] = request[s]
    BY <1>1, <1>2, SlotStarts
  <1>4. RowsStay
    BY <1>3, RowsSame
  <1>5. Placed(r)'
    <2>1. UNCHANGED <<application, deal, proposal>> /\ request'[r] = h
      BY <1>3 DEF rows
    <2>2. h.pc \in {"accept", "reject"} => h.proposal \in Proposals
      BY DEF Handlers
    <2>3. h.pc \notin {"tell", "activate", "propose"}
      BY <1>2 DEF HasRead
    <2>4. QED
      BY <1>2, <2>1, <2>2, <2>3 DEF HasRead, Placed, At, Id, OnDealPcs, AnswerPcs, Nothing
  <1>6. \A s \in Requests : Placed(s)'
    BY <1>3, <1>4, <1>5, PlacedStays
  <1>7. QED
    BY <1>1, <1>3, <1>6 DEF SlotsSound, TypeOK

LEMMA EndSlots ==
  ASSUME DealsTypeInv, NEW r \in Requests, RowsStay, Finish(r) \/ Die(r)
  PROVE  SlotsSound'
  <1>1. TypeOK
    BY DEF DealsTypeInv
  <1>2. /\ request' \in [Requests -> {Idle} \cup Handlers] /\ request'[r] = Idle /\ crossed' = crossed
        /\ cut' \subseteq Row /\ \A s \in Requests : s # r => request'[s] = request[s]
    BY <1>1, SlotEnds DEF TypeOK
  <1>3. Placed(r)'
    BY <1>2 DEF Placed, At, Idle, OnDealPcs, AnswerPcs
  <1>4. \A s \in Requests : Placed(s)'
    BY <1>2, <1>3, PlacedStays
  <1>5. QED
    BY <1>1, <1>2, <1>4 DEF SlotsSound, TypeOK

LEMMA GoSlots ==
  ASSUME DealsTypeInv, NEW r \in Requests, RowsStay,
         \/ At(r, "decide") /\ Goto(r, "tell")
         \/ At(r, "supersede") /\ Goto(r, "propose")
         \/ At(r, "accept") /\ Goto(r, "activate")
  PROVE  SlotsSound'
  <1>1. TypeOK
    BY DEF DealsTypeInv
  <1>2. PICK pc : /\ Goto(r, pc)
                  /\ \/ At(r, "decide") /\ pc = "tell"
                     \/ At(r, "supersede") /\ pc = "propose"
                     \/ At(r, "accept") /\ pc = "activate"
    OBVIOUS
  <1>3. /\ request' \in [Requests -> {Idle} \cup Handlers]
        /\ request'[r].pc = pc /\ request'[r].row = request[r].row
        /\ At(r, "accept") => request'[r].proposal = request[r].proposal /\ request'[r].by = request[r].by
        /\ \A s \in Requests : s # r => request'[s] = request[s]
    BY <1>1, <1>2, SlotGoes
  <1>4. crossed' = crossed /\ cut' = cut
    BY <1>2 DEF Goto, history
  <1>5. Placed(r)'
    <2>1. Placed(r) /\ Id(r)' = Id(r) /\ Id(r) \in Applications
      BY <1>1, <1>2, <1>3, SlotTyped DEF DealsTypeInv, Id, At, OnDealPcs
    <2>2. At(r, "accept") => request[r].proposal \in Proposals
      BY <1>1, SlotTyped DEF At, AnswerPcs
    <2>3. CASE At(r, "decide") /\ pc = "tell"
      BY <1>3, <2>1, <2>3 DEF Placed, At, OnDealPcs, AnswerPcs, RowsStay
    <2>4. CASE At(r, "supersede") /\ pc = "propose"
      BY <1>3, <2>1, <2>4 DEF Placed, At, OnDealPcs, AnswerPcs, RowsStay
    <2>5. CASE At(r, "accept") /\ pc = "activate"
      BY <1>3, <2>1, <2>2, <2>5 DEF Placed, At, OnDealPcs, AnswerPcs, RowsStay
    <2>6. QED
      BY <1>2, <2>3, <2>4, <2>5
  <1>6. \A s \in Requests : Placed(s)'
    BY <1>3, <1>5, PlacedStays
  <1>7. QED
    BY <1>1, <1>3, <1>4, <1>6 DEF SlotsSound, TypeOK

LEMMA ApplySlots ==
  ASSUME DealsTypeInv, NEW r \in Requests, NEW a \in Applications, RowsStay, ApplyCreate(r, a)
  PROVE  SlotsSound'
  <1>1. TypeOK
    BY DEF DealsTypeInv
  <1> DEFINE h == [pc |-> "tell", row |-> <<"application", a>>, to |-> "RECEIVED"]
  <1>2. h \in Handlers
    BY DEF Handlers
  <1>3. request' = [request EXCEPT ![r] = h]
    BY DEF ApplyCreate
  <1>4. /\ request' \in [Requests -> {Idle} \cup Handlers] /\ request'[r] = h
        /\ \A s \in Requests : s # r => request'[s] = request[s]
    BY <1>1, <1>2, <1>3, SlotSet
  <1>5. crossed' = crossed /\ cut' = cut
    BY DEF ApplyCreate, history
  <1>6. application'[a] # Nothing
    BY <1>1 DEF ApplyCreate, TypeOK, Nothing
  <1>7. Placed(r)'
    BY <1>4, <1>6 DEF Placed, At, Id, OnDealPcs, AnswerPcs
  <1>8. \A s \in Requests : Placed(s)'
    BY <1>4, <1>7, PlacedStays
  <1>9. QED
    BY <1>1, <1>4, <1>5, <1>8 DEF SlotsSound, TypeOK

LEMMA SlotsSame ==
  ASSUME DealsTypeInv, RowsStay, UNCHANGED <<request, history>>
  PROVE  SlotsSound'
  <1>1. \A r \in Requests : Placed(r)'
    BY PlacedStays
  <1>2. QED
    BY <1>1 DEF SlotsSound, DealsTypeInv, TypeOK, history

LEMMA SlotsStep ==
  ASSUME DealsTypeInv, Next
  PROVE  SlotsSound'
  <1>1. TypeOK
    BY DEF DealsTypeInv
  <1>2. RowsStay
    BY RowsStep
  <1>3. CASE \E b \in Briefs : CreateBrief(b) \/ RemoveBrief(b)
    BY <1>2, <1>3, SlotsSame DEF CreateBrief, RemoveBrief
  <1>4. CASE \E t \in Tasks : CompleteTask(t) \/ RemoveTask(t)
    BY <1>2, <1>4, SlotsSame DEF CompleteTask, RemoveTask
  <1>5. ASSUME NEW r \in Requests, Proceeds(r)
        PROVE  SlotsSound'
    <2>1. CASE \E a \in Applications : ApplyCreate(r, a)
      BY <1>2, <2>1, ApplySlots
    <2>2. CASE DecideWrite(r) \/ Supersede(r) \/ AcceptProposal(r)
      BY <1>2, <2>2, GoSlots, EndSlots DEF DecideWrite, Supersede, AcceptProposal
    <2>3. CASE Finish(r) \/ Die(r)
      BY <1>2, <2>3, EndSlots
    <2>4. QED
      BY <1>5, <2>1, <2>2, <2>3 DEF Proceeds, BriefWrite, ApplyRefused, Tell, DealRefused, CloseDeal, Activate,
         Reject, DealCreate, Propose, TaskCreate
  <1>6. QED
    BY <1>1, <1>3, <1>4, <1>5, StartSlots, StepsOfNext

LEMMA DealsTypeInit == Init => DealsTypeInv
  <1> SUFFICES ASSUME Init
               PROVE  DealsTypeInv
    OBVIOUS
  <1>1. KeysHold
    BY DEF Init, KeysHold, Nothing
  <1>2. TypeOK
    BY <1>1 DEF Init, TypeOK, Brief
  <1>3. \A r \in Requests : Placed(r)
    BY DEF Init, Placed, At, Idle, OnDealPcs, AnswerPcs
  <1>4. QED
    BY <1>2, <1>3 DEF Init, DealsTypeInv

LEMMA DealsTypeStep == DealsTypeInv /\ [Next]_vars => DealsTypeInv'
  <1>1. CASE DealsTypeInv /\ Next
    BY <1>1, RowsStep, SlotsStep DEF DealsTypeInv, TypeOK, RowsSound, RowsTyped, SlotsSound
  <1>2. CASE DealsTypeInv /\ UNCHANGED vars
    <2>1. UNCHANGED <<request, history>> /\ UNCHANGED rows
      BY <1>2 DEF vars
    <2>2. RowsSound' /\ RowsStay
      BY <1>2, <2>1, RowsSame
    <2>3. SlotsSound'
      BY <1>2, <2>1, <2>2, SlotsSame
    <2>4. QED
      BY <2>2, <2>3 DEF DealsTypeInv, TypeOK, RowsSound, RowsTyped, SlotsSound
  <1>3. QED
    BY <1>1, <1>2

LEMMA DealsTyped == Spec => []DealsTypeInv
  BY DealsTypeInit, DealsTypeStep, PTL DEF Spec

---------------------------------------------------------------------------
(* What a handler has read                                                 *)
\* The slot r moves: it stays on its row, or takes one that is free, or crosses.
SlotMove(r) ==
  /\ \A s \in Requests : s # r => request'[s] = request[s]
  /\ crossed \subseteq crossed' /\ cut \subseteq cut'
  /\ request'[r] # Idle =>
       \/ request[r] # Idle /\ request'[r].row = request[r].row
       \/ On(request'[r].row) = {}
       \/ request'[r].row \in crossed'

LEMMA StartMoves ==
  ASSUME TypeOK, NEW r \in Requests, Starts(r)
  PROVE  SlotMove(r) /\ UNCHANGED rows /\ cut' = cut
  BY SlotStarts DEF Starts, SlotMove

LEMMA WriteMoves ==
  ASSUME DealsTypeInv, NEW r \in Requests, Proceeds(r)
  PROVE  /\ SlotMove(r) /\ request[r] # Idle /\ crossed' = crossed
         /\ cut' = cut \/ Die(r)
  <1>1. TypeOK
    BY DEF DealsTypeInv
  <1>2. CASE Finish(r) \/ Die(r)
    <2>1. request[r] # Idle
      BY <1>1, <1>2, SlotTyped DEF Proceeds, Die, BriefWrite, ApplyRefused, DecideWrite, Tell, DealRefused, CloseDeal,
         Supersede, AcceptProposal, Activate, Reject, ApplyCreate, DealCreate, Propose, TaskCreate, At
    <2>2. QED
      BY <1>1, <1>2, <2>1, SlotEnds DEF SlotMove
  <1>3. ASSUME NEW pc, Goto(r, pc),
               \/ At(r, "decide") /\ pc = "tell"
               \/ At(r, "supersede") /\ pc = "propose"
               \/ At(r, "accept") /\ pc = "activate"
        PROVE  SlotMove(r) /\ request[r] # Idle /\ crossed' = crossed /\ cut' = cut
    <2>1. request'[r].row = request[r].row /\ \A s \in Requests : s # r => request'[s] = request[s]
      BY <1>1, <1>3, SlotGoes
    <2>2. crossed' = crossed /\ cut' = cut
      BY <1>3 DEF Goto, history
    <2>3. request[r] # Idle
      BY <1>1, <1>3, SlotTyped DEF At
    <2>4. QED
      BY <2>1, <2>2, <2>3 DEF SlotMove
  <1>4. ASSUME NEW a \in Applications, ApplyCreate(r, a)
        PROVE  SlotMove(r) /\ request[r] # Idle /\ crossed' = crossed /\ cut' = cut
    <2> DEFINE h == [pc |-> "tell", row |-> <<"application", a>>, to |-> "RECEIVED"]
    <2>1. h \in Handlers /\ request' = [request EXCEPT ![r] = h] /\ crossed' = crossed /\ cut' = cut
      BY <1>4 DEF Handlers, ApplyCreate, history
    <2>2. request'[r] = h /\ \A s \in Requests : s # r => request'[s] = request[s]
      BY <1>1, <2>1, SlotSet
    <2>3. On(h.row) = {}
      <3>1. application[a] = Nothing
        BY <1>4 DEF ApplyCreate
      <3>2. ASSUME NEW s \in On(h.row)
            PROVE  FALSE
        <4>1. s \in Requests /\ request[s] # Idle /\ request[s].row = <<"application", a>>
          BY <3>2 DEF On
        <4>2. request[s].pc \in {"decide", "tell"} /\ Id(s) = a
          BY <1>1, <4>1, SlotTyped DEF At, Id
        <4>3. QED
          BY <3>1, <4>1, <4>2 DEF DealsTypeInv, Placed
      <3>3. QED
        BY <3>2
    <2>4. request[r] # Idle
      BY <1>1, <1>4, SlotTyped DEF ApplyCreate, At
    <2>5. QED
      BY <2>1, <2>2, <2>3, <2>4 DEF SlotMove
  <1>5. CASE DecideWrite(r) \/ Supersede(r) \/ AcceptProposal(r)
    BY <1>2, <1>3, <1>5 DEF DecideWrite, Supersede, AcceptProposal
  <1>6. QED
    BY <1>2, <1>4, <1>5 DEF Proceeds, BriefWrite, ApplyRefused, Tell, DealRefused, CloseDeal, Activate,
       Reject, DealCreate, Propose, TaskCreate

LEMMA OneAtATimeMove ==
  ASSUME OneAtATime, NEW r \in Requests, SlotMove(r)
  PROVE  OneAtATime'
  <1> SUFFICES ASSUME NEW row \in Row \ crossed', NEW s \in On(row)', NEW o \in On(row)'
               PROVE  s = o
    BY DEF OneAtATime
  <1>1. row \in Row \ crossed
    BY DEF SlotMove
  <1>2. /\ s \in Requests /\ request'[s] # Idle /\ request'[s].row = row
        /\ o \in Requests /\ request'[o] # Idle /\ request'[o].row = row
    BY DEF On
  <1>3. CASE s # r /\ o # r
    BY <1>1, <1>2, <1>3 DEF SlotMove, On, OneAtATime
  <1>4. ASSUME NEW x \in Requests, x # r, request'[x] # Idle, request'[x].row = row,
               request'[r] # Idle, request'[r].row = row
        PROVE  FALSE
    <2>1. x \in On(row)
      BY <1>4 DEF SlotMove, On
    <2>2. request[r] # Idle /\ request[r].row = row
      BY <1>4, <2>1 DEF SlotMove
    <2>3. r \in On(row)
      BY <2>2 DEF On
    <2>4. QED
      BY <1>1, <1>4, <2>1, <2>3 DEF OneAtATime
  <1>5. QED
    BY <1>2, <1>3, <1>4

\* A step leaves a deal, its proposals and its tasks alone.
DealUntouched(d) ==
  /\ deal'[d] = deal[d]
  /\ \A p \in Proposals : (p \in Of(d) \/ p \in Of(d)') => proposal'[p] = proposal[p]
  /\ \A t \in Tasks : task[t] = Nothing /\ task'[t] # Nothing => task'[t].deal # d

\* A handler that is at work on another row.
LEMMA OtherDeals ==
  ASSUME DealsTypeInv, NEW r \in Requests, Proceeds(r), NEW d \in Applications, request[r].row # <<"deal", d>>
  PROVE  DealUntouched(d)
  <1>1. TypeOK
    BY DEF DealsTypeInv
  <1>2. request[r].pc \in OnDealPcs \cup {"deal.create"} => Id(r) # d /\ Id(r) \in Applications
    BY <1>1, SlotTyped
  <1>3. CASE UNCHANGED <<deal, proposal, task>>
    BY <1>3 DEF DealUntouched
  <1>4. CASE CloseDeal(r) \/ Activate(r)
    BY <1>1, <1>2, <1>4 DEF CloseDeal, Activate, DealUntouched, TypeOK, At, OnDealPcs
  <1>5. CASE Supersede(r)
    BY <1>2, <1>5, SupersedeRows DEF Supersede, DealUntouched, At, OnDealPcs, Of
  <1>6. CASE AcceptProposal(r) \/ Reject(r)
    <2>1. PICK p \in Proposals : p = request[r].proposal /\ proposal[p].deal # d /\ proposal[p] # Nothing
      BY <1>1, <1>2, <1>6, SlotTyped DEF AcceptProposal, Reject, DealsTypeInv, Placed, At, OnDealPcs, AnswerPcs
    <2>2. \A q \in Proposals : q # p => proposal'[q] = proposal[q]
      BY <1>1, <1>6, <2>1 DEF AcceptProposal, Reject, TypeOK
    <2>3. proposal'[p].deal # d
      BY <1>6, <2>1, ProposalRows DEF RowsStay
    <2>4. UNCHANGED <<deal, task>>
      BY <1>6 DEF AcceptProposal, Reject
    <2>5. QED
      BY <2>1, <2>2, <2>3, <2>4 DEF DealUntouched, Of
  <1>7. ASSUME NEW p \in Proposals, NEW u \in Users, DealCreate(r, u, p)
        PROVE  DealUntouched(d)
    <2>1. Id(r) # d /\ Id(r) \in Applications
      BY <1>2, <1>7 DEF DealCreate, At
    <2>2. proposal' = [proposal EXCEPT ![p] = Fresh(Id(r), u)] /\ proposal[p] = Nothing
      BY <1>7 DEF DealCreate
    <2>3. Fresh(Id(r), u).deal # d
      BY <2>1, FreshTyped
    <2>4. proposal'[p].deal # d /\ \A q \in Proposals : q # p => proposal'[q] = proposal[q]
      BY <1>1, <2>2, <2>3 DEF TypeOK
    <2>5. deal'[d] = deal[d] /\ task' = task
      BY <1>1, <1>7, <2>1 DEF DealCreate, TypeOK
    <2>6. QED
      BY <2>2, <2>4, <2>5 DEF DealUntouched, Of
  <1>8. ASSUME NEW p \in Proposals, Propose(r, p)
        PROVE  DealUntouched(d)
    <2>1. Id(r) # d /\ Id(r) \in Applications
      BY <1>2, <1>8 DEF Propose, At, OnDealPcs
    <2>2. proposal' = [proposal EXCEPT ![p] = Fresh(Id(r), request[r].by)] /\ proposal[p] = Nothing
      BY <1>8 DEF Propose
    <2>3. Fresh(Id(r), request[r].by).deal # d
      BY <2>1 DEF Fresh
    <2>4. proposal'[p].deal # d /\ \A q \in Proposals : q # p => proposal'[q] = proposal[q]
      BY <1>1, <2>2, <2>3 DEF TypeOK
    <2>5. UNCHANGED <<deal, task>>
      BY <1>8 DEF Propose
    <2>6. QED
      BY <2>2, <2>4, <2>5 DEF DealUntouched, Of
  <1>9. ASSUME NEW t \in Tasks, TaskCreate(r, t)
        PROVE  DealUntouched(d)
    <2>1. Id(r) # d
      BY <1>2, <1>9 DEF TaskCreate, At, OnDealPcs
    <2>2. UNCHANGED <<deal, proposal>> /\ task' = [task EXCEPT ![t] = [status |-> "open", deal |-> Id(r)]]
      BY <1>9 DEF TaskCreate
    <2>3. QED
      BY <1>1, <2>1, <2>2 DEF DealUntouched, TypeOK
  <1>10. QED
    BY <1>3, <1>4, <1>5, <1>6, <1>7, <1>8, <1>9 DEF Proceeds, Die, BriefWrite, ApplyRefused,
       DecideWrite, Tell, DealRefused, ApplyCreate, rows

\* Every step leaves a deal alone but one of a handler that is at work on it.
LEMMA WhoTouchesDeals ==
  ASSUME DealsTypeInv, Next, NEW d \in Applications
  PROVE  \/ DealUntouched(d)
         \/ \E r \in On(<<"deal", d>>) : Proceeds(r)
  <1>1. TypeOK
    BY DEF DealsTypeInv
  <1>2. CASE \E b \in Briefs : CreateBrief(b) \/ RemoveBrief(b)
    BY <1>2 DEF CreateBrief, RemoveBrief, DealUntouched
  <1>3. CASE \E t \in Tasks : CompleteTask(t) \/ RemoveTask(t)
    BY <1>1, <1>3 DEF CompleteTask, RemoveTask, DealUntouched, TypeOK, Nothing
  <1>4. ASSUME NEW r \in Requests, Starts(r)
        PROVE  DealUntouched(d)
    BY <1>1, <1>4, StartMoves DEF rows, DealUntouched
  <1>5. ASSUME NEW r \in Requests, Proceeds(r), request[r].row = <<"deal", d>>
        PROVE  r \in On(<<"deal", d>>)
    BY <1>5, WriteMoves DEF On
  <1>6. QED
    BY <1>1, <1>2, <1>3, <1>4, <1>5, OtherDeals, StepsOfNext

\* A step that changes an application removes it or makes it, or is one of a
\* handler that decides it.
LEMMA WhoTouchesApplications ==
  ASSUME DealsTypeInv, Next, NEW a \in Applications
  PROVE  \/ application'[a] = application[a]
         \/ application[a] # Nothing /\ application'[a].status = "removed" /\ deal[a] = Nothing
            /\ application'[a].brief = application[a].brief
         \/ application[a] = Nothing /\ \E r \in Requests : ApplyCreate(r, a)
         \/ /\ application[a] # Nothing /\ application[a].status # "removed"
            /\ \E r \in On(<<"application", a>>) : /\ DecideWrite(r) /\ At(r, "decide") /\ Goto(r, "tell")
                                                   /\ application'[a].status = request[r].to
                                                   /\ application'[a].brief = application[a].brief
  <1>1. TypeOK
    BY DEF DealsTypeInv
  <1>2. ASSUME NEW b \in Briefs, RemoveBrief(b), application'[a] # application[a]
        PROVE  application[a] # Nothing /\ application'[a].status = "removed" /\ deal[a] = Nothing
               /\ application'[a].brief = application[a].brief
    <2>1. a \in ApplicationsTo(b)
      BY <1>2 DEF RemoveBrief
    <2>2. application[a] \in Application /\ application[a] # Nothing /\ deal[a] = Nothing
      BY <1>1, <1>2, <2>1 DEF ApplicationsTo, TypeOK, RemoveBrief
    <2>3. application'[a] = [application[a] EXCEPT !.status = "removed"]
      BY <1>2, <2>1 DEF RemoveBrief
    <2>4. QED
      BY <2>2, <2>3 DEF Application
  <1>3. ASSUME NEW r \in Requests, Proceeds(r), application'[a] # application[a]
        PROVE  \/ application[a] = Nothing /\ ApplyCreate(r, a)
               \/ /\ application[a] # Nothing /\ application[a].status # "removed" /\ r \in On(<<"application", a>>)
                  /\ DecideWrite(r) /\ At(r, "decide") /\ Goto(r, "tell")
                  /\ application'[a].status = request[r].to /\ application'[a].brief = application[a].brief
    <2>1. ASSUME NEW c \in Applications, ApplyCreate(r, c)
          PROVE  application[a] = Nothing /\ ApplyCreate(r, a)
      <3>1. c = a
        BY <1>1, <1>3, <2>1 DEF ApplyCreate, TypeOK
      <3>2. QED
        BY <2>1, <3>1 DEF ApplyCreate
    <2>2. CASE DecideWrite(r)
      <3>1. /\ application' = [application EXCEPT ![Id(r)].status = request[r].to] /\ At(r, "decide")
            /\ application[Id(r)].status # "removed" /\ Goto(r, "tell")
        BY <1>3, <2>2 DEF DecideWrite
      <3>2. Id(r) = a
        BY <1>1, <1>3, <3>1 DEF TypeOK
      <3>3. request[r].row = <<"application", a>> /\ request[r] # Idle /\ application[a] # Nothing
        BY <1>1, <3>1, <3>2, SlotTyped DEF At, DealsTypeInv, Placed
      <3>4. application[a] \in Application
        BY <1>1, <3>3 DEF TypeOK
      <3>5. application'[a] = [application[a] EXCEPT !.status = request[r].to]
        BY <1>1, <3>1, <3>2 DEF TypeOK
      <3>6. application'[a].status = request[r].to /\ application'[a].brief = application[a].brief
        BY <3>4, <3>5 DEF Application
      <3>7. QED
        BY <2>2, <3>1, <3>2, <3>3, <3>6 DEF On
    <2>3. QED
      BY <1>3, <2>1, <2>2 DEF Proceeds, Die, BriefWrite, ApplyRefused, Tell, DealRefused, CloseDeal, Supersede,
         AcceptProposal, Activate, Reject, DealCreate, Propose, TaskCreate, rows
  <1>4. ASSUME NEW r \in Requests, Starts(r)
        PROVE  application'[a] = application[a]
    BY <1>1, <1>4, StartMoves DEF rows
  <1>5. CASE \E t \in Tasks : CompleteTask(t) \/ RemoveTask(t)
    BY <1>5 DEF CompleteTask, RemoveTask
  <1>6. CASE \E b \in Briefs : CreateBrief(b)
    BY <1>6 DEF CreateBrief
  <1>7. QED
    BY <1>1, <1>2, <1>3, <1>4, <1>5, <1>6, StepsOfNext

LEMMA HistoryGrows ==
  ASSUME DealsTypeInv, Next
  PROVE  crossed \subseteq crossed' /\ cut \subseteq cut'
  <1>1. TypeOK
    BY DEF DealsTypeInv
  <1>2. CASE \/ \E b \in Briefs : CreateBrief(b) \/ RemoveBrief(b)
             \/ \E t \in Tasks : CompleteTask(t) \/ RemoveTask(t)
    BY <1>2 DEF CreateBrief, RemoveBrief, CompleteTask, RemoveTask, history
  <1>3. ASSUME NEW r \in Requests, Starts(r) \/ Proceeds(r)
        PROVE  crossed \subseteq crossed' /\ cut \subseteq cut'
    BY <1>1, <1>3, StartMoves, WriteMoves DEF SlotMove
  <1>4. QED
    BY <1>1, <1>2, <1>3, StepsOfNext

\* Each slot starts, goes on or stays as it is.
LEMMA SlotCases ==
  ASSUME DealsTypeInv, Next, NEW s \in Requests
  PROVE  /\ request'[s] = request[s] \/ Starts(s) \/ Proceeds(s)
         /\ crossed \subseteq crossed' /\ cut \subseteq cut'
  <1>1. TypeOK
    BY DEF DealsTypeInv
  <1>2. CASE \/ \E b \in Briefs : CreateBrief(b) \/ RemoveBrief(b)
             \/ \E t \in Tasks : CompleteTask(t) \/ RemoveTask(t)
    BY <1>2 DEF CreateBrief, RemoveBrief, CompleteTask, RemoveTask, history
  <1>3. ASSUME NEW r \in Requests, Starts(r) \/ Proceeds(r)
        PROVE  /\ request'[s] = request[s] \/ Starts(s) \/ Proceeds(s)
               /\ crossed \subseteq crossed' /\ cut \subseteq cut'
    BY <1>1, <1>3, StartMoves, WriteMoves DEF SlotMove
  <1>4. QED
    BY <1>1, <1>2, <1>3, StepsOfNext

\* Two handlers that are at work on a row that is not crossed are one.
LEMMA SameHandler ==
  ASSUME DealsTypeInv, OneAtATime, NEW r \in Requests, NEW s \in Requests, request[r] # Idle, request[s] # Idle,
         request[r].row = request[s].row, request[r].row \notin crossed
  PROVE  r = s
  <1>1. request[r].row \in Row
    BY SlotTyped DEF DealsTypeInv
  <1>2. r \in On(request[r].row) /\ s \in On(request[r].row)
    BY DEF On
  <1>3. QED
    BY <1>1, <1>2 DEF OneAtATime

\* What a handler has just read of a deal, and what it keeps when it goes on.
LEMMA DealReadStart ==
  ASSUME DealsTypeInv, NEW r \in Requests, Starts(r)
  PROVE  DealRead(r)' /\ DecisionRead(r)'
  <1>1. PICK h \in Handlers : HasRead(h) /\ Start(r, h)
    BY DEF Starts
  <1>2. request'[r] = h /\ UNCHANGED rows
    BY <1>1, SlotStarts DEF DealsTypeInv
  <1>3. DealRead(r)'
    BY <1>1, <1>2 DEF HasRead, DealRead, At, Id, OnDealPcs, rows
  <1>4. DecisionRead(r)'
    BY <1>1, <1>2 DEF HasRead, DecisionRead, At, Id, rows
  <1>5. QED
    BY <1>3, <1>4

LEMMA DealReadGoes ==
  ASSUME DealsTypeInv, NEW r \in Requests, request[r] # Idle => DealRead(r), Proceeds(r), request'[r] # Idle
  PROVE  DealRead(r)' /\ DecisionRead(r)'
  <1>1. TypeOK
    BY DEF DealsTypeInv
  <1>2. ~(Finish(r) \/ Die(r))
    BY <1>1, SlotEnds
  <1>3. ASSUME NEW a \in Applications, ApplyCreate(r, a)
        PROVE  request'[r].pc = "tell"
    <2> DEFINE h == [pc |-> "tell", row |-> <<"application", a>>, to |-> "RECEIVED"]
    <2>1. h \in Handlers /\ request' = [request EXCEPT ![r] = h]
      BY <1>3 DEF ApplyCreate, Handlers
    <2>2. QED
      BY <1>1, <2>1, SlotSet
  <1>4. CASE DecideWrite(r)
    <2>1. Goto(r, "tell") /\ At(r, "decide")
      BY <1>2, <1>4 DEF DecideWrite
    <2>2. QED
      BY <1>1, <2>1, SlotGoes DEF DealRead, DecisionRead, At, OnDealPcs
  <1>5. CASE Supersede(r) \/ AcceptProposal(r)
    <2>1. PICK pc : /\ Goto(r, pc) /\ pc \in {"propose", "activate"}
                    /\ \/ At(r, "supersede") /\ pc = "propose"
                       \/ At(r, "accept") /\ pc = "activate"
      BY <1>5 DEF Supersede, AcceptProposal
    <2>2. request'[r].pc = pc /\ request'[r].row = request[r].row /\ crossed' = crossed /\ request[r] # Idle
      BY <1>1, <2>1, SlotGoes, SlotTyped DEF Goto, history, At
    <2>3. deal' = deal
      BY <1>5 DEF Supersede, AcceptProposal
    <2>4. request[r].pc \in OnDealPcs \ {"deal.close", "task.create"}
      BY <2>1 DEF At, OnDealPcs
    <2>5. QED
      BY <2>1, <2>2, <2>3, <2>4 DEF DealRead, DecisionRead, At, Id, OnDealPcs
  <1>6. CASE request'[r].pc = "tell"
    BY <1>6 DEF DealRead, DecisionRead, At, OnDealPcs
  <1>7. QED
    BY <1>2, <1>3, <1>4, <1>5, <1>6 DEF Proceeds, BriefWrite, ApplyRefused, Tell, DealRefused, CloseDeal, Activate,
       Reject, DealCreate, Propose, TaskCreate

LEMMA DealReadStays ==
  ASSUME DealsTypeInv, ReadInv, Next, NEW s \in Requests, request'[s] = request[s], request[s] # Idle,
         ~Proceeds(s)
  PROVE  DealRead(s)'
  <1>1. TypeOK /\ crossed \subseteq crossed' /\ Id(s)' = Id(s) /\ DealRead(s)
    BY SlotCases DEF DealsTypeInv, Id, ReadInv
  <1>2. CASE request[s].pc \in OnDealPcs \cup {"deal.create"} /\ request[s].row \notin crossed'
    <2>1. PICK d \in Applications : d = Id(s) /\ request[s].row = <<"deal", d>>
      BY <1>1, <1>2, SlotTyped
    <2>2. ASSUME NEW r \in On(<<"deal", d>>), Proceeds(r)
          PROVE  FALSE
      <3>1. r \in Requests /\ request[r] # Idle /\ request[r].row = request[s].row
        BY <2>1, <2>2 DEF On
      <3>2. r = s
        BY <1>1, <1>2, <3>1, SameHandler DEF ReadInv
      <3>3. QED
        BY <2>2, <3>2
    <2>3. deal'[d] = deal[d]
      BY <2>2, WhoTouchesDeals DEF DealUntouched
    <2>4. QED
      BY <1>1, <1>2, <2>1, <2>3 DEF DealRead, At
  <1>3. CASE ~(request[s].pc \in OnDealPcs \cup {"deal.create"} /\ request[s].row \notin crossed')
    BY <1>3 DEF DealRead, At, OnDealPcs
  <1>4. QED
    BY <1>2, <1>3

LEMMA DecisionReadStays ==
  ASSUME DealsTypeInv, ReadInv, Next, NEW s \in Requests, request'[s] = request[s], request[s] # Idle,
         ~Proceeds(s)
  PROVE  DecisionRead(s)'
  <1>1. TypeOK /\ crossed \subseteq crossed' /\ Id(s)' = Id(s) /\ DecisionRead(s)
    BY SlotCases DEF DealsTypeInv, Id, ReadInv
  <1>2. CASE request[s].pc \in {"decide", "deal.create"}
    <2>1. PICK a \in Applications : a = Id(s) /\ application[a] # Nothing
      BY <1>1, <1>2, SlotTyped DEF DealsTypeInv, Placed
    <2>2. At(s, "decide") => request[s].row = <<"application", a>>
      BY <1>1, <2>1, SlotTyped DEF At
    <2>3. ASSUME NEW r \in On(<<"application", a>>), At(r, "decide"), <<"application", a>> \notin crossed',
                 application[a].status # "removed", Proceeds(r)
          PROVE  ~At(s, "decide") /\ application[a].status = "PENDING"
      <3>1. r \in Requests /\ request[r] # Idle /\ request[r].row = <<"application", a>> /\ Id(r) = a
        BY <2>3 DEF On, Id
      <3>2. application[a].status = "PENDING"
        BY <1>1, <2>3, <3>1 DEF ReadInv, DecisionRead
      <3>3. At(s, "decide") => r = s
        BY <1>1, <2>2, <2>3, <3>1, SameHandler DEF ReadInv
      <3>4. QED
        BY <2>3, <3>2, <3>3
    <2>4. <<"application", a>> \notin crossed' =>
            \/ application'[a] = application[a] \/ application'[a].status = "removed"
            \/ ~At(s, "decide") /\ application[a].status = "PENDING"
      BY <2>1, <2>3, WhoTouchesApplications DEF Proceeds
    <2>5. QED
      BY <1>1, <1>2, <2>1, <2>2, <2>4 DEF DecisionRead, At
  <1>3. CASE request[s].pc \notin {"decide", "deal.create"}
    BY <1>3 DEF DecisionRead, At
  <1>4. QED
    BY <1>2, <1>3

\* A deal stands on an accepted application.
LEMMA DealsStand ==
  ASSUME DealsTypeInv, ReadInv, Next, NEW d \in Applications, deal'[d] # Nothing
  PROVE  application'[d].status = "ACCEPTED" \/ <<"application", d>> \in crossed'
  <1>1. TypeOK /\ crossed \subseteq crossed'
    BY HistoryGrows DEF DealsTypeInv
  <1> SUFFICES ASSUME <<"application", d>> \notin crossed'
               PROVE  application'[d].status = "ACCEPTED"
    OBVIOUS
  <1>2. <<"application", d>> \notin crossed
    BY <1>1
  <1>3. CASE deal[d] # Nothing
    <2>1. application[d].status = "ACCEPTED" /\ application[d] # Nothing
      BY <1>2, <1>3 DEF ReadInv, Nothing
    <2>2. ASSUME NEW r \in On(<<"application", d>>), At(r, "decide")
          PROVE  FALSE
      <3>1. r \in Requests /\ request[r] # Idle /\ request[r].row = <<"application", d>> /\ Id(r) = d
        BY <2>2 DEF On, Id
      <3>2. QED
        BY <1>2, <2>1, <2>2, <3>1 DEF ReadInv, DecisionRead
    <2>3. QED
      BY <1>3, <2>1, <2>2, WhoTouchesApplications
  <1>4. CASE deal[d] = Nothing
    <2>1. PICK r \in On(<<"deal", d>>) : Proceeds(r)
      BY <1>4, WhoTouchesDeals DEF DealUntouched
    <2>2. r \in Requests /\ request[r] # Idle /\ request[r].row = <<"deal", d>> /\ Id(r) = d
      BY <2>1 DEF On, Id
    <2>3. ~At(r, "deal.close") /\ ~At(r, "activate")
      BY <1>4, <2>2 DEF DealsTypeInv, Placed, OnDealPcs, At
    <2>4. UNCHANGED application /\ At(r, "deal.create") /\ application[d].status # "removed"
      BY <1>4, <2>1, <2>2, <2>3 DEF Proceeds, Die, BriefWrite, ApplyRefused, DecideWrite, Tell, DealRefused, ApplyCreate,
         CloseDeal, Supersede, AcceptProposal, Activate, Reject, DealCreate, Propose, TaskCreate, rows
    <2>5. DecisionRead(r)
      BY <2>2 DEF ReadInv
    <2>6. QED
      BY <1>2, <2>2, <2>4, <2>5 DEF DecisionRead
  <1>5. QED
    BY <1>3, <1>4

LEMMA OneAtATimeStep ==
  ASSUME DealsTypeInv, OneAtATime, Next
  PROVE  OneAtATime'
  <1>1. TypeOK
    BY DEF DealsTypeInv
  <1>2. CASE \/ \E b \in Briefs : CreateBrief(b) \/ RemoveBrief(b)
             \/ \E t \in Tasks : CompleteTask(t) \/ RemoveTask(t)
    <2>1. UNCHANGED <<request, history>>
      BY <1>2 DEF CreateBrief, RemoveBrief, CompleteTask, RemoveTask
    <2>2. QED
      BY <2>1 DEF OneAtATime, On, history
  <1>3. ASSUME NEW r \in Requests, Starts(r) \/ Proceeds(r)
        PROVE  OneAtATime'
    BY <1>1, <1>3, StartMoves, WriteMoves, OneAtATimeMove
  <1>4. QED
    BY <1>1, <1>2, <1>3, StepsOfNext

LEMMA ReadStep == DealsTypeInv /\ ReadInv /\ [Next]_vars => ReadInv'
  <1>1. ASSUME DealsTypeInv, ReadInv, Next
        PROVE  ReadInv'
    <2>1. OneAtATime'
      BY <1>1, OneAtATimeStep DEF ReadInv
    <2>2. ASSUME NEW s \in Requests, request'[s] # Idle
          PROVE  DealRead(s)' /\ DecisionRead(s)'
      <3>1. CASE Starts(s)
        BY <1>1, <3>1, DealReadStart
      <3>2. CASE Proceeds(s)
        BY <1>1, <2>2, <3>2, DealReadGoes DEF ReadInv
      <3>3. CASE request'[s] = request[s] /\ ~Proceeds(s)
        BY <1>1, <2>2, <3>3, DealReadStays, DecisionReadStays
      <3>4. QED
        BY <1>1, <3>1, <3>2, <3>3, SlotCases
    <2>3. \A d \in Applications : deal'[d] # Nothing =>
            application'[d].status = "ACCEPTED" \/ <<"application", d>> \in crossed'
      BY <1>1, DealsStand
    <2>4. QED
      BY <2>1, <2>2, <2>3 DEF ReadInv
  <1>2. ASSUME DealsTypeInv, ReadInv, UNCHANGED vars
        PROVE  ReadInv'
    BY <1>2 DEF ReadInv, OneAtATime, On, DealRead, DecisionRead, At, Id, vars, rows, history
  <1>3. QED
    BY <1>1, <1>2

LEMMA ReadInit == Init => ReadInv
  BY DEF Init, ReadInv, OneAtATime, On

LEMMA ReadHolds == Spec => []ReadInv
  BY ReadInit, ReadStep, DealsTyped, PTL DEF Spec

(* The action property: as long as nothing crossed on it, a completed or   *)
(* cancelled deal has no handler that could bring it back.                 *)
THEOREM DealsEndOnceAlways == Spec => DealsEndOnce
  <1>1. ASSUME DealsTypeInv, ReadInv, [Next]_vars, NEW d \in Applications, deal[d].status \in Closed,
               <<"deal", d>> \notin crossed
        PROVE  /\ deal'[d] = deal[d]
               /\ \A t \in Tasks : task[t] = Nothing /\ task'[t] # Nothing => task'[t].deal # d
    <2>1. CASE UNCHANGED vars
      BY <2>1 DEF vars, rows
    <2>2. CASE Next
      <3>1. CASE DealUntouched(d)
        BY <3>1 DEF DealUntouched
      <3>2. ASSUME NEW r \in On(<<"deal", d>>), Proceeds(r)
            PROVE  /\ deal'[d] = deal[d]
                   /\ \A t \in Tasks : task[t] = Nothing /\ task'[t] # Nothing => task'[t].deal # d
        <4>1. r \in Requests /\ request[r] # Idle /\ request[r].row = <<"deal", d>> /\ Id(r) = d
          BY <3>2 DEF On, Id
        <4>2. DealRead(r)
          BY <1>1, <4>1 DEF ReadInv
        <4>3. request[r].pc \notin OnDealPcs
          BY <1>1, <4>1, <4>2 DEF DealRead, OnDealPcs, Closed
        <4>4. ~At(r, "deal.create")
          BY <1>1, <4>1, <4>2 DEF DealRead, Nothing, Closed
        <4>5. UNCHANGED rows \/ UNCHANGED <<deal, task>>
          BY <3>2, <4>3, <4>4 DEF Proceeds, Die, BriefWrite, ApplyRefused, DecideWrite, Tell, DealRefused, ApplyCreate,
             CloseDeal, Supersede, AcceptProposal, Activate, Reject, DealCreate, Propose, TaskCreate, At, OnDealPcs
        <4>6. QED
          BY <4>5 DEF rows
      <3>3. QED
        BY <1>1, <2>2, <3>1, <3>2, WhoTouchesDeals
    <2>3. QED
      BY <1>1, <2>1, <2>2
  <1>2. DealsTypeInv /\ ReadInv /\ [Next]_vars =>
          [\A d \in Applications : deal[d].status \in Closed /\ <<"deal", d>> \notin crossed
             => /\ deal'[d] = deal[d]
                /\ \A t \in Tasks : task[t] = Nothing /\ task'[t] # Nothing => task'[t].deal # d]_vars
    BY <1>1
  <1>3. QED
    BY <1>2, DealsTyped, ReadHolds, PTL DEF Spec, DealsEndOnce

---------------------------------------------------------------------------
(* The terms of a deal                                                     *)
\* A handler that goes on stays on its row, but for one that made its application.
LEMMA WriteRow ==
  ASSUME DealsTypeInv, NEW r \in Requests, Proceeds(r), request'[r] # Idle
  PROVE  \/ request'[r].row = request[r].row
         \/ \E a \in Applications : ApplyCreate(r, a) /\ request'[r].row = <<"application", a>>
  <1>1. TypeOK
    BY DEF DealsTypeInv
  <1>2. ~(Finish(r) \/ Die(r))
    BY <1>1, SlotEnds
  <1>3. ASSUME NEW a \in Applications, ApplyCreate(r, a)
        PROVE  request'[r].row = <<"application", a>>
    <2> DEFINE h == [pc |-> "tell", row |-> <<"application", a>>, to |-> "RECEIVED"]
    <2>1. h \in Handlers /\ request' = [request EXCEPT ![r] = h]
      BY <1>3 DEF ApplyCreate, Handlers
    <2>2. QED
      BY <1>1, <2>1, SlotSet
  <1>4. CASE DecideWrite(r) \/ Supersede(r) \/ AcceptProposal(r)
    BY <1>1, <1>2, <1>4, SlotGoes DEF DecideWrite, Supersede, AcceptProposal
  <1>5. QED
    BY <1>2, <1>3, <1>4 DEF Proceeds, BriefWrite, ApplyRefused, Tell, DealRefused, CloseDeal, Activate,
       Reject, DealCreate, Propose, TaskCreate

\* Nobody who is at work on the deal does a step; one may start.
LEMMA TermsKeptBeside ==
  ASSUME DealsTypeInv, ReadInv, TermsInv, Next, NEW d \in Applications,
         \A r \in On(<<"deal", d>>) : ~Proceeds(r)
  PROVE  TermsKept(d)'
  <1>1. TypeOK /\ crossed \subseteq crossed' /\ cut \subseteq cut'
    BY HistoryGrows DEF DealsTypeInv
  <1>2. DealUntouched(d)
    BY WhoTouchesDeals
  <1>3. deal'[d] = deal[d] /\ Pending(d)' = Pending(d) /\ Won(d)' = Won(d)
    BY <1>2 DEF DealUntouched, Pending, Won, Of
  <1> SUFFICES ASSUME Steady(<<"deal", d>>)', deal'[d] # Nothing
               PROVE  /\ \A r \in On(<<"deal", d>>)' : Midway(r, d)'
                      /\ (\A r \in On(<<"deal", d>>)' : request'[r].pc \notin {"propose", "activate"}) => AtRest(d)'
    BY DEF TermsKept
  <1>4. /\ \A r \in On(<<"deal", d>>) : Midway(r, d)
        /\ (\A r \in On(<<"deal", d>>) : request[r].pc \notin {"propose", "activate"}) => AtRest(d)
    BY <1>3, <1>1 DEF TermsInv, TermsKept, Steady
  <1>5. ASSUME NEW r \in On(<<"deal", d>>)
        PROVE  r \in On(<<"deal", d>>)' /\ request'[r] = request[r]
    <2>1. r \in Requests /\ request[r] # Idle
      BY DEF On
    <2>2. ~Starts(r)
      BY <2>1 DEF Starts, Start
    <2>3. QED
      BY <2>1, <2>2, SlotCases DEF On
  <1>6. ASSUME NEW r \in On(<<"deal", d>>)', r \notin On(<<"deal", d>>)
        PROVE  On(<<"deal", d>>) = {} /\ request'[r].pc \notin {"propose", "activate"} /\ Midway(r, d)'
    <2>1. r \in Requests /\ request'[r] # Idle /\ request'[r].row = <<"deal", d>>
      BY <1>6 DEF On
    <2>2. request'[r] # request[r]
      BY <1>6, <2>1 DEF On
    <2>3. ~Proceeds(r)
      BY <1>6, <2>1, WriteRow, WriteMoves DEF On
    <2>4. PICK h \in Handlers : HasRead(h) /\ Start(r, h)
      BY <2>1, <2>2, <2>3, SlotCases DEF Starts
    <2>5. request'[r] = h /\ UNCHANGED rows /\ (h.row \notin crossed' => On(h.row) = {})
      BY <1>1, <2>1, <2>4, SlotStarts
    <2>6. On(<<"deal", d>>) = {}
      BY <2>1, <2>5 DEF Steady
    <2>7. h.pc \notin {"propose", "activate"}
      BY <2>4 DEF HasRead
    <2>8. h.pc \in {"accept", "reject"} => proposal[h.proposal].status = "PENDING"
      BY <2>4 DEF HasRead
    <2>9. proposal' = proposal
      BY <2>5 DEF rows
    <2>10. Midway(r, d)'
      BY <2>5, <2>7, <2>8, <2>9 DEF Midway, At
    <2>11. QED
      BY <2>5, <2>6, <2>7, <2>10
  <1>7. ASSUME NEW r \in On(<<"deal", d>>)
        PROVE  Midway(r, d)'
    <2>1. Midway(r, d) /\ request'[r] = request[r] /\ r \in Requests /\ request[r] # Idle
          /\ request[r].row = <<"deal", d>>
      BY <1>4, <1>5 DEF On
    <2>2. request[r].pc \in {"accept", "reject"} =>
            request[r].proposal \in Of(d) /\ request[r].proposal \in Proposals
      BY <1>1, <2>1, SlotTyped DEF DealsTypeInv, Placed, AnswerPcs, Of, Id
    <2>3. request[r].pc \in {"accept", "reject"} => proposal'[request[r].proposal] = proposal[request[r].proposal]
      BY <1>2, <2>2 DEF DealUntouched
    <2>4. QED
      BY <1>3, <2>1, <2>3 DEF Midway, At
  <1>8. AtRest(d) => AtRest(d)'
    BY <1>3 DEF AtRest
  <1>9. QED
    BY <1>4, <1>5, <1>6, <1>7, <1>8

\* The proposals of a deal after a step that is given by what it does to them.
LEMMA TermsKeptOn ==
  ASSUME DealsTypeInv, ReadInv, NEW r \in Requests, Proceeds(r), NEW d \in Applications,
         request[r].row = <<"deal", d>>, request'[r] # Idle => Midway(r, d)',
         (request'[r] # Idle => request'[r].pc \notin {"propose", "activate"}) => AtRest(d)',
         <<"deal", d>> \notin crossed
  PROVE  TermsKept(d)'
  <1>1. r \in On(<<"deal", d>>) /\ \A s \in Requests : s # r => request'[s] = request[s]
    BY WriteMoves DEF On, SlotMove
  <1>2. <<"deal", d>> \in Row
    BY DEF Row
  <1>3. \A s \in On(<<"deal", d>>) : s = r
    BY <1>1, <1>2 DEF ReadInv, OneAtATime
  <1>4. ASSUME NEW s \in On(<<"deal", d>>)'
        PROVE  s = r /\ request'[r] # Idle
    BY <1>1, <1>3 DEF On
  <1>5. request'[r] # Idle => r \in On(<<"deal", d>>)'
    <2>1. request'[r] # Idle => request'[r].row = <<"deal", d>>
      <3>1. At(r, "apply") => request[r].row # <<"deal", d>>
        BY SlotTyped DEF DealsTypeInv, At
      <3>2. QED
        BY <3>1, WriteRow DEF ApplyCreate
    <2>2. QED
      BY <2>1 DEF On
  <1>6. QED
    BY <1>4, <1>5 DEF TermsKept


\* What is known of a deal on which one handler is at work.
LEMMA AtWorkOnDeal ==
  ASSUME DealsTypeInv, ReadInv, TermsInv, NEW r \in Requests, Proceeds(r), NEW d \in Applications,
         request[r].row = <<"deal", d>>, Steady(<<"deal", d>>)
  PROVE  /\ TypeOK /\ Id(r) = d /\ DealRead(r) /\ request[r].row \notin crossed
         /\ request[r].pc \in OnDealPcs \cup {"deal.create"}
         /\ deal[d] # Nothing => Midway(r, d)
         /\ deal[d] # Nothing /\ request[r].pc \notin {"propose", "activate"} => AtRest(d)
  <1>1. request[r] # Idle /\ r \in On(<<"deal", d>>)
    BY WriteMoves DEF On
  <1>2. <<"deal", d>> \in Row
    BY DEF Row
  <1>3. \A s \in On(<<"deal", d>>) : s = r
    BY <1>1, <1>2 DEF ReadInv, OneAtATime, Steady
  <1>4. deal[d] # Nothing => /\ Midway(r, d)
                             /\ request[r].pc \notin {"propose", "activate"} => AtRest(d)
    BY <1>1, <1>3 DEF TermsInv, TermsKept
  <1>5. TypeOK /\ Id(r) = d /\ DealRead(r) /\ request[r].row \notin crossed
    BY <1>1 DEF DealsTypeInv, Id, ReadInv, Steady
  <1>6. request[r].pc \in OnDealPcs \cup {"deal.create"}
    BY <1>1, <1>5, SlotTyped DEF At
  <1>7. QED
    BY <1>4, <1>5, <1>6

LEMMA DealCreateTerms ==
  ASSUME DealsTypeInv, NEW r \in Requests, NEW u \in Users, NEW p \in Proposals, DealCreate(r, u, p),
         NEW d \in Applications, d = Id(r)
  PROVE  AtRest(d)'
  <1>1. deal[d] = Nothing
    BY DEF DealCreate
  <1>2. Of(d) = {}
    BY <1>1 DEF DealsTypeInv, TypeOK, KeysHold, Of
  <1>3. PICK new : new = Fresh(d, u) /\ proposal' = [proposal EXCEPT ![p] = new]
    BY DEF DealCreate
  <1>4. new.status = "PENDING"
    BY <1>3 DEF Fresh
  <1>5. proposal'[p].status = "PENDING" /\ \A q \in Proposals : q # p => proposal'[q] = proposal[q]
    BY <1>3, <1>4 DEF DealsTypeInv, TypeOK
  <1>6. Won(d)' = {} /\ \A q, s \in Pending(d)' : q = s
    BY <1>2, <1>5 DEF Won, Pending, Of
  <1>7. deal'[d].status = "NEGOTIATING"
    BY DEF DealCreate, DealsTypeInv, TypeOK
  <1>8. QED
    BY <1>6, <1>7 DEF AtRest

LEMMA CloseDealTerms ==
  ASSUME DealsTypeInv, NEW r \in Requests, CloseDeal(r), NEW d \in Applications, d = Id(r),
         DealRead(r), request[r].row \notin crossed, deal[d] # Nothing, AtRest(d)
  PROVE  AtRest(d)'
  <1>1. request[r].to \in Closed /\ request[r].to = "COMPLETED" => deal[d].status = "ACTIVE"
    BY SlotTyped DEF DealsTypeInv, CloseDeal, DealRead, At
  <1>2. request[r].to \in Closed
    BY SlotTyped DEF DealsTypeInv, CloseDeal
  <1>3. proposal' = proposal /\ deal' = [deal EXCEPT ![d].status = request[r].to] /\ deal[d] \in Deal
    BY DEF CloseDeal, DealsTypeInv, TypeOK
  <1>4. deal'[d].status = request[r].to /\ deal'[d].terms = deal[d].terms
    BY <1>3 DEF DealsTypeInv, TypeOK, Deal
  <1>5. Pending(d)' = Pending(d) /\ Won(d)' = Won(d)
    BY <1>3 DEF Pending, Won, Of
  <1>6. QED
    BY <1>1, <1>2, <1>4, <1>5 DEF AtRest, Closed

LEMMA SupersedeTerms ==
  ASSUME DealsTypeInv, NEW r \in Requests, Supersede(r), NEW d \in Applications, d = Id(r),
         DealRead(r), request[r].row \notin crossed, AtRest(d)
  PROVE  Midway(r, d)' /\ request'[r].pc = "propose"
  <1>1. deal[d].status = "NEGOTIATING"
    BY DEF DealRead, Supersede, At, OnDealPcs
  <1>2. request'[r].pc = "propose"
    BY SlotGoes DEF DealsTypeInv, Supersede
  <1>3. Pending(d)' = {}
    BY SupersedeRows DEF Pending, Of
  <1>4. Won(d)' = {}
    BY <1>1, SupersedeRows DEF Won, Of, AtRest
  <1>5. QED
    BY <1>2, <1>3, <1>4 DEF Midway, At

LEMMA ProposeTerms ==
  ASSUME DealsTypeInv, NEW r \in Requests, NEW p \in Proposals, Propose(r, p), NEW d \in Applications, d = Id(r),
         DealRead(r), request[r].row \notin crossed, Midway(r, d)
  PROVE  AtRest(d)'
  <1>1. deal[d].status = "NEGOTIATING" /\ Pending(d) = {} /\ Won(d) = {}
    BY DEF DealRead, Propose, At, OnDealPcs, Midway
  <1>2. PICK new : new = Fresh(d, request[r].by) /\ proposal' = [proposal EXCEPT ![p] = new]
    BY DEF Propose
  <1>3. new.status = "PENDING"
    BY <1>2 DEF Fresh
  <1>4. proposal'[p].status = "PENDING" /\ \A q \in Proposals : q # p => proposal'[q] = proposal[q]
    BY <1>2, <1>3 DEF DealsTypeInv, TypeOK
  <1>5. Won(d)' = {} /\ \A q, s \in Pending(d)' : q = s
    BY <1>1, <1>4 DEF Won, Pending, Of
  <1>6. deal' = deal
    BY DEF Propose
  <1>7. QED
    BY <1>1, <1>5, <1>6 DEF AtRest

LEMMA AnswerTerms ==
  ASSUME DealsTypeInv, NEW r \in Requests, AcceptProposal(r) \/ Reject(r), NEW d \in Applications, d = Id(r),
         DealRead(r), request[r].row \notin crossed, Midway(r, d), AtRest(d)
  PROVE  /\ AcceptProposal(r) => Midway(r, d)' /\ request'[r].pc = "activate"
         /\ Reject(r) => AtRest(d)'
  <1>1. PICK p \in Proposals : /\ p = request[r].proposal /\ proposal[p] # Nothing /\ proposal[p].deal = d
                               /\ proposal[p].status = "PENDING" /\ deal[d].status = "NEGOTIATING"
    BY SlotTyped DEF AcceptProposal, Reject, DealsTypeInv, Placed, At, OnDealPcs, AnswerPcs, Midway, DealRead
  <1>2. Pending(d) = {p} /\ Won(d) = {}
    BY <1>1 DEF AtRest, Pending, Of
  <1>3. proposal[p] \in Proposal
    BY <1>1 DEF DealsTypeInv, TypeOK
  <1>4. /\ \A q \in Proposals : q # p => proposal'[q] = proposal[q]
        /\ proposal'[p] # Nothing /\ proposal'[p].deal = d
    BY <1>1, ProposalRows DEF AcceptProposal, Reject, DealsTypeInv, TypeOK, RowsStay
  <1>5. ASSUME AcceptProposal(r)
        PROVE  Midway(r, d)' /\ request'[r].pc = "activate"
    <2>1. proposal'[p].status = "ACCEPTED"
      BY <1>1, <1>3, <1>5 DEF AcceptProposal, DealsTypeInv, TypeOK, Proposal
    <2>2. Pending(d)' = {} /\ Won(d)' = {p}
      BY <1>1, <1>2, <1>4, <2>1 DEF Pending, Won, Of
    <2>3. request'[r].pc = "activate" /\ request'[r].proposal = p
      BY <1>1, <1>5, SlotGoes DEF AcceptProposal, DealsTypeInv
    <2>4. QED
      BY <2>2, <2>3 DEF Midway, At
  <1>6. ASSUME Reject(r)
        PROVE  AtRest(d)'
    <2>1. proposal'[p].status = "REJECTED" /\ deal' = deal
      BY <1>1, <1>3, <1>6 DEF Reject, DealsTypeInv, TypeOK, Proposal
    <2>2. Pending(d)' = {} /\ Won(d)' = {}
      BY <1>1, <1>2, <1>4, <2>1 DEF Pending, Won, Of
    <2>3. QED
      BY <1>1, <2>1, <2>2 DEF AtRest
  <1>7. QED
    BY <1>5, <1>6

LEMMA ActivateTerms ==
  ASSUME DealsTypeInv, NEW r \in Requests, Activate(r), NEW d \in Applications, d = Id(r), Midway(r, d)
  PROVE  AtRest(d)'
  <1>1. Pending(d)' = {} /\ Won(d)' = {request[r].proposal}
    BY DEF Activate, Midway, Pending, Won, Of, At
  <1>2. deal'[d] = [status |-> "ACTIVE", terms |-> request[r].proposal]
    BY DEF Activate, DealsTypeInv, TypeOK
  <1>3. deal'[d].status = "ACTIVE" /\ deal'[d].terms = request[r].proposal
    BY <1>2
  <1>4. QED
    BY <1>1, <1>3 DEF AtRest

LEMMA TermsKeptByWrite ==
  ASSUME DealsTypeInv, ReadInv, TermsInv, NEW r \in Requests, Proceeds(r), NEW d \in Applications,
         request[r].row = <<"deal", d>>, Steady(<<"deal", d>>)', deal'[d] # Nothing
  PROVE  TermsKept(d)'
  <1>1. /\ crossed' = crossed /\ ~Die(r) /\ request[r] # Idle
        /\ <<"deal", d>> \notin crossed' /\ <<"deal", d>> \notin crossed
    BY WriteMoves DEF Steady, Die
  <1>2. Steady(<<"deal", d>>)
    BY <1>1, WriteMoves DEF Steady
  <1>3. /\ TypeOK /\ Id(r) = d /\ DealRead(r) /\ request[r].row \notin crossed
        /\ request[r].pc \in OnDealPcs \cup {"deal.create"}
        /\ deal[d] # Nothing => Midway(r, d)
        /\ deal[d] # Nothing /\ request[r].pc \notin {"propose", "activate"} => AtRest(d)
    BY <1>2, AtWorkOnDeal
  <1>4. ASSUME AtRest(d)', Finish(r)
        PROVE  TermsKept(d)'
    <2>1. request'[r] = Idle
      BY <1>3, <1>4, SlotEnds
    <2>2. QED
      BY <1>1, <1>4, <2>1, TermsKeptOn
  <1>5. ASSUME NEW pc \in {"propose", "activate"}, Midway(r, d)', request'[r].pc = pc
        PROVE  TermsKept(d)'
    <2>1. request'[r] # Idle
      BY <1>5 DEF Idle
    <2>2. QED
      BY <1>1, <1>5, <2>1, TermsKeptOn
  <1>6. CASE \E u \in Users, p \in Proposals : DealCreate(r, u, p)
    BY <1>3, <1>4, <1>6, DealCreateTerms DEF DealCreate
  <1>7. request[r].pc \in OnDealPcs => deal[d] # Nothing
    BY <1>3 DEF DealsTypeInv, Placed
  <1>8. CASE CloseDeal(r)
    BY <1>3, <1>4, <1>7, <1>8, CloseDealTerms DEF CloseDeal, At, OnDealPcs
  <1>9. CASE Supersede(r)
    BY <1>3, <1>5, <1>7, <1>9, SupersedeTerms DEF Supersede, At, OnDealPcs
  <1>10. CASE \E p \in Proposals : Propose(r, p)
    BY <1>3, <1>4, <1>7, <1>10, ProposeTerms DEF Propose, At, OnDealPcs
  <1>11. CASE AcceptProposal(r) \/ Reject(r)
    BY <1>3, <1>4, <1>5, <1>7, <1>11, AnswerTerms DEF AcceptProposal, Reject, At, OnDealPcs
  <1>12. CASE Activate(r)
    BY <1>3, <1>4, <1>7, <1>12, ActivateTerms DEF Activate, At, OnDealPcs
  <1>13. CASE \E t \in Tasks : TaskCreate(r, t)
    <2>1. AtRest(d) /\ UNCHANGED <<deal, proposal>> /\ Finish(r)
      BY <1>3, <1>7, <1>13 DEF TaskCreate, At, OnDealPcs
    <2>2. AtRest(d)'
      BY <2>1 DEF AtRest, Pending, Won, Of
    <2>3. QED
      BY <1>4, <2>1, <2>2
  <1>14. CASE DealRefused(r)
    BY <1>3, <1>14 DEF DealRefused, DealRead, rows
  <1>15. QED
    BY <1>1, <1>3, <1>6, <1>8, <1>9, <1>10, <1>11, <1>12, <1>13, <1>14 DEF Proceeds, BriefWrite, ApplyRefused,
       DecideWrite, Tell, ApplyCreate, At, OnDealPcs

LEMMA TermsStep == DealsTypeInv /\ ReadInv /\ TermsInv /\ [Next]_vars => TermsInv'
  <1>1. ASSUME DealsTypeInv, ReadInv, TermsInv, Next, NEW d \in Applications
        PROVE  TermsKept(d)'
    <2>1. CASE \A r \in On(<<"deal", d>>) : ~Proceeds(r)
      BY <1>1, <2>1, TermsKeptBeside
    <2>2. ASSUME NEW r \in On(<<"deal", d>>), Proceeds(r)
          PROVE  TermsKept(d)'
      <3>1. r \in Requests /\ request[r].row = <<"deal", d>>
        BY <2>2 DEF On
      <3>2. CASE Steady(<<"deal", d>>)' /\ deal'[d] # Nothing
        BY <1>1, <2>2, <3>1, <3>2, TermsKeptByWrite
      <3>3. QED
        BY <3>2 DEF TermsKept
    <2>3. QED
      BY <2>1, <2>2
  <1>2. ASSUME DealsTypeInv, TermsInv, UNCHANGED vars
        PROVE  TermsInv'
    BY <1>2 DEF TermsInv, TermsKept, Steady, On, Midway, AtRest, Pending, Won, Of, At, vars, rows, history
  <1>3. QED
    BY <1>1, <1>2 DEF TermsInv

LEMMA TermsInit == Init => TermsInv
  BY DEF Init, TermsInv, TermsKept

LEMMA TermsHold == Spec => []TermsInv
  BY TermsInit, TermsStep, DealsTyped, ReadHolds, PTL DEF Spec

(* The terms of an undisturbed deal are those of its one accepted proposal,*)
(* which another participant took than made it.                            *)
THEOREM TermsAlwaysAgreed == Spec => []TermsAgreed
  <1>1. ASSUME DealsTypeInv, ReadInv, TermsInv
        PROVE  TermsAgreed
    <2> SUFFICES ASSUME NEW d \in Applications, deal[d] # Nothing
                 PROVE  /\ application[d].status = "ACCEPTED" \/ <<"application", d>> \in crossed
                        /\ Undisturbed(<<"deal", d>>) =>
                             /\ deal[d].status = "NEGOTIATING" => (Cardinality(Pending(d)) <= 1 /\ Won(d) = {})
                             /\ deal[d].status \in {"ACTIVE", "COMPLETED"} =>
                                  (Pending(d) = {} /\ Won(d) = {deal[d].terms}
                                   /\ \A p \in Won(d) : proposal[p].by \notin proposal[p].agreed)
      BY DEF TermsAgreed, Pending, Won
    <2>1. application[d].status = "ACCEPTED" \/ <<"application", d>> \in crossed
      BY <1>1 DEF ReadInv
    <2>2. Undisturbed(<<"deal", d>>) => AtRest(d)
      BY <1>1 DEF TermsInv, TermsKept, Undisturbed, Steady
    <2>3. ASSUME AtRest(d), deal[d].status = "NEGOTIATING"
          PROVE  Cardinality(Pending(d)) <= 1
      <3>1. CASE Pending(d) = {}
        BY <3>1, FS_EmptySet
      <3>2. ASSUME NEW p \in Pending(d)
            PROVE  Cardinality(Pending(d)) <= 1
        <4>1. Pending(d) = {p}
          BY <2>3, <3>2 DEF AtRest
        <4>2. Cardinality({p}) = 1
          BY FS_Singleton
        <4>3. QED
          BY <4>1, <4>2
      <3>3. QED
        BY <3>1, <3>2
    <2>4. \A p \in Won(d) : proposal[p].by \notin proposal[p].agreed
      BY <1>1 DEF DealsTypeInv, Won, Of
    <2>5. QED
      BY <2>1, <2>2, <2>3, <2>4 DEF AtRest
  <1>2. QED
    BY <1>1, DealsTyped, ReadHolds, TermsHold, PTL

---------------------------------------------------------------------------
(* Applications and what is told of them                                   *)
LEMMA ActiveBefore ==
  ASSUME DealsTypeInv, ReadInv, Next, NEW a \in Applications, <<"application", a>> \notin crossed',
         application'[a].status \in Active
  PROVE  \/ application[a].status \in Active /\ application'[a].brief = application[a].brief
         \/ application[a] = Nothing /\ \E r \in Requests : ApplyCreate(r, a)
  <1>1. TypeOK /\ <<"application", a>> \notin crossed
    BY HistoryGrows DEF DealsTypeInv
  <1>2. ASSUME NEW r \in On(<<"application", a>>), At(r, "decide"), application[a].status # "removed"
        PROVE  application[a].status = "PENDING"
    BY <1>1, <1>2 DEF ReadInv, DecisionRead, On, Id
  <1>3. QED
    BY <1>2, WhoTouchesApplications DEF Active

LEMMA ApplyCreateSays ==
  ASSUME DealsTypeInv, NEW r \in Requests, NEW a \in Applications, ApplyCreate(r, a)
  PROVE  /\ application'[a].status = "PENDING" /\ application'[a].brief = Id(r) /\ application'[a] # Nothing
         /\ \A c \in Applications : c # a => application'[c] = application[c]
         /\ request[r].row = <<"apply", Id(r)>> /\ request[r] # Idle /\ At(r, "apply") /\ application[a] = Nothing
         /\ request'[r].pc = "tell" /\ request'[r].row = <<"application", a>> /\ request'[r].to = "RECEIVED"
         /\ request'[r] # Idle /\ told' = told
  <1>1. TypeOK
    BY DEF DealsTypeInv
  <1>2. request[r].row = <<"apply", Id(r)>> /\ request[r] # Idle /\ At(r, "apply")
    BY <1>1, SlotTyped DEF ApplyCreate, At
  <1>3. application' = [application EXCEPT ![a] = [status |-> "PENDING", brief |-> Id(r)]]
    BY DEF ApplyCreate
  <1>4. request' = [request EXCEPT ![r] = [pc |-> "tell", row |-> <<"application", a>>, to |-> "RECEIVED"]]
    BY DEF ApplyCreate
  <1>5. /\ application'[a] = [status |-> "PENDING", brief |-> Id(r)]
        /\ \A c \in Applications : c # a => application'[c] = application[c]
    BY <1>1, <1>3 DEF TypeOK
  <1>6. request'[r] = [pc |-> "tell", row |-> <<"application", a>>, to |-> "RECEIVED"]
    BY <1>1, <1>4 DEF TypeOK
  <1>7. application[a] = Nothing /\ told' = told
    BY DEF ApplyCreate
  <1>8. application'[a].status = "PENDING" /\ application'[a].brief = Id(r) /\ application'[a] # Nothing
    BY <1>5 DEF Nothing
  <1>9. request'[r].pc = "tell" /\ request'[r].row = <<"application", a>> /\ request'[r].to = "RECEIVED"
        /\ request'[r] # Idle
    BY <1>6 DEF Idle
  <1>10. QED
    BY <1>2, <1>5, <1>7, <1>8, <1>9

LEMMA OneActiveApart ==
  ASSUME DealsTypeInv, ReadInv, OneActive, Next, NEW a \in Applications, NEW c \in Applications, a # c,
         application'[a].status \in Active, application'[c].status \in Active,
         application'[a].brief = application'[c].brief,
         <<"application", a>> \notin crossed', <<"application", c>> \notin crossed',
         <<"apply", application'[a].brief>> \notin crossed'
  PROVE  FALSE
  <1>1. /\ <<"application", a>> \notin crossed /\ <<"application", c>> \notin crossed
        /\ <<"apply", application'[a].brief>> \notin crossed
    BY HistoryGrows
  <1>2. ASSUME NEW x \in Applications, NEW y \in Applications, x # y, NEW r \in Requests, ApplyCreate(r, x),
               application'[x].brief = application'[y].brief, application'[y].status \in Active,
               <<"application", y>> \notin crossed', <<"apply", application'[x].brief>> \notin crossed'
        PROVE  FALSE
    <2>1. application'[x].brief = Id(r) /\ application'[y] = application[y]
      BY <1>2, ApplyCreateSays
    <2>2. At(r, "apply") /\ request[r].row = <<"apply", Id(r)>>
      BY <1>2, ApplyCreateSays
    <2>3. y \in ApplicationsTo(Id(r))
      <3>1. application[y].status \in Active /\ application[y].brief = Id(r)
        BY <1>2, <2>1
      <3>2. application[y] # Nothing
        BY <3>1 DEF Nothing, Active
      <3>3. QED
        BY <3>1, <3>2 DEF ApplicationsTo
    <2>4. request[r].row \notin crossed /\ <<"application", y>> \notin crossed
      BY <1>2, <2>1, <2>2, HistoryGrows
    <2>5. QED
      BY <1>2, <2>1, <2>2, <2>3, <2>4 DEF OneActive
  <1>3. CASE \E r \in Requests : ApplyCreate(r, a)
    BY <1>2, <1>3
  <1>4. CASE \E r \in Requests : ApplyCreate(r, c)
    BY <1>2, <1>4
  <1>5. CASE /\ application[a].status \in Active /\ application'[a].brief = application[a].brief
             /\ application[c].status \in Active /\ application'[c].brief = application[c].brief
    <2>1. {application[a].status, application[c].status} \subseteq Active
          /\ application[a].brief = application[c].brief
      BY <1>5
    <2>2. crossed \cap {<<"apply", application[a].brief>>, <<"application", a>>, <<"application", c>>} # {}
      BY <2>1 DEF OneActive
    <2>3. QED
      BY <1>1, <1>5, <2>2
  <1>6. \/ application[a].status \in Active /\ application'[a].brief = application[a].brief
        \/ \E r \in Requests : ApplyCreate(r, a)
    BY ActiveBefore
  <1>7. \/ application[c].status \in Active /\ application'[c].brief = application[c].brief
        \/ \E r \in Requests : ApplyCreate(r, c)
    BY ActiveBefore
  <1>8. QED
    BY <1>3, <1>4, <1>5, <1>6, <1>7

LEMMA WriteLeavesApply ==
  ASSUME DealsTypeInv, NEW r \in Requests, Proceeds(r)
  PROVE  ~At(r, "apply")'
  <1>1. TypeOK
    BY DEF DealsTypeInv
  <1>2. CASE Finish(r) \/ Die(r)
    BY <1>1, <1>2, SlotEnds DEF At, Idle
  <1>3. CASE \E a \in Applications : ApplyCreate(r, a)
    BY <1>3, ApplyCreateSays DEF At
  <1>4. ASSUME NEW pc \in {"tell", "propose", "activate"}, Goto(r, pc),
               \/ At(r, "decide") /\ pc = "tell"
               \/ At(r, "supersede") /\ pc = "propose"
               \/ At(r, "accept") /\ pc = "activate"
        PROVE  ~At(r, "apply")'
    BY <1>1, <1>4, SlotGoes DEF At
  <1>5. QED
    BY <1>2, <1>3, <1>4 DEF Proceeds, BriefWrite, ApplyRefused, Tell, DealRefused, CloseDeal, Activate,
       Reject, DealCreate, Propose, TaskCreate, DecideWrite, Supersede, AcceptProposal

LEMMA OneActiveAhead ==
  ASSUME DealsTypeInv, ReadInv, OneActive, Next, NEW s \in Requests, At(s, "apply")', request'[s].row \notin crossed',
         NEW a \in Applications, application'[a] # Nothing, application'[a].brief = Id(s)',
         application'[a].status \in Active
  PROVE  <<"application", a>> \in crossed'
  <1> SUFFICES ASSUME <<"application", a>> \notin crossed'
               PROVE  FALSE
    OBVIOUS
  <1>1. <<"application", a>> \notin crossed /\ TypeOK /\ request'[s].row \notin crossed
    BY HistoryGrows DEF DealsTypeInv
  <1>2. CASE Starts(s)
    <2>1. PICK h \in Handlers : HasRead(h) /\ Start(s, h)
      BY <1>2 DEF Starts
    <2>2. request'[s] = h /\ application' = application
      BY <1>1, <2>1, SlotStarts DEF rows
    <2>3. h.pc = "apply" /\ a \in ApplicationsTo(h.row[2])
      BY <2>2 DEF At, Id, ApplicationsTo
    <2>4. QED
      BY <2>1, <2>2, <2>3 DEF HasRead
  <1>3. CASE request'[s] = request[s] /\ ~Proceeds(s)
    <2>1. At(s, "apply") /\ Id(s)' = Id(s) /\ request[s].row \notin crossed /\ request[s] # Idle
          /\ request[s].row = <<"apply", Id(s)>>
      BY <1>1, <1>3, SlotTyped DEF At, Id
    <2>2. CASE application[a].status \in Active /\ application'[a].brief = application[a].brief
      <3>1. a \in ApplicationsTo(Id(s))
        BY <2>1, <2>2 DEF ApplicationsTo, Nothing, Active
      <3>2. QED
        BY <1>1, <2>1, <2>2, <3>1 DEF OneActive
    <2>3. ASSUME NEW r \in Requests, ApplyCreate(r, a)
          PROVE  FALSE
      <3>1. application'[a].brief = Id(r) /\ request[r].row = <<"apply", Id(r)>> /\ request[r] # Idle
        BY <2>3, ApplyCreateSays
      <3>2. request[r].row = request[s].row
        BY <2>1, <3>1
      <3>3. r = s
        BY <2>1, <3>1, <3>2, SameHandler DEF ReadInv
      <3>4. QED
        BY <1>3, <2>3, <3>3 DEF Proceeds
    <2>4. QED
      BY <2>2, <2>3, ActiveBefore
  <1>4. QED
    BY <1>2, <1>3, SlotCases, WriteLeavesApply

LEMMA OneActiveStep ==
  ASSUME DealsTypeInv, ReadInv, OneActive, Next
  PROVE  OneActive'
  <1>1. ASSUME NEW a \in Applications, NEW c \in Applications, a # c,
               {application'[a].status, application'[c].status} \subseteq Active,
               application'[a].brief = application'[c].brief
        PROVE  crossed' \cap {<<"apply", application'[a].brief>>, <<"application", a>>, <<"application", c>>} # {}
    BY <1>1, OneActiveApart
  <1>2. ASSUME NEW s \in Requests, At(s, "apply")', request'[s].row \notin crossed', NEW a \in ApplicationsTo(Id(s))',
               application'[a].status \in Active
        PROVE  <<"application", a>> \in crossed'
    BY <1>2, OneActiveAhead DEF ApplicationsTo
  <1>3. QED
    BY <1>1, <1>2 DEF OneActive

\* Who is told of an application: its last handler tells.
LEMMA WhoTells ==
  ASSUME DealsTypeInv, Next, NEW a \in Applications
  PROVE  \/ Heard(a)' = Heard(a)
         \/ \E r \in On(<<"application", a>>) : /\ Tell(r) /\ Proceeds(r)
                                                /\ Heard(a)' = Heard(a) \cup {<<request[r].to, a>>}
  <1>1. TypeOK
    BY DEF DealsTypeInv
  <1>2. ASSUME NEW r \in Requests, Tell(r)
        PROVE  \/ Heard(a)' = Heard(a)
               \/ r \in On(<<"application", a>>) /\ Heard(a)' = Heard(a) \cup {<<request[r].to, a>>}
    <2>1. request[r].row = <<"application", Id(r)>> /\ request[r] # Idle
      BY <1>1, <1>2, SlotTyped DEF Tell, At
    <2>2. told' = told \cup {<<request[r].to, Id(r)>>}
      BY <1>2 DEF Tell
    <2>3. CASE Id(r) = a
      BY <2>1, <2>2, <2>3 DEF On, Heard
    <2>4. CASE Id(r) # a
      BY <2>2, <2>4 DEF Heard
    <2>5. QED
      BY <2>3, <2>4
  <1>3. ASSUME NEW r \in Requests, Proceeds(r), ~Tell(r)
        PROVE  told' = told
    BY <1>3 DEF Proceeds, Die, BriefWrite, ApplyRefused, DecideWrite, DealRefused, CloseDeal, Supersede, AcceptProposal,
       Activate, Reject, DealCreate, Propose, TaskCreate, ApplyCreate, rows
  <1>4. ASSUME NEW r \in Requests, Starts(r)
        PROVE  told' = told
    BY <1>1, <1>4, StartMoves DEF rows
  <1>5. ASSUME \/ \E b \in Briefs : CreateBrief(b) \/ RemoveBrief(b)
               \/ \E t \in Tasks : CompleteTask(t) \/ RemoveTask(t)
        PROVE  told' = told
    BY <1>5 DEF CreateBrief, RemoveBrief, CompleteTask, RemoveTask
  <1>6. told' = told => Heard(a)' = Heard(a)
    BY DEF Heard
  <1>7. QED
    BY <1>1, <1>2, <1>3, <1>4, <1>5, <1>6, StepsOfNext DEF Proceeds

\* Nobody who is at work on the application does a step; one may start.
LEMMA HeardKeptBeside ==
  ASSUME DealsTypeInv, ReadInv, NEW a \in Applications, HeardKept(a), Next, application[a] # Nothing,
         \A r \in On(<<"application", a>>) : ~Proceeds(r)
  PROVE  HeardKept(a)'
  <1> SUFFICES ASSUME Steady(<<"application", a>>)', application'[a].status # "removed"
               PROVE  HeardKept(a)'
    BY DEF HeardKept
  <1>1. Steady(<<"application", a>>) /\ TypeOK
    BY HistoryGrows DEF Steady, DealsTypeInv
  <1>2. application'[a] = application[a]
    BY WhoTouchesApplications DEF Proceeds
  <1>3. Heard(a)' = Heard(a)
    BY WhoTells
  <1>4. ASSUME NEW r \in Telling(a)
        PROVE  r \in Telling(a)' /\ request'[r] = request[r]
    <2>1. r \in Requests /\ request[r] # Idle /\ r \in On(<<"application", a>>) /\ At(r, "tell")
      BY DEF On, Telling
    <2>2. request'[r] = request[r]
      BY <2>1, SlotCases DEF Starts, Start
    <2>3. QED
      BY <2>1, <2>2 DEF Telling, On, At
  <1>5. ASSUME NEW r \in Telling(a)'
        PROVE  r \in Telling(a)
    <2>1. r \in Requests /\ request'[r] # Idle /\ request'[r].row = <<"application", a>> /\ request'[r].pc = "tell"
      BY DEF On, Telling, At
    <2>2. ~Starts(r)
      <3>1. ASSUME NEW h \in Handlers, HasRead(h), Start(r, h)
            PROVE  FALSE
        BY <1>1, <2>1, <3>1, SlotStarts DEF HasRead
      <3>2. QED
        BY <3>1 DEF Starts
    <2>3. ~Proceeds(r)
      <3>1. ASSUME Proceeds(r)
            PROVE  FALSE
        <4>1. request[r].row # <<"application", a>>
          BY <2>1, <3>1, WriteMoves DEF On
        <4>2. PICK c \in Applications : ApplyCreate(r, c) /\ request'[r].row = <<"application", c>>
          BY <2>1, <3>1, <4>1, WriteRow
        <4>3. c = a
          BY <2>1, <4>2
        <4>4. QED
          BY <4>2, <4>3 DEF ApplyCreate
      <3>2. QED
        BY <3>1
    <2>4. request'[r] = request[r]
      BY <2>1, <2>2, <2>3, SlotCases
    <2>5. QED
      BY <2>1, <2>4 DEF Telling, On, At
  <1>6. Telling(a)' = Telling(a) /\ \A r \in Telling(a) : request'[r] = request[r]
    BY <1>4, <1>5
  <1>7. QED
    BY <1>1, <1>2, <1>3, <1>6 DEF HeardKept

\* The application is made.
LEMMA HeardKeptNew ==
  ASSUME DealsTypeInv, NEW a \in Applications, NEW r \in Requests, ApplyCreate(r, a)
  PROVE  HeardKept(a)'
  <1>1. TypeOK /\ application[a] = Nothing
    BY DEF DealsTypeInv, ApplyCreate
  <1>2. Heard(a)' = {}
    <2>1. Heard(a) = {}
      BY <1>1 DEF Heard, DealsTypeInv
    <2>2. QED
      BY <2>1, ApplyCreateSays DEF Heard
  <1>3. ASSUME NEW s \in Telling(a)'
        PROVE  s = r
    <2>1. s \in Requests /\ request'[s] # Idle /\ request'[s].row = <<"application", a>> /\ request'[s].pc = "tell"
      BY DEF On, Telling, At
    <2>2. CASE s # r
      <3>1. request'[s] = request[s]
        <4>1. Proceeds(r)
          BY DEF Proceeds
        <4>2. QED
          BY <2>1, <2>2, <4>1, WriteMoves DEF SlotMove
      <3>2. At(s, "tell") /\ Id(s) = a
        BY <2>1, <3>1 DEF At, Id
      <3>3. QED
        BY <1>1, <2>1, <3>2 DEF DealsTypeInv, Placed, At
    <2>3. QED
      BY <2>2
  <1>4. /\ request'[r].to = "RECEIVED" /\ r \in Telling(a)'
        /\ application'[a].status = "PENDING"
    BY ApplyCreateSays DEF Telling, On, At
  <1>5. QED
    BY <1>2, <1>3, <1>4 DEF HeardKept, Decided

\* The one handler that is at work on the application does a step.
LEMMA HeardKeptByWrite ==
  ASSUME DealsTypeInv, ReadInv, NEW a \in Applications, HeardKept(a), Next, NEW r \in Requests, Proceeds(r),
         request[r].row = <<"application", a>>, Steady(<<"application", a>>)', application'[a].status # "removed"
  PROVE  HeardKept(a)'
  <1>1. /\ TypeOK /\ Steady(<<"application", a>>) /\ request[r] # Idle /\ Id(r) = a /\ request[r].pc \in {"decide", "tell"}
        /\ ~Die(r)
    <2>1. TypeOK /\ Steady(<<"application", a>>) /\ request[r] # Idle /\ Id(r) = a
      BY HistoryGrows, WriteMoves DEF DealsTypeInv, Steady, Id
    <2>2. request[r].pc \in {"decide", "tell"}
      BY <2>1, SlotTyped DEF At
    <2>3. ~Die(r)
      BY DEF Steady, Die
    <2>4. QED
      BY <2>1, <2>2, <2>3
  <1>2. application[a] # Nothing /\ application[a] \in Application
    BY <1>1 DEF DealsTypeInv, Placed, TypeOK
  <1>3. \A s \in On(<<"application", a>>) : s = r
    BY <1>1, SameHandler DEF On, ReadInv, Steady
  <1>4. \A s \in On(<<"application", a>>)' : s = r
    <2>1. ASSUME NEW s \in On(<<"application", a>>)', s # r
          PROVE  FALSE
      <3>1. request'[s] = request[s] /\ s \in Requests
        BY <2>1, WriteMoves DEF SlotMove, On
      <3>2. s \in On(<<"application", a>>)
        BY <2>1, <3>1 DEF On
      <3>3. QED
        BY <1>3, <2>1, <3>2
    <2>2. QED
      BY <2>1
  <1>5. CASE DecideWrite(r)
    <2>1. At(r, "decide") /\ told' = told
      BY <1>5 DEF DecideWrite
    <2>2. application[a].status # "removed"
      BY <1>1, <1>5 DEF DecideWrite
    <2>3. application[a].status = "PENDING"
      BY <1>1, <2>1, <2>2 DEF ReadInv, DecisionRead, Steady
    <2>4. Telling(a) = {}
      BY <1>3, <2>1 DEF Telling, At
    <2>5. Heard(a) = {Received(a)} /\ Heard(a)' = Heard(a)
      BY <1>1, <1>2, <2>1, <2>3, <2>4 DEF HeardKept, Heard
    <2>6. Goto(r, "tell") /\ application' = [application EXCEPT ![a].status = request[r].to]
      BY <1>1, <1>5, <2>2 DEF DecideWrite
    <2>7. application'[a].status = request[r].to
      BY <1>1, <1>2, <2>6 DEF TypeOK, Application
    <2>8. request'[r].to = request[r].to /\ request'[r].pc = "tell"
      BY <1>1, <2>1, <2>6, SlotGoes
    <2>9. request[r].to \in Decided
      BY <2>1 DEF DealsTypeInv, Placed
    <2>10. r \in Telling(a)'
      BY <1>1, <2>1, <2>6, <2>8, SlotGoes DEF Telling, On, At
    <2>11. \A s \in Telling(a)' : s = r
      BY <1>4 DEF Telling
    <2>12. application'[a].status # "PENDING" /\ Received(a)' = Received(a)
      BY <2>7, <2>9 DEF Decided, Received
    <2>13. QED
      BY <2>5, <2>7, <2>8, <2>10, <2>11, <2>12 DEF HeardKept
  <1>6. CASE Tell(r)
    <2>1. r \in Telling(a) /\ application' = application /\ Finish(r)
      BY <1>1, <1>6 DEF Telling, On, Tell
    <2>2. Telling(a)' = {}
      <3>1. request'[r] = Idle
        BY <1>1, <2>1, SlotEnds
      <3>2. QED
        BY <1>4, <3>1 DEF Telling, On
    <2>3. Heard(a)' = Heard(a) \cup {<<request[r].to, a>>}
      BY <1>1, <1>6 DEF Tell, Heard
    <2>4. CASE application[a].status = "PENDING"
      <3>1. request[r].to = "RECEIVED" /\ Heard(a) = {}
        BY <1>1, <1>2, <2>1, <2>4 DEF HeardKept
      <3>2. Heard(a)' = {Received(a)}
        BY <2>3, <3>1 DEF Received
      <3>3. QED
        BY <2>1, <2>2, <2>4, <3>2 DEF HeardKept, Decided, Received
    <2>5. CASE application[a].status \in Decided
      <3>1. request[r].to = application[a].status /\ Heard(a) = {Received(a)}
        BY <1>1, <1>2, <2>1, <2>5 DEF HeardKept, Decided
      <3>2. Heard(a)' = {Received(a), <<application[a].status, a>>}
        BY <2>3, <3>1
      <3>3. QED
        BY <2>1, <2>2, <2>5, <3>2 DEF HeardKept, Decided, Received
    <2>6. QED
      BY <1>2, <2>1, <2>4, <2>5 DEF Application, Active, Decided
  <1>7. QED
    BY <1>1, <1>5, <1>6 DEF Proceeds, BriefWrite, ApplyRefused, DealRefused, CloseDeal, Supersede, AcceptProposal,
       Activate, Reject, DealCreate, Propose, TaskCreate, ApplyCreate, At

LEMMA ApplicationsStep == DealsTypeInv /\ ReadInv /\ ApplicationsInv /\ [Next]_vars => ApplicationsInv'
  <1>1. ASSUME DealsTypeInv, ReadInv, ApplicationsInv, Next, NEW a \in Applications
        PROVE  HeardKept(a)'
    <2>1. HeardKept(a)
      BY <1>1 DEF ApplicationsInv
    <2>2. CASE application[a] = Nothing
      <3>1. CASE \E r \in Requests : ApplyCreate(r, a)
        BY <1>1, <3>1, HeardKeptNew
      <3>2. CASE application'[a] = application[a]
        BY <2>2, <3>2 DEF HeardKept
      <3>3. QED
        BY <1>1, <2>2, <3>1, <3>2, WhoTouchesApplications
    <2>3. CASE application[a] # Nothing /\ \A r \in On(<<"application", a>>) : ~Proceeds(r)
      BY <1>1, <2>1, <2>3, HeardKeptBeside
    <2>4. ASSUME NEW r \in On(<<"application", a>>), Proceeds(r), Steady(<<"application", a>>)',
                 application'[a].status # "removed"
          PROVE  HeardKept(a)'
      <3>1. r \in Requests /\ request[r].row = <<"application", a>>
        BY <2>4 DEF On
      <3>2. QED
        BY <1>1, <2>1, <2>4, <3>1, HeardKeptByWrite
    <2>5. ~Steady(<<"application", a>>)' \/ application'[a].status = "removed" => HeardKept(a)'
      BY DEF HeardKept
    <2>6. QED
      BY <2>2, <2>3, <2>4, <2>5
  <1>2. ASSUME ApplicationsInv, UNCHANGED vars
        PROVE  ApplicationsInv'
    <2>1. OneActive'
      BY <1>2 DEF ApplicationsInv, OneActive, ApplicationsTo, At, Id, vars, rows, history
    <2>2. ASSUME NEW a \in Applications
          PROVE  HeardKept(a)'
      <3>1. Heard(a)' = Heard(a) /\ Telling(a)' = Telling(a)
        BY <1>2 DEF Heard, Telling, On, At, vars, rows
      <3>2. HeardKept(a)
        BY <1>2 DEF ApplicationsInv
      <3>3. QED
        BY <1>2, <3>1, <3>2 DEF HeardKept, Steady, Received, vars, rows, history
    <2>3. QED
      BY <2>1, <2>2 DEF ApplicationsInv
  <1>3. QED
    BY <1>1, <1>2, OneActiveStep DEF ApplicationsInv

LEMMA ApplicationsInit == Init => ApplicationsInv
  BY DEF Init, ApplicationsInv, OneActive, HeardKept, At, Idle, Nothing, Active

LEMMA ApplicationsHold == Spec => []ApplicationsInv
  BY ApplicationsInit, ApplicationsStep, DealsTyped, ReadHolds, PTL DEF Spec

(* A creator's active applications to a brief and what they were told.     *)
THEOREM ApplicationsAlwaysSound == Spec => []ApplicationsSound
  <1>1. ASSUME ApplicationsInv
        PROVE  ApplicationsSound
    <2>1. ASSUME NEW a \in Applications, application[a].status \in Decided, Undisturbed(<<"application", a>>)
          PROVE  Heard(a) = {Received(a), <<application[a].status, a>>}
      <3>1. HeardKept(a) /\ Telling(a) = {} /\ Steady(<<"application", a>>)
        BY <1>1, <2>1 DEF ApplicationsInv, Telling, Undisturbed, Steady
      <3>2. application[a] # Nothing /\ application[a].status # "removed"
        BY <2>1 DEF Decided, Nothing
      <3>3. QED
        BY <2>1, <3>1, <3>2 DEF HeardKept
    <2>2. OneActive
      BY <1>1 DEF ApplicationsInv
    <2>3. QED
      BY <2>1, <2>2 DEF ApplicationsSound, OneActive, Heard, Received
  <1>2. QED
    BY <1>1, ApplicationsHold, PTL

(* The types of the rows, and the foreign keys, hold.                      *)
THEOREM DealsTypes == Spec => []TypeOK
  BY DealsTyped, PTL DEF DealsTypeInv

---------------------------------------------------------------------------
(* CONTRACTS                                                               *)
---------------------------------------------------------------------------
ThisVersionPcs == {"create.pdf", "create.log", "version.pdf", "version.reset", "version.log",
                   "sign.create", "sign.count", "sign.partial", "sign.execute", "sign.log", "sign.done"}
SignPcs        == {"sign.latest", "sign.create", "sign.count", "sign.partial", "sign.execute", "sign.log",
                   "sign.done"}

(* Where a handler may be: past its first step there is a contract, the    *)
(* version it works on exists, or is the next one, and a party signs.      *)
ClerkPlaced(r) ==
  /\ clerk[r].pc \notin {"idle", "create"} => status # "none"
  /\ clerk[r].pc \in ThisVersionPcs => Version(r) <= versions
  /\ clerk[r].pc = "version.create" => Version(r) <= versions + 1
  /\ clerk[r].pc \in SignPcs => clerk[r].party \in Parties
  /\ clerk[r].pc = "sign.execute" => BothSigned(Version(r))

TypeInv == /\ ContractTypeOK
           /\ \A r \in Clerks : ClerkPlaced(r)
           /\ status = "EXECUTED" => \E v \in Versions : BothSigned(v)

(* As long as no two handlers overlapped, there is one at a time, and the  *)
(* status is still the one it read.                                        *)
StatusRead(r) ==
  /\ Doing(r, "create") => status = "none"
  /\ clerk[r].pc \in {"create.pdf", "create.log", "version.latest", "version.create", "version.pdf",
                        "version.reset", "void"} => status \in NonTerminal
  /\ Doing(r, "send") => status = "DRAFT"
  /\ clerk[r].pc \in {"sign.latest", "sign.create", "sign.count", "sign.partial", "sign.execute"}
       => status \in Signable

SoloInv == ~mixed => /\ \A r, s \in Busy : r = s
                     /\ \A r \in Clerks : StatusRead(r)

(* The rows when no handler is at work, nothing overlapped and none died,  *)
(* and how they differ from that while the one handler is at work.         *)
Signers   == {p \in Parties : <<versions, p>> \in signed}
Told      == /\ status = "EXECUTED" => Signers = Parties
             /\ status = "PARTIALLY_SIGNED" => \E p \in Parties : Signers = {p}
             /\ status \in {"none", "DRAFT", "AWAITING_SIGNATURE"} => Signers = {}
Sealed    == <<"FULLY_EXECUTED", versions>> \in log
Logged(n) == \A v \in 1..n : <<"VERSION_CREATED", v>> \in log
Filed     == pdf = 1..versions /\ Logged(versions)
Rest      == Told /\ Filed /\ (Sealed <=> status = "EXECUTED")
Unsigned(r)  == Version(r) = versions /\ Signers = {} /\ ~Sealed /\ Logged(versions - 1)

Working(r) ==
  /\ clerk[r].pc \in {"create", "version.latest", "version.create", "send", "send.log", "void", "void.log",
                        "sign.latest", "sign.create", "sign.log"} => Rest
  /\ clerk[r].pc \in {"create.pdf", "version.pdf"} => Unsigned(r) /\ pdf = 1..(versions - 1)
  /\ clerk[r].pc \in {"create.log", "version.reset", "version.log"} => Unsigned(r) /\ pdf = 1..versions
  /\ clerk[r].pc \in {"create.pdf", "create.log", "version.log"} => status = "DRAFT"
  /\ Doing(r, "version.create") => Version(r) = versions + 1
  /\ clerk[r].pc \in {"sign.create", "sign.count", "sign.partial", "sign.execute", "sign.done"}
       => Version(r) = versions
  /\ Doing(r, "sign.create") => clerk[r].party \notin Signers
  /\ clerk[r].pc \in {"sign.count", "sign.partial", "sign.execute"} => Filed /\ ~Sealed
  /\ Doing(r, "sign.count") => clerk[r].party \in Signers
  /\ Doing(r, "sign.partial") => \E p \in Parties : Signers = {p}
  /\ clerk[r].pc \in {"sign.execute", "sign.done"} => Signers = Parties
  /\ Doing(r, "sign.done") => Filed /\ status = "EXECUTED"

TidyInv == ~mixed /\ deaths = 0 => /\ Busy = {} => Rest
                                   /\ \A r \in Clerks : Working(r)

---------------------------------------------------------------------------
(* A step of handler r that leaves it as q.                                *)
LEMMA Slots ==
  ASSUME ContractTypeOK, NEW r \in Clerks, NEW q, clerk' = [clerk EXCEPT ![r] = q]
  PROVE  /\ clerk'[r] = q /\ \A s \in Clerks \ {r} : clerk'[s] = clerk[s]
         /\ Busy' = IF q = Free THEN Busy \ {r} ELSE Busy \cup {r}
  BY DEF ContractTypeOK, Busy

VersionPcs == ThisVersionPcs \cup {"version.create"}
Plain(r, pc)        == [pc |-> pc, party |-> clerk[r].party]
Versioned(r, pc, v) == [pc |-> pc, party |-> clerk[r].party, version |-> v]

(* The record of a handler, told by its pc.                                *)
LEMMA Shape ==
  ASSUME ContractTypeOK, NEW r \in Clerks
  PROVE  /\ clerk[r] \in {Free} \cup AtWork
         /\ clerk[r].pc # "idle" => clerk[r] # Free /\ clerk[r].party \in Parties \cup {"either"}
         /\ clerk[r] # Free => clerk[r].pc # "idle"
         /\ clerk[r].pc \in VersionPcs => /\ Version(r) \in Versions
                                          /\ clerk[r] = Versioned(r, clerk[r].pc, Version(r))
         /\ clerk[r].pc \in {"send", "void"} => clerk[r] = Plain(r, clerk[r].pc)
  BY DEF ContractTypeOK, Free, AtWork, VersionPcs, ThisVersionPcs, Version, Versioned, Plain

LEMMA GotoShape ==
  ASSUME ContractTypeOK, NEW r \in Clerks, NEW pc, Proceed(r, pc)
  PROVE  /\ clerk[r].pc \in VersionPcs /\ pc \in VersionPcs
              => Versioned(r, pc, Version(r)) \in AtWork
                 /\ clerk' = [clerk EXCEPT ![r] = Versioned(r, pc, Version(r))]
         /\ clerk[r].pc \in {"send", "void"} /\ pc \in {"send.log", "void.log"}
              => Plain(r, pc) \in AtWork
                 /\ clerk' = [clerk EXCEPT ![r] = Plain(r, pc)]
  <1>1. clerk' = [clerk EXCEPT ![r] = [clerk[r] EXCEPT !.pc = pc]]
    BY DEF Proceed, ContractTypeOK
  <1>2. CASE clerk[r].pc \in VersionPcs /\ pc \in VersionPcs
    <2>1. /\ Version(r) \in Versions /\ clerk[r].party \in Parties \cup {"either"}
          /\ clerk[r] = Versioned(r, clerk[r].pc, Version(r))
      BY <1>2, Shape DEF VersionPcs, ThisVersionPcs
    <2>2. [clerk[r] EXCEPT !.pc = pc] = Versioned(r, pc, Version(r))
      BY <2>1 DEF Versioned
    <2>3. Versioned(r, pc, Version(r)) \in AtWork
      BY <1>2, <2>1 DEF Versioned, AtWork, VersionPcs, ThisVersionPcs
    <2>4. QED
      BY <1>1, <1>2, <2>2, <2>3 DEF VersionPcs, ThisVersionPcs
  <1>3. CASE clerk[r].pc \in {"send", "void"} /\ pc \in {"send.log", "void.log"}
    <2>1. clerk[r].party \in Parties \cup {"either"} /\ clerk[r] = Plain(r, clerk[r].pc)
      BY <1>3, Shape
    <2>2. [clerk[r] EXCEPT !.pc = pc] = Plain(r, pc)
      BY <2>1 DEF Plain
    <2>3. Plain(r, pc) \in AtWork
      BY <1>3, <2>1 DEF Plain, AtWork
    <2>4. QED
      BY <1>1, <1>3, <2>2, <2>3 DEF VersionPcs, ThisVersionPcs
  <1>4. QED
    BY <1>2, <1>3

---------------------------------------------------------------------------
(* What a step of handler r, which goes on as q, may do to the rows.       *)
Proper(r, q) ==
  /\ q \in {Free} \cup AtWork /\ clerk' = [clerk EXCEPT ![r] = q]
  /\ status' \in Statuses \cup {"none"} /\ (status # "none" => status' # "none")
  /\ versions <= versions' /\ versions' \in 0..MaxVersions
  /\ (status' = "none") = (versions' = 0)
  /\ pdf' \subseteq 1..versions'
  /\ signed \subseteq signed' /\ signed' \subseteq (1..versions') \X Parties
  /\ log' \subseteq EventTypes \X (0..versions')
  /\ mixed' \in BOOLEAN /\ deaths' \in 0..MaxLosses
  /\ status' = "EXECUTED" => \E v \in Versions : BothSigned(v)
  /\ q.pc \notin {"idle", "create"} => status' # "none"
  /\ q.pc \in ThisVersionPcs => q.version <= versions'
  /\ q.pc = "version.create" => q.version <= versions' + 1
  /\ q.pc \in SignPcs => q.party \in Parties
  /\ q.pc = "sign.execute" => \A p \in Parties : <<q.version, p>> \in signed'

LEMMA ProperStep ==
  ASSUME TypeInv, NEW r \in Clerks, NEW q, Proper(r, q)
  PROVE  TypeInv'
  <1>1. clerk' \in [Clerks -> {Free} \cup AtWork]
    BY DEF TypeInv, ContractTypeOK, Proper
  <1>2. ContractTypeOK'
    BY <1>1 DEF ContractTypeOK, Proper
  <1>3. clerk'[r] = q /\ \A s \in Clerks \ {r} : clerk'[s] = clerk[s]
    BY Slots DEF TypeInv, Proper
  <1>4. ASSUME NEW s \in Clerks PROVE ClerkPlaced(s)'
    <2>1. CASE s = r
      BY <1>3, <2>1 DEF Proper, ClerkPlaced, Version, BothSigned
    <2>2. CASE s # r
      <3>1. /\ clerk'[s] = clerk[s] /\ versions \in Nat /\ versions' \in Nat /\ versions <= versions'
            /\ status # "none" => status' # "none"
            /\ signed \subseteq signed'
        BY ContractConstants, <1>2, <1>3, <2>2 DEF Proper, ContractTypeOK, TypeInv
      <3>2. clerk[s].pc \in VersionPcs => Version(s) \in Nat
        BY Shape DEF TypeInv, Versions
      <3>3. ClerkPlaced(s)
        BY DEF TypeInv
      <3>4. QED
        BY <3>1, <3>2, <3>3 DEF ClerkPlaced, Version, BothSigned, VersionPcs
    <2>3. QED
      BY <2>1, <2>2
  <1>5. (status = "EXECUTED" => \E v \in Versions : BothSigned(v))'
    BY DEF Proper, BothSigned
  <1>6. QED
    BY ContractConstants, <1>2, <1>4, <1>5 DEF TypeInv

(* The rows stay as they are, or only one of them changes.                 *)
LEMMA RowsKept ==
  ASSUME TypeInv
  PROVE  /\ status \in Statuses \cup {"none"} /\ versions \in 0..MaxVersions /\ versions \in Nat
         /\ (status = "none") = (versions = 0)
         /\ pdf \subseteq 1..versions /\ signed \subseteq (1..versions) \X Parties
         /\ log \subseteq EventTypes \X (0..versions)
         /\ mixed \in BOOLEAN /\ deaths \in 0..MaxLosses
         /\ status = "EXECUTED" => \E v \in Versions : BothSigned(v)
  BY ContractConstants DEF TypeInv, ContractTypeOK

(* A handler that changes no row and goes on as q, or is done.             *)
LEMMA QuietProper ==
  ASSUME TypeInv, NEW r \in Clerks, NEW q \in {Free} \cup AtWork,
         clerk' = [clerk EXCEPT ![r] = q], UNCHANGED contractRows, mixed' \in BOOLEAN, deaths' \in 0..MaxLosses,
         q.pc \notin {"idle", "create"} => status # "none",
         q.pc \in ThisVersionPcs => q.version <= versions,
         q.pc = "version.create" => q.version <= versions + 1,
         q.pc \in SignPcs => q.party \in Parties,
         q.pc = "sign.execute" => BothSigned(q.version)
  PROVE  Proper(r, q)
  BY RowsKept DEF Proper, contractRows, BothSigned

LEMMA IdleShape ==
  /\ Free.pc = "idle"
  /\ Free.pc \notin VersionPcs /\ Free.pc \notin ThisVersionPcs /\ Free.pc \notin SignPcs
  BY DEF Free, VersionPcs, ThisVersionPcs, SignPcs

LEMMA DoneProper ==
  ASSUME TypeInv, NEW r \in Clerks, clerk' = [clerk EXCEPT ![r] = Free], UNCHANGED contractRows,
         mixed' \in BOOLEAN, deaths' \in 0..MaxLosses
  PROVE  Proper(r, Free)
  BY QuietProper, IdleShape

LEMMA StartProper ==
  ASSUME TypeInv, NEW r \in Clerks,
         NEW pc \in {"create", "version.latest", "send", "void", "sign.latest"},
         NEW party \in Parties \cup {"either"}, TakeUp(r, pc, party),
         pc # "create" => status # "none",
         pc = "sign.latest" => party \in Parties
  PROVE  Proper(r, [pc |-> pc, party |-> party])
  <1>1. [pc |-> pc, party |-> party] \in AtWork
    BY DEF AtWork
  <1>2. mixed' \in BOOLEAN /\ deaths' \in 0..MaxLosses
    BY RowsKept DEF TakeUp
  <1>3. pc \notin ThisVersionPcs /\ pc # "version.create" /\ pc # "sign.execute"
    BY DEF ThisVersionPcs
  <1>4. QED
    BY <1>1, <1>2, <1>3, QuietProper DEF TakeUp, SignPcs

LEMMA BeginProper ==
  ASSUME TypeInv, NEW r \in Clerks,
         \/ CreateBegin(r) \/ VersionBegin(r) \/ SendBegin(r) \/ VoidBegin(r)
         \/ \E p \in Parties : SignBegin(r, p)
  PROVE  \E q : Proper(r, q)
  BY StartProper DEF CreateBegin, VersionBegin, SendBegin, VoidBegin, SignBegin, NonTerminal, Signable

(* A handler records an event of a version that exists.                    *)
LEMMA RecordProper ==
  ASSUME TypeInv, NEW r \in Clerks, NEW type \in EventTypes, NEW v \in 0..versions,
         Record(type, v), NEW q \in {Free} \cup AtWork,
         clerk' = [clerk EXCEPT ![r] = q], UNCHANGED contractHistory,
         q = Free \/ (q = Versioned(r, "version.log", Version(r)) /\ clerk[r].pc \in ThisVersionPcs)
  PROVE  Proper(r, q)
  <1>1. log' \subseteq EventTypes \X (0..versions')
    BY RowsKept DEF Record
  <1>2. /\ q.pc \notin {"idle", "create"} => status # "none"
        /\ q.pc \in ThisVersionPcs => q.version <= versions
        /\ q.pc # "version.create" /\ q.pc \notin SignPcs /\ q.pc # "sign.execute"
    BY IdleShape DEF Versioned, TypeInv, ClerkPlaced, ThisVersionPcs, SignPcs
  <1>3. QED
    BY <1>1, <1>2, RowsKept DEF Record, Proper, contractHistory, BothSigned

(* A handler of a contract that is there writes its status.                *)
LEMMA WriteProper ==
  ASSUME TypeInv, NEW r \in Clerks, NEW s \in Statuses, NEW pc, Write(r, s, pc),
         \/ clerk[r].pc \in ThisVersionPcs /\ pc \in ThisVersionPcs \ {"sign.execute"}
              /\ (pc \in SignPcs => clerk[r].pc \in SignPcs)
         \/ clerk[r].pc \in {"send", "void"} /\ pc \in {"send.log", "void.log"},
         s = "EXECUTED" => \E v \in Versions : BothSigned(v)
  PROVE  \E q : Proper(r, q)
  <1>1. ClerkPlaced(r) /\ status # "none"
    BY DEF TypeInv, ClerkPlaced, ThisVersionPcs
  <1>2. /\ s # "none" /\ status' = s /\ UNCHANGED <<versions, pdf, signed, log, mixed, deaths>>
        /\ versions <= versions
    BY RowsKept DEF Statuses, NonTerminal, Write, Proceed, contractHistory
  <1>3. CASE clerk[r].pc \in ThisVersionPcs /\ pc \in ThisVersionPcs \ {"sign.execute"}
              /\ (pc \in SignPcs => clerk[r].pc \in SignPcs)
    <2> DEFINE q == Versioned(r, pc, Version(r))
    <2>1. q \in AtWork /\ clerk' = [clerk EXCEPT ![r] = q]
      BY <1>3, GotoShape DEF Write, VersionPcs, TypeInv
    <2>2. q.pc = pc /\ q.version = Version(r) /\ q.party = clerk[r].party
      BY DEF Versioned
    <2>3. q.version <= versions /\ (q.pc \in SignPcs => q.party \in Parties)
      BY <1>1, <1>3, <2>2 DEF ClerkPlaced
    <2>4. pc # "version.create"
      BY <1>3 DEF ThisVersionPcs
    <2> HIDE DEF q
    <2>5. Proper(r, q)
      BY <1>1, <1>2, <1>3, <2>1, <2>2, <2>3, <2>4, RowsKept DEF Proper, BothSigned
    <2>6. QED
      BY <2>5
  <1>4. CASE clerk[r].pc \in {"send", "void"} /\ pc \in {"send.log", "void.log"}
    <2> DEFINE q == Plain(r, pc)
    <2>1. q \in AtWork /\ clerk' = [clerk EXCEPT ![r] = q] /\ q.pc = pc
      BY <1>4, GotoShape DEF Write, TypeInv, Plain
    <2>2. q.pc \notin ThisVersionPcs /\ q.pc # "version.create" /\ q.pc \notin SignPcs /\ q.pc # "sign.execute"
      BY <1>4, <2>1 DEF ThisVersionPcs, SignPcs
    <2> HIDE DEF q
    <2>3. Proper(r, q)
      BY <1>1, <1>2, <2>1, <2>2, RowsKept DEF Proper, BothSigned
    <2>4. QED
      BY <2>3
  <1>5. QED
    BY <1>3, <1>4

LEMMA CreateProper ==
  ASSUME TypeInv, NEW r \in Clerks, CreateRow(r) \/ LogCreated(r)
  PROVE  \E q : Proper(r, q)
  <1>1. CASE CreateRow(r)
    <2>1. CASE status # "none"
      BY <1>1, <2>1, DoneProper, RowsKept DEF CreateRow, Leave, contractHistory
    <2>2. CASE status = "none"
      <3> DEFINE q == Versioned(r, "create.pdf", 1)
      <3>1. /\ clerk' = [clerk EXCEPT ![r] = q]
            /\ status' = "DRAFT" /\ versions' = 1 /\ versions = 0
            /\ UNCHANGED <<pdf, signed, log, mixed, deaths>>
        BY <1>1, <2>2, RowsKept DEF CreateRow, Have, contractHistory, Versioned
      <3>2. q \in AtWork /\ 1 \in 0..MaxVersions /\ q.pc = "create.pdf" /\ q.version = 1
        <4>1. clerk[r].party \in Parties \cup {"either"} /\ 1 \in Versions
          BY ContractConstants, <1>1, Shape DEF CreateRow, Doing, TypeInv, Versions
        <4>2. QED
          BY ContractConstants, <4>1 DEF Versioned, AtWork, TypeInv
      <3>3. /\ pdf' \subseteq 1..versions' /\ signed' \subseteq (1..versions') \X Parties
            /\ log' \subseteq EventTypes \X (0..versions')
        BY <3>1, RowsKept
      <3> HIDE DEF q
      <3>4. Proper(r, q)
        BY <3>1, <3>2, <3>3, RowsKept DEF Proper, Statuses, NonTerminal, SignPcs
      <3>5. QED
        BY <3>4
    <2>3. QED
      BY <2>1, <2>2
  <1>2. CASE LogCreated(r)
    <2> DEFINE q == Versioned(r, "version.log", Version(r))
    <2>1. clerk[r].pc = "create.log" /\ q \in AtWork /\ clerk' = [clerk EXCEPT ![r] = q]
      BY <1>2, GotoShape DEF LogCreated, Doing, TypeInv, VersionPcs, ThisVersionPcs
    <2>2. 1 \in 0..versions
      BY <2>1, RowsKept DEF TypeInv, ClerkPlaced
    <2>3. Proper(r, q)
      BY <1>2, <2>1, <2>2, RecordProper DEF LogCreated, Proceed, EventTypes, ThisVersionPcs
    <2>4. QED
      BY <2>3
  <1>3. QED
    BY <1>1, <1>2

LEMMA VersionProper ==
  ASSUME TypeInv, NEW r \in Clerks, VersionLatest(r) \/ VersionCreate(r) \/ AttachPdf(r)
  PROVE  \E q : Proper(r, q)
  <1>1. CASE VersionLatest(r)
    <2> DEFINE q == Versioned(r, "version.create", versions + 1)
    <2>1. clerk' = [clerk EXCEPT ![r] = q] /\ UNCHANGED <<mixed, deaths>> /\ UNCHANGED contractRows
          /\ clerk[r].pc = "version.latest"
      BY <1>1 DEF VersionLatest, Have, contractHistory, Versioned, Doing
    <2>2. q \in AtWork /\ q.pc = "version.create" /\ q.version = versions + 1
      <3>1. clerk[r].party \in Parties \cup {"either"} /\ versions + 1 \in Versions
        BY ContractConstants, <1>1, <2>1, Shape, RowsKept DEF VersionLatest, TypeInv, Versions
      <3>2. QED
        BY <3>1 DEF Versioned, AtWork
    <2>3. status # "none"
      BY <2>1 DEF TypeInv, ClerkPlaced
    <2> HIDE DEF q
    <2>4. /\ mixed' \in BOOLEAN /\ deaths' \in 0..MaxLosses
          /\ q.version <= versions + 1 /\ q.pc \notin ThisVersionPcs /\ q.pc \notin SignPcs
      BY <2>1, <2>2, RowsKept DEF ThisVersionPcs, SignPcs
    <2>5. Proper(r, q)
      BY <2>1, <2>2, <2>3, <2>4, QuietProper
    <2>6. QED
      BY <2>5
  <1>2. CASE VersionCreate(r)
    <2>0. clerk[r].pc = "version.create" /\ status # "none"
      BY <1>2 DEF VersionCreate, Doing, TypeInv, ClerkPlaced
    <2>1. CASE Leave(r) /\ UNCHANGED contractRows
      BY <2>1, DoneProper, RowsKept DEF Leave, contractHistory
    <2>2. CASE ~(versions >= Version(r))
      <3> DEFINE q == Versioned(r, "version.pdf", Version(r))
      <3>1. q \in AtWork /\ clerk' = [clerk EXCEPT ![r] = q] /\ q.pc = "version.pdf" /\ q.version = Version(r)
        BY <1>2, <2>0, <2>2, GotoShape DEF VersionCreate, TypeInv, VersionPcs, ThisVersionPcs, Versioned
      <3>2. versions' = Version(r) /\ UNCHANGED <<status, pdf, signed, log, mixed, deaths>>
        BY <1>2, <2>2 DEF VersionCreate, Proceed, contractHistory
      <3>3. Version(r) \in Versions
        BY <2>0, Shape DEF TypeInv, VersionPcs
      <3>4. versions < versions' /\ versions' \in 0..MaxVersions /\ versions' \in Nat
        BY ContractConstants, <2>2, <3>2, <3>3, RowsKept DEF Versions, TypeInv
      <3>5. /\ pdf' \subseteq 1..versions' /\ signed' \subseteq (1..versions') \X Parties
            /\ log' \subseteq EventTypes \X (0..versions')
        <4>1. 1..versions \subseteq 1..versions' /\ 0..versions \subseteq 0..versions'
          BY <3>4, RowsKept
        <4>2. QED
          BY <3>2, <4>1, RowsKept
      <3> HIDE DEF q
      <3>6. Proper(r, q)
        BY <2>0, <3>1, <3>2, <3>4, <3>5, RowsKept DEF Proper, SignPcs, BothSigned
      <3>7. QED
        BY <3>6
    <2>3. QED
      BY <1>2, <2>1, <2>2 DEF VersionCreate
  <1>3. CASE AttachPdf(r)
    <2> DEFINE next == IF Doing(r, "create.pdf") THEN "create.log" ELSE "version.reset"
               q == Versioned(r, next, Version(r))
    <2>1. clerk[r].pc \in ThisVersionPcs /\ next \in ThisVersionPcs \ SignPcs
      BY <1>3 DEF AttachPdf, ThisVersionPcs, SignPcs
    <2>2. q \in AtWork /\ clerk' = [clerk EXCEPT ![r] = q] /\ q.pc = next /\ q.version = Version(r)
      BY <1>3, <2>1, GotoShape DEF AttachPdf, TypeInv, VersionPcs, Versioned
    <2>3. status # "none" /\ Version(r) <= versions /\ Version(r) \in Versions
      BY <1>3, <2>1, Shape DEF AttachPdf, TypeInv, ClerkPlaced, VersionPcs
    <2>4. pdf' \subseteq 1..versions' /\ UNCHANGED <<status, versions, signed, log, mixed, deaths>>
      BY <1>3, <2>3, RowsKept DEF AttachPdf, Proceed, contractHistory, Versions
    <2>5. next # "version.create" /\ next # "sign.execute"
      OBVIOUS
    <2> HIDE DEF q, next
    <2>6. Proper(r, q)
      BY <2>1, <2>2, <2>3, <2>4, <2>5, RowsKept DEF Proper, BothSigned
    <2>7. QED
      BY <2>6
  <1>4. QED
    BY <1>1, <1>2, <1>3

LEMMA SignProper ==
  ASSUME TypeInv, NEW r \in Clerks, SignLatest(r) \/ SignCreate(r) \/ SignCount(r)
  PROVE  \E q : Proper(r, q)
  <1>0. clerk[r].pc \in SignPcs /\ clerk[r].party \in Parties /\ status # "none"
    BY DEF SignLatest, SignCreate, SignCount, Doing, SignPcs, TypeInv, ClerkPlaced
  <1>1. CASE SignLatest(r)
    <2>1. CASE Leave(r) /\ UNCHANGED contractRows
      BY <2>1, DoneProper, RowsKept DEF Leave, contractHistory
    <2>2. CASE Have(r, "sign.create", versions) /\ UNCHANGED contractRows
      <3> DEFINE q == Versioned(r, "sign.create", versions)
      <3>1. clerk' = [clerk EXCEPT ![r] = q] /\ UNCHANGED <<mixed, deaths>> /\ UNCHANGED contractRows
            /\ q.pc = "sign.create" /\ q.version = versions /\ q.party = clerk[r].party
        BY <2>2 DEF Have, contractHistory, Versioned
      <3>2. versions \in Versions
        BY ContractConstants, <1>0, RowsKept DEF Versions, TypeInv
      <3>3. q \in AtWork
        BY <1>0, <3>2 DEF AtWork, Versioned
      <3> HIDE DEF q
      <3>4. mixed' \in BOOLEAN /\ deaths' \in 0..MaxLosses /\ q.version <= versions
        BY <3>1, RowsKept
      <3>5. Proper(r, q)
        BY <1>0, <3>1, <3>3, <3>4, QuietProper
      <3>6. QED
        BY <3>5
    <2>3. QED
      BY <1>1, <2>1, <2>2 DEF SignLatest
  <1>2. CASE SignCreate(r)
    <2> DEFINE q == Versioned(r, "sign.count", Version(r))
    <2>1. clerk[r].pc \in ThisVersionPcs /\ Version(r) <= versions /\ Version(r) \in Versions
      BY <1>2, Shape DEF SignCreate, Doing, ThisVersionPcs, TypeInv, ClerkPlaced, VersionPcs
    <2>2. /\ signed' \subseteq (1..versions') \X Parties /\ signed \subseteq signed'
          /\ UNCHANGED <<status, versions, pdf, log, mixed, deaths>>
      <3>1. <<Version(r), clerk[r].party>> \in (1..versions) \X Parties
        BY <1>0, <2>1, RowsKept DEF Versions
      <3>2. UNCHANGED <<status, versions, pdf, log, mixed, deaths>>
        BY <1>2 DEF SignCreate, Leave, Proceed, contractHistory
      <3>3. signed' = signed \cup {<<Version(r), clerk[r].party>>}
        BY <1>2 DEF SignCreate
      <3>4. QED
        BY <3>1, <3>2, <3>3, RowsKept
    <2>3. CASE Leave(r)
      <3>1. clerk' = [clerk EXCEPT ![r] = Free]
        BY <2>3 DEF Leave
      <3>2. Proper(r, Free)
        BY <2>2, <3>1, RowsKept, IdleShape DEF Proper, BothSigned
      <3>3. QED
        BY <3>2
    <2>4. CASE Proceed(r, "sign.count")
      <3>1. q \in AtWork /\ clerk' = [clerk EXCEPT ![r] = q]
            /\ q.pc = "sign.count" /\ q.version = Version(r) /\ q.party = clerk[r].party
        BY <2>1, <2>4, GotoShape DEF TypeInv, VersionPcs, ThisVersionPcs, Versioned
      <3> HIDE DEF q
      <3>2. Proper(r, q)
        BY <1>0, <2>1, <2>2, <3>1, RowsKept DEF Proper, BothSigned
      <3>3. QED
        BY <3>2
    <2>5. QED
      BY <1>2, <2>3, <2>4 DEF SignCreate
  <1>3. CASE SignCount(r)
    <2> DEFINE next == IF \A p \in Parties : <<Version(r), p>> \in signed THEN "sign.execute" ELSE "sign.partial"
               q == Versioned(r, next, Version(r))
    <2>1. clerk[r].pc \in ThisVersionPcs /\ Version(r) <= versions
      BY <1>3 DEF SignCount, Doing, ThisVersionPcs, TypeInv, ClerkPlaced
    <2>2. next \in ThisVersionPcs /\ (next = "sign.execute" => BothSigned(Version(r)))
      BY DEF ThisVersionPcs, BothSigned
    <2>3. /\ q \in AtWork /\ clerk' = [clerk EXCEPT ![r] = q]
          /\ q.pc = next /\ q.version = Version(r) /\ q.party = clerk[r].party
          /\ UNCHANGED contractRows /\ UNCHANGED <<mixed, deaths>>
      BY <1>3, <2>1, <2>2, GotoShape DEF SignCount, Proceed, contractHistory, TypeInv, VersionPcs, Versioned
    <2>4. next # "version.create"
      OBVIOUS
    <2> HIDE DEF q, next
    <2>5. Proper(r, q)
      BY <1>0, <2>1, <2>2, <2>3, <2>4, QuietProper, RowsKept
    <2>6. QED
      BY <2>5
  <1>4. QED
    BY <1>1, <1>2, <1>3

LEMMA LogProper ==
  ASSUME TypeInv, NEW r \in Clerks,
         \/ LogVersion(r) \/ LogSigned(r) \/ LogExecuted(r) \/ LogSent(r) \/ LogVoided(r)
  PROVE  \E q : Proper(r, q)
  <1>1. versions \in 0..versions
    BY RowsKept
  <1>2. clerk[r].pc \in ThisVersionPcs => Version(r) \in 0..versions
    BY Shape, RowsKept DEF TypeInv, ClerkPlaced, VersionPcs, Versions
  <1>3. PICK type \in EventTypes, v \in 0..versions : Record(type, v) /\ Leave(r)
    BY <1>1, <1>2 DEF LogVersion, LogSigned, LogExecuted, LogSent, LogVoided, EventTypes, Doing, ThisVersionPcs
  <1>4. clerk' = [clerk EXCEPT ![r] = Free] /\ UNCHANGED contractHistory /\ Record(type, v)
    BY <1>3 DEF Leave
  <1>5. Proper(r, Free)
    <2>1. log' \subseteq EventTypes \X (0..versions') /\ UNCHANGED <<status, versions, pdf, signed, mixed, deaths>>
      BY <1>3, <1>4, RowsKept DEF Record, contractHistory
    <2>2. QED
      BY <1>4, <2>1, RowsKept, IdleShape DEF Proper, BothSigned
  <1>6. QED
    BY <1>5

LEMMA StatusProper ==
  ASSUME TypeInv, NEW r \in Clerks,
         \/ VersionReset(r) \/ SendWrite(r) \/ VoidWrite(r) \/ Execute(r) \/ PartiallySigned(r)
  PROVE  \E q : Proper(r, q)
  <1>1. CASE VersionReset(r)
    BY <1>1, WriteProper DEF VersionReset, Doing, ThisVersionPcs, SignPcs, Statuses, NonTerminal
  <1>2. CASE SendWrite(r)
    BY <1>2, WriteProper DEF SendWrite, Doing, Statuses, NonTerminal
  <1>3. CASE VoidWrite(r)
    BY <1>3, WriteProper DEF VoidWrite, Doing, Statuses, NonTerminal
  <1>4. CASE PartiallySigned(r)
    BY <1>4, WriteProper DEF PartiallySigned, Doing, ThisVersionPcs, SignPcs, Statuses, NonTerminal
  <1>5. CASE Execute(r)
    <2>1. clerk[r].pc = "sign.execute" /\ BothSigned(Version(r)) /\ Version(r) \in Versions
      BY <1>5, Shape DEF Execute, Doing, TypeInv, ClerkPlaced, VersionPcs, ThisVersionPcs
    <2>2. QED
      BY <1>5, <2>1, WriteProper DEF Execute, ThisVersionPcs, SignPcs, Statuses
  <1>6. QED
    BY <1>1, <1>2, <1>3, <1>4, <1>5

LEMMA DieProper ==
  ASSUME TypeInv, NEW r \in Clerks, ClerkDies(r)
  PROVE  Proper(r, Free)
  <1>1. deaths' \in 0..MaxLosses /\ mixed' \in BOOLEAN
    BY ContractConstants, RowsKept DEF ClerkDies, TypeInv
  <1>2. QED
    BY <1>1, DoneProper DEF ClerkDies

LEMMA TypeInit == ASSUME ContractInit PROVE TypeInv
  <1>1. \A r \in Clerks : clerk[r].pc = "idle"
    BY DEF ContractInit, Free
  <1>2. ContractTypeOK
    <2>1. clerk \in [Clerks -> {Free} \cup AtWork]
      BY DEF ContractInit
    <2>2. versions \in 0..MaxVersions /\ deaths \in 0..MaxLosses
      BY ContractConstants DEF ContractInit
    <2>3. pdf = {} /\ signed = {} /\ log = {} /\ status = "none" /\ versions = 0 /\ mixed = FALSE
      BY DEF ContractInit
    <2>4. QED
      BY <2>1, <2>2, <2>3 DEF ContractTypeOK
  <1>3. \A r \in Clerks : ClerkPlaced(r)
    BY <1>1, IdleShape DEF ClerkPlaced
  <1>4. QED
    BY <1>2, <1>3 DEF TypeInv, ContractInit

LEMMA TypeStep ==
  ASSUME TypeInv, [ContractNext]_contractVars
  PROVE  TypeInv'
  <1>1. CASE UNCHANGED contractVars
    BY ContractConstants, <1>1
      DEF contractVars, contractRows, contractHistory, TypeInv, ContractTypeOK, ClerkPlaced, Version, BothSigned
  <1>2. ASSUME NEW r \in Clerks,
               \/ CreateBegin(r) \/ VersionBegin(r) \/ SendBegin(r) \/ VoidBegin(r) \/ Step(r)
               \/ \E p \in Parties : SignBegin(r, p)
        PROVE  TypeInv'
    <2>1. \E q : Proper(r, q)
      BY <1>2, BeginProper, CreateProper, VersionProper, SignProper, LogProper, StatusProper, DieProper DEF Step
    <2>2. QED
      BY <2>1, ProperStep
  <1>3. QED
    BY <1>1, <1>2 DEF ContractNext

---------------------------------------------------------------------------
(* The handler of slot r after its step: what Goto and Have leave of it.   *)
LEMMA After ==
  ASSUME ContractTypeOK, NEW r \in Clerks
  PROVE  /\ Leave(r) => clerk'[r] = Free /\ clerk'[r].pc = "idle"
         /\ \A pc : Proceed(r, pc) /\ (\/ clerk[r].pc \in VersionPcs /\ pc \in VersionPcs
                                       \/ clerk[r].pc \in {"send", "void"} /\ pc \in {"send.log", "void.log"})
              => clerk'[r].pc = pc
         /\ \A pc : Proceed(r, pc) /\ clerk[r].pc \in VersionPcs /\ pc \in VersionPcs
              => Version(r)' = Version(r) /\ clerk'[r].party = clerk[r].party
         /\ \A pc, v : Have(r, pc, v)
              => clerk'[r].pc = pc /\ Version(r)' = v /\ clerk'[r].party = clerk[r].party
  <1>1. Leave(r) => clerk'[r] = Free /\ clerk'[r].pc = "idle"
    BY Slots, IdleShape DEF Leave
  <1>2. ASSUME NEW pc, Proceed(r, pc), clerk[r].pc \in {"send", "void"}, pc \in {"send.log", "void.log"}
        PROVE  clerk'[r].pc = pc
    <2>1. clerk' = [clerk EXCEPT ![r] = Plain(r, pc)]
      BY <1>2, GotoShape
    <2>2. clerk'[r] = Plain(r, pc)
      BY <2>1, Slots
    <2>3. QED
      BY <2>2 DEF Plain
  <1>3. ASSUME NEW pc, Proceed(r, pc), clerk[r].pc \in VersionPcs, pc \in VersionPcs
        PROVE  clerk'[r].pc = pc /\ Version(r)' = Version(r) /\ clerk'[r].party = clerk[r].party
    <2>1. clerk'[r] = Versioned(r, pc, Version(r))
      BY <1>3, GotoShape, Slots
    <2>2. clerk'[r].version = Version(r) /\ clerk'[r].pc = pc /\ clerk'[r].party = clerk[r].party
      BY <2>1 DEF Versioned
    <2>3. QED
      BY <2>2 DEF Version
  <1>4. ASSUME NEW pc, NEW v, Have(r, pc, v)
        PROVE  clerk'[r].pc = pc /\ Version(r)' = v /\ clerk'[r].party = clerk[r].party
    <2>1. clerk'[r] = Versioned(r, pc, v)
      BY <1>4, Slots DEF Have, Versioned
    <2>2. clerk'[r].version = v /\ clerk'[r].pc = pc /\ clerk'[r].party = clerk[r].party
      BY <2>1 DEF Versioned
    <2>3. QED
      BY <2>2 DEF Version
  <1>5. QED
    BY <1>1, <1>2, <1>3, <1>4

LEMMA OthersKept ==
  ASSUME ContractTypeOK, NEW r \in Clerks,
         \/ Leave(r) \/ ClerkDies(r) \/ \E pc : Proceed(r, pc) \/ \E v : Have(r, pc, v)
  PROVE  /\ \A s \in Clerks \ {r} : clerk'[s] = clerk[s]
         /\ mixed' = mixed
  BY DEF ContractTypeOK, Leave, ClerkDies, Proceed, Have, contractHistory

(* Every step but the first of a handler is one of its own, and leaves the *)
(* other slots and the history of overlaps alone.                          *)
LEMMA OwnStep ==
  ASSUME ContractTypeOK, NEW r \in Clerks, Step(r)
  PROVE  /\ r \in Busy
         /\ \A s \in Clerks \ {r} : clerk'[s] = clerk[s]
         /\ mixed' = mixed
  <1>1. clerk[r].pc # "idle"
    BY Shape DEF Step, CreateRow, LogCreated, VersionLatest, VersionCreate, AttachPdf, VersionReset,
           LogVersion, SendWrite, LogSent, VoidWrite, LogVoided, SignLatest, SignCreate, SignCount,
           Execute, PartiallySigned, LogSigned, LogExecuted, ClerkDies, Doing
  <1>2. r \in Busy
    BY <1>1, IdleShape DEF Busy
  <1>3. \/ Leave(r) \/ ClerkDies(r) \/ \E pc : Proceed(r, pc) \/ \E v : Have(r, pc, v)
    BY DEF Step, CreateRow, LogCreated, VersionLatest, VersionCreate, AttachPdf, VersionReset,
           LogVersion, SendWrite, LogSent, VoidWrite, LogVoided, SignLatest, SignCreate, SignCount,
           Execute, PartiallySigned, LogSigned, LogExecuted, Write
  <1>4. QED
    BY <1>2, <1>3, OthersKept

(* Where the status goes: a step of a handler that read it, and only that  *)
(* one, writes what the handler may write.                                 *)
LEMMA StatusStep ==
  ASSUME TypeInv, NEW r \in Clerks, Step(r), StatusRead(r)
  PROVE  /\ StatusRead(r)'
         /\ status \notin NonTerminal \cup {"none"} => status' = status
  <1>0. ContractTypeOK
    BY DEF TypeInv
  <1>1. CASE Leave(r) /\ status' = status
    BY <1>0, <1>1, After DEF StatusRead, Doing
  <1>2. CASE ClerkDies(r)
    <2>1. clerk'[r].pc = "idle" /\ status' = status
      BY <1>0, <1>2, Slots, IdleShape DEF ClerkDies, contractRows
    <2>2. QED
      BY <2>1 DEF StatusRead, Doing
  <1>3. CASE CreateRow(r)
    <2>1. CASE status = "none"
      <3>1. clerk'[r].pc = "create.pdf" /\ status' = "DRAFT"
        BY <1>0, <1>3, <2>1, After DEF CreateRow
      <3>2. QED
        BY <2>1, <3>1 DEF StatusRead, Doing, NonTerminal
    <2>2. CASE status # "none"
      BY <1>1, <1>3, <2>2 DEF CreateRow, contractRows
    <2>3. QED
      BY <2>1, <2>2
  <1>4. ASSUME NEW pc \in VersionPcs, Proceed(r, pc), status' = status, clerk[r].pc \in VersionPcs,
               \/ pc = "version.log"
               \/ /\ pc \in {"version.pdf", "create.log", "version.reset"}
                  /\ clerk[r].pc \in {"create.pdf", "version.create", "version.pdf"}
               \/ /\ pc \in {"sign.count", "sign.execute", "sign.partial"}
                  /\ clerk[r].pc \in {"sign.create", "sign.count"}
        PROVE  StatusRead(r)' /\ status' = status
    <2>1. clerk'[r].pc = pc
      BY <1>0, <1>4, After
    <2>2. QED
      BY <1>4, <2>1 DEF StatusRead, Doing
  <1>5. CASE LogCreated(r) \/ AttachPdf(r) \/ SignCount(r)
    BY <1>4, <1>5 DEF LogCreated, AttachPdf, SignCount, Doing, Record, contractRows, VersionPcs, ThisVersionPcs
  <1>6. CASE VersionCreate(r) \/ SignCreate(r)
    BY <1>1, <1>4, <1>6 DEF VersionCreate, SignCreate, Doing, contractRows, VersionPcs, ThisVersionPcs
  <1>7. CASE VersionLatest(r)
    <2>1. clerk'[r].pc = "version.create" /\ status' = status /\ Doing(r, "version.latest")
      BY <1>0, <1>7, After DEF VersionLatest, contractRows
    <2>2. QED
      BY <2>1 DEF StatusRead, Doing
  <1>8. CASE SignLatest(r)
    <2>1. CASE Leave(r)
      BY <1>1, <1>8, <2>1 DEF SignLatest, contractRows
    <2>2. CASE Have(r, "sign.create", versions)
      <3>1. clerk'[r].pc = "sign.create" /\ status' = status /\ Doing(r, "sign.latest")
        BY <1>0, <1>8, <2>2, After DEF SignLatest, contractRows
      <3>2. QED
        BY <3>1 DEF StatusRead, Doing
    <2>3. QED
      BY <1>8, <2>1, <2>2 DEF SignLatest
  <1>9. CASE \/ LogVersion(r) \/ LogSent(r) \/ LogVoided(r) \/ LogSigned(r) \/ LogExecuted(r)
    BY <1>1, <1>9 DEF LogVersion, LogSent, LogVoided, LogSigned, LogExecuted, Record
  <1>10. ASSUME NEW s, NEW pc, Write(r, s, pc), status \in NonTerminal,
                \/ clerk[r].pc \in VersionPcs /\ pc \in {"version.log", "sign.log", "sign.done"}
                \/ clerk[r].pc \in {"send", "void"} /\ pc \in {"send.log", "void.log"}
         PROVE  StatusRead(r)' /\ status \in NonTerminal
    <2>1. clerk'[r].pc = pc
      BY <1>0, <1>10, After DEF Write, VersionPcs, ThisVersionPcs
    <2>2. QED
      BY <1>10, <2>1 DEF StatusRead, Doing
  <1>11. CASE \/ VersionReset(r) \/ SendWrite(r) \/ VoidWrite(r) \/ Execute(r) \/ PartiallySigned(r)
    <2>1. status \in NonTerminal
      BY <1>11 DEF VersionReset, SendWrite, VoidWrite, Execute, PartiallySigned, Doing, StatusRead, Signable, NonTerminal
    <2>2. QED
      BY <1>10, <1>11, <2>1 DEF VersionReset, SendWrite, VoidWrite, Execute, PartiallySigned, Doing,
                                VersionPcs, ThisVersionPcs
  <1>12. QED
    BY <1>2, <1>3, <1>5, <1>6, <1>7, <1>8, <1>9, <1>11 DEF Step

LEMMA SoloStep ==
  ASSUME TypeInv, SoloInv, [ContractNext]_contractVars
  PROVE  /\ SoloInv'
         /\ status \notin NonTerminal \cup {"none"} /\ ~mixed => status' = status
  <1>0. ContractTypeOK
    BY DEF TypeInv
  <1>1. CASE UNCHANGED contractVars
    BY <1>1 DEF contractVars, contractRows, contractHistory, SoloInv, Busy, StatusRead, Doing
  <1>2. ASSUME NEW r \in Clerks,
               \/ CreateBegin(r) \/ VersionBegin(r) \/ SendBegin(r) \/ VoidBegin(r)
               \/ \E p \in Parties : SignBegin(r, p)
        PROVE  SoloInv' /\ status' = status
    <2>1. PICK pc, party :
            /\ TakeUp(r, pc, party)
            /\ \/ pc = "create" /\ status = "none"
               \/ pc \in {"version.latest", "void"} /\ status \in NonTerminal
               \/ pc = "send" /\ status = "DRAFT"
               \/ pc = "sign.latest" /\ status \in Signable
      BY <1>2 DEF CreateBegin, VersionBegin, SendBegin, VoidBegin, SignBegin
    <2>2. /\ clerk'[r].pc = pc /\ \A s \in Clerks \ {r} : clerk'[s] = clerk[s]
          /\ status' = status /\ (mixed' <=> (mixed \/ Busy # {}))
      <3>1. clerk' = [clerk EXCEPT ![r] = [pc |-> pc, party |-> party]] /\ status' = status
        BY <2>1 DEF TakeUp, contractRows
      <3>2. clerk'[r].pc = pc /\ \A s \in Clerks \ {r} : clerk'[s] = clerk[s]
        <4>1. clerk'[r] = [pc |-> pc, party |-> party] /\ \A s \in Clerks \ {r} : clerk'[s] = clerk[s]
          BY <1>0, <3>1 DEF ContractTypeOK
        <4>2. QED
          BY <4>1
      <3>3. mixed' = (mixed \/ Busy # {})
        BY <2>1 DEF TakeUp
      <3>4. QED
        BY <3>1, <3>2, <3>3
    <2>3. ASSUME ~mixed'
          PROVE  /\ \A x, y \in Busy' : x = y
                 /\ \A x \in Clerks : StatusRead(x)'
      <3>1. \A s \in Clerks \ {r} : clerk'[s] = Free
        BY <2>2, <2>3 DEF Busy
      <3>2. \A x, y \in Busy' : x = y
        BY <3>1 DEF Busy
      <3>3. StatusRead(r)'
        BY <2>1, <2>2 DEF StatusRead, Doing
      <3>4. \A s \in Clerks \ {r} : StatusRead(s)'
        BY <3>1, IdleShape DEF StatusRead, Doing
      <3>5. QED
        BY <3>2, <3>3, <3>4
    <2>4. QED
      BY <2>2, <2>3 DEF SoloInv
  <1>3. ASSUME NEW r \in Clerks, Step(r)
        PROVE  /\ SoloInv'
               /\ status \notin NonTerminal \cup {"none"} /\ ~mixed => status' = status
    <2>1. /\ r \in Busy /\ \A s \in Clerks \ {r} : clerk'[s] = clerk[s]
          /\ mixed' = mixed
      BY <1>0, <1>3, OwnStep
    <2>2. CASE mixed
      BY <2>1, <2>2 DEF SoloInv
    <2>3. CASE ~mixed
      <3>1. StatusRead(r) /\ \A s \in Clerks \ {r} : clerk[s] = Free /\ clerk'[s] = Free
        BY <2>1, <2>3 DEF SoloInv, Busy
      <3>2. /\ StatusRead(r)'
            /\ status \notin NonTerminal \cup {"none"} => status' = status
        BY <1>3, <3>1, StatusStep
      <3>3. \A x, y \in Busy' : x = y
        BY <3>1 DEF Busy
      <3>4. \A s \in Clerks \ {r} : StatusRead(s)'
        BY <3>1, IdleShape DEF StatusRead, Doing
      <3>5. QED
        BY <3>2, <3>3, <3>4 DEF SoloInv
    <2>4. QED
      BY <2>2, <2>3
  <1>4. QED
    BY <1>1, <1>2, <1>3 DEF ContractNext

LEMMA SoloInit == ContractInit => SoloInv
  <1> SUFFICES ASSUME ContractInit PROVE SoloInv
    OBVIOUS
  <1>1. \A r \in Clerks : clerk[r] = Free
    BY DEF ContractInit
  <1>2. QED
    BY <1>1, IdleShape DEF SoloInv, Busy, StatusRead, Doing

(* The types and what a lone handler relies on, in every state.            *)
LEMMA Invariants == ContractSpec => [](TypeInv /\ SoloInv)
  <1>1. ContractInit => TypeInv /\ SoloInv
    BY TypeInit, SoloInit
  <1>2. TypeInv /\ SoloInv /\ [ContractNext]_contractVars => (TypeInv /\ SoloInv)'
    BY TypeStep, SoloStep
  <1>3. QED
    BY <1>1, <1>2, PTL DEF ContractSpec

(* Versions, signatures, PDFs and log entries keep their types: a          *)
(* signature, a PDF and an entry are always those of a version that exists.*)
THEOREM ContractTypeCorrect == ContractSpec => []ContractTypeOK
  <1>1. TypeInv => ContractTypeOK
    BY DEF TypeInv
  <1>2. QED
    BY <1>1, Invariants, PTL

(* A contract that is EXECUTED or VOIDED stays so, unless handlers that    *)
(* write the status overlapped: alone, a handler writes it only if what it *)
(* read at its start, and so what is there still, is not final.            *)
THEOREM FinalStatusStays == ContractSpec => FinalStays
  <1>1. TypeInv /\ SoloInv /\ [ContractNext]_contractVars
          => [status \notin NonTerminal \cup {"none"} /\ ~mixed => status' = status]_contractVars
    BY SoloStep
  <1>2. QED
    BY <1>1, Invariants, PTL DEF ContractSpec, FinalStays

---------------------------------------------------------------------------
(* The rows, when one handler is at work at a time and none dies.          *)
LEMMA RestKept ==
  ASSUME UNCHANGED contractRows
  PROVE  /\ Rest' <=> Rest
         /\ Signers' = Signers /\ versions' = versions
  BY DEF contractRows, Rest, Told, Filed, Sealed, Signers, Logged

(* An entry of another type than the two it is about changes nothing.      *)
LEMMA LogKept ==
  ASSUME NEW type, NEW v, Record(type, v), type \notin {"FULLY_EXECUTED", "VERSION_CREATED"}
  PROVE  /\ Rest' <=> Rest
         /\ Signers' = Signers /\ (Sealed' <=> Sealed) /\ \A n : Logged(n)' <=> Logged(n)
         /\ UNCHANGED <<status, versions, pdf, signed>>
  <1>1. UNCHANGED <<status, versions, pdf, signed>>
    BY DEF Record
  <1>2. \A x : <<"FULLY_EXECUTED", x>> \in log' <=> <<"FULLY_EXECUTED", x>> \in log
    BY DEF Record
  <1>3. \A x : <<"VERSION_CREATED", x>> \in log' <=> <<"VERSION_CREATED", x>> \in log
    BY DEF Record
  <1>4. Signers' = Signers /\ (Sealed' <=> Sealed)
    BY <1>1, <1>2 DEF Signers, Sealed
  <1>5. ASSUME NEW n PROVE Logged(n)' <=> Logged(n)
    BY <1>3 DEF Logged
  <1>6. Filed' <=> Filed
    BY <1>1, <1>3 DEF Filed, Logged
  <1>7. QED
    BY <1>1, <1>4, <1>5, <1>6 DEF Rest, Told

(* A version that is new has no signature and no entry yet.                *)
LEMMA NewVersion ==
  ASSUME ContractTypeOK, versions' = versions + 1, UNCHANGED <<signed, log, pdf>>, Filed
  PROVE  Signers' = {} /\ ~Sealed' /\ Logged(versions - 1)' /\ pdf' = 1..(versions' - 1)
  <1>1. versions \in Nat /\ signed \subseteq (1..versions) \X Parties /\ log \subseteq EventTypes \X (0..versions)
    BY ContractConstants DEF ContractTypeOK
  <1>2. versions + 1 \notin 0..versions /\ versions + 1 \notin 1..versions /\ (versions + 1) - 1 = versions
    BY <1>1
  <1>3. Signers' = {} /\ ~Sealed'
    BY <1>1, <1>2 DEF Signers, Sealed
  <1>4. QED
    BY <1>2, <1>3 DEF Filed, Logged

LEMMA CreationWorks ==
  ASSUME TypeInv, NEW r \in Clerks, StatusRead(r), Working(r),
         \/ CreateRow(r) \/ LogCreated(r) \/ VersionLatest(r) \/ VersionCreate(r) \/ AttachPdf(r)
         \/ VersionReset(r) \/ LogVersion(r)
  PROVE  Working(r)' /\ (clerk'[r] = Free => Rest')
  <1>0. ContractTypeOK /\ versions \in Nat
    BY RowsKept DEF TypeInv
  <1>1. CASE CreateRow(r)
    <2>1. status = "none" /\ Rest /\ versions = 0
      BY <1>1, RowsKept DEF CreateRow, Doing, StatusRead, Working
    <2>2. /\ clerk'[r].pc = "create.pdf" /\ Version(r)' = 1
          /\ status' = "DRAFT" /\ versions' = 1 /\ UNCHANGED <<pdf, signed, log>>
      BY <1>0, <1>1, <2>1, After DEF CreateRow
    <2>3. Signers' = {} /\ ~Sealed' /\ Logged(versions - 1)' /\ pdf' = 1..(versions' - 1)
      BY <1>0, <2>1, <2>2, NewVersion DEF Rest
    <2>4. QED
      BY <2>2, <2>3, IdleShape DEF Working, Unsigned, Doing
  <1>2. CASE LogCreated(r)
    <2>1. clerk[r].pc = "create.log" /\ Unsigned(r) /\ pdf = 1..versions /\ status = "DRAFT"
      BY <1>2 DEF LogCreated, Doing, Working
    <2>2. clerk'[r].pc = "version.log" /\ Version(r)' = Version(r)
      BY <1>0, <1>2, <2>1, After DEF LogCreated, VersionPcs, ThisVersionPcs
    <2>3. Record("CREATED", 1)
      BY <1>2 DEF LogCreated
    <2>4. Unsigned(r)' /\ pdf' = 1..versions' /\ status' = "DRAFT"
      <3>1. /\ Signers' = Signers /\ (Sealed' <=> Sealed) /\ \A n : Logged(n)' <=> Logged(n)
            /\ UNCHANGED <<status, versions, pdf, signed>>
        BY <2>3, LogKept
      <3>2. Logged(versions - 1)'
        BY <2>1, <2>3 DEF Unsigned, Record, Logged
      <3>3. QED
        BY <2>1, <2>2, <3>1, <3>2 DEF Unsigned
    <2>5. QED
      BY <2>2, <2>4, IdleShape DEF Working, Doing
  <1>3. CASE VersionLatest(r)
    <2>1. Rest /\ UNCHANGED contractRows /\ clerk'[r].pc = "version.create" /\ Version(r)' = versions + 1
      BY <1>0, <1>3, After DEF VersionLatest, Doing, Working
    <2>2. Rest' /\ Version(r)' = versions' + 1
      BY <2>1, RestKept
    <2>3. QED
      BY <2>1, <2>2, IdleShape DEF Working, Doing
  <1>4. CASE VersionCreate(r)
    <2>1. clerk[r].pc = "version.create" /\ Rest /\ Version(r) = versions + 1 /\ status \in NonTerminal
      BY <1>4 DEF VersionCreate, Doing, Working, StatusRead
    <2>2. /\ versions' = versions + 1 /\ Proceed(r, "version.pdf") /\ UNCHANGED <<status, pdf, signed, log>>
      BY <1>0, <1>4, <2>1 DEF VersionCreate
    <2>3. clerk'[r].pc = "version.pdf" /\ Version(r)' = Version(r)
      BY <1>0, <2>1, <2>2, After DEF VersionPcs, ThisVersionPcs
    <2>4. Signers' = {} /\ ~Sealed' /\ Logged(versions - 1)' /\ pdf' = 1..(versions' - 1)
      BY <1>0, <2>1, <2>2, NewVersion DEF Rest
    <2>5. QED
      BY <2>1, <2>2, <2>3, <2>4, IdleShape DEF Working, Unsigned, Doing
  <1>5. CASE AttachPdf(r)
    <2> DEFINE next == IF Doing(r, "create.pdf") THEN "create.log" ELSE "version.reset"
    <2>1. /\ clerk[r].pc \in {"create.pdf", "version.pdf"} /\ Unsigned(r) /\ pdf = 1..(versions - 1)
          /\ clerk[r].pc = "create.pdf" => status = "DRAFT"
      BY <1>5 DEF AttachPdf, Doing, Working
    <2>2. clerk'[r].pc = next /\ Version(r)' = Version(r)
      <3>1. Proceed(r, next) /\ next \in VersionPcs /\ clerk[r].pc \in VersionPcs
        BY <1>5, <2>1 DEF AttachPdf, VersionPcs, ThisVersionPcs
      <3> HIDE DEF next
      <3>2. QED
        BY <1>0, <3>1, After
    <2>3. pdf' = pdf \cup {Version(r)} /\ UNCHANGED <<status, versions, signed, log>>
      BY <1>5 DEF AttachPdf
    <2>4. Version(r) = versions /\ versions >= 1
      BY ContractConstants, <2>1, Shape, <1>0 DEF Unsigned, VersionPcs, ThisVersionPcs, Versions
    <2>5. pdf' = 1..versions'
      BY <1>0, <2>1, <2>3, <2>4
    <2>6. Unsigned(r)'
      BY <2>1, <2>2, <2>3 DEF Unsigned, Signers, Sealed, Logged
    <2>7. QED
      BY <2>1, <2>2, <2>3, <2>5, <2>6, IdleShape DEF Working, Doing
  <1>6. CASE VersionReset(r)
    <2>1. clerk[r].pc = "version.reset" /\ Unsigned(r) /\ pdf = 1..versions
      BY <1>6 DEF VersionReset, Doing, Working
    <2>2. clerk'[r].pc = "version.log" /\ Version(r)' = Version(r)
      BY <1>0, <1>6, <2>1, After DEF VersionReset, Write, VersionPcs, ThisVersionPcs
    <2>3. status' = "DRAFT" /\ UNCHANGED <<versions, pdf, signed, log>>
      BY <1>6 DEF VersionReset, Write
    <2>4. Unsigned(r)' /\ pdf' = 1..versions'
      BY <2>1, <2>2, <2>3 DEF Unsigned, Signers, Sealed, Logged
    <2>5. QED
      BY <2>2, <2>3, <2>4, IdleShape DEF Working, Doing
  <1>7. CASE LogVersion(r)
    <2>1. clerk[r].pc = "version.log" /\ Unsigned(r) /\ pdf = 1..versions /\ status = "DRAFT"
      BY <1>7 DEF LogVersion, Doing, Working
    <2>2. clerk'[r].pc = "idle"
      BY <1>0, <1>7, After DEF LogVersion
    <2>3. log' = log \cup {<<"VERSION_CREATED", versions>>} /\ UNCHANGED <<status, versions, pdf, signed>>
      BY <1>7, <2>1 DEF LogVersion, Record, Unsigned
    <2>4. Filed'
      <3>1. \A v \in 1..versions : v = versions \/ v \in 1..(versions - 1)
        BY <1>0
      <3>2. QED
        BY <2>1, <2>3, <3>1 DEF Unsigned, Filed, Logged
    <2>5. Told' /\ ~Sealed'
      BY <2>1, <2>3 DEF Unsigned, Told, Signers, Sealed
    <2>6. QED
      BY <2>1, <2>2, <2>3, <2>4, <2>5 DEF Working, Rest, Doing
  <1>8. QED
    BY <1>1, <1>2, <1>3, <1>4, <1>5, <1>6, <1>7

LEMMA SendingWorks ==
  ASSUME TypeInv, NEW r \in Clerks, StatusRead(r), Working(r),
         SendWrite(r) \/ LogSent(r) \/ VoidWrite(r) \/ LogVoided(r)
  PROVE  Working(r)' /\ (clerk'[r] = Free => Rest')
  <1>0. ContractTypeOK /\ Rest
    BY DEF TypeInv, SendWrite, LogSent, VoidWrite, LogVoided, Doing, Working
  <1>1. CASE SendWrite(r) \/ VoidWrite(r)
    <2>1. /\ clerk'[r].pc \in {"send.log", "void.log"}
          /\ UNCHANGED <<versions, pdf, signed, log>>
          /\ status \in NonTerminal
          /\ \/ status' = "VOIDED"
             \/ status' = "AWAITING_SIGNATURE" /\ status = "DRAFT"
      BY <1>0, <1>1, After DEF SendWrite, VoidWrite, Write, Doing, StatusRead, NonTerminal
    <2>2. Rest'
      BY <1>0, <2>1 DEF Rest, Told, Filed, Sealed, Signers, Logged, NonTerminal
    <2>3. QED
      BY <2>1, <2>2, IdleShape DEF Working, Doing
  <1>2. CASE LogSent(r) \/ LogVoided(r)
    <2>1. clerk'[r].pc = "idle"
      BY <1>0, <1>2, After DEF LogSent, LogVoided
    <2>2. Rest'
      BY <1>0, <1>2, LogKept DEF LogSent, LogVoided
    <2>3. QED
      BY <2>1, <2>2 DEF Working, Doing
  <1>3. QED
    BY <1>1, <1>2

LEMMA SigningWorks ==
  ASSUME TypeInv, NEW r \in Clerks, StatusRead(r), Working(r),
         \/ SignLatest(r) \/ SignCreate(r) \/ SignCount(r) \/ Execute(r) \/ PartiallySigned(r)
         \/ LogSigned(r) \/ LogExecuted(r)
  PROVE  Working(r)' /\ (clerk'[r] = Free => Rest')
  <1>0. ContractTypeOK /\ clerk[r].pc \in SignPcs /\ clerk[r].party \in Parties
    BY DEF TypeInv, ClerkPlaced, SignLatest, SignCreate, SignCount, Execute, PartiallySigned, LogSigned,
           LogExecuted, Doing, SignPcs
  <1>1. CASE SignLatest(r)
    <2>1. Rest /\ UNCHANGED contractRows
      BY <1>1 DEF SignLatest, Doing, Working
    <2>2. Rest' /\ Signers' = Signers /\ versions' = versions
      BY <2>1, RestKept
    <2>3. CASE <<versions, clerk[r].party>> \in signed
      <3>1. clerk'[r].pc = "idle"
        BY <1>0, <1>1, <2>3, After DEF SignLatest
      <3>2. QED
        BY <2>2, <3>1 DEF Working, Doing
    <2>4. CASE <<versions, clerk[r].party>> \notin signed
      <3>1. clerk'[r].pc = "sign.create" /\ Version(r)' = versions /\ clerk'[r].party = clerk[r].party
        BY <1>0, <1>1, <2>4, After DEF SignLatest
      <3>2. clerk[r].party \notin Signers
        BY <2>4 DEF Signers
      <3>3. QED
        BY <2>2, <3>1, <3>2, IdleShape DEF Working, Doing
    <2>5. QED
      BY <2>3, <2>4
  <1>2. CASE SignCreate(r)
    <2>1. /\ clerk[r].pc = "sign.create" /\ Rest /\ Version(r) = versions
          /\ <<versions, clerk[r].party>> \notin signed /\ status \in Signable
      BY <1>0, <1>2 DEF SignCreate, Doing, Working, StatusRead, Signers
    <2>2. /\ Proceed(r, "sign.count") /\ signed' = signed \cup {<<versions, clerk[r].party>>}
          /\ UNCHANGED <<status, versions, pdf, log>>
      BY <1>2, <2>1 DEF SignCreate
    <2>3. clerk'[r].pc = "sign.count" /\ Version(r)' = Version(r) /\ clerk'[r].party = clerk[r].party
      BY <1>0, <2>1, <2>2, After DEF VersionPcs, ThisVersionPcs
    <2>4. clerk[r].party \in Signers'
      BY <1>0, <2>2 DEF Signers
    <2>5. Filed' /\ ~Sealed'
      BY <2>1, <2>2 DEF Rest, Filed, Sealed, Logged, Signable
    <2>6. QED
      BY <2>1, <2>2, <2>3, <2>4, <2>5, IdleShape DEF Working, Doing
  <1>3. CASE SignCount(r)
    <2> DEFINE next == IF \A p \in Parties : <<Version(r), p>> \in signed THEN "sign.execute" ELSE "sign.partial"
    <2>1. /\ clerk[r].pc = "sign.count" /\ Version(r) = versions /\ clerk[r].party \in Signers
          /\ Filed /\ ~Sealed /\ UNCHANGED contractRows
      BY <1>3 DEF SignCount, Doing, Working
    <2>2. clerk'[r].pc = next /\ Version(r)' = Version(r)
      <3>1. Proceed(r, next) /\ next \in VersionPcs /\ clerk[r].pc \in VersionPcs
        BY <1>3, <2>1 DEF SignCount, VersionPcs, ThisVersionPcs
      <3> HIDE DEF next
      <3>2. QED
        BY <1>0, <3>1, After
    <2>3. /\ next = "sign.execute" => Signers = Parties
          /\ next = "sign.partial" => \E p \in Parties : Signers = {p}
      <3>1. next = "sign.execute" => Signers = Parties
        BY <2>1 DEF Signers
      <3>2. ASSUME NEW p \in Parties, <<versions, p>> \notin signed
            PROVE  Signers = {clerk[r].party}
        BY <2>1, <3>2 DEF Signers, Parties
      <3>3. next = "sign.partial" => \E p \in Parties : <<versions, p>> \notin signed
        BY <2>1
      <3>4. QED
        BY <1>0, <3>1, <3>2, <3>3
    <2>4. Filed' /\ ~Sealed' /\ Signers' = Signers /\ versions' = versions
      BY <2>1 DEF contractRows, Filed, Sealed, Logged, Signers
    <2>5. next \in {"sign.execute", "sign.partial"}
      OBVIOUS
    <2> HIDE DEF next
    <2>6. QED
      BY <2>1, <2>2, <2>3, <2>4, <2>5, IdleShape DEF Working, Doing
  <1>4. CASE Execute(r)
    <2>1. /\ clerk[r].pc = "sign.execute" /\ Filed /\ Signers = Parties /\ Version(r) = versions
      BY <1>4 DEF Execute, Doing, Working
    <2>2. status' = "EXECUTED" /\ UNCHANGED <<versions, pdf, signed, log>>
      BY <1>4 DEF Execute, Write
    <2>3. clerk'[r].pc = "sign.done" /\ Version(r)' = Version(r)
      BY <1>0, <1>4, <2>1, After DEF Execute, Write, VersionPcs, ThisVersionPcs
    <2>4. Filed' /\ Signers' = Parties
      BY <2>1, <2>2 DEF Filed, Logged, Signers
    <2>5. QED
      BY <2>1, <2>2, <2>3, <2>4, IdleShape DEF Working, Doing
  <1>5. CASE PartiallySigned(r)
    <2>1. /\ clerk[r].pc = "sign.partial" /\ Filed /\ ~Sealed /\ \E p \in Parties : Signers = {p}
      BY <1>5 DEF PartiallySigned, Doing, Working
    <2>2. status' = "PARTIALLY_SIGNED" /\ UNCHANGED <<versions, pdf, signed, log>>
      BY <1>5 DEF PartiallySigned, Write
    <2>3. clerk'[r].pc = "sign.log"
      BY <1>0, <1>5, <2>1, After DEF PartiallySigned, Write, VersionPcs, ThisVersionPcs
    <2>4. Filed' /\ ~Sealed' /\ Signers' = Signers
      BY <2>1, <2>2 DEF Filed, Logged, Signers, Sealed
    <2>5. Rest'
      BY <2>1, <2>2, <2>4 DEF Rest, Told
    <2>6. QED
      BY <2>3, <2>5, IdleShape DEF Working, Doing
  <1>6. CASE LogSigned(r)
    <2>1. Rest /\ Record("SIGNED", Version(r)) /\ clerk'[r].pc = "idle"
      BY <1>0, <1>6, After DEF LogSigned, Doing, Working
    <2>2. Rest'
      BY <2>1, LogKept
    <2>3. QED
      BY <2>1, <2>2 DEF Working, Doing
  <1>7. CASE LogExecuted(r)
    <2>1. Filed /\ status = "EXECUTED" /\ Signers = Parties /\ Version(r) = versions
      BY <1>7 DEF LogExecuted, Doing, Working
    <2>2. log' = log \cup {<<"FULLY_EXECUTED", versions>>} /\ UNCHANGED <<status, versions, pdf, signed>>
      BY <1>7, <2>1 DEF LogExecuted, Record
    <2>3. Filed' /\ Sealed' /\ Signers' = Parties
      BY <2>1, <2>2 DEF Filed, Logged, Sealed, Signers
    <2>4. Rest'
      BY <2>1, <2>2, <2>3 DEF Rest, Told
    <2>5. clerk'[r].pc = "idle"
      BY <1>0, <1>7, After DEF LogExecuted
    <2>6. QED
      BY <2>4, <2>5 DEF Working, Doing
  <1>8. QED
    BY <1>1, <1>2, <1>3, <1>4, <1>5, <1>6, <1>7

LEMMA TidyStep ==
  ASSUME TypeInv, SoloInv, TidyInv, [ContractNext]_contractVars
  PROVE  TidyInv'
  <1>0. ContractTypeOK /\ deaths \in Nat
    BY ContractConstants, RowsKept DEF TypeInv
  <1> SUFFICES ASSUME ~mixed', deaths' = 0
               PROVE  /\ Busy' = {} => Rest'
                      /\ \A s \in Clerks : Working(s)'
    BY DEF TidyInv
  <1>1. ASSUME NEW s, clerk'[s] = Free PROVE Working(s)'
    BY <1>1, IdleShape DEF Working, Doing
  <1>2. CASE UNCHANGED contractVars
    <2>1. UNCHANGED contractRows /\ clerk' = clerk /\ mixed' = mixed /\ deaths' = deaths
      BY <1>2 DEF contractVars, contractHistory
    <2>2. Rest' <=> Rest
      BY <2>1, RestKept
    <2>3. \A s \in Clerks : Working(s)
      BY <2>1 DEF TidyInv
    <2>4. \A s \in Clerks : Working(s)'
      BY <2>1, <2>3 DEF contractRows, Working, Unsigned, Filed, Logged, Signers, Told, Rest, Sealed, Version, Doing
    <2>5. Busy' = Busy
      BY <2>1 DEF Busy
    <2>6. QED
      BY <2>1, <2>2, <2>4, <2>5 DEF TidyInv
  <1>3. ASSUME NEW r \in Clerks,
               \/ CreateBegin(r) \/ VersionBegin(r) \/ SendBegin(r) \/ VoidBegin(r)
               \/ \E p \in Parties : SignBegin(r, p)
        PROVE  /\ Busy' = {} => Rest'
               /\ \A s \in Clerks : Working(s)'
    <2>1. PICK pc \in {"create", "version.latest", "void", "send", "sign.latest"},
               party \in Parties \cup {"either"} : TakeUp(r, pc, party)
      BY <1>3 DEF CreateBegin, VersionBegin, SendBegin, VoidBegin, SignBegin
    <2>2. clerk' = [clerk EXCEPT ![r] = [pc |-> pc, party |-> party]] /\ UNCHANGED contractRows /\ deaths' = deaths
      BY <2>1 DEF TakeUp
    <2>3. clerk'[r] = [pc |-> pc, party |-> party] /\ \A s \in Clerks \ {r} : clerk'[s] = clerk[s]
      BY <1>0, <2>2 DEF ContractTypeOK
    <2>4. Busy = {} /\ ~mixed
      BY <2>1 DEF TakeUp
    <2>5. Rest'
      BY <2>2, <2>4, RestKept DEF TidyInv
    <2>6. clerk'[r].pc = pc
      BY <2>3
    <2>7. Working(r)'
      BY <2>5, <2>6 DEF Working, Doing
    <2>8. \A s \in Clerks \ {r} : clerk'[s] = Free
      BY <2>3, <2>4 DEF Busy
    <2>9. QED
      BY <1>1, <2>5, <2>7, <2>8
  <1>4. ASSUME NEW r \in Clerks, Step(r)
        PROVE  /\ Busy' = {} => Rest'
               /\ \A s \in Clerks : Working(s)'
    <2>1. /\ r \in Busy /\ \A s \in Clerks \ {r} : clerk'[s] = clerk[s]
          /\ ~mixed
      BY <1>0, <1>4, OwnStep
    <2>2. deaths = 0 /\ ~ClerkDies(r)
      <3>1. ClerkDies(r) => deaths' = deaths + 1
        BY DEF ClerkDies
      <3>2. ~ClerkDies(r)
        BY <1>0, <3>1
      <3>3. deaths' = deaths
        BY <1>4, <3>2 DEF Step, CreateRow, LogCreated, VersionLatest, VersionCreate, AttachPdf, VersionReset,
              LogVersion, SendWrite, LogSent, VoidWrite, LogVoided, SignLatest, SignCreate, SignCount,
              Execute, PartiallySigned, LogSigned, LogExecuted, Write, Leave, Proceed, Have, contractHistory
      <3>4. QED
        BY <3>2, <3>3
    <2>3. StatusRead(r) /\ Working(r)
      BY <2>1, <2>2 DEF SoloInv, TidyInv
    <2>4. Working(r)' /\ (clerk'[r] = Free => Rest')
      BY <1>4, <2>2, <2>3, CreationWorks, SendingWorks, SigningWorks DEF Step
    <2>5. \A s \in Clerks \ {r} : clerk'[s] = Free
      BY <2>1 DEF SoloInv, Busy
    <2>6. Busy' = {} => clerk'[r] = Free
      BY DEF Busy
    <2>7. QED
      BY <1>1, <2>4, <2>5, <2>6
  <1>5. QED
    BY <1>2, <1>3, <1>4 DEF ContractNext

LEMMA TidyInit == ContractInit => TidyInv
  <1> SUFFICES ASSUME ContractInit PROVE TidyInv
    OBVIOUS
  <1>1. Rest
    BY DEF ContractInit, Rest, Told, Filed, Sealed, Signers, Logged
  <1>2. \A r \in Clerks : clerk[r] = Free
    BY DEF ContractInit
  <1>3. QED
    BY <1>1, <1>2, IdleShape DEF TidyInv, Working, Doing

LEMMA Counting ==
  /\ Signers = Parties => Signatures(versions) = 2
  /\ Signers = {} => Signatures(versions) = 0
  /\ \A p \in Parties : Signers = {p} => Signatures(versions) = 1
  <1>1. Signatures(versions) = Cardinality(Signers)
    BY DEF Signatures, Signers
  <1>2. Cardinality({}) = 0 /\ \A p \in Parties : Cardinality({p}) = 1
    BY FS_EmptySet, FS_Singleton
  <1>3. Cardinality(Parties) = 2
    <2>1. Parties = {"BRAND"} \cup {"CREATOR"} /\ "CREATOR" \notin {"BRAND"}
      BY DEF Parties
    <2>2. IsFiniteSet({"BRAND"}) /\ Cardinality({"BRAND"}) = 1
      BY FS_Singleton
    <2>3. QED
      BY <2>1, <2>2, FS_AddElement
  <1>4. QED
    BY <1>1, <1>2, <1>3

(* An EXECUTED contract has a version both parties signed, whatever        *)
(* overlaps or dies: SignaturesService counts the signatures of one        *)
(* version.  And when handlers came one after the other and none died, the *)
(* status tells how many signed the latest version, every version has its  *)
(* PDF and its entry, and the log says whether it was executed.            *)
THEOREM StatusTrue == ContractSpec => []StatusTellsSignatures
  <1>1. TypeInv /\ TidyInv => StatusTellsSignatures
    <2> SUFFICES ASSUME TypeInv, TidyInv
                 PROVE  StatusTellsSignatures
      OBVIOUS
    <2>1. status = "EXECUTED" => \E v \in Versions : BothSigned(v)
      BY DEF TypeInv
    <2>2. ASSUME Busy = {}, ~mixed, deaths = 0, status # "none"
          PROVE  /\ status = "EXECUTED" => Signatures(versions) = 2
                 /\ status = "PARTIALLY_SIGNED" => Signatures(versions) = 1
                 /\ status \in {"DRAFT", "AWAITING_SIGNATURE"} => Signatures(versions) = 0
                 /\ pdf = 1..versions /\ \A v \in 1..versions : <<"VERSION_CREATED", v>> \in log
                 /\ <<"FULLY_EXECUTED", versions>> \in log <=> status = "EXECUTED"
      <3>1. Rest
        BY <2>2 DEF TidyInv
      <3>2. QED
        BY <3>1, Counting DEF Rest, Told, Filed, Logged, Sealed
    <2>3. QED
      BY <2>1, <2>2 DEF StatusTellsSignatures
  <1>2. TypeInv /\ SoloInv /\ TidyInv /\ [ContractNext]_contractVars => TidyInv'
    BY TidyStep
  <1>3. QED
    BY <1>1, <1>2, TidyInit, Invariants, PTL DEF ContractSpec

---------------------------------------------------------------------------
(* The types of the two together, from those of each.                      *)
THEOREM AgreementTypes == AgreementsSpec => []TypesOK
<1>1. TypeOK /\ ContractTypeOK => TypesOK
  BY DEF TypesOK
<1> QED BY <1>1, DealsTypes, ContractTypeCorrect, PTL DEF AgreementsSpec
=============================================================================
