---------------------------- MODULE PayoutsProofs ----------------------------
(***************************************************************************)
(* Payouts for every value of its constants: its types, that Stripe never  *)
(* holds more of the recipient's payouts than was earned, and that the     *)
(* books agree with the payouts.  The inductive invariant has three parts: *)
(* what holds of each payout and of whoever works on it (Sound), what the  *)
(* sums a withdrawal has read still tell (MoneyInv), and what the books    *)
(* owe a payout nothing went wrong with (Books).                           *)
(***************************************************************************)
EXTENDS Payouts, Sums

PayPcs  == {"stripe", "update", "book", "fail"}
HookPcs == {"hook.read", "hook.write", "hook.return", "hook.record"}

Making(r, p)        == request[r].pc \in PayPcs /\ request[r].payout = p
MakingAt(r, p, pc)  == request[r].pc = pc /\ request[r].payout = p
Heeding(r, e)       == request[r].pc \in HookPcs /\ request[r].event = e
HeedingAt(r, e, pc) == request[r].pc = pc /\ request[r].event = e

Linked(p) == payout[p] \in Row /\ payout[p].linked
Made(p)   == \E r \in Requests : Making(r, p)
Owed(p)   == \E r \in Requests, s \in Returns : HeedingAt(r, <<p, s>>, "hook.return")

(* A payout Stripe knows has a row; Stripe tells nothing of a payout it    *)
(* did not settle; and what it returned it settles no more.                *)
RowSound(p) ==
  /\ payout[p] = Nothing => bank[p] = "none" /\ ~Made(p)
  /\ Linked(p) => bank[p] # "none"
  /\ bank[p] \in {"none", "created"} => \A s \in Outcomes : <<p, s>> \notin emitted
  /\ \A s \in Returns : <<p, s>> \in emitted => bank[p] = s

(* One handler makes a payout, and until stripePayoutId is saved nobody    *)
(* else changes its row.                                                   *)
MakersSound(p) ==
  \A r \in Requests :
    /\ \A s \in Requests : Making(r, p) /\ Making(s, p) => r = s
    /\ MakingAt(r, p, "stripe") => bank[p] = "none"
    /\ MakingAt(r, p, "stripe") \/ MakingAt(r, p, "update") => ~Linked(p)
    /\ MakingAt(r, p, "update") \/ MakingAt(r, p, "book") => bank[p] # "none"
    /\ Making(r, p) /\ ~Linked(p) => payout[p].status = "PENDING"

(* An event in hand was sent, and the payout it moves has stripePayoutId.  *)
HeedersSound(p) ==
  \A r \in Requests, s \in Outcomes :
    /\ Heeding(r, <<p, s>>) => <<p, s>> \in emitted
    /\ HeedingAt(r, <<p, s>>, "hook.write") \/ HeedingAt(r, <<p, s>>, "hook.return") => Linked(p)
    /\ HeedingAt(r, <<p, s>>, "hook.return") => s # "PAID"

(* What Stripe holds is live here, unless it was marked FAILED by mistake. *)
Judged(p) == p \notin misjudged /\ bank[p] \in {"created", "PAID"} => payout[p].status \in Live

Handled(p, s) ==
  <<p, s>> \in recorded \/ \E r \in Requests : HeedingAt(r, <<p, s>>, "hook.record")

(* The books of a payout nothing went wrong with: what its handlers still  *)
(* have to book makes up the difference; the handler of an event holds its *)
(* lock; and the last event handled has left its status.                   *)
Balanced(p) ==
  booked[p] = (IF payout[p].status \in Live THEN -1 ELSE 0)
              + (IF Made(p) THEN 1 ELSE 0) - (IF Owed(p) THEN 1 ELSE 0)
Settled(p) ==
  payout[p] # Nothing /\ payout[p].status \notin Live
    => payout[p].status = bank[p] \/ (bank[p] = "none" /\ ~Made(p))
Locked(p) ==
  \A r \in Requests, s \in Outcomes :
    Heeding(r, <<p, s>>) => lock[<<p, s>>] = r /\ <<p, s>> \notin recorded
Returnable(p) ==
  \A r \in Requests, s \in Returns :
    HeedingAt(r, <<p, s>>, "hook.write") => payout[p].status \in Live
LastWord(p) ==
  \A s \in Outcomes :
    /\ Handled(p, s) => Linked(p)
    /\ bank[p] = s /\ (Handled(p, s) \/ (Owed(p) /\ s \in Returns)) => payout[p].status = s

Books(p) == p \notin upset \cup misjudged =>
  Balanced(p) /\ Settled(p) /\ Locked(p) /\ Returnable(p) /\ LastWord(p)

Sound(p) == RowSound(p) /\ MakersSound(p) /\ HeedersSound(p) /\ Judged(p) /\ Books(p)
TypeInv  == TypeOK /\ \A p \in Payouts : Sound(p)

---------------------------------------------------------------------------
(* What a slot holds, and what a step makes of it.                         *)
LEMMA Kinds ==
  ASSUME TypeOK, NEW r \in Requests
  PROVE  /\ request[r].pc = "idle" <=> request[r] = Idle
         /\ request[r].pc = "balance" <=> request[r] \in Weighing
         /\ request[r].pc \in PayPcs <=> request[r] \in Paying
         /\ request[r].pc \in HookPcs <=> request[r] \in Hooking
         /\ request[r].pc \in {"idle", "balance"} \cup PayPcs \cup HookPcs
  BY DEF TypeOK, Idle, Weighing, Paying, Hooking, PayPcs, HookPcs

Slots == [Requests -> {Idle} \cup Weighing \cup Paying \cup Hooking]

LEMMA SlotWrite ==
  ASSUME TypeOK, NEW r \in Requests, NEW q \in {Idle} \cup Weighing \cup Paying \cup Hooking,
         request' = [request EXCEPT ![r] = q]
  PROVE  request' \in Slots /\ request'[r] = q /\ \A s \in Requests \ {r} : request'[s] = request[s]
  BY DEF TypeOK, Slots

LEMMA SlotFreed ==
  ASSUME TypeOK, NEW r \in Requests, Finish(r)
  PROVE  /\ request' \in Slots /\ request'[r] = Idle /\ request'[r].pc = "idle"
         /\ \A s \in Requests \ {r} : request'[s] = request[s]
  <1>1. Idle.pc = "idle"
    BY DEF Idle
  <1>2. QED
    BY <1>1, SlotWrite DEF Finish

LEMMA GotoPay ==
  ASSUME TypeOK, NEW r \in Requests, request[r].pc \in PayPcs, NEW pc \in PayPcs, Goto(r, pc)
  PROVE  /\ request' \in Slots /\ request'[r] \in Paying /\ request'[r].pc = pc
         /\ request'[r].payout = request[r].payout /\ request[r].payout \in Payouts
         /\ \A s \in Requests \ {r} : request'[s] = request[s]
  <1> DEFINE q == [pc |-> pc, payout |-> request[r].payout]
  <1>1. request[r] \in Paying
    BY Kinds
  <1>2. q = [request[r] EXCEPT !.pc = pc] /\ q \in Paying /\ q.pc = pc
        /\ q.payout = request[r].payout /\ request[r].payout \in Payouts
    BY <1>1 DEF Paying, PayPcs
  <1>3. request' = [request EXCEPT ![r] = q]
    BY <1>2 DEF Goto
  <1> HIDE DEF q
  <1>4. QED
    BY <1>2, <1>3, SlotWrite

LEMMA GotoHeed ==
  ASSUME TypeOK, NEW r \in Requests, request[r].pc \in HookPcs, NEW pc \in HookPcs, Goto(r, pc)
  PROVE  /\ request' \in Slots /\ request'[r] \in Hooking /\ request'[r].pc = pc
         /\ request'[r].event = request[r].event
         /\ \A s \in Requests \ {r} : request'[s] = request[s]
  <1> DEFINE q == [pc |-> pc, event |-> request[r].event]
  <1>1. request[r] \in Hooking
    BY Kinds
  <1>2. q = [request[r] EXCEPT !.pc = pc] /\ q \in Hooking /\ q.pc = pc
        /\ q.event = request[r].event
    BY <1>1 DEF Hooking, HookPcs
  <1>3. request' = [request EXCEPT ![r] = q]
    BY <1>2 DEF Goto
  <1> HIDE DEF q
  <1>4. QED
    BY <1>2, <1>3, SlotWrite

(* An event is of a payout and tells an outcome.                           *)
LEMMA EventParts ==
  /\ \A e \in Events : Of(e) \in Payouts /\ e[2] \in Outcomes /\ e = <<Of(e), e[2]>>
  /\ \A p \in Payouts, s \in Outcomes :
       <<p, s>> \in Events /\ Of(<<p, s>>) = p /\ <<p, s>>[2] = s
  BY DEF Events, Of

LEMMA HookEvent ==
  ASSUME TypeOK, NEW r \in Requests, request[r].pc \in HookPcs
  PROVE  /\ request[r].event \in Events /\ Of(request[r].event) \in Payouts
         /\ request[r].event[2] \in Outcomes
         /\ request[r].event = <<Of(request[r].event), request[r].event[2]>>
  <1>1. request[r].event \in Events
    BY Kinds DEF Hooking
  <1>2. QED
    BY <1>1, EventParts

LEMMA Words == /\ Outcomes \subseteq Statuses /\ Returns \subseteq Outcomes
               /\ \A s \in Outcomes : s \in Returns \/ s = "PAID"
               /\ \A s \in Returns : s \notin Live /\ s \notin {"PAID", "none", "created"}
               /\ "none" \notin Outcomes \cup Statuses /\ "created" \notin Outcomes \cup Statuses
  BY PayoutConstants DEF Outcomes, Statuses, Live

Rows == [Payouts -> {Nothing} \cup Row]

LEMMA StatusWrite ==
  ASSUME TypeOK, NEW p \in Payouts, payout[p] \in Row, NEW s \in Statuses,
         payout' = [payout EXCEPT ![p].status = s]
  PROVE  /\ payout' \in Rows /\ payout'[p] \in Row /\ payout'[p].status = s
         /\ payout'[p].amount = payout[p].amount /\ payout'[p].linked = payout[p].linked
         /\ \A q \in Payouts \ {p} : payout'[q] = payout[q]
  <1> DEFINE v == [payout[p] EXCEPT !.status = s]
  <1>1. v \in Row /\ v.status = s /\ v.amount = payout[p].amount /\ v.linked = payout[p].linked
    BY DEF Row
  <1>2. payout' = [payout EXCEPT ![p] = v]
    OBVIOUS
  <1> HIDE DEF v
  <1>3. payout \in Rows
    BY DEF TypeOK, Rows
  <1>4. payout'[p] = v /\ \A q \in Payouts \ {p} : payout'[q] = payout[q]
    BY <1>2, <1>3 DEF Rows
  <1>5. payout' \in Rows
    BY <1>1, <1>2, <1>3 DEF Rows
  <1>6. QED
    BY <1>1, <1>4, <1>5

LEMMA StatusSet ==
  ASSUME TypeOK, NEW p \in Payouts, payout[p] \in Row, NEW s \in Statuses, SetStatus(p, s)
  PROVE  payout'[p].status = s /\ \A q \in Payouts \ {p} : payout'[q] = payout[q]
  BY StatusWrite DEF SetStatus

LEMMA LinkWrite ==
  ASSUME TypeOK, NEW p \in Payouts, payout[p] \in Row,
         payout' = [payout EXCEPT ![p].status = MapStripeStatus("pending"), ![p].linked = TRUE]
  PROVE  /\ payout' \in Rows /\ payout'[p] \in Row /\ payout'[p].status = "PENDING"
         /\ payout'[p].amount = payout[p].amount /\ payout'[p].linked
         /\ \A q \in Payouts \ {p} : payout'[q] = payout[q]
  <1> DEFINE v == [payout[p] EXCEPT !.status = "PENDING", !.linked = TRUE]
  <1>0. MapStripeStatus("pending") = "PENDING"
    BY DEF MapStripeStatus
  <1>1. v \in Row /\ v.status = "PENDING" /\ v.amount = payout[p].amount /\ v.linked
    BY DEF Row, Statuses, Live
  <1>2. payout' = [payout EXCEPT ![p] = v]
    BY <1>0 DEF TypeOK
  <1> HIDE DEF v
  <1>3. payout \in Rows
    BY DEF TypeOK, Rows
  <1>4. payout'[p] = v /\ \A q \in Payouts \ {p} : payout'[q] = payout[q]
    BY <1>2, <1>3 DEF Rows
  <1>5. payout' \in Rows
    BY <1>1, <1>2, <1>3 DEF Rows
  <1>6. QED
    BY <1>1, <1>4, <1>5

---------------------------------------------------------------------------
(* The sums of amounts.                                                    *)
LEMMA AmountIs == ASSUME NEW S PROVE Amount(S) = Total(payout, S)
  BY DEF Amount, Total

LEMMA AmountWillBe == ASSUME NEW S PROVE Amount(S)' = Total(payout', S')
  BY DEF Amount, Total, MapThenSumSet, MapThenFoldSet

LEMMA HavingNat ==
  ASSUME TypeOK, NEW S, S \subseteq Statuses
  PROVE  /\ IsFiniteSet(Having(S)) /\ \A p \in Having(S) : payout[p] \in Row /\ payout[p].amount \in Nat
         /\ Amount(Having(S)) \in Nat
  <1>1. IsFiniteSet(Having(S))
    BY PayoutConstants, FS_Subset DEF Having
  <1>2. \A p \in Having(S) : payout[p] \in Row
    BY Words DEF Having, TypeOK, Nothing
  <1>3. \A p \in Having(S) : payout[p].amount \in Nat
    BY <1>2, PayoutConstants DEF Row
  <1>4. QED
    BY <1>1, <1>2, <1>3, AmountIs, TotalNat

---------------------------------------------------------------------------
(* A step that does not concern a payout keeps what holds of it.           *)
Off(q, p) == (q.pc \in PayPcs => q.payout # p) /\ (q.pc \in HookPcs => Of(q.event) # p)
Apart(p)  == \A r \in Requests : request'[r] = request[r] \/ (Off(request[r], p) /\ Off(request'[r], p))

Frame(p) ==
  /\ payout'[p] = payout[p] /\ bank'[p] = bank[p] /\ booked'[p] = booked[p]
  /\ (p \in misjudged => p \in misjudged') /\ (p \in upset => p \in upset')
  /\ \A s \in Outcomes :
       /\ <<p, s>> \in emitted' <=> <<p, s>> \in emitted
       /\ <<p, s>> \in recorded' <=> <<p, s>> \in recorded
       /\ \A r \in Requests :
            Heeding(r, <<p, s>>) /\ lock[<<p, s>>] = r => lock'[<<p, s>>] = r
  /\ Apart(p)

LEMMA SameHands ==
  ASSUME NEW p \in Payouts, Apart(p)
  PROVE  /\ \A r \in Requests :
              /\ Making(r, p)' <=> Making(r, p)
              /\ \A pc \in PayPcs : MakingAt(r, p, pc)' <=> MakingAt(r, p, pc)
              /\ \A s \in Outcomes :
                   /\ Heeding(r, <<p, s>>)' <=> Heeding(r, <<p, s>>)
                   /\ \A pc \in HookPcs : HeedingAt(r, <<p, s>>, pc)' <=> HeedingAt(r, <<p, s>>, pc)
         /\ Made(p)' <=> Made(p)
         /\ Owed(p)' <=> Owed(p)
  <1>1. ASSUME NEW r \in Requests
        PROVE  /\ Making(r, p)' <=> Making(r, p)
               /\ \A pc \in PayPcs : MakingAt(r, p, pc)' <=> MakingAt(r, p, pc)
    BY DEF Apart, Off, Making, MakingAt
  <1>2. ASSUME NEW r \in Requests, NEW s \in Outcomes
        PROVE  /\ Heeding(r, <<p, s>>)' <=> Heeding(r, <<p, s>>)
               /\ \A pc \in HookPcs : HeedingAt(r, <<p, s>>, pc)' <=> HeedingAt(r, <<p, s>>, pc)
    <2>1. Of(<<p, s>>) = p
      BY EventParts
    <2>2. request'[r] = request[r] \/ (Off(request[r], p) /\ Off(request'[r], p))
      BY DEF Apart
    <2>3. CASE request'[r] = request[r]
      BY <2>3 DEF Heeding, HeedingAt
    <2>4. CASE Off(request[r], p) /\ Off(request'[r], p)
      BY <2>1, <2>4 DEF Off, Heeding, HeedingAt
    <2>5. QED
      BY <2>2, <2>3, <2>4
  <1>3. Owed(p)' <=> Owed(p)
    BY <1>2, Words DEF Owed, HookPcs
  <1>4. Made(p)' <=> Made(p)
    BY <1>1 DEF Made
  <1>5. QED
    BY <1>1, <1>2, <1>3, <1>4

LEMMA FrameKeeps ==
  ASSUME NEW p \in Payouts, Sound(p), Frame(p)
  PROVE  Sound(p)'
  <1>1. Apart(p) /\ (Linked(p)' <=> Linked(p))
    BY DEF Frame, Linked
  <1>2. /\ payout'[p] = payout[p] /\ bank'[p] = bank[p] /\ booked'[p] = booked[p]
        /\ (Made(p)' <=> Made(p)) /\ (Owed(p)' <=> Owed(p))
        /\ \A s \in Outcomes : /\ <<p, s>> \in emitted' <=> <<p, s>> \in emitted
                               /\ <<p, s>> \in recorded' <=> <<p, s>> \in recorded
    BY <1>1, SameHands DEF Frame
  <1>3. RowSound(p)'
    BY <1>1, <1>2, Words DEF Sound, RowSound
  <1>4. MakersSound(p)'
    BY <1>1, <1>2, SameHands DEF Sound, MakersSound, PayPcs
  <1>5. HeedersSound(p)'
    BY <1>1, <1>2, SameHands DEF Sound, HeedersSound, HookPcs
  <1>6. Judged(p)'
    BY <1>2 DEF Sound, Judged, Frame
  <1>7. Books(p)'
    <2>1. SUFFICES ASSUME p \notin (upset \cup misjudged)'
                   PROVE  (Balanced(p) /\ Settled(p) /\ Locked(p) /\ Returnable(p) /\ LastWord(p))'
      BY DEF Books
    <2>2. Balanced(p) /\ Settled(p) /\ Locked(p) /\ Returnable(p) /\ LastWord(p)
      BY <2>1 DEF Sound, Books, Frame
    <2>3. Balanced(p)' /\ Settled(p)'
      BY <1>2, <2>2 DEF Balanced, Settled
    <2>4. Locked(p)'
      BY <1>1, <1>2, <2>2, SameHands DEF Locked, Frame
    <2>5. Returnable(p)'
      BY <1>1, <1>2, <2>2, SameHands, Words DEF Returnable, HookPcs
    <2>6. \A s \in Outcomes : Handled(p, s)' <=> Handled(p, s)
      BY <1>1, <1>2, SameHands DEF Handled, HookPcs
    <2>7. LastWord(p)'
      BY <1>1, <1>2, <2>2, <2>6 DEF LastWord
    <2>8. QED
      BY <2>3, <2>4, <2>5, <2>7
  <1>8. QED
    BY <1>3, <1>4, <1>5, <1>6, <1>7 DEF Sound

LEMMA OthersKept ==
  ASSUME TypeInv, TypeOK', NEW p \in Payouts, Sound(p)', \A q \in Payouts \ {p} : Frame(q)
  PROVE  TypeInv'
  BY FrameKeeps DEF TypeInv

(* The handler of a slot turns to a payout: the others keep theirs.        *)
LEMMA SlotApart ==
  ASSUME NEW r \in Requests, \A s \in Requests \ {r} : request'[s] = request[s],
         NEW p, Off(request[r], p), Off(request'[r], p)
  PROVE  Apart(p)
  BY DEF Apart

---------------------------------------------------------------------------
LEMMA PayoutInit == Init => TypeInv
  <1>1. SUFFICES ASSUME Init PROVE TypeInv
    OBVIOUS
  <1>2. TypeOK
    <2>1. /\ earned \in 0..MaxEarned /\ faults \in 0..MaxFaults
          /\ booked \in [Payouts -> Int] /\ lock \in [Events -> Requests \cup {"free"}]
      BY <1>1, PayoutConstants DEF Init
    <2>2. /\ payout \in [Payouts -> {Nothing} \cup Row]
          /\ bank \in [Payouts -> {"none", "created"} \cup Outcomes]
      BY <1>1 DEF Init
    <2>3. request \in [Requests -> {Idle} \cup Weighing \cup Paying \cup Hooking]
      BY <1>1 DEF Init
    <2>4. QED
      BY <1>1, <2>1, <2>2, <2>3 DEF Init, TypeOK
  <1>3. ASSUME NEW p \in Payouts PROVE Sound(p)
    <2>1. /\ payout[p] = Nothing /\ bank[p] = "none" /\ booked[p] = 0
          /\ \A s \in Outcomes : <<p, s>> \notin emitted /\ <<p, s>> \notin recorded
      BY <1>1 DEF Init
    <2>2. \A r \in Requests : request[r].pc = "idle"
      BY <1>1 DEF Init, Idle
    <2>3. /\ ~Made(p) /\ ~Owed(p) /\ ~Linked(p)
          /\ \A s \in Outcomes : ~Handled(p, s)
      BY <2>1, <2>2 DEF Made, Making, PayPcs, Owed, HeedingAt, Handled, Linked, Nothing, Row
    <2>4. payout[p].status = "none"
      BY <2>1 DEF Nothing
    <2>5. RowSound(p) /\ MakersSound(p) /\ HeedersSound(p) /\ Judged(p)
      BY <2>1, <2>2, <2>3, Words
         DEF RowSound, MakersSound, HeedersSound, Judged, Making, MakingAt, Heeding, HeedingAt, PayPcs, HookPcs
    <2>6. Books(p)
      BY <2>1, <2>2, <2>3, <2>4, Words
         DEF Books, Balanced, Settled, Locked, Returnable, LastWord, Heeding, HeedingAt, HookPcs, Live
    <2>7. QED
      BY <2>5, <2>6 DEF Sound
  <1>4. QED
    BY <1>2, <1>3 DEF TypeInv

(* Steps that concern no payout.                                           *)
LEMMA QuietSound ==
  ASSUME TypeInv, TypeOK', UNCHANGED <<bank, payout, booked, emitted, recorded, lock, misjudged, upset>>,
         \A p \in Payouts : Apart(p)
  PROVE  TypeInv'
  <1>1. \A p \in Payouts : Frame(p)
    BY DEF Frame
  <1>2. QED
    BY <1>1, FrameKeeps DEF TypeInv

LEMMA AccountStep ==
  ASSUME TypeInv, Earn \/ Onboard \/ \E s \in Accounts : SyncFromStripeAccount(s)
  PROVE  TypeInv'
  <1>1. UNCHANGED <<bank, emitted, books, hook, request, history>>
    BY DEF Earn, Onboard, SyncFromStripeAccount, money
  <1>2. earned' \in 0..MaxEarned /\ connected' \in Accounts \cup {"none"}
    BY PayoutConstants DEF TypeInv, TypeOK, Earn, Onboard, SyncFromStripeAccount, money, Accounts
  <1>3. TypeOK'
    BY <1>1, <1>2 DEF TypeInv, TypeOK, books, hook, history
  <1>4. QED
    BY <1>1, <1>3, QuietSound DEF books, hook, history, Apart

Balancing(r) == WithdrawBegin(r) \/ SumPending(r) \/ SumPaid(r) \/ Refused(r)

LEMMA BalanceStep ==
  ASSUME TypeInv, NEW r \in Requests, Balancing(r)
  PROVE  TypeInv'
  <1>0. TypeOK
    BY DEF TypeInv
  <1>1. /\ UNCHANGED <<connected, money, books, hook, misjudged, upset, faults>>
        /\ overlapped' \in BOOLEAN
    BY <1>0 DEF Balancing, WithdrawBegin, SumPending, SumPaid, Refused, history, TypeOK
  <1>2. request[r].pc \in {"idle", "balance"}
    BY DEF Balancing, WithdrawBegin, SumPending, SumPaid, Refused, Start, At, Idle
  <1>3. /\ request' \in Slots /\ request'[r].pc \in {"idle", "balance"}
        /\ \A s \in Requests \ {r} : request'[s] = request[s]
    <2>1. CASE WithdrawBegin(r)
      <3>1. [pc |-> "balance", pending |-> -1, paid |-> -1] \in Weighing
        BY DEF Weighing, Sum
      <3>2. [pc |-> "balance", pending |-> -1, paid |-> -1].pc = "balance"
        OBVIOUS
      <3>3. QED
        BY <1>0, <2>1, <3>1, <3>2, SlotWrite DEF WithdrawBegin, Start
    <2>2. CASE SumPending(r)
      <3> DEFINE q == [request[r] EXCEPT !.pending = Amount(Having({"PENDING"}))]
      <3>0. request[r] \in Weighing /\ Amount(Having({"PENDING"})) \in Nat
        BY <1>0, <2>2, Kinds, HavingNat DEF SumPending, At, Statuses, Live
      <3>1. q \in Weighing
        BY <3>0 DEF Weighing, Sum
      <3>2. request' = [request EXCEPT ![r] = q]
        BY <2>2 DEF SumPending
      <3> HIDE DEF q
      <3>3. QED
        BY <1>0, <3>1, <3>2, SlotWrite DEF Weighing
    <2>3. CASE SumPaid(r)
      <3> DEFINE q == [request[r] EXCEPT !.paid = Amount(Having({"PAID"}))]
      <3>0. request[r] \in Weighing /\ Amount(Having({"PAID"})) \in Nat
        BY <1>0, <2>3, Kinds, HavingNat DEF SumPaid, At, Statuses, Live
      <3>1. q \in Weighing
        BY <3>0 DEF Weighing, Sum
      <3>2. request' = [request EXCEPT ![r] = q]
        BY <2>3 DEF SumPaid
      <3> HIDE DEF q
      <3>3. QED
        BY <1>0, <3>1, <3>2, SlotWrite DEF Weighing
    <2>4. CASE Refused(r)
      BY <1>0, <2>4, SlotFreed DEF Refused
    <2>5. QED
      BY <2>1, <2>2, <2>3, <2>4 DEF Balancing
  <1>4. TypeOK'
    BY <1>0, <1>1, <1>3 DEF TypeOK, Slots, money, books, hook
  <1>5. \A p \in Payouts : Apart(p)
    BY <1>2, <1>3, SlotApart DEF Off, PayPcs, HookPcs
  <1>6. QED
    BY <1>1, <1>4, <1>5, QuietSound DEF money, books, hook

---------------------------------------------------------------------------
(* A step of one slot leaves the hands of the others alone.                *)
LEMMA HeedersApart ==
  ASSUME NEW r \in Requests, \A s \in Requests \ {r} : request'[s] = request[s],
         request[r].pc \notin HookPcs, request'[r].pc \notin HookPcs, NEW p
  PROVE  /\ \A t \in Requests, s \in Outcomes :
              /\ Heeding(t, <<p, s>>)' <=> Heeding(t, <<p, s>>)
              /\ \A pc \in HookPcs : HeedingAt(t, <<p, s>>, pc)' <=> HeedingAt(t, <<p, s>>, pc)
         /\ Owed(p)' <=> Owed(p)
  <1>1. ASSUME NEW t \in Requests, NEW e
        PROVE  /\ Heeding(t, e)' <=> Heeding(t, e)
               /\ \A pc \in HookPcs : HeedingAt(t, e, pc)' <=> HeedingAt(t, e, pc)
    BY DEF Heeding, HeedingAt
  <1>2. QED
    BY <1>1 DEF Owed, HookPcs

LEMMA MakersApart ==
  ASSUME NEW r \in Requests, \A s \in Requests \ {r} : request'[s] = request[s],
         request[r].pc \notin PayPcs, request'[r].pc \notin PayPcs, NEW p
  PROVE  /\ \A t \in Requests :
              /\ Making(t, p)' <=> Making(t, p)
              /\ \A pc \in PayPcs : MakingAt(t, p, pc)' <=> MakingAt(t, p, pc)
         /\ Made(p)' <=> Made(p)
  <1>1. ASSUME NEW t \in Requests
        PROVE  /\ Making(t, p)' <=> Making(t, p)
               /\ \A pc \in PayPcs : MakingAt(t, p, pc)' <=> MakingAt(t, p, pc)
    BY DEF Making, MakingAt
  <1>2. QED
    BY <1>1 DEF Made

(* What is known of a payout when its maker takes a step.                  *)
LEMMA MakerKnows ==
  ASSUME TypeInv, NEW r \in Requests, request[r].pc \in PayPcs
  PROVE  \E p \in Payouts :
         /\ p = request[r].payout /\ payout[p] \in Row /\ Sound(p) /\ Making(r, p) /\ Made(p)
         /\ \A s \in Requests : Making(s, p) => s = r
         /\ \A s \in Outcomes : <<p, s>> \notin emitted => ~Handled(p, s)
         /\ Owed(p) => Linked(p)
  <1> DEFINE p == request[r].payout
  <1>1. p \in Payouts /\ Sound(p) /\ Making(r, p) /\ Made(p)
    BY Kinds DEF TypeInv, Paying, Making, Made
  <1>2. payout[p] \in Row
    BY <1>1 DEF TypeInv, TypeOK, Sound, RowSound
  <1>3. \A s \in Requests : Making(s, p) => s = r
    BY <1>1 DEF Sound, MakersSound
  <1>4. ASSUME NEW s \in Outcomes, <<p, s>> \notin emitted PROVE ~Handled(p, s)
    BY <1>1, <1>4 DEF Handled, TypeInv, TypeOK, Sound, HeedersSound, Heeding, HeedingAt, HookPcs
  <1>5. Owed(p) => Linked(p)
    BY <1>1, Words DEF Owed, Sound, HeedersSound
  <1>6. QED
    BY <1>1, <1>2, <1>3, <1>4, <1>5

(* Whoever makes a payout concerns himself with no other.                  *)
LEMMA MakerApart ==
  ASSUME TypeOK, NEW r \in Requests, NEW p,
         request[r].pc \in PayPcs => request[r].payout = p, request[r].pc \notin HookPcs,
         request'[r].pc \in PayPcs => request'[r].payout = p, request'[r].pc \notin HookPcs,
         \A s \in Requests \ {r} : request'[s] = request[s]
  PROVE  \A q \in Payouts \ {p} : Apart(q)
  BY DEF Apart, Off

LEMMA CreateStep ==
  ASSUME TypeInv, NEW r \in Requests, NEW p \in Payouts, NEW a \in 1..MaxEarned, CreatePayout(r, p, a)
  PROVE  TypeInv'
  <1> DEFINE v == [status |-> "PENDING", amount |-> a, linked |-> FALSE]
             q == [pc |-> "stripe", payout |-> p]
  <1>1. /\ TypeOK /\ Sound(p) /\ request[r].pc = "balance" /\ payout[p] = Nothing
        /\ payout' = [payout EXCEPT ![p] = v] /\ request' = [request EXCEPT ![r] = q]
        /\ UNCHANGED <<connected, earned, bank, emitted, booked, recorded, lock, overlapped, misjudged, upset, faults>>
    BY DEF TypeInv, CreatePayout, At, money, hook, history
  <1>2. v \in Row /\ v.status = "PENDING" /\ ~v.linked /\ v # Nothing
    BY DEF Row, Statuses, Live, Nothing
  <1>3. q \in Paying /\ q.pc = "stripe" /\ q.payout = p
    BY DEF Paying
  <1> HIDE DEF v, q
  <1>4. /\ payout'[p] = v /\ payout' \in Rows
        /\ \A t \in Payouts \ {p} : payout'[t] = payout[t]
    BY <1>1, <1>2 DEF TypeOK, Rows
  <1>5. /\ request' \in Slots /\ request'[r] = q /\ request'[r].pc = "stripe" /\ request'[r].payout = p
        /\ \A t \in Requests \ {r} : request'[t] = request[t]
    BY <1>1, <1>3, SlotWrite
  <1>6. TypeOK'
    BY <1>1, <1>4, <1>5 DEF TypeOK, Rows, Slots
  <1>7. ASSUME NEW t \in Payouts \ {p} PROVE Frame(t)
    BY <1>1, <1>4, <1>5, MakerApart DEF Frame, PayPcs, HookPcs
  <1>8. Sound(p)'
    <2>1. bank[p] = "none" /\ ~Made(p) /\ \A s \in Outcomes : <<p, s>> \notin emitted
      BY <1>1 DEF Sound, RowSound
    <2>2. \A t \in Requests, s \in Outcomes : ~Heeding(t, <<p, s>>)'
      BY <1>1, <1>5, <2>1, HeedersApart DEF Sound, HeedersSound, HookPcs
    <2>3. /\ ~Owed(p)' /\ \A s \in Outcomes : ~Handled(p, s)'
      BY <1>1, <2>1, <2>2, Words DEF Owed, Handled, Heeding, HeedingAt, HookPcs, TypeOK
    <2>4. Made(p)' /\ ~Linked(p)'
      BY <1>2, <1>4, <1>5 DEF Made, Making, PayPcs, Linked
    <2>5. \A t \in Requests : Making(t, p)' => t = r
      BY <1>5, <2>1 DEF Making, Made
    <2>6. RowSound(p)' /\ HeedersSound(p)' /\ Judged(p)'
      BY <1>1, <1>2, <1>4, <2>1, <2>2, <2>4, Words
         DEF RowSound, HeedersSound, Judged, Heeding, HeedingAt, HookPcs
    <2>7. MakersSound(p)'
      BY <1>1, <1>2, <1>4, <1>5, <2>1, <2>4, <2>5 DEF MakersSound, Making, MakingAt, PayPcs
    <2>8. ASSUME p \notin upset \cup misjudged PROVE booked[p] = 0
      <3>0. payout[p].status = "none"
        BY <1>1 DEF Nothing
      <3>1. ~Owed(p)
        BY <1>1, <2>1, Words DEF Owed, Sound, HeedersSound, Heeding, HeedingAt, HookPcs
      <3>2. Balanced(p)
        BY <1>1, <2>8 DEF Sound, Books
      <3>3. QED
        BY <2>1, <3>0, <3>1, <3>2 DEF Balanced, Live
    <2>9. Books(p)'
      BY <1>1, <1>2, <1>4, <2>2, <2>3, <2>4, <2>8, Words
         DEF Books, Balanced, Settled, Locked, Returnable, LastWord, Heeding, HeedingAt, HookPcs, Live
    <2>10. QED
      BY <2>6, <2>7, <2>9 DEF Sound
  <1>9. QED
    BY <1>6, <1>7, <1>8, OthersKept

LEMMA AcceptStep ==
  ASSUME TypeInv, NEW r \in Requests, StripeAccepts(r)
  PROVE  TypeInv'
  <1>0. /\ TypeOK /\ request[r].pc = "stripe" /\ request[r].pc \in PayPcs
        /\ bank' = [bank EXCEPT ![request[r].payout] = "created"]
        /\ UNCHANGED <<connected, earned, payout, emitted, booked, recorded, lock, overlapped, misjudged, upset>>
        /\ faults' \in 0..MaxFaults
    BY PayoutConstants DEF TypeInv, TypeOK, StripeAccepts, At, PayPcs, books, hook, Fault
  <1>1. PICK p \in Payouts :
        /\ p = request[r].payout /\ payout[p] \in Row /\ Sound(p) /\ Making(r, p) /\ Made(p)
        /\ \A s \in Requests : Making(s, p) => s = r
        /\ \A s \in Outcomes : <<p, s>> \notin emitted => ~Handled(p, s)
        /\ Owed(p) => Linked(p)
    BY <1>0, MakerKnows
  <1>2. /\ request' \in Slots /\ request'[r].pc \in {"update", "fail"} /\ request'[r].payout = p
        /\ \A s \in Requests \ {r} : request'[s] = request[s]
    <2>1. PICK pc \in {"update", "fail"} : Goto(r, pc)
      BY DEF StripeAccepts
    <2>2. QED
      BY <1>0, <1>1, <2>1, GotoPay DEF PayPcs
  <1>3. bank'[p] = "created" /\ \A q \in Payouts \ {p} : bank'[q] = bank[q]
    BY <1>0, <1>1 DEF TypeOK
  <1>4. TypeOK'
    BY <1>0, <1>1, <1>2 DEF TypeOK, Slots
  <1>5. ASSUME NEW q \in Payouts \ {p} PROVE Frame(q)
    BY <1>0, <1>1, <1>2, <1>3, MakerApart DEF Frame, PayPcs, HookPcs
  <1>6. Sound(p)'
    <2>1. /\ MakingAt(r, p, "stripe") /\ bank[p] = "none" /\ ~Linked(p) /\ payout[p].status = "PENDING"
          /\ \A s \in Outcomes : <<p, s>> \notin emitted
      BY <1>0, <1>1 DEF Sound, MakersSound, RowSound, Making, MakingAt
    <2>2. ~Linked(p)' /\ payout'[p] # Nothing
      BY <1>0, <1>1, <2>1 DEF Linked, Row, Nothing
    <2>3. Made(p)' /\ \A t \in Requests : Making(t, p)' => t = r
      BY <1>1, <1>2 DEF Made, Making, PayPcs
    <2>4. /\ \A t \in Requests, s \in Outcomes : ~Heeding(t, <<p, s>>)'
      BY <1>0, <1>1, <1>2, <2>1, HeedersApart DEF Sound, HeedersSound, HookPcs
    <2>5. ~Owed(p)' /\ \A s \in Outcomes : ~Handled(p, s)'
      BY <1>0, <2>1, <2>4, Words DEF Owed, Handled, Heeding, HeedingAt, HookPcs, TypeOK
    <2>6. RowSound(p)' /\ HeedersSound(p)' /\ Judged(p)'
      BY <1>0, <1>3, <2>1, <2>2, <2>4, Words
         DEF RowSound, HeedersSound, Judged, Heeding, HeedingAt, HookPcs, Live
    <2>7. MakersSound(p)'
      BY <1>0, <1>2, <1>3, <2>1, <2>2, <2>3 DEF MakersSound, Making, MakingAt, PayPcs
    <2>8. ASSUME p \notin upset \cup misjudged PROVE booked[p] = 0
      BY <1>1, <2>1, <2>8 DEF Sound, Books, Balanced, Live
    <2>9. Books(p)'
      BY <1>0, <2>1, <2>3, <2>4, <2>5, <2>8, Words
         DEF Books, Balanced, Settled, Locked, Returnable, LastWord, Heeding, HeedingAt, HookPcs, Live
    <2>10. QED
      BY <2>6, <2>7, <2>9 DEF Sound
  <1>7. QED
    BY <1>1, <1>4, <1>5, <1>6, OthersKept

(* The payout keeps its row and its maker, who goes on to the catch clause.*)
LEMMA FallStep ==
  ASSUME TypeInv, NEW r \in Requests, StripeDeclines(r) \/ Throw(r)
  PROVE  TypeInv'
  <1>0. /\ TypeOK /\ request[r].pc \in PayPcs /\ Goto(r, "fail")
        /\ UNCHANGED <<connected, earned, payout, bank, emitted, booked, recorded, lock, overlapped, misjudged, upset>>
        /\ faults' \in 0..MaxFaults
    BY PayoutConstants DEF TypeInv, TypeOK, StripeDeclines, Throw, At, PayPcs, money, books, hook, history, Fault
  <1>1. PICK p \in Payouts :
        /\ p = request[r].payout /\ payout[p] \in Row /\ Sound(p) /\ Making(r, p) /\ Made(p)
        /\ \A s \in Requests : Making(s, p) => s = r
        /\ \A s \in Outcomes : <<p, s>> \notin emitted => ~Handled(p, s)
        /\ Owed(p) => Linked(p)
    BY <1>0, MakerKnows
  <1>2. /\ request' \in Slots /\ request'[r].pc = "fail" /\ request'[r].payout = p
        /\ \A s \in Requests \ {r} : request'[s] = request[s]
    BY <1>0, <1>1, GotoPay DEF PayPcs
  <1>4. TypeOK'
    BY <1>0, <1>1, <1>2 DEF TypeOK, Slots
  <1>5. ASSUME NEW q \in Payouts \ {p} PROVE Frame(q)
    BY <1>0, <1>1, <1>2, MakerApart DEF Frame, PayPcs, HookPcs
  <1>6. Sound(p)'
    <2>1. Linked(p)' <=> Linked(p)
      BY <1>0 DEF Linked
    <2>2. ~Linked(p) => payout[p].status = "PENDING"
      BY <1>1 DEF Sound, MakersSound
    <2>3. Made(p)' /\ \A t \in Requests : Making(t, p)' => t = r
      BY <1>1, <1>2 DEF Made, Making, PayPcs
    <2>4. /\ \A t \in Requests, s \in Outcomes :
               /\ Heeding(t, <<p, s>>)' <=> Heeding(t, <<p, s>>)
               /\ \A pc \in HookPcs : HeedingAt(t, <<p, s>>, pc)' <=> HeedingAt(t, <<p, s>>, pc)
          /\ Owed(p)' <=> Owed(p)
      BY <1>0, <1>2, HeedersApart DEF PayPcs, HookPcs
    <2>5. \A s \in Outcomes : Handled(p, s)' <=> Handled(p, s)
      BY <1>0, <2>4 DEF Handled, HookPcs
    <2>6. RowSound(p)' /\ HeedersSound(p)' /\ Judged(p)'
      BY <1>0, <1>1, <2>1, <2>3, <2>4 DEF Sound, RowSound, HeedersSound, Judged, HookPcs, Row, Nothing
    <2>7. MakersSound(p)'
      BY <1>0, <1>2, <2>1, <2>2, <2>3 DEF MakersSound, Making, MakingAt, PayPcs
    <2>9. Books(p)'
      <3>1. SUFFICES ASSUME p \notin (upset \cup misjudged)'
                     PROVE  (Balanced(p) /\ Settled(p) /\ Locked(p) /\ Returnable(p) /\ LastWord(p))'
        BY DEF Books
      <3>2. Balanced(p) /\ Settled(p) /\ Locked(p) /\ Returnable(p) /\ LastWord(p)
        BY <1>0, <1>1, <3>1 DEF Sound, Books
      <3>3. Balanced(p)' /\ Settled(p)' /\ Locked(p)'
        BY <1>0, <1>1, <2>3, <2>4, <3>2 DEF Balanced, Settled, Locked
      <3>4. Returnable(p)' /\ LastWord(p)'
        BY <1>0, <2>1, <2>4, <2>5, <3>2, Words DEF Returnable, LastWord, HookPcs
      <3>5. QED
        BY <3>3, <3>4
    <2>10. QED
      BY <2>6, <2>7, <2>9 DEF Sound
  <1>7. QED
    BY <1>1, <1>4, <1>5, <1>6, OthersKept

LEMMA UpdateStep ==
  ASSUME TypeInv, NEW r \in Requests, UpdatePayout(r)
  PROVE  TypeInv'
  <1>0. /\ TypeOK /\ request[r].pc = "update" /\ request[r].pc \in PayPcs /\ Goto(r, "book")
        /\ UNCHANGED <<connected, earned, bank, emitted, booked, recorded, lock, overlapped, misjudged, upset, faults>>
    BY DEF TypeInv, UpdatePayout, At, PayPcs, money, hook, history
  <1>1. PICK p \in Payouts :
        /\ p = request[r].payout /\ payout[p] \in Row /\ Sound(p) /\ Making(r, p) /\ Made(p)
        /\ \A s \in Requests : Making(s, p) => s = r
        /\ \A s \in Outcomes : <<p, s>> \notin emitted => ~Handled(p, s)
        /\ Owed(p) => Linked(p)
    BY <1>0, MakerKnows
  <1>2. /\ request' \in Slots /\ request'[r].pc = "book" /\ request'[r].payout = p
        /\ \A s \in Requests \ {r} : request'[s] = request[s]
    BY <1>0, <1>1, GotoPay DEF PayPcs
  <1>3. /\ payout' \in Rows /\ payout'[p] \in Row /\ payout'[p].status = "PENDING" /\ payout'[p].linked
        /\ \A q \in Payouts \ {p} : payout'[q] = payout[q]
    BY <1>0, <1>1, LinkWrite DEF UpdatePayout
  <1>4. TypeOK'
    BY <1>0, <1>2, <1>3 DEF TypeOK, Slots, Rows
  <1>5. ASSUME NEW q \in Payouts \ {p} PROVE Frame(q)
    BY <1>0, <1>1, <1>2, <1>3, MakerApart DEF Frame, PayPcs, HookPcs
  <1>6. Sound(p)'
    <2>1. /\ MakingAt(r, p, "update") /\ bank[p] # "none" /\ ~Linked(p) /\ payout[p].status = "PENDING"
      BY <1>0, <1>1 DEF Sound, MakersSound, Making, MakingAt
    <2>2. Linked(p)' /\ payout'[p] # Nothing
      BY <1>3 DEF Linked, Row, Nothing
    <2>3. Made(p)' /\ \A t \in Requests : Making(t, p)' => t = r
      BY <1>1, <1>2 DEF Made, Making, PayPcs
    <2>4. /\ \A t \in Requests, s \in Outcomes :
               /\ Heeding(t, <<p, s>>)' <=> Heeding(t, <<p, s>>)
               /\ \A pc \in HookPcs : HeedingAt(t, <<p, s>>, pc)' <=> HeedingAt(t, <<p, s>>, pc)
          /\ Owed(p)' <=> Owed(p)
      BY <1>0, <1>2, HeedersApart DEF PayPcs, HookPcs
    <2>5. \A s \in Outcomes : Handled(p, s)' <=> Handled(p, s)
      BY <1>0, <2>4 DEF Handled, HookPcs
    <2>6. RowSound(p)' /\ HeedersSound(p)' /\ Judged(p)'
      BY <1>0, <1>1, <1>3, <2>1, <2>2, <2>4 DEF Sound, RowSound, HeedersSound, Judged, HookPcs, Live
    <2>7. MakersSound(p)'
      BY <1>0, <1>2, <2>1, <2>2, <2>3 DEF MakersSound, Making, MakingAt, PayPcs
    <2>9. Books(p)'
      <3>1. SUFFICES ASSUME p \notin (upset \cup misjudged)'
                     PROVE  (Balanced(p) /\ Settled(p) /\ Locked(p) /\ Returnable(p) /\ LastWord(p))'
        BY DEF Books
      <3>2. Balanced(p) /\ Locked(p) /\ LastWord(p)
        BY <1>0, <1>1, <3>1 DEF Sound, Books
      <3>3. Balanced(p)' /\ Settled(p)' /\ Returnable(p)'
        BY <1>0, <1>1, <1>3, <2>1, <2>3, <2>4, <3>2 DEF Balanced, Settled, Returnable, Live
      <3>4. Locked(p)'
        BY <1>0, <2>4, <3>2 DEF Locked
      <3>5. ~Owed(p)' /\ \A s \in Outcomes : ~Handled(p, s)'
        BY <1>1, <2>1, <2>4, <2>5, <3>2 DEF LastWord
      <3>6. QED
        BY <3>3, <3>4, <3>5 DEF LastWord
    <2>10. QED
      BY <2>6, <2>7, <2>9 DEF Sound
  <1>7. QED
    BY <1>1, <1>4, <1>5, <1>6, OthersKept

LEMMA BookStep ==
  ASSUME TypeInv, NEW r \in Requests, BookWithdrawal(r)
  PROVE  TypeInv'
  <1>0. /\ TypeOK /\ request[r].pc = "book" /\ request[r].pc \in PayPcs /\ Finish(r)
        /\ UNCHANGED <<connected, earned, payout, bank, emitted, recorded, lock, overlapped, misjudged, upset, faults>>
    BY DEF TypeInv, BookWithdrawal, At, PayPcs, money, hook, history
  <1>1. PICK p \in Payouts :
        /\ p = request[r].payout /\ payout[p] \in Row /\ Sound(p) /\ Making(r, p) /\ Made(p)
        /\ \A s \in Requests : Making(s, p) => s = r
        /\ \A s \in Outcomes : <<p, s>> \notin emitted => ~Handled(p, s)
        /\ Owed(p) => Linked(p)
    BY <1>0, MakerKnows
  <1>2. /\ request' \in Slots /\ request'[r].pc = "idle"
        /\ \A s \in Requests \ {r} : request'[s] = request[s]
    BY <1>0, SlotFreed
  <1>3. /\ booked' \in [Payouts -> Int] /\ booked'[p] = booked[p] - 1 /\ booked[p] \in Int
        /\ \A q \in Payouts \ {p} : booked'[q] = booked[q]
    BY <1>0, <1>1 DEF BookWithdrawal, TypeOK
  <1>4. TypeOK'
    BY <1>0, <1>2, <1>3 DEF TypeOK, Slots
  <1>5. ASSUME NEW q \in Payouts \ {p} PROVE Frame(q)
    BY <1>0, <1>1, <1>2, <1>3, MakerApart DEF Frame, PayPcs, HookPcs
  <1>6. Sound(p)'
    <2>1. bank[p] # "none"
      BY <1>0, <1>1 DEF Sound, MakersSound, MakingAt
    <2>2. Linked(p)' <=> Linked(p)
      BY <1>0 DEF Linked
    <2>3. ~Made(p)' /\ \A t \in Requests : ~Making(t, p)'
      BY <1>1, <1>2 DEF Made, Making, PayPcs
    <2>4. /\ \A t \in Requests, s \in Outcomes :
               /\ Heeding(t, <<p, s>>)' <=> Heeding(t, <<p, s>>)
               /\ \A pc \in HookPcs : HeedingAt(t, <<p, s>>, pc)' <=> HeedingAt(t, <<p, s>>, pc)
          /\ Owed(p)' <=> Owed(p)
      BY <1>0, <1>2, HeedersApart DEF PayPcs, HookPcs
    <2>5. \A s \in Outcomes : Handled(p, s)' <=> Handled(p, s)
      BY <1>0, <2>4 DEF Handled, HookPcs
    <2>6. RowSound(p)' /\ HeedersSound(p)' /\ Judged(p)'
      BY <1>0, <1>1, <2>2, <2>3, <2>4 DEF Sound, RowSound, HeedersSound, Judged, HookPcs
    <2>7. MakersSound(p)'
      BY <2>3 DEF MakersSound, Making, MakingAt, PayPcs
    <2>9. Books(p)'
      <3>1. SUFFICES ASSUME p \notin (upset \cup misjudged)'
                     PROVE  (Balanced(p) /\ Settled(p) /\ Locked(p) /\ Returnable(p) /\ LastWord(p))'
        BY DEF Books
      <3>2. Balanced(p) /\ Settled(p) /\ Locked(p) /\ Returnable(p) /\ LastWord(p)
        BY <1>0, <1>1, <3>1 DEF Sound, Books
      <3>3. Balanced(p)' /\ Settled(p)' /\ Locked(p)'
        BY <1>0, <1>1, <1>3, <2>1, <2>3, <2>4, <3>2 DEF Balanced, Settled, Locked
      <3>4. Returnable(p)' /\ LastWord(p)'
        BY <1>0, <2>2, <2>4, <2>5, <3>2, Words DEF Returnable, LastWord, HookPcs
      <3>5. QED
        BY <3>3, <3>4
    <2>10. QED
      BY <2>6, <2>7, <2>9 DEF Sound
  <1>7. QED
    BY <1>1, <1>4, <1>5, <1>6, OthersKept

(* A payout of which Stripe knows nothing was never linked, so no event    *)
(* moves it; any other is marked FAILED by mistake.                        *)
LEMMA MarkStep ==
  ASSUME TypeInv, NEW r \in Requests, MarkFailed(r)
  PROVE  TypeInv'
  <1>0. /\ TypeOK /\ request[r].pc = "fail" /\ request[r].pc \in PayPcs /\ Finish(r)
        /\ SetStatus(request[r].payout, "FAILED")
        /\ misjudged' = IF bank[request[r].payout] = "none" THEN misjudged ELSE misjudged \cup {request[r].payout}
        /\ UNCHANGED <<connected, earned, bank, emitted, booked, recorded, lock, upset, faults>>
    BY DEF TypeInv, MarkFailed, At, PayPcs, money, hook
  <1>1. PICK p \in Payouts :
        /\ p = request[r].payout /\ payout[p] \in Row /\ Sound(p) /\ Making(r, p) /\ Made(p)
        /\ \A s \in Requests : Making(s, p) => s = r
        /\ \A s \in Outcomes : <<p, s>> \notin emitted => ~Handled(p, s)
        /\ Owed(p) => Linked(p)
    BY <1>0, MakerKnows
  <1>2. /\ request' \in Slots /\ request'[r].pc = "idle"
        /\ \A s \in Requests \ {r} : request'[s] = request[s]
    BY <1>0, SlotFreed
  <1>3. /\ payout' \in Rows /\ payout'[p] \in Row /\ payout'[p].status = "FAILED"
        /\ payout'[p].linked = payout[p].linked
        /\ \A q \in Payouts \ {p} : payout'[q] = payout[q]
    <2>1. "FAILED" \in Statuses
      BY DEF Statuses
    <2>2. payout' = [payout EXCEPT ![p].status = "FAILED"]
      <3>1. SetStatus(request[r].payout, "FAILED") /\ p = request[r].payout
        BY <1>0, <1>1
      <3>2. QED
        BY <3>1 DEF SetStatus
    <2>3. TypeOK /\ payout[p] \in Row
      BY <1>0, <1>1
    <2>4. QED
      BY <2>1, <2>2, <2>3, StatusWrite
  <1>4. TypeOK'
    <2>1. overlapped' \in BOOLEAN /\ misjudged' \subseteq Payouts
      BY <1>0, <1>1 DEF TypeOK, SetStatus
    <2>2. QED
      BY <1>0, <1>2, <1>3, <2>1 DEF TypeOK, Slots, Rows
  <1>5. ASSUME NEW q \in Payouts \ {p} PROVE Frame(q)
    BY <1>0, <1>1, <1>2, <1>3, MakerApart DEF Frame, PayPcs, HookPcs
  <1>6. Sound(p)'
    <2>1. bank[p] = "none" => ~Linked(p) /\ payout[p].status = "PENDING"
      BY <1>1 DEF Sound, RowSound, MakersSound
    <2>2. (Linked(p)' <=> Linked(p)) /\ payout'[p] # Nothing
      BY <1>1, <1>3 DEF Linked, Row, Nothing
    <2>3. ~Made(p)' /\ \A t \in Requests : ~Making(t, p)'
      BY <1>1, <1>2 DEF Made, Making, PayPcs
    <2>4. /\ \A t \in Requests, s \in Outcomes :
               /\ Heeding(t, <<p, s>>)' <=> Heeding(t, <<p, s>>)
               /\ \A pc \in HookPcs : HeedingAt(t, <<p, s>>, pc)' <=> HeedingAt(t, <<p, s>>, pc)
          /\ Owed(p)' <=> Owed(p)
      BY <1>0, <1>2, HeedersApart DEF PayPcs, HookPcs
    <2>6. RowSound(p)' /\ HeedersSound(p)' /\ Judged(p)'
      BY <1>0, <1>1, <2>2, <2>3, <2>4 DEF Sound, RowSound, HeedersSound, Judged, HookPcs
    <2>7. MakersSound(p)'
      BY <2>3 DEF MakersSound, Making, MakingAt, PayPcs
    <2>9. Books(p)'
      <3>1. SUFFICES ASSUME p \notin (upset \cup misjudged)'
                     PROVE  (Balanced(p) /\ Settled(p) /\ Locked(p) /\ Returnable(p) /\ LastWord(p))'
        BY DEF Books
      <3>2. bank[p] = "none" /\ p \notin upset \cup misjudged
        BY <1>0, <1>1, <3>1
      <3>3. Balanced(p) /\ Locked(p)
        BY <1>1, <3>2 DEF Sound, Books
      <3>4. ~Owed(p) /\ booked[p] = 0
        BY <1>1, <2>1, <3>2, <3>3 DEF Balanced, Live
      <3>5. Balanced(p)' /\ Settled(p)'
        BY <1>0, <1>3, <2>3, <2>4, <3>2, <3>4 DEF Balanced, Settled, Live
      <3>6. Locked(p)'
        BY <1>0, <2>4, <3>3 DEF Locked
      <3>7. \A t \in Requests, s \in Outcomes : ~Heeding(t, <<p, s>>)'
        BY <1>1, <2>4, <3>2 DEF Sound, HeedersSound, RowSound
      <3>8. \A s \in Outcomes : ~Handled(p, s)'
        BY <1>0, <1>1, <3>2, <3>7 DEF Handled, Heeding, HeedingAt, HookPcs, Sound, RowSound, TypeOK
      <3>9. Returnable(p)' /\ LastWord(p)'
        BY <2>4, <3>4, <3>7, <3>8, Words DEF Returnable, LastWord, Heeding, HeedingAt, HookPcs
      <3>10. QED
        BY <3>5, <3>6, <3>9
    <2>10. QED
      BY <2>6, <2>7, <2>9 DEF Sound
  <1>7. QED
    BY <1>1, <1>4, <1>5, <1>6, OthersKept

---------------------------------------------------------------------------
(* What is known of the payout of an event in hand.                        *)
LEMMA HeederKnows ==
  ASSUME TypeInv, NEW r \in Requests, request[r].pc \in HookPcs
  PROVE  \E p \in Payouts, s \in Outcomes :
         /\ request[r].event = <<p, s>> /\ Of(request[r].event) = p /\ request[r].event[2] = s
         /\ <<p, s>> \in Events /\ payout[p] \in Row /\ Sound(p) /\ Heeding(r, <<p, s>>)
         /\ <<p, s>> \in emitted /\ bank[p] \notin {"none", "created"} /\ (s \in Returns => bank[p] = s)
  <1>1. PICK p \in Payouts, s \in Outcomes :
          request[r].event = <<p, s>> /\ Of(request[r].event) = p /\ request[r].event[2] = s
    BY HookEvent DEF TypeInv
  <1>2. Sound(p) /\ Heeding(r, <<p, s>>) /\ <<p, s>> \in Events
    BY <1>1, EventParts DEF TypeInv, Heeding
  <1>3. <<p, s>> \in emitted
    BY <1>2 DEF Sound, HeedersSound
  <1>4. bank[p] \notin {"none", "created"} /\ (s \in Returns => bank[p] = s)
    BY <1>2, <1>3 DEF Sound, RowSound
  <1>5. payout[p] \in Row
    BY <1>2, <1>4 DEF TypeInv, TypeOK, Sound, RowSound
  <1>6. QED
    BY <1>1, <1>2, <1>3, <1>4, <1>5

(* Two handlers that hold the locks of returns of one payout are the same: *)
(* Stripe returns it once.                                                 *)
LEMMA OneReturn ==
  ASSUME NEW p, Sound(p), p \notin upset \cup misjudged,
         NEW r \in Requests, NEW t \in Requests, NEW s \in Returns, NEW u \in Returns,
         Heeding(r, <<p, s>>), Heeding(t, <<p, u>>)
  PROVE  r = t /\ s = u
  <1>1. bank[p] = s /\ bank[p] = u
    BY Words DEF Sound, HeedersSound, RowSound
  <1>2. QED
    BY <1>1, Words DEF Sound, Books, Locked

(* Whoever heeds an event concerns himself with no other payout.           *)
LEMMA HeederApart ==
  ASSUME NEW r \in Requests, NEW p,
         request[r].pc \in HookPcs => Of(request[r].event) = p, request[r].pc \notin PayPcs,
         request'[r].pc \in HookPcs => Of(request'[r].event) = p, request'[r].pc \notin PayPcs,
         \A s \in Requests \ {r} : request'[s] = request[s]
  PROVE  \A q \in Payouts \ {p} : Apart(q)
  BY DEF Apart, Off

(* What the handler of an event does to the hands on its payout.           *)
LEMMA HeederMoves ==
  ASSUME NEW r \in Requests, NEW p \in Payouts, NEW s \in Outcomes,
         request[r].pc \in HookPcs, request[r].event = <<p, s>>,
         request'[r].pc \in HookPcs, request'[r].event = <<p, s>>,
         \A t \in Requests \ {r} : request'[t] = request[t]
  PROVE  /\ \A t \in Requests : (Making(t, p)' <=> Making(t, p))
                                /\ \A pc \in PayPcs : MakingAt(t, p, pc)' <=> MakingAt(t, p, pc)
         /\ Made(p)' <=> Made(p)
         /\ \A t \in Requests, u \in Outcomes :
              /\ Heeding(t, <<p, u>>)' <=> Heeding(t, <<p, u>>)
              /\ t # r \/ u # s => \A pc \in HookPcs : HeedingAt(t, <<p, u>>, pc)' <=> HeedingAt(t, <<p, u>>, pc)
         /\ Linked(p) /\ Linked(p)' /\ MakersSound(p) /\ bank'[p] = bank[p] => MakersSound(p)'
  <1>1. /\ \A t \in Requests : (Making(t, p)' <=> Making(t, p))
                                /\ \A pc \in PayPcs : MakingAt(t, p, pc)' <=> MakingAt(t, p, pc)
        /\ Made(p)' <=> Made(p)
    BY MakersApart DEF PayPcs, HookPcs
  <1>2. ASSUME NEW t \in Requests, NEW u \in Outcomes
        PROVE  /\ Heeding(t, <<p, u>>)' <=> Heeding(t, <<p, u>>)
               /\ t # r \/ u # s => \A pc \in HookPcs : HeedingAt(t, <<p, u>>, pc)' <=> HeedingAt(t, <<p, u>>, pc)
    BY DEF Heeding, HeedingAt
  <1>3. ASSUME Linked(p), Linked(p)', MakersSound(p), bank'[p] = bank[p] PROVE MakersSound(p)'
    BY <1>1, <1>3 DEF MakersSound, PayPcs
  <1>4. QED
    BY <1>1, <1>2, <1>3

LEMMA ReadStep ==
  ASSUME TypeInv, NEW r \in Requests, HookRead(r)
  PROVE  TypeInv'
  <1>0. /\ TypeOK /\ request[r].pc = "hook.read" /\ request[r].pc \in HookPcs
        /\ UNCHANGED <<connected, earned, payout, bank, emitted, booked, recorded, lock, overlapped, misjudged, faults>>
    BY DEF TypeInv, HookRead, At, HookPcs, money, books, hook
  <1>1. PICK p \in Payouts, s \in Outcomes :
        /\ request[r].event = <<p, s>> /\ Of(request[r].event) = p /\ request[r].event[2] = s
        /\ <<p, s>> \in Events /\ payout[p] \in Row /\ Sound(p) /\ Heeding(r, <<p, s>>)
        /\ <<p, s>> \in emitted /\ bank[p] \notin {"none", "created"} /\ (s \in Returns => bank[p] = s)
    BY <1>0, HeederKnows
  <1>2. PICK pc \in {"hook.write", "hook.record"} :
          /\ Goto(r, pc)
          /\ IF payout[p].linked /\ payout[p].status # s THEN pc = "hook.write" ELSE pc = "hook.record"
    BY <1>1 DEF HookRead
  <1>3. /\ request' \in Slots /\ request'[r].pc = pc /\ request'[r].event = <<p, s>>
        /\ \A t \in Requests \ {r} : request'[t] = request[t]
    BY <1>0, <1>1, <1>2, GotoHeed DEF HookPcs
  <1>4. upset' = IF payout[p].linked THEN upset ELSE upset \cup {p}
    BY <1>1 DEF HookRead
  <1>5. TypeOK'
    BY <1>0, <1>1, <1>3, <1>4 DEF TypeOK, Slots
  <1>6. ASSUME NEW q \in Payouts \ {p} PROVE Frame(q)
    BY <1>0, <1>1, <1>2, <1>3, <1>4, HeederApart DEF Frame, PayPcs, HookPcs
  <1>7. Sound(p)'
    <2>1. Linked(p)' <=> Linked(p)
      BY <1>0 DEF Linked
    <2>2. /\ \A t \in Requests : /\ Making(t, p)' <=> Making(t, p)
                                 /\ \A c \in PayPcs : MakingAt(t, p, c)' <=> MakingAt(t, p, c)
          /\ Made(p)' <=> Made(p)
      BY <1>0, <1>2, <1>3, MakersApart DEF PayPcs, HookPcs
    <2>3. \A t \in Requests, u \in Outcomes :
            /\ Heeding(t, <<p, u>>)' <=> Heeding(t, <<p, u>>)
            /\ t # r \/ u # s => \A c \in HookPcs : HeedingAt(t, <<p, u>>, c)' <=> HeedingAt(t, <<p, u>>, c)
      BY <1>0, <1>1, <1>2, <1>3, HeederMoves DEF HookPcs
    <2>4. \A c \in HookPcs : HeedingAt(r, <<p, s>>, c)' <=> c = pc
      BY <1>3 DEF HeedingAt
    <2>5. ~HeedingAt(r, <<p, s>>, "hook.return") /\ ~HeedingAt(r, <<p, s>>, "hook.return")'
      BY <1>0, <1>2, <1>3 DEF HeedingAt
    <2>6. Owed(p)' <=> Owed(p)
      BY <2>3, <2>5, Words DEF Owed, HookPcs
    <2>7. pc = "hook.write" => Linked(p)
      BY <1>1, <1>2 DEF Linked
    <2>8. RowSound(p)' /\ Judged(p)'
      BY <1>0, <1>1, <2>1, <2>2 DEF Sound, RowSound, Judged
    <2>9. MakersSound(p)'
      BY <1>0, <1>1, <2>1, <2>2 DEF Sound, MakersSound, PayPcs
    <2>10. HeedersSound(p)'
      BY <1>0, <1>1, <2>1, <2>3, <2>4, <2>5, <2>7 DEF Sound, HeedersSound, HookPcs
    <2>11. Books(p)'
      <3>1. SUFFICES ASSUME p \notin (upset \cup misjudged)'
                     PROVE  (Balanced(p) /\ Settled(p) /\ Locked(p) /\ Returnable(p) /\ LastWord(p))'
        BY DEF Books
      <3>2. /\ Balanced(p) /\ Settled(p) /\ Locked(p) /\ Returnable(p) /\ LastWord(p)
            /\ p \notin upset \cup misjudged /\ Linked(p)
        BY <1>0, <1>1, <1>4, <3>1 DEF Sound, Books, Linked
      <3>3. Balanced(p)' /\ Settled(p)' /\ Locked(p)'
        BY <1>0, <1>1, <2>2, <2>3, <2>6, <3>2 DEF Balanced, Settled, Locked
      <3>4. pc = "hook.write" /\ s \in Returns => payout[p].status \in Live
        BY <1>1, <1>2, <3>2, Words DEF Settled, Nothing, Row
      <3>5. Returnable(p)'
        BY <1>0, <2>3, <2>4, <3>2, <3>4, Words DEF Returnable, HookPcs
      <3>6. pc = "hook.record" => payout[p].status = s
        BY <1>2, <3>2 DEF Linked
      <3>7. \A u \in Outcomes : Handled(p, u)' => Handled(p, u) \/ (u = s /\ pc = "hook.record")
        BY <1>0, <2>3, <2>4 DEF Handled, HookPcs
      <3>8. LastWord(p)'
        BY <1>0, <2>1, <2>6, <3>2, <3>6, <3>7 DEF LastWord
      <3>9. QED
        BY <3>3, <3>5, <3>8
    <2>12. QED
      BY <2>8, <2>9, <2>10, <2>11 DEF Sound
  <1>8. QED
    BY <1>1, <1>5, <1>6, <1>7, OthersKept

LEMMA WriteStep ==
  ASSUME TypeInv, NEW r \in Requests, HookWrite(r)
  PROVE  TypeInv'
  <1>0. /\ TypeOK /\ request[r].pc = "hook.write" /\ request[r].pc \in HookPcs
        /\ UNCHANGED <<connected, earned, bank, emitted, booked, recorded, lock, misjudged, faults>>
    BY DEF TypeInv, HookWrite, At, HookPcs, money, books, hook
  <1>1. PICK p \in Payouts, s \in Outcomes :
        /\ request[r].event = <<p, s>> /\ Of(request[r].event) = p /\ request[r].event[2] = s
        /\ <<p, s>> \in Events /\ payout[p] \in Row /\ Sound(p) /\ Heeding(r, <<p, s>>)
        /\ <<p, s>> \in emitted /\ bank[p] \notin {"none", "created"} /\ (s \in Returns => bank[p] = s)
    BY <1>0, HeederKnows
  <1>2. PICK pc \in {"hook.record", "hook.return"} :
          Goto(r, pc) /\ (IF s = "PAID" THEN pc = "hook.record" ELSE pc = "hook.return")
    BY <1>1 DEF HookWrite
  <1>3. /\ request' \in Slots /\ request'[r].pc = pc /\ request'[r].event = <<p, s>>
        /\ \A t \in Requests \ {r} : request'[t] = request[t]
    BY <1>0, <1>1, <1>2, GotoHeed DEF HookPcs
  <1>4. upset' = IF payout[p].status # "PENDING" /\ s # bank[p] THEN upset \cup {p} ELSE upset
    BY <1>1 DEF HookWrite
  <1>5. /\ payout' \in Rows /\ payout'[p] \in Row /\ payout'[p].status = s
        /\ payout'[p].linked = payout[p].linked
        /\ \A q \in Payouts \ {p} : payout'[q] = payout[q]
    <2>1. payout' = [payout EXCEPT ![p].status = s]
      BY <1>1 DEF HookWrite, SetStatus
    <2>2. s \in Statuses /\ TypeOK /\ payout[p] \in Row
      BY <1>0, <1>1, Words
    <2>3. QED
      BY <2>1, <2>2, StatusWrite
  <1>6. TypeOK'
    <2>1. overlapped' \in BOOLEAN
      BY <1>0 DEF TypeOK, HookWrite, SetStatus
    <2>2. QED
      BY <1>0, <1>1, <1>3, <1>4, <1>5, <2>1 DEF TypeOK, Slots, Rows
  <1>7. ASSUME NEW q \in Payouts \ {p} PROVE Frame(q)
    BY <1>0, <1>1, <1>2, <1>3, <1>4, <1>5, HeederApart DEF Frame, PayPcs, HookPcs
  <1>8. Sound(p)'
    <2>1. Linked(p) /\ Linked(p)' /\ payout'[p] # Nothing
      BY <1>0, <1>1, <1>5 DEF Sound, HeedersSound, HeedingAt, Linked, Row, Nothing
    <2>2. /\ Made(p)' <=> Made(p)
          /\ MakersSound(p)'
          /\ \A t \in Requests, u \in Outcomes :
               /\ Heeding(t, <<p, u>>)' <=> Heeding(t, <<p, u>>)
               /\ t # r \/ u # s => \A c \in HookPcs : HeedingAt(t, <<p, u>>, c)' <=> HeedingAt(t, <<p, u>>, c)
      BY <1>0, <1>1, <1>2, <1>3, <2>1, HeederMoves DEF HookPcs, Sound
    <2>3. \A c \in HookPcs : HeedingAt(r, <<p, s>>, c)' <=> c = pc
      BY <1>3 DEF HeedingAt
    <2>4. s \in Returns <=> s # "PAID"
      BY Words
    <2>5. RowSound(p)' /\ Judged(p)'
      <3>1. bank[p] = "PAID" => s = "PAID"
        BY <1>1, Words
      <3>2. QED
        BY <1>0, <1>1, <1>5, <2>1, <3>1 DEF Sound, RowSound, Judged, Live
    <2>6. HeedersSound(p)'
      BY <1>0, <1>1, <1>2, <2>1, <2>2, <2>3 DEF Sound, HeedersSound, HookPcs
    <2>7. Books(p)'
      <3>1. SUFFICES ASSUME p \notin (upset \cup misjudged)'
                     PROVE  (Balanced(p) /\ Settled(p) /\ Locked(p) /\ Returnable(p) /\ LastWord(p))'
        BY DEF Books
      <3>2. /\ Balanced(p) /\ Settled(p) /\ Locked(p) /\ Returnable(p) /\ LastWord(p)
            /\ p \notin upset \cup misjudged /\ (payout[p].status = "PENDING" \/ s = bank[p])
        BY <1>0, <1>1, <1>4, <3>1 DEF Sound, Books
      <3>3. ASSUME s \in Returns PROVE ~Owed(p)
        <4>1. SUFFICES ASSUME NEW t \in Requests, NEW u \in Returns, HeedingAt(t, <<p, u>>, "hook.return")
                       PROVE  FALSE
          BY DEF Owed
        <4>2. t = r
          BY <1>1, <3>2, <3>3, <4>1, OneReturn DEF Heeding, HeedingAt, HookPcs
        <4>3. QED
          BY <1>0, <4>1, <4>2 DEF HeedingAt
      <3>4. payout[p].status \in Live
        <4>1. CASE s \in Returns
          BY <1>0, <1>1, <3>2, <4>1 DEF Returnable, HeedingAt
        <4>2. CASE s = "PAID"
          BY <1>1, <3>2, <4>2 DEF Sound, Judged, Live
        <4>3. QED
          BY <2>4, <4>1, <4>2
      <3>5. Owed(p)' <=> Owed(p) \/ s \in Returns
        BY <1>2, <2>2, <2>3, <2>4, Words DEF Owed, HookPcs
      <3>6. Balanced(p)'
        <4>1. payout'[p].status \in Live <=> s \notin Returns
          BY <1>5, <2>4, Words DEF Live
        <4>2. QED
          BY <1>0, <2>2, <3>2, <3>3, <3>4, <3>5, <4>1 DEF Balanced
      <3>7. Settled(p)' /\ Locked(p)'
        BY <1>0, <1>1, <1>5, <2>2, <2>4, <3>2, Words DEF Settled, Locked, Live
      <3>8. Returnable(p)'
        <4>1. SUFFICES ASSUME NEW t \in Requests, NEW u \in Returns, HeedingAt(t, <<p, u>>, "hook.write")',
                              s \in Returns
                       PROVE  FALSE
          BY <1>5, <2>4 DEF Returnable, Live
        <4>2. t # r
          BY <1>2, <1>3, <4>1 DEF HeedingAt
        <4>3. HeedingAt(t, <<p, u>>, "hook.write")
          BY <2>2, <4>1, <4>2, Words DEF HookPcs
        <4>4. QED
          BY <1>1, <3>2, <4>1, <4>2, <4>3, OneReturn DEF Heeding, HeedingAt, HookPcs
      <3>9. \A u \in Outcomes : Handled(p, u)' => Handled(p, u) \/ u = s
        BY <1>0, <2>2 DEF Handled, HookPcs
      <3>10. LastWord(p)'
        <4>1. SUFFICES ASSUME NEW u \in Outcomes, bank[p] = u, u # s,
                              Handled(p, u) \/ (Owed(p)' /\ u \in Returns)
                       PROVE  FALSE
          BY <1>0, <1>5, <2>1, <3>9 DEF LastWord
        <4>2. s \notin Returns /\ payout[p].status = "PENDING"
          BY <1>1, <3>2, <4>1
        <4>3. payout[p].status = u
          BY <3>2, <3>5, <4>1, <4>2 DEF LastWord
        <4>4. QED
          BY <4>1, <4>2, <4>3, Words DEF Live
      <3>11. QED
        BY <3>6, <3>7, <3>8, <3>10
    <2>8. QED
      BY <2>2, <2>5, <2>6, <2>7 DEF Sound
  <1>9. QED
    BY <1>1, <1>6, <1>7, <1>8, OthersKept

LEMMA ReturnStep ==
  ASSUME TypeInv, NEW r \in Requests, HookReturn(r)
  PROVE  TypeInv'
  <1>0. /\ TypeOK /\ request[r].pc = "hook.return" /\ request[r].pc \in HookPcs /\ Goto(r, "hook.record")
        /\ UNCHANGED <<connected, earned, payout, bank, emitted, recorded, lock, overlapped, misjudged, upset, faults>>
    BY DEF TypeInv, HookReturn, At, HookPcs, money, hook, history
  <1>1. PICK p \in Payouts, s \in Outcomes :
        /\ request[r].event = <<p, s>> /\ Of(request[r].event) = p /\ request[r].event[2] = s
        /\ <<p, s>> \in Events /\ payout[p] \in Row /\ Sound(p) /\ Heeding(r, <<p, s>>)
        /\ <<p, s>> \in emitted /\ bank[p] \notin {"none", "created"} /\ (s \in Returns => bank[p] = s)
    BY <1>0, HeederKnows
  <1>2. /\ request' \in Slots /\ request'[r].pc = "hook.record" /\ request'[r].event = <<p, s>>
        /\ \A t \in Requests \ {r} : request'[t] = request[t]
    BY <1>0, <1>1, GotoHeed DEF HookPcs
  <1>3. /\ booked' \in [Payouts -> Int] /\ booked'[p] = booked[p] + 1 /\ booked[p] \in Int
        /\ \A q \in Payouts \ {p} : booked'[q] = booked[q]
    BY <1>0, <1>1 DEF HookReturn, TypeOK
  <1>4. TypeOK'
    BY <1>0, <1>2, <1>3 DEF TypeOK, Slots
  <1>5. ASSUME NEW q \in Payouts \ {p} PROVE Frame(q)
    BY <1>0, <1>1, <1>2, <1>3, HeederApart DEF Frame, PayPcs, HookPcs
  <1>6. Sound(p)'
    <2>1. /\ Linked(p) /\ s \in Returns /\ HeedingAt(r, <<p, s>>, "hook.return")
          /\ Linked(p)' /\ payout'[p] # Nothing
      BY <1>0, <1>1, Words DEF Sound, HeedersSound, HeedingAt, Linked, Row, Nothing
    <2>2. /\ Made(p)' <=> Made(p)
          /\ MakersSound(p)'
          /\ \A t \in Requests, u \in Outcomes :
               /\ Heeding(t, <<p, u>>)' <=> Heeding(t, <<p, u>>)
               /\ t # r \/ u # s => \A c \in HookPcs : HeedingAt(t, <<p, u>>, c)' <=> HeedingAt(t, <<p, u>>, c)
      BY <1>0, <1>1, <1>2, <2>1, HeederMoves DEF HookPcs, Sound
    <2>3. \A c \in HookPcs : HeedingAt(r, <<p, s>>, c)' <=> c = "hook.record"
      BY <1>2 DEF HeedingAt
    <2>4. RowSound(p)' /\ Judged(p)' /\ HeedersSound(p)'
      BY <1>0, <1>1, <2>1, <2>2, <2>3 DEF Sound, RowSound, Judged, HeedersSound, HookPcs
    <2>5. Books(p)'
      <3>1. SUFFICES ASSUME p \notin (upset \cup misjudged)'
                     PROVE  (Balanced(p) /\ Settled(p) /\ Locked(p) /\ Returnable(p) /\ LastWord(p))'
        BY DEF Books
      <3>2. /\ Balanced(p) /\ Settled(p) /\ Locked(p) /\ Returnable(p) /\ LastWord(p)
            /\ p \notin upset \cup misjudged
        BY <1>0, <1>1, <3>1 DEF Sound, Books
      <3>3. Owed(p)
        BY <2>1 DEF Owed
      <3>4. ~Owed(p)'
        <4>1. SUFFICES ASSUME NEW t \in Requests, NEW u \in Returns, HeedingAt(t, <<p, u>>, "hook.return")'
                       PROVE  FALSE
          BY DEF Owed
        <4>2. t # r
          BY <1>2, <4>1 DEF HeedingAt
        <4>3. HeedingAt(t, <<p, u>>, "hook.return")
          BY <2>2, <4>1, <4>2, Words DEF HookPcs
        <4>4. QED
          BY <1>1, <2>1, <3>2, <4>2, <4>3, OneReturn DEF Heeding, HeedingAt, HookPcs
      <3>5. Balanced(p)' /\ Settled(p)' /\ Locked(p)'
        BY <1>0, <1>3, <2>2, <3>2, <3>3, <3>4 DEF Balanced, Settled, Locked
      <3>6. Returnable(p)'
        BY <1>0, <2>2, <2>3, <3>2, Words DEF Returnable, HookPcs
      <3>7. \A u \in Outcomes : Handled(p, u)' => Handled(p, u) \/ u = s
        BY <1>0, <2>2 DEF Handled, HookPcs
      <3>8. LastWord(p)'
        BY <1>0, <2>1, <3>2, <3>3, <3>4, <3>7 DEF LastWord
      <3>9. QED
        BY <3>5, <3>6, <3>8
    <2>6. QED
      BY <2>2, <2>4, <2>5 DEF Sound
  <1>7. QED
    BY <1>1, <1>4, <1>5, <1>6, OthersKept

LEMMA RecordStep ==
  ASSUME TypeInv, NEW r \in Requests, HookRecord(r)
  PROVE  TypeInv'
  <1>0. /\ TypeOK /\ request[r].pc = "hook.record" /\ request[r].pc \in HookPcs /\ Finish(r)
        /\ UNCHANGED <<connected, earned, payout, bank, booked, emitted, overlapped, misjudged, upset, faults>>
    BY DEF TypeInv, HookRecord, At, HookPcs, money, books, history
  <1>1. PICK p \in Payouts, s \in Outcomes :
        /\ request[r].event = <<p, s>> /\ Of(request[r].event) = p /\ request[r].event[2] = s
        /\ <<p, s>> \in Events /\ payout[p] \in Row /\ Sound(p) /\ Heeding(r, <<p, s>>)
        /\ <<p, s>> \in emitted /\ bank[p] \notin {"none", "created"} /\ (s \in Returns => bank[p] = s)
    BY <1>0, HeederKnows
  <1>2. /\ request' \in Slots /\ request'[r].pc = "idle"
        /\ \A t \in Requests \ {r} : request'[t] = request[t]
    BY <1>0, SlotFreed
  <1>3. /\ recorded' = recorded \cup {<<p, s>>}
        /\ lock' \in [Events -> Requests \cup {"free"}]
        /\ \A e \in Events : e # <<p, s>> => lock'[e] = lock[e]
        /\ lock[<<p, s>>] # r => lock'[<<p, s>>] = lock[<<p, s>>]
    <2>1. recorded' = recorded \cup {<<p, s>>} /\ Unlock(r, <<p, s>>)
      BY <1>1 DEF HookRecord
    <2>2. QED
      BY <1>0, <1>1, <2>1 DEF Unlock, TypeOK
  <1>4. TypeOK'
    BY <1>0, <1>1, <1>2, <1>3 DEF TypeOK, Slots
  <1>5. ASSUME NEW q \in Payouts \ {p} PROVE Frame(q)
    <2>1. \A u \in Outcomes : <<q, u>> \in Events /\ <<q, u>> # <<p, s>>
      BY EventParts
    <2>2. Apart(q)
      BY <1>0, <1>1, <1>2, HeederApart DEF PayPcs, HookPcs
    <2>3. QED
      BY <1>0, <1>3, <2>1, <2>2 DEF Frame
  <1>6. Sound(p)'
    <2>1. Linked(p)' <=> Linked(p)
      BY <1>0 DEF Linked
    <2>2. /\ \A t \in Requests : /\ Making(t, p)' <=> Making(t, p)
                                 /\ \A c \in PayPcs : MakingAt(t, p, c)' <=> MakingAt(t, p, c)
          /\ Made(p)' <=> Made(p)
      BY <1>0, <1>2, MakersApart DEF PayPcs, HookPcs
    <2>3. \A t \in Requests, u \in Outcomes :
            /\ Heeding(t, <<p, u>>)' <=> (Heeding(t, <<p, u>>) /\ t # r)
            /\ \A c \in HookPcs : HeedingAt(t, <<p, u>>, c)' <=> (HeedingAt(t, <<p, u>>, c) /\ t # r)
      BY <1>2 DEF Heeding, HeedingAt, HookPcs
    <2>4. Owed(p)' <=> Owed(p)
      <3>1. \A u \in Outcomes : ~HeedingAt(r, <<p, u>>, "hook.return")
        BY <1>0 DEF HeedingAt
      <3>2. QED
        BY <2>3, <3>1, Words DEF Owed, HookPcs
    <2>5. RowSound(p)' /\ Judged(p)'
      BY <1>0, <1>1, <2>1, <2>2 DEF Sound, RowSound, Judged
    <2>6. MakersSound(p)'
      BY <1>0, <1>1, <2>1, <2>2 DEF Sound, MakersSound, PayPcs
    <2>7. HeedersSound(p)'
      BY <1>0, <1>1, <2>1, <2>3 DEF Sound, HeedersSound, HookPcs
    <2>8. Books(p)'
      <3>1. SUFFICES ASSUME p \notin (upset \cup misjudged)'
                     PROVE  (Balanced(p) /\ Settled(p) /\ Locked(p) /\ Returnable(p) /\ LastWord(p))'
        BY DEF Books
      <3>2. Balanced(p) /\ Settled(p) /\ Locked(p) /\ Returnable(p) /\ LastWord(p)
        BY <1>0, <1>1, <3>1 DEF Sound, Books
      <3>3. Balanced(p)' /\ Settled(p)'
        BY <1>0, <2>2, <2>4, <3>2 DEF Balanced, Settled
      <3>4. Locked(p)'
        <4>1. SUFFICES ASSUME NEW t \in Requests, NEW u \in Outcomes, Heeding(t, <<p, u>>), t # r
                       PROVE  lock'[<<p, u>>] = t /\ <<p, u>> \notin recorded'
          BY <2>3 DEF Locked
        <4>2. lock[<<p, u>>] = t /\ <<p, u>> \notin recorded /\ lock[<<p, s>>] = r
          BY <1>1, <3>2, <4>1 DEF Locked
        <4>3. <<p, u>> # <<p, s>> /\ <<p, u>> \in Events
          BY <4>1, <4>2, EventParts
        <4>4. QED
          BY <1>3, <4>2, <4>3
      <3>5. Returnable(p)'
        BY <1>0, <2>3, <3>2, Words DEF Returnable, HookPcs
      <3>6. \A u \in Outcomes : Handled(p, u)' => Handled(p, u)
        <4>1. Handled(p, s)
          BY <1>0, <1>1 DEF Handled, HeedingAt
        <4>2. ASSUME NEW u \in Outcomes, Handled(p, u)', u # s PROVE Handled(p, u)
          BY <1>3, <2>3, <4>2 DEF Handled, HookPcs
        <4>3. QED
          BY <4>1, <4>2
      <3>7. LastWord(p)'
        BY <1>0, <2>1, <2>4, <3>2, <3>6 DEF LastWord
      <3>8. QED
        BY <3>3, <3>4, <3>5, <3>7
    <2>9. QED
      BY <2>5, <2>6, <2>7, <2>8 DEF Sound
  <1>7. QED
    BY <1>1, <1>4, <1>5, <1>6, OthersKept

LEMMA HookBeginStep ==
  ASSUME TypeInv, NEW r \in Requests, NEW e \in Events, HookBegin(r, e)
  PROVE  TypeInv'
  <1> DEFINE h == [pc |-> "hook.read", event |-> e]
  <1>0. /\ TypeOK /\ request[r] = Idle /\ request' = [request EXCEPT ![r] = h]
        /\ e \in emitted /\ e \notin recorded /\ lock[e] = "free" /\ lock' = [lock EXCEPT ![e] = r]
        /\ UNCHANGED <<connected, earned, payout, bank, booked, emitted, recorded, overlapped, misjudged, upset, faults>>
    BY DEF TypeInv, HookBegin, Start, money, books, history
  <1>1. PICK p \in Payouts, s \in Outcomes : e = <<p, s>> /\ Of(e) = p /\ Sound(p)
    BY EventParts DEF TypeInv
  <1>2. h \in Hooking /\ h.pc = "hook.read" /\ h.event = e
    BY DEF Hooking
  <1> HIDE DEF h
  <1>3. /\ request' \in Slots /\ request'[r].pc = "hook.read" /\ request'[r].event = <<p, s>>
        /\ request[r].pc = "idle" /\ \A t \in Requests \ {r} : request'[t] = request[t]
    <2>1. request[r].pc = "idle"
      BY <1>0 DEF Idle
    <2>2. request' \in Slots /\ request'[r] = h /\ \A t \in Requests \ {r} : request'[t] = request[t]
      BY <1>0, <1>2, SlotWrite
    <2>3. QED
      BY <1>1, <1>2, <2>1, <2>2
  <1>4. /\ lock' \in [Events -> Requests \cup {"free"}] /\ lock'[<<p, s>>] = r
        /\ \A d \in Events : d # <<p, s>> => lock'[d] = lock[d]
    BY <1>0, <1>1 DEF TypeOK
  <1>5. TypeOK'
    BY <1>0, <1>3, <1>4 DEF TypeOK, Slots
  <1>6. ASSUME NEW q \in Payouts \ {p} PROVE Frame(q)
    <2>1. \A u \in Outcomes : <<q, u>> \in Events /\ <<q, u>> # <<p, s>>
      BY EventParts
    <2>2. Apart(q)
      BY <1>1, <1>3, HeederApart DEF PayPcs, HookPcs
    <2>3. QED
      BY <1>0, <1>4, <2>1, <2>2 DEF Frame
  <1>7. Sound(p)'
    <2>1. Linked(p)' <=> Linked(p)
      BY <1>0 DEF Linked
    <2>2. /\ \A t \in Requests : /\ Making(t, p)' <=> Making(t, p)
                                 /\ \A c \in PayPcs : MakingAt(t, p, c)' <=> MakingAt(t, p, c)
          /\ Made(p)' <=> Made(p)
      BY <1>3, MakersApart DEF PayPcs, HookPcs
    <2>3. \A t \in Requests, u \in Outcomes :
            /\ Heeding(t, <<p, u>>)' <=> (Heeding(t, <<p, u>>) \/ (t = r /\ u = s))
            /\ \A c \in HookPcs : c # "hook.read" => (HeedingAt(t, <<p, u>>, c)' <=> HeedingAt(t, <<p, u>>, c))
      BY <1>3 DEF Heeding, HeedingAt, HookPcs
    <2>4. Owed(p)' <=> Owed(p)
      BY <2>3, Words DEF Owed, HookPcs
    <2>5. RowSound(p)' /\ Judged(p)'
      BY <1>0, <1>1, <2>1, <2>2 DEF Sound, RowSound, Judged
    <2>6. MakersSound(p)'
      BY <1>0, <1>1, <2>1, <2>2 DEF Sound, MakersSound, PayPcs
    <2>7. HeedersSound(p)'
      BY <1>0, <1>1, <2>1, <2>3 DEF Sound, HeedersSound, HookPcs
    <2>8. Books(p)'
      <3>1. SUFFICES ASSUME p \notin (upset \cup misjudged)'
                     PROVE  (Balanced(p) /\ Settled(p) /\ Locked(p) /\ Returnable(p) /\ LastWord(p))'
        BY DEF Books
      <3>2. Balanced(p) /\ Settled(p) /\ Locked(p) /\ Returnable(p) /\ LastWord(p)
        BY <1>0, <1>1, <3>1 DEF Sound, Books
      <3>3. Balanced(p)' /\ Settled(p)'
        BY <1>0, <2>2, <2>4, <3>2 DEF Balanced, Settled
      <3>4. Locked(p)'
        <4>1. SUFFICES ASSUME NEW t \in Requests, NEW u \in Outcomes, Heeding(t, <<p, u>>)'
                       PROVE  lock'[<<p, u>>] = t /\ <<p, u>> \notin recorded'
          BY DEF Locked
        <4>2. CASE t = r /\ u = s
          BY <1>0, <1>1, <1>4, <4>2
        <4>3. CASE Heeding(t, <<p, u>>)
          <5>1. lock[<<p, u>>] = t /\ <<p, u>> \notin recorded
            BY <3>2, <4>3 DEF Locked
          <5>2. <<p, u>> # <<p, s>> /\ <<p, u>> \in Events
            BY <1>0, <1>1, <5>1, PayoutConstants, EventParts
          <5>3. QED
            BY <1>0, <1>4, <5>1, <5>2
        <4>4. QED
          BY <2>3, <4>1, <4>2, <4>3
      <3>5. Returnable(p)'
        BY <1>0, <2>3, <3>2, Words DEF Returnable, HookPcs
      <3>6. \A u \in Outcomes : Handled(p, u)' <=> Handled(p, u)
        BY <1>0, <2>3 DEF Handled, HookPcs
      <3>7. LastWord(p)'
        BY <1>0, <2>1, <2>4, <3>2, <3>6 DEF LastWord
      <3>8. QED
        BY <3>3, <3>4, <3>5, <3>7
    <2>9. QED
      BY <2>5, <2>6, <2>7, <2>8 DEF Sound
  <1>8. QED
    BY <1>1, <1>5, <1>6, <1>7, OthersKept

(* Stripe's word on a payout is new, and finds it live here.               *)
LEMMA SettleStep ==
  ASSUME TypeInv, NEW p \in Payouts, NEW s \in Outcomes, StripeSettles(p, s)
  PROVE  TypeInv'
  <1>0. /\ TypeOK /\ Sound(p) /\ bank[p] \in {"created", "PAID"} /\ (bank[p] = "PAID" => s \in Returns)
        /\ bank' = [bank EXCEPT ![p] = s] /\ emitted' = emitted \cup {<<p, s>>}
        /\ UNCHANGED <<connected, earned, payout, booked, recorded, lock, request, overlapped, misjudged, upset, faults>>
    BY DEF TypeInv, StripeSettles, books, hook, history
  <1>1. bank'[p] = s /\ \A q \in Payouts \ {p} : bank'[q] = bank[q]
    BY <1>0 DEF TypeOK
  <1>2. TypeOK'
    BY <1>0, EventParts DEF TypeOK
  <1>3. ASSUME NEW q \in Payouts \ {p} PROVE Frame(q)
    <2>1. \A u \in Outcomes : <<q, u>> # <<p, s>>
      OBVIOUS
    <2>2. QED
      BY <1>0, <1>1, <2>1 DEF Frame, Apart
  <1>4. Sound(p)'
    <2>1. Apart(p) /\ (Linked(p)' <=> Linked(p))
      BY <1>0 DEF Apart, Linked
    <2>2. /\ \A u \in Outcomes : Handled(p, u)' <=> Handled(p, u)
          /\ Made(p)' <=> Made(p)
          /\ Owed(p)' <=> Owed(p)
      BY <1>0, <2>1, SameHands DEF Handled, HookPcs
    <2>3. \A u \in Returns : <<p, u>> \notin emitted
      BY <1>0, Words DEF Sound, RowSound
    <2>4. <<p, s>> \notin emitted
      BY <1>0, <2>3 DEF Sound, RowSound
    <2>5. RowSound(p)'
      BY <1>0, <1>1, <2>3, Words DEF Sound, RowSound
    <2>6. MakersSound(p)'
      BY <1>0, <1>1, <2>1, SameHands, Words DEF Sound, MakersSound, PayPcs
    <2>7. HeedersSound(p)'
      BY <1>0, <2>1, SameHands DEF Sound, HeedersSound, HookPcs
    <2>8. p \notin misjudged => payout[p].status \in Live
      BY <1>0 DEF Sound, Judged
    <2>9. Judged(p)'
      BY <1>0, <2>8 DEF Judged
    <2>10. ~Handled(p, s) /\ ~Owed(p)
      BY <1>0, <2>3, <2>4, Words
         DEF Handled, Owed, Sound, HeedersSound, Heeding, HeedingAt, HookPcs, TypeOK
    <2>11. Books(p)'
      <3>1. SUFFICES ASSUME p \notin (upset \cup misjudged)'
                     PROVE  (Balanced(p) /\ Settled(p) /\ Locked(p) /\ Returnable(p) /\ LastWord(p))'
        BY DEF Books
      <3>2. /\ Balanced(p) /\ Locked(p) /\ Returnable(p) /\ LastWord(p)
            /\ payout[p].status \in Live
        BY <1>0, <2>8, <3>1 DEF Sound, Books
      <3>3. Balanced(p)' /\ Settled(p)' /\ Locked(p)' /\ Returnable(p)'
        BY <1>0, <2>1, <2>2, <3>2, SameHands, Words DEF Balanced, Settled, Locked, Returnable, HookPcs
      <3>4. LastWord(p)'
        BY <1>1, <2>1, <2>2, <2>10, <3>2 DEF LastWord
      <3>5. QED
        BY <3>3, <3>4
    <2>12. QED
      BY <2>5, <2>6, <2>7, <2>9, <2>11 DEF Sound
  <1>5. QED
    BY <1>2, <1>3, <1>4, OthersKept

(* A lock that expires and a handler that dies upset the payout they had.  *)
LEMMA ExpireStep ==
  ASSUME TypeInv, NEW e \in Events, LockExpires(e)
  PROVE  TypeInv'
  <1>0. /\ TypeOK /\ lock' = [lock EXCEPT ![e] = "free"] /\ upset' = upset \cup {Of(e)}
        /\ UNCHANGED <<connected, earned, payout, bank, booked, emitted, recorded, request, overlapped, misjudged>>
        /\ faults' \in 0..MaxFaults
    BY PayoutConstants DEF TypeInv, TypeOK, LockExpires, money, books, Fault
  <1>1. PICK p \in Payouts, s \in Outcomes : e = <<p, s>> /\ Of(e) = p /\ Sound(p)
    BY EventParts DEF TypeInv
  <1>2. TypeOK'
    BY <1>0, <1>1 DEF TypeOK
  <1>3. ASSUME NEW q \in Payouts \ {p} PROVE Frame(q)
    <2>1. \A u \in Outcomes : <<q, u>> \in Events /\ <<q, u>> # e
      BY <1>1, EventParts
    <2>2. \A d \in Events : d # e => lock'[d] = lock[d]
      BY <1>0 DEF TypeOK
    <2>3. QED
      BY <1>0, <2>1, <2>2 DEF Frame, Apart
  <1>4. Sound(p)'
    <2>1. Apart(p) /\ (Linked(p)' <=> Linked(p))
      BY <1>0 DEF Apart, Linked
    <2>2. RowSound(p)' /\ Judged(p)'
      BY <1>0, <1>1, <2>1, SameHands DEF Sound, RowSound, Judged
    <2>3. MakersSound(p)'
      BY <1>0, <1>1, <2>1, SameHands DEF Sound, MakersSound, PayPcs
    <2>4. HeedersSound(p)'
      BY <1>0, <1>1, <2>1, SameHands DEF Sound, HeedersSound, HookPcs
    <2>5. QED
      BY <1>0, <1>1, <2>2, <2>3, <2>4 DEF Sound, Books
  <1>5. QED
    BY <1>1, <1>2, <1>3, <1>4, OthersKept

LEMMA DieStep ==
  ASSUME TypeInv, NEW r \in Requests, Die(r)
  PROVE  TypeInv'
  <1>0. /\ TypeOK /\ Finish(r) /\ upset' = upset \cup Touched(r)
        /\ lock' = [e \in Events |-> IF lock[e] = r THEN "free" ELSE lock[e]]
        /\ UNCHANGED <<connected, earned, payout, bank, booked, emitted, recorded, overlapped, misjudged>>
        /\ faults' \in 0..MaxFaults
    BY PayoutConstants DEF TypeInv, TypeOK, Die, money, books, Fault
  <1>1. /\ request' \in Slots /\ request'[r].pc = "idle"
        /\ \A t \in Requests \ {r} : request'[t] = request[t]
    BY <1>0, SlotFreed
  <1>2. \A p \in Payouts : Off(request[r], p) \/ p \in Touched(r)
    <2>1. (request[r].pc \in PayPcs <=> request[r] \in Paying) /\ (request[r].pc \in HookPcs <=> request[r] \in Hooking)
      BY <1>0, Kinds
    <2>2. ~(request[r].pc \in PayPcs /\ request[r].pc \in HookPcs)
      BY DEF PayPcs, HookPcs
    <2>3. QED
      BY <2>1, <2>2 DEF Off, Touched
  <1>3. Touched(r) \subseteq Payouts
    <2>1. request[r] \in Paying => request[r].payout \in Payouts
      BY DEF Paying
    <2>2. request[r] \in Hooking => Of(request[r].event) \in Payouts
      BY EventParts DEF Hooking
    <2>3. QED
      BY <2>1, <2>2 DEF Touched
  <1>4. TypeOK'
    BY <1>0, <1>1, <1>3 DEF TypeOK, Slots
  <1>5. ASSUME NEW p \in Payouts PROVE Sound(p)'
    <2>0. Sound(p)
      BY DEF TypeInv
    <2>1. CASE Off(request[r], p)
      <3>1. Apart(p)
        BY <1>1, <2>1, SlotApart DEF Off, PayPcs, HookPcs
      <3>2. ASSUME NEW s \in Outcomes, NEW t \in Requests, Heeding(t, <<p, s>>), lock[<<p, s>>] = t
            PROVE  lock'[<<p, s>>] = t
        <4>1. t # r
          BY <2>1, <3>2, EventParts DEF Off, Heeding
        <4>2. QED
          BY <1>0, <3>2, <4>1, EventParts
      <3>3. Frame(p)
        BY <1>0, <3>1, <3>2 DEF Frame
      <3>4. QED
        BY <2>0, <3>3, FrameKeeps
    <2>2. CASE p \in Touched(r)
      <3>1. \A t \in Requests :
              /\ Making(t, p)' => Making(t, p)
              /\ \A pc \in PayPcs : MakingAt(t, p, pc)' => MakingAt(t, p, pc)
              /\ \A e : Heeding(t, e)' => Heeding(t, e)
              /\ \A e : \A pc \in HookPcs : HeedingAt(t, e, pc)' => HeedingAt(t, e, pc)
        BY <1>1 DEF Making, MakingAt, Heeding, HeedingAt, PayPcs, HookPcs
      <3>2. Linked(p)' <=> Linked(p)
        BY <1>0 DEF Linked
      <3>3. RowSound(p)' /\ Judged(p)'
        BY <1>0, <2>0, <3>1, <3>2 DEF Sound, RowSound, Judged, Made
      <3>4. MakersSound(p)'
        BY <1>0, <2>0, <3>1, <3>2 DEF Sound, MakersSound, PayPcs
      <3>5. HeedersSound(p)'
        BY <1>0, <2>0, <3>1, <3>2 DEF Sound, HeedersSound, HookPcs
      <3>6. QED
        BY <1>0, <2>2, <3>3, <3>4, <3>5 DEF Sound, Books
    <2>3. QED
      BY <1>2, <2>1, <2>2
  <1>6. QED
    BY <1>4, <1>5 DEF TypeInv

---------------------------------------------------------------------------
LEMMA PayoutSoundStep == ASSUME TypeInv, [Next]_vars PROVE TypeInv'
  <1>1. CASE UNCHANGED vars
    <2>1. UNCHANGED <<bank, payout, booked, emitted, recorded, lock, misjudged, upset, request>> /\ TypeOK'
      BY <1>1 DEF TypeInv, TypeOK, vars, money, books, hook, history
    <2>2. QED
      BY <2>1, QuietSound DEF Apart
  <1>2. CASE Outside
    BY <1>2, AccountStep, SettleStep, ExpireStep DEF Outside
  <1>3. ASSUME NEW r \in Requests, Withdraw(r) PROVE TypeInv'
    BY <1>3, BalanceStep, CreateStep, AcceptStep, FallStep, UpdateStep, BookStep, MarkStep DEF Withdraw, Balancing
  <1>4. ASSUME NEW r \in Requests, Hook(r) PROVE TypeInv'
    BY <1>4, ReadStep, WriteStep, ReturnStep, RecordStep, HookBeginStep DEF Hook
  <1>5. QED
    BY <1>1, <1>2, <1>3, <1>4, DieStep DEF Next

(* Types, for any number of payouts, handlers, amounts and faults.         *)
THEOREM PayoutTypeCorrect == Spec => []TypeOK
  <1>1. Spec => []TypeInv
    BY PayoutInit, PayoutSoundStep, PTL DEF Spec
  <1>2. QED
    BY <1>1, PTL DEF TypeInv

(* The withdrawal of a payout nobody works on is in the books exactly while*)
(* it is live, and its status is Stripe's last word, unless a handler was  *)
(* interrupted, an event came early or late, or an accepted payout was     *)
(* marked FAILED.                                                          *)
THEOREM BooksAlwaysAgree == Spec => []BooksAgree
  <1>1. Spec => []TypeInv
    BY PayoutInit, PayoutSoundStep, PTL DEF Spec
  <1>2. TypeInv => BooksAgree
    <2>1. SUFFICES ASSUME TypeInv, NEW p \in Payouts, \A r \in Requests : p \notin Touched(r),
                          p \notin upset \cup misjudged
                   PROVE  /\ booked[p] = IF payout[p].status \in Live THEN -1 ELSE 0
                          /\ <<p, bank[p]>> \in recorded => payout[p].status = bank[p]
      BY DEF BooksAgree
    <2>2. ASSUME NEW r \in Requests PROVE ~Making(r, p) /\ \A s \in Outcomes : ~Heeding(r, <<p, s>>)
      <3>1. /\ request[r].pc \in PayPcs <=> request[r] \in Paying
            /\ request[r].pc \in HookPcs <=> request[r] \in Hooking
        BY <2>1, <2>2, Kinds DEF TypeInv
      <3>2. ~(request[r] \in Paying /\ request[r] \in Hooking)
        BY DEF Paying, Hooking
      <3>3. p \notin Touched(r)
        BY <2>1, <2>2
      <3>4. ~Making(r, p)
        BY <3>1, <3>2, <3>3 DEF Making, Touched
      <3>5. \A s \in Outcomes : ~Heeding(r, <<p, s>>)
        BY <3>1, <3>2, <3>3, EventParts DEF Heeding, Touched
      <3>6. QED
        BY <3>4, <3>5
    <2>3. ~Made(p) /\ ~Owed(p)
      BY <2>2, Words DEF Made, Owed, Heeding, HeedingAt, HookPcs
    <2>4. Balanced(p) /\ LastWord(p)
      BY <2>1 DEF TypeInv, Sound, Books
    <2>5. <<p, bank[p]>> \in recorded => bank[p] \in Outcomes
      BY <2>1 DEF TypeInv, TypeOK, Events
    <2>6. QED
      BY <2>3, <2>4, <2>5 DEF Balanced, LastWord, Handled
  <1>3. QED
    BY <1>1, <1>2, PTL

---------------------------------------------------------------------------
(* What the recipient has claimed: live payouts that Stripe did not return.*)
(* Its amount is never more than what was earned, because the two sums a   *)
(* withdrawal reads are together at least as much.                         *)
Claimed == {p \in Payouts : payout[p].status \in Live /\ bank[p] \notin Returns}

Weighed(r) ==
  At(r, "balance") =>
    /\ \A s \in Requests : At(s, "balance") => s = r
    /\ request[r].pending >= 0 /\ request[r].paid < 0 => request[r].pending = Amount(Having({"PENDING"}))
    /\ request[r].paid >= 0 /\ request[r].pending < 0 => request[r].paid = Amount(Having({"PAID"}))
    /\ request[r].pending >= 0 /\ request[r].paid >= 0
         => request[r].pending + request[r].paid >= Amount(Claimed)

MoneyInv ==
  ~overlapped /\ misjudged = {} => Amount(Claimed) <= earned /\ \A r \in Requests : Weighed(r)

LEMMA ClaimedNat ==
  ASSUME TypeOK
  PROVE  /\ IsFiniteSet(Claimed) /\ \A p \in Claimed : payout[p] \in Row /\ payout[p].amount \in Nat
         /\ Amount(Claimed) \in Nat
  <1>1. Claimed \subseteq Having(Live) /\ Live \subseteq Statuses
    BY DEF Claimed, Having, Statuses
  <1>2. IsFiniteSet(Having(Live)) /\ \A p \in Having(Live) : payout[p] \in Row /\ payout[p].amount \in Nat
    BY <1>1, HavingNat
  <1>3. IsFiniteSet(Claimed) /\ \A p \in Claimed : payout[p].amount \in Nat
    BY <1>1, <1>2, FS_Subset
  <1>4. QED
    BY <1>1, <1>2, <1>3, AmountIs, TotalNat

LEMMA ClaimedShrinks ==
  ASSUME TypeOK, \A p \in Claimed' : p \in Claimed /\ payout'[p].amount = payout[p].amount
  PROVE  Amount(Claimed)' <= Amount(Claimed) /\ Amount(Claimed)' \in Nat
  <1> DEFINE T == Claimed'
  <1>1. T \subseteq Claimed /\ \A p \in T : payout'[p].amount = payout[p].amount
    OBVIOUS
  <1>2. IsFiniteSet(T) /\ \A p \in T : payout[p].amount \in Nat
    BY <1>1, ClaimedNat, FS_Subset
  <1>3. Amount(Claimed)' = Total(payout', T)
    BY AmountWillBe
  <1> HIDE DEF T
  <1>4. Total(payout', T) = Total(payout, T)
    BY <1>1, <1>2, TotalAgrees
  <1>5. Total(payout, T) <= Total(payout, Claimed) /\ Total(payout, T) \in Nat
    BY <1>1, <1>2, ClaimedNat, TotalSubset, TotalNat
  <1>6. QED
    BY <1>3, <1>4, <1>5, AmountIs

LEMMA SumsKept ==
  ASSUME TypeOK, NEW S, S \subseteq Statuses,
         \A p \in Payouts : payout'[p].status = payout[p].status /\ payout'[p].amount = payout[p].amount
  PROVE  Amount(Having(S))' = Amount(Having(S))
  <1>1. Having(S)' = Having(S)
    BY DEF Having
  <1>2. Total(payout', Having(S)) = Total(payout, Having(S))
    <2>1. \A p \in Having(S) : payout'[p].amount = payout[p].amount
      BY DEF Having
    <2>2. IsFiniteSet(Having(S))
      BY HavingNat
    <2>3. QED
      BY <2>1, <2>2, TotalAgrees
  <1>3. Amount(Having(S))' = Total(payout', Having(S)')
    BY AmountWillBe
  <1>4. QED
    BY <1>1, <1>2, <1>3, AmountIs

(* Both sums read together cover what is claimed.                          *)
LEMMA SumsCover ==
  ASSUME TypeOK
  PROVE  /\ Amount(Having({"PENDING"})) + Amount(Having({"PAID"})) >= Amount(Claimed)
         /\ Amount(Having({"PENDING"})) \in Nat /\ Amount(Having({"PAID"})) \in Nat
  <1> DEFINE A == Having({"PENDING"})
             B == Having({"PAID"})
  <1>1. {"PENDING"} \subseteq Statuses /\ {"PAID"} \subseteq Statuses
    BY DEF Statuses, Live
  <1>2. /\ IsFiniteSet(A) /\ (\A p \in A : payout[p].amount \in Nat) /\ Amount(A) \in Nat
        /\ IsFiniteSet(B) /\ (\A p \in B : payout[p].amount \in Nat) /\ Amount(B) \in Nat
    BY <1>1, HavingNat
  <1>3. A \cap B = {} /\ Claimed \subseteq A \cup B
    BY DEF Having, Claimed, Live
  <1> HIDE DEF A, B
  <1>4. Total(payout, A \cup B) = Total(payout, A) + Total(payout, B)
    BY <1>2, <1>3, TotalUnion
  <1>5. IsFiniteSet(A \cup B) /\ \A p \in A \cup B : payout[p].amount \in Nat
    BY <1>2, FS_Union
  <1>6. Total(payout, Claimed) <= Total(payout, A \cup B)
    BY <1>3, <1>5, TotalSubset
  <1>7. QED
    BY <1>2, <1>4, <1>6, AmountIs, ClaimedNat DEF A, B

(* What a step may not do: bring back a claim, or change a status between  *)
(* the sums of one balance.                                                *)
LEMMA MoneyKept ==
  ASSUME TypeOK, TypeOK', MoneyInv, earned' >= earned,
         overlapped => overlapped', misjudged \subseteq misjudged',
         \A s \in Requests : At(s, "balance")' => request'[s] = request[s],
         misjudged' = {} => \A p \in Claimed' : p \in Claimed /\ payout'[p].amount = payout[p].amount,
         \/ overlapped' \/ \A s \in Requests : ~HalfWay(s)
         \/ \A p \in Payouts : payout'[p].status = payout[p].status /\ payout'[p].amount = payout[p].amount
  PROVE  MoneyInv'
  <1>1. SUFFICES ASSUME ~overlapped', misjudged' = {}
                 PROVE  Amount(Claimed)' <= earned' /\ \A r \in Requests : Weighed(r)'
    BY DEF MoneyInv
  <1>2. Amount(Claimed) <= earned /\ \A r \in Requests : Weighed(r)
    BY <1>1 DEF MoneyInv
  <1>3. Amount(Claimed)' <= Amount(Claimed) /\ Amount(Claimed)' \in Nat /\ Amount(Claimed) \in Nat
    BY <1>1, ClaimedShrinks, ClaimedNat
  <1>4. earned \in Nat /\ earned' \in Nat
    BY PayoutConstants DEF TypeOK
  <1>5. ASSUME NEW r \in Requests PROVE Weighed(r)'
    <2>1. SUFFICES ASSUME At(r, "balance")' PROVE Weighed(r)'
      BY DEF Weighed
    <2>2. request'[r] = request[r] /\ At(r, "balance")
      BY <2>1 DEF At
    <2>3. \A s \in Requests : At(s, "balance")' => s = r
      BY <1>2, <2>2 DEF Weighed, At
    <2>4. request[r].pending \in Int /\ request[r].paid \in Int
      BY <2>2, Kinds DEF At, Weighing, Sum
    <2>5. ASSUME request[r].pending >= 0, request[r].paid >= 0
          PROVE  request[r].pending + request[r].paid >= Amount(Claimed)'
      BY <1>2, <1>3, <2>2, <2>4, <2>5 DEF Weighed
    <2>6. ASSUME (request[r].pending >= 0) # (request[r].paid >= 0)
          PROVE  /\ request[r].pending >= 0 => request[r].pending = Amount(Having({"PENDING"}))'
                 /\ request[r].paid >= 0 => request[r].paid = Amount(Having({"PAID"}))'
      <3>1. HalfWay(r)
        BY <2>2, <2>6 DEF HalfWay
      <3>2. {"PENDING"} \subseteq Statuses /\ {"PAID"} \subseteq Statuses
        BY DEF Statuses, Live
      <3>3. /\ Amount(Having({"PENDING"}))' = Amount(Having({"PENDING"}))
            /\ Amount(Having({"PAID"}))' = Amount(Having({"PAID"}))
        BY <1>1, <3>1, <3>2, SumsKept
      <3>4. QED
        BY <1>2, <2>2, <2>4, <2>6, <3>3 DEF Weighed
    <2>7. QED
      BY <2>2, <2>3, <2>4, <2>5, <2>6 DEF Weighed
  <1>6. QED
    BY <1>2, <1>3, <1>4, <1>5

LEMMA MoneyInit == Init => MoneyInv
  <1>1. SUFFICES ASSUME Init PROVE MoneyInv
    OBVIOUS
  <1>2. Claimed = {}
    BY <1>1 DEF Init, Claimed, Nothing, Live
  <1>3. Amount(Claimed) = 0
    BY <1>2, AmountIs, TotalEmpty
  <1>4. \A r \in Requests : ~At(r, "balance")
    BY <1>1 DEF Init, At, Idle
  <1>5. QED
    BY <1>1, <1>3, <1>4 DEF MoneyInv, Weighed, Init

LEMMA WithdrawBeginMoney ==
  ASSUME TypeInv, MoneyInv, NEW r \in Requests, WithdrawBegin(r)
  PROVE  MoneyInv'
  <1> DEFINE q == [pc |-> "balance", pending |-> -1, paid |-> -1]
  <1>1. /\ TypeOK /\ request' = [request EXCEPT ![r] = q]
        /\ UNCHANGED <<payout, bank, earned, misjudged>>
        /\ overlapped' = (overlapped \/ \E s \in Requests : At(s, "balance"))
    BY DEF TypeInv, WithdrawBegin, Start, money, books
  <1>2. q \in Weighing /\ q.pending = -1 /\ q.paid = -1
    BY DEF Weighing, Sum
  <1> HIDE DEF q
  <1>3. request'[r] = q /\ \A s \in Requests \ {r} : request'[s] = request[s]
    BY <1>1, <1>2, SlotWrite
  <1>4. SUFFICES ASSUME ~overlapped', misjudged' = {}
                 PROVE  Amount(Claimed)' <= earned' /\ \A t \in Requests : Weighed(t)'
    BY DEF MoneyInv
  <1>5. Amount(Claimed)' <= earned'
    <2>1. Amount(Claimed) <= earned /\ earned \in Nat
      BY <1>1, <1>4, PayoutConstants DEF MoneyInv, TypeOK
    <2>2. Amount(Claimed)' <= Amount(Claimed) /\ Amount(Claimed)' \in Nat /\ Amount(Claimed) \in Nat
      <3>1. \A p \in Claimed' : p \in Claimed /\ payout'[p].amount = payout[p].amount
        BY <1>1 DEF Claimed
      <3>2. QED
        BY <1>1, <3>1, ClaimedShrinks, ClaimedNat
    <2>3. QED
      BY <1>1, <2>1, <2>2
  <1>6. ASSUME NEW t \in Requests PROVE Weighed(t)'
    <2>1. ASSUME NEW s \in Requests, At(s, "balance")' PROVE s = r
      BY <1>1, <1>3, <1>4, <2>1 DEF At
    <2>2. QED
      BY <1>2, <1>3, <2>1 DEF Weighed
  <1>7. QED
    BY <1>5, <1>6

LEMMA SumMoney ==
  ASSUME TypeInv, MoneyInv, NEW r \in Requests, SumPending(r) \/ SumPaid(r)
  PROVE  MoneyInv'
  <1> DEFINE A == Amount(Having({"PENDING"}))
             B == Amount(Having({"PAID"}))
  <1>1. /\ TypeOK /\ request[r] \in Weighing
        /\ UNCHANGED <<payout, bank, earned, overlapped, misjudged>>
    BY Kinds DEF TypeInv, SumPending, SumPaid, At, money, books, history
  <1>2. /\ request[r].pc = "balance" /\ A \in Nat /\ B \in Nat /\ A + B >= Amount(Claimed)
        /\ request[r].pending \in Sum /\ request[r].paid \in Sum
    BY <1>1, SumsCover DEF Weighing
  <1>3. PICK q \in Weighing :
          /\ request' = [request EXCEPT ![r] = q]
          /\ \/ SumPending(r) /\ q.pending = A /\ q.paid = request[r].paid
             \/ SumPaid(r) /\ q.paid = B /\ q.pending = request[r].pending
    <2>1. CASE SumPending(r)
      <3>1. [request[r] EXCEPT !.pending = A] \in Weighing
        BY <1>1, <1>2 DEF Weighing, Sum
      <3>2. [request[r] EXCEPT !.pending = A].pending = A /\ [request[r] EXCEPT !.pending = A].paid = request[r].paid
        BY <1>1 DEF Weighing
      <3>3. request' = [request EXCEPT ![r] = [request[r] EXCEPT !.pending = A]]
        BY <2>1 DEF SumPending
      <3>4. QED
        BY <2>1, <3>1, <3>2, <3>3
    <2>2. CASE SumPaid(r)
      <3>1. [request[r] EXCEPT !.paid = B] \in Weighing
        BY <1>1, <1>2 DEF Weighing, Sum
      <3>2. [request[r] EXCEPT !.paid = B].paid = B /\ [request[r] EXCEPT !.paid = B].pending = request[r].pending
        BY <1>1 DEF Weighing
      <3>3. request' = [request EXCEPT ![r] = [request[r] EXCEPT !.paid = B]]
        BY <2>2 DEF SumPaid
      <3>4. QED
        BY <2>2, <3>1, <3>2, <3>3
    <2>3. QED
      BY <2>1, <2>2
  <1>4. request'[r] = q /\ \A s \in Requests \ {r} : request'[s] = request[s]
    BY <1>1, <1>3, SlotWrite
  <1>5. SUFFICES ASSUME ~overlapped', misjudged' = {}
                 PROVE  Amount(Claimed)' <= earned' /\ \A t \in Requests : Weighed(t)'
    BY DEF MoneyInv
  <1>6. Amount(Claimed) <= earned /\ Weighed(r)
    BY <1>1, <1>5 DEF MoneyInv
  <1>7. /\ Amount(Claimed)' = Amount(Claimed) /\ Amount(Claimed) \in Nat
        /\ A' = A /\ B' = B
    <2>1. Claimed' = Claimed
      BY <1>1 DEF Claimed
    <2>2. /\ Amount(Claimed)' = Total(payout', Claimed') /\ Amount(Claimed) = Total(payout, Claimed)
      BY AmountWillBe, AmountIs
    <2>3. {"PENDING"} \subseteq Statuses /\ {"PAID"} \subseteq Statuses
      BY DEF Statuses, Live
    <2>4. A' = A /\ B' = B
      BY <1>1, <2>3, SumsKept
    <2>5. QED
      BY <1>1, <2>1, <2>2, <2>4, ClaimedNat
  <1>8. ASSUME NEW t \in Requests PROVE Weighed(t)'
    <2>1. \A s \in Requests : At(s, "balance")' => s = r
      BY <1>2, <1>4, <1>6 DEF Weighed, At
    <2>2. /\ q.pending \in Sum /\ q.paid \in Sum
          /\ request[r].pending >= 0 /\ request[r].paid < 0 => request[r].pending = A
          /\ request[r].paid >= 0 /\ request[r].pending < 0 => request[r].paid = B
      BY <1>2, <1>6 DEF Weighed, At, Weighing
    <2> HIDE DEF A, B
    <2>3. /\ q.pending >= 0 /\ q.paid < 0 => q.pending = A
          /\ q.paid >= 0 /\ q.pending < 0 => q.paid = B
          /\ q.pending >= 0 /\ q.paid >= 0 => q.pending + q.paid >= Amount(Claimed)
      <3>1. CASE SumPending(r) /\ q.pending = A /\ q.paid = request[r].paid
        <4>1. request[r].pending < 0
          BY <3>1 DEF SumPending
        <4>2. QED
          BY <1>2, <2>2, <3>1, <4>1, <1>7 DEF Sum
      <3>2. CASE SumPaid(r) /\ q.paid = B /\ q.pending = request[r].pending
        <4>1. request[r].paid < 0
          BY <3>2 DEF SumPaid
        <4>2. QED
          BY <1>2, <2>2, <3>2, <4>1, <1>7 DEF Sum
      <3>3. QED
        BY <1>3, <3>1, <3>2
    <2>4. QED
      BY <1>4, <1>7, <2>1, <2>3 DEF Weighed, A, B
  <1>9. QED
    BY <1>1, <1>6, <1>7, <1>8

LEMMA CreateMoney ==
  ASSUME TypeInv, TypeOK', MoneyInv, NEW r \in Requests, NEW p \in Payouts, NEW a \in 1..MaxEarned,
         CreatePayout(r, p, a)
  PROVE  MoneyInv'
  <1> DEFINE v == [status |-> "PENDING", amount |-> a, linked |-> FALSE]
             q == [pc |-> "stripe", payout |-> p]
  <1>1. /\ TypeOK /\ Sound(p) /\ payout[p] = Nothing /\ request[r] \in Weighing /\ request[r].pc = "balance"
        /\ request[r].pending >= 0 /\ request[r].paid >= 0
        /\ a \in Minimum..(earned - request[r].pending - request[r].paid)
        /\ payout' = [payout EXCEPT ![p] = v] /\ request' = [request EXCEPT ![r] = q]
        /\ UNCHANGED <<bank, earned, overlapped, misjudged>>
    BY Kinds DEF TypeInv, CreatePayout, Withdrawable, Available, At, money, history
  <1>2. v.status = "PENDING" /\ v.amount = a /\ q \in Paying /\ q.pc = "stripe"
    BY DEF Paying
  <1>3. request[r].pending \in Int /\ request[r].paid \in Int /\ earned \in Int /\ a \in Nat /\ Minimum \in Int
    BY <1>1, PayoutConstants DEF Weighing, Sum, TypeOK
  <1> HIDE DEF v, q
  <1>4. payout'[p] = v /\ \A t \in Payouts \ {p} : payout'[t] = payout[t]
    BY <1>1 DEF TypeOK
  <1>5. request'[r].pc = "stripe" /\ \A t \in Requests \ {r} : request'[t] = request[t]
    BY <1>1, <1>2, SlotWrite
  <1>6. SUFFICES ASSUME ~overlapped, misjudged = {}
                 PROVE  Amount(Claimed)' <= earned' /\ \A t \in Requests : Weighed(t)'
    BY <1>1 DEF MoneyInv
  <1>7. Weighed(r) /\ Amount(Claimed) \in Nat
    BY <1>1, <1>6, ClaimedNat DEF MoneyInv
  <1>8. request[r].pending + request[r].paid >= Amount(Claimed)
    BY <1>1, <1>7 DEF Weighed, At
  <1>9. Claimed' = Claimed \cup {p} /\ p \notin Claimed
    <2>1. bank[p] = "none"
      BY <1>1 DEF Sound, RowSound
    <2>2. payout[p].status = "none"
      BY <1>1 DEF Nothing
    <2>3. QED
      BY <1>1, <1>2, <1>4, <2>1, <2>2, Words DEF Claimed, Live
  <1>10. Amount(Claimed)' = Amount(Claimed) + a
    <2> DEFINE C == Claimed
    <2>1. /\ IsFiniteSet(C) /\ (\A x \in C : payout'[x].amount = payout[x].amount /\ payout'[x].amount \in Nat)
          /\ p \notin C /\ payout'[p].amount = a
      BY <1>1, <1>2, <1>4, <1>9, ClaimedNat DEF Claimed
    <2>2. Amount(Claimed)' = Total(payout', C \cup {p}) /\ Amount(Claimed) = Total(payout, C)
      BY <1>9, AmountWillBe, AmountIs
    <2> HIDE DEF C
    <2>3. Total(payout', C) = Total(payout, C)
      BY <2>1, TotalAgrees
    <2>4. Total(payout', C \cup {p}) = Total(payout', C) + payout'[p].amount
      BY <1>3, <2>1, TotalAdd
    <2>5. QED
      BY <2>1, <2>2, <2>3, <2>4
  <1>11. Amount(Claimed)' <= earned'
    BY <1>1, <1>3, <1>7, <1>8, <1>10
  <1>12. \A t \in Requests : ~At(t, "balance")'
    BY <1>1, <1>5, <1>7 DEF At, Weighed
  <1>13. QED
    BY <1>11, <1>12 DEF Weighed

LEMMA MoneyStep == ASSUME TypeInv, MoneyInv, [Next]_vars PROVE MoneyInv'
  <1>0. TypeOK /\ TypeOK' /\ earned \in Nat
    BY PayoutSoundStep, PayoutConstants DEF TypeInv, TypeOK
  <1> DEFINE Calm == /\ earned' >= earned
                     /\ overlapped => overlapped'
                     /\ misjudged \subseteq misjudged'
                     /\ \A s \in Requests : At(s, "balance")' => request'[s] = request[s]
             Same == \A p \in Payouts : payout'[p].status = payout[p].status /\ payout'[p].amount = payout[p].amount
             Kept == misjudged' = {} => \A p \in Claimed' : p \in Claimed /\ payout'[p].amount = payout[p].amount
             Seen == overlapped' \/ \A s \in Requests : ~HalfWay(s)
  <1>1. ASSUME Calm, Kept, Same \/ Seen PROVE MoneyInv'
    BY <1>0, <1>1, MoneyKept
  <1>2. ASSUME Calm, UNCHANGED payout, \A p \in Payouts : bank'[p] = bank[p] \/ bank[p] \notin Returns PROVE MoneyInv'
    <2>1. Kept
      BY <1>2 DEF Claimed
    <2>2. QED
      BY <1>1, <1>2, <2>1
  <1>3. CASE UNCHANGED vars \/ Earn \/ Onboard \/ (\E s \in Accounts : SyncFromStripeAccount(s))
             \/ (\E e \in Events : LockExpires(e))
    <2>1. UNCHANGED <<payout, bank, request, overlapped, misjudged>> /\ earned' >= earned
      BY <1>0, <1>3, PayoutConstants DEF Earn, Onboard, SyncFromStripeAccount, LockExpires, vars, money, books, history
    <2>2. Calm
      BY <2>1 DEF At
    <2>3. QED
      BY <1>2, <2>1, <2>2
  <1>4. ASSUME NEW p \in Payouts, NEW s \in Outcomes, StripeSettles(p, s) PROVE MoneyInv'
    <2>1. UNCHANGED <<payout, earned, request, overlapped, misjudged>>
      BY <1>4 DEF StripeSettles, books, history
    <2>2. bank[p] \notin Returns /\ \A q \in Payouts \ {p} : bank'[q] = bank[q]
      BY <1>0, <1>4, Words DEF StripeSettles, TypeOK
    <2>3. Calm
      BY <1>0, <2>1 DEF At
    <2>4. QED
      BY <1>2, <2>1, <2>2, <2>3
  <1>5. ASSUME NEW r \in Requests,
               \A s \in Requests \ {r} : request'[s] = request[s], request'[r].pc # "balance",
               earned' = earned, overlapped => overlapped', misjudged \subseteq misjudged'
        PROVE  Calm
    BY <1>0, <1>5 DEF At
  <1>6. ASSUME NEW r \in Requests, Refused(r) \/ BookWithdrawal(r) \/ HookRecord(r) \/ Die(r) PROVE MoneyInv'
    <2>1. UNCHANGED <<payout, bank, earned, overlapped, misjudged>> /\ Finish(r)
      BY <1>6 DEF Refused, BookWithdrawal, HookRecord, Die, money, books, history
    <2>2. Calm
      BY <1>0, <1>5, <2>1, SlotFreed
    <2>3. QED
      BY <1>2, <2>1, <2>2
  <1>7. ASSUME NEW r \in Requests, StripeAccepts(r) \/ StripeDeclines(r) \/ Throw(r) PROVE MoneyInv'
    <2>1. /\ UNCHANGED <<payout, earned, overlapped, misjudged>> /\ request[r].pc \in PayPcs
          /\ \E pc \in PayPcs : Goto(r, pc)
      BY <1>7 DEF StripeAccepts, StripeDeclines, Throw, At, PayPcs, money, books, history
    <2>2. \A s \in Requests \ {r} : request'[s] = request[s]
      BY <1>0, <2>1, GotoPay
    <2>3. request'[r].pc # "balance"
      BY <1>0, <2>1, GotoPay DEF PayPcs
    <2>4. Calm
      BY <1>5, <2>1, <2>2, <2>3
    <2>5. ASSUME NEW p \in Payouts PROVE bank'[p] = bank[p] \/ bank[p] \notin Returns
      <3>1. CASE StripeAccepts(r)
        <4>1. At(r, "stripe") /\ bank' = [bank EXCEPT ![request[r].payout] = "created"]
          BY <3>1 DEF StripeAccepts
        <4>2. p = request[r].payout => MakingAt(r, p, "stripe")
          BY <4>1 DEF At, MakingAt
        <4>3. p = request[r].payout => bank[p] = "none"
          BY <4>2 DEF TypeInv, Sound, MakersSound
        <4>4. QED
          BY <1>0, <4>1, <4>3, Words DEF TypeOK
      <3>2. CASE StripeDeclines(r) \/ Throw(r)
        BY <3>2 DEF StripeDeclines, Throw, money
      <3>3. QED
        BY <1>7, <3>1, <3>2
    <2>6. QED
      BY <1>2, <2>1, <2>4, <2>5
  <1>8. ASSUME NEW r \in Requests, HookRead(r) \/ HookReturn(r) PROVE MoneyInv'
    <2>1. /\ UNCHANGED <<payout, bank, earned, overlapped, misjudged>> /\ request[r].pc \in HookPcs
          /\ \E pc \in HookPcs : Goto(r, pc)
      BY <1>8 DEF HookRead, HookReturn, At, HookPcs, money, books, history
    <2>2. \A s \in Requests \ {r} : request'[s] = request[s]
      BY <1>0, <2>1, GotoHeed
    <2>3. request'[r].pc # "balance"
      BY <1>0, <2>1, GotoHeed DEF HookPcs
    <2>4. Calm
      BY <1>5, <2>1, <2>2, <2>3
    <2>5. QED
      BY <1>2, <2>1, <2>4
  <1>9. ASSUME NEW r \in Requests, NEW e \in Events, HookBegin(r, e) PROVE MoneyInv'
    <2> DEFINE h == [pc |-> "hook.read", event |-> e]
    <2>1. UNCHANGED <<payout, bank, earned, overlapped, misjudged>> /\ request' = [request EXCEPT ![r] = h]
      BY <1>9 DEF HookBegin, Start, money, books, history
    <2>2. h \in Hooking /\ h.pc # "balance"
      BY DEF Hooking
    <2> HIDE DEF h
    <2>3. request'[r] = h /\ \A s \in Requests \ {r} : request'[s] = request[s]
      BY <1>0, <2>1, <2>2, SlotWrite
    <2>4. Calm
      BY <1>5, <2>1, <2>2, <2>3
    <2>5. QED
      BY <1>2, <2>1, <2>4
  <1>10. ASSUME NEW r \in Requests, UpdatePayout(r) PROVE MoneyInv'
    <2>1. /\ UNCHANGED <<bank, earned, overlapped, misjudged>> /\ request[r].pc \in PayPcs
          /\ request[r].pc = "update" /\ Goto(r, "book")
      BY <1>10 DEF UpdatePayout, At, PayPcs, money, history
    <2>2. PICK p \in Payouts :
            p = request[r].payout /\ payout[p] \in Row /\ Sound(p) /\ Making(r, p) /\ Made(p)
      BY <2>1, MakerKnows
    <2>3. /\ payout'[p].status = "PENDING" /\ payout'[p].amount = payout[p].amount
          /\ \A q \in Payouts \ {p} : payout'[q] = payout[q]
      BY <1>0, <1>10, <2>2, LinkWrite DEF UpdatePayout
    <2>4. payout[p].status = "PENDING"
      BY <2>1, <2>2 DEF Sound, MakersSound, MakingAt
    <2>5. Same
      BY <2>3, <2>4
    <2>6. Kept
      BY <2>1, <2>5 DEF Claimed
    <2>7. Calm
      BY <1>0, <1>5, <2>1, GotoPay DEF PayPcs
    <2>8. QED
      BY <1>1, <2>5, <2>6, <2>7
  <1>11. ASSUME NEW r \in Requests, MarkFailed(r) PROVE MoneyInv'
    <2>1. /\ UNCHANGED <<bank, earned>> /\ request[r].pc \in PayPcs /\ Finish(r)
          /\ SetStatus(request[r].payout, "FAILED") /\ misjudged \subseteq misjudged'
      BY <1>11 DEF MarkFailed, At, PayPcs, money
    <2>2. PICK p \in Payouts :
            p = request[r].payout /\ payout[p] \in Row /\ Sound(p) /\ Making(r, p) /\ Made(p)
      BY <2>1, MakerKnows
    <2>3. "FAILED" \in Statuses /\ "FAILED" \notin Live
      BY DEF Statuses, Live
    <2>4. payout'[p].status = "FAILED" /\ \A q \in Payouts \ {p} : payout'[q] = payout[q]
      <3>1. SetStatus(p, "FAILED") /\ payout[p] \in Row
        BY <2>1, <2>2
      <3>2. QED
        BY <1>0, <2>3, <3>1, StatusSet
    <2>5. Kept
      BY <2>1, <2>3, <2>4 DEF Claimed
    <2>6. (overlapped => overlapped') /\ Seen
      BY <1>0, <2>1 DEF SetStatus, TypeOK
    <2>7. Calm
      BY <1>0, <1>5, <2>1, <2>6, SlotFreed
    <2>8. QED
      BY <1>1, <2>5, <2>6, <2>7
  <1>12. ASSUME NEW r \in Requests, HookWrite(r) PROVE MoneyInv'
    <2>1. /\ UNCHANGED <<bank, earned, misjudged>> /\ request[r].pc \in HookPcs
          /\ SetStatus(Of(request[r].event), request[r].event[2])
          /\ \E pc \in HookPcs : Goto(r, pc)
      BY <1>12 DEF HookWrite, At, HookPcs, money
    <2>2. PICK p \in Payouts, s \in Outcomes :
            /\ Of(request[r].event) = p /\ request[r].event[2] = s /\ payout[p] \in Row /\ Sound(p)
            /\ bank[p] \notin {"none", "created"}
      BY <2>1, HeederKnows
    <2>3. /\ payout'[p].amount = payout[p].amount
          /\ \A q \in Payouts \ {p} : payout'[q] = payout[q]
      <3>1. payout' = [payout EXCEPT ![p].status = s] /\ s \in Statuses
        BY <2>1, <2>2, Words DEF SetStatus
      <3>2. QED
        BY <1>0, <2>2, <3>1, StatusWrite
    <2>4. Kept
      <3>1. SUFFICES ASSUME misjudged = {}, NEW q \in Claimed'
                     PROVE  q \in Claimed /\ payout'[q].amount = payout[q].amount
        BY <2>1
      <3>2. CASE q = p
        <4>1. bank[p] = "PAID"
          BY <1>0, <2>1, <2>2, <3>1, <3>2 DEF Claimed, TypeOK, Outcomes
        <4>2. payout[p].status \in Live
          BY <2>2, <3>1, <4>1 DEF Sound, Judged
        <4>3. QED
          BY <2>3, <3>2, <4>1, <4>2, Words DEF Claimed
      <3>3. CASE q # p
        BY <2>1, <2>3, <3>1, <3>3 DEF Claimed
      <3>4. QED
        BY <3>2, <3>3
    <2>5. (overlapped => overlapped') /\ Seen
      BY <1>0, <2>1 DEF SetStatus, TypeOK
    <2>6. \A t \in Requests \ {r} : request'[t] = request[t]
      BY <1>0, <2>1, GotoHeed
    <2>7. request'[r].pc # "balance"
      BY <1>0, <2>1, GotoHeed DEF HookPcs
    <2>8. Calm
      BY <1>5, <2>1, <2>5, <2>6, <2>7
    <2>9. QED
      BY <1>1, <2>4, <2>5, <2>8
  <1>13. ASSUME NEW r \in Requests, Withdraw(r) PROVE MoneyInv'
    BY <1>0, <1>6, <1>7, <1>10, <1>11, <1>13, WithdrawBeginMoney, SumMoney, CreateMoney DEF Withdraw
  <1>14. ASSUME NEW r \in Requests, Hook(r) PROVE MoneyInv'
    BY <1>6, <1>8, <1>9, <1>12, <1>14 DEF Hook
  <1>15. QED
    BY <1>3, <1>4, <1>6, <1>13, <1>14 DEF Next, Outside

(* Stripe never holds more of the recipient's payouts than was earned,     *)
(* unless two withdrawals weighed the balance at once, a status changed    *)
(* between two sums of one balance, or a payout Stripe had accepted was    *)
(* marked FAILED.                                                          *)
THEOREM BalanceNeverOverdrawn == Spec => []NeverOverdrawn
  <1>1. Spec => [](TypeInv /\ MoneyInv)
    <2>1. Init => TypeInv /\ MoneyInv
      BY PayoutInit, MoneyInit
    <2>2. TypeInv /\ MoneyInv /\ [Next]_vars => (TypeInv /\ MoneyInv)'
      BY PayoutSoundStep, MoneyStep
    <2>3. QED
      BY <2>1, <2>2, PTL DEF Spec
  <1>2. TypeInv /\ MoneyInv => NeverOverdrawn
    <2> DEFINE Held == {p \in Payouts : bank[p] \in {"created", "PAID"}}
    <2>1. SUFFICES ASSUME TypeInv, MoneyInv, ~overlapped, misjudged = {}
                   PROVE  ~(Amount(Held) > earned)
      BY DEF NeverOverdrawn, TypeInv, TypeOK
    <2>2. Held \subseteq Claimed
      BY <2>1, Words DEF TypeInv, Sound, Judged, Claimed
    <2>3. /\ IsFiniteSet(Claimed) /\ (\A p \in Claimed : payout[p].amount \in Nat)
          /\ Amount(Claimed) \in Nat /\ earned \in Nat
      BY <2>1, ClaimedNat, PayoutConstants DEF TypeInv, TypeOK
    <2> HIDE DEF Held
    <2>4. Total(payout, Held) <= Total(payout, Claimed)
      BY <2>2, <2>3, TotalSubset
    <2>5. Total(payout, Held) \in Nat
      BY <2>2, <2>3, FS_Subset, TotalNat
    <2>6. Amount(Claimed) <= earned
      BY <2>1 DEF MoneyInv
    <2>7. QED
      BY <2>3, <2>4, <2>5, <2>6, AmountIs
  <1>3. QED
    BY <1>1, <1>2, PTL
=============================================================================
