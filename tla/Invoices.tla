------------------------------ MODULE Invoices ------------------------------
(***************************************************************************)
(* The invoices of succeeded payments and how they are numbered            *)
(* (src/payments/services/invoices.service.ts).                            *)
(*                                                                         *)
(* A number is the year and one more than the rows there are; payment and  *)
(* number are unique in the table, and no row is ever deleted.  The PDF is *)
(* drawn between the count and the row.  Amounts and the payer are left    *)
(* out, and payments move by the handlers of Escrow.                       *)
(***************************************************************************)
EXTENDS Integers, FiniteSets

CONSTANTS Bills,   \* payments
          Desks,   \* requests under way at a time
          Years    \* bound: turns of the year

ASSUME InvoiceConstants == IsFiniteSet(Bills) /\ Years \in Nat

VARIABLES
  paid,        \* payments.status, as far as invoices look at it
  invoice,     \* payment -> its row, or NoInvoice
  desk,        \* slot -> the request
  year,
  refused,     \* history: a unique key stopped a call that no other had overlapped
  straddled    \* history: the year turned while a call that had counted had yet to write

invoiceVars == <<paid, invoice, desk, year, refused, straddled>>

NoInvoice == [number |-> 0, year |-> 0]
Vacant    == [pc |-> "vacant"]
Invoice   == [number : 1..Cardinality(Bills), year : 0..Years]

InvoiceTypeOK ==
  /\ paid \in [Bills -> {"open", "SUCCEEDED", "REFUNDED"}]
  /\ invoice \in [Bills -> {NoInvoice} \cup Invoice]
  /\ desk \in [Desks -> {Vacant} \cup [pc : {"existing", "count", "create"}, bill : Bills, rival : BOOLEAN,
                                     number : 0..(Cardinality(Bills) + 1), year : 0..Years]]
  /\ year \in 0..Years /\ refused \in BOOLEAN /\ straddled \in BOOLEAN

InvoiceInit ==
  /\ paid = [b \in Bills |-> "open"] /\ invoice = [b \in Bills |-> NoInvoice]
  /\ desk = [d \in Desks |-> Vacant]
  /\ year = 0 /\ refused = FALSE /\ straddled = FALSE

---------------------------------------------------------------------------
Issued    == {b \in Bills : invoice[b] # NoInvoice}
OnDesk(d, pc) == desk[d].pc = pc
Clear(d)  == desk' = [desk EXCEPT ![d] = Vacant]

\* Two calls under way at once are each other's rivals.
GenerateBegin(d, b) ==
  LET others == {e \in Desks : desk[e] # Vacant} IN
  /\ desk[d] = Vacant /\ paid[b] = "SUCCEEDED"
  /\ desk' = [e \in Desks |->
       IF e = d THEN [pc |-> "existing", bill |-> b, rival |-> others # {}, number |-> 0, year |-> 0]
       ELSE IF e \in others THEN [desk[e] EXCEPT !.rival = TRUE] ELSE Vacant]
  /\ UNCHANGED <<paid, invoice, year, refused, straddled>>

FindInvoice(d) ==
  /\ OnDesk(d, "existing")
  /\ IF desk[d].bill \in Issued THEN Clear(d) ELSE desk' = [desk EXCEPT ![d].pc = "count"]
  /\ UNCHANGED <<paid, invoice, year, refused, straddled>>

\* Mutant: the rows of this year are counted.
CountThisYear(d) ==
  /\ OnDesk(d, "count")
  /\ desk' = [desk EXCEPT ![d].pc = "create", ![d].year = year,
                          ![d].number = Cardinality({b \in Issued : invoice[b].year = year}) + 1]
  /\ UNCHANGED <<paid, invoice, year, refused, straddled>>

\* Whatever the year, every row is counted.
GenerateInvoiceNumber(d) ==
  /\ OnDesk(d, "count")
  /\ desk' = [desk EXCEPT ![d].pc = "create", ![d].year = year, ![d].number = Cardinality(Issued) + 1]
  /\ UNCHANGED <<paid, invoice, year, refused, straddled>>

CreateInvoice(d) ==
  LET new == [number |-> desk[d].number, year |-> desk[d].year] IN
  /\ OnDesk(d, "create") /\ Clear(d)
  /\ IF desk[d].bill \in Issued \/ \E b \in Issued : invoice[b] = new
     THEN refused' = (refused \/ ~desk[d].rival) /\ UNCHANGED invoice
     ELSE invoice' = [invoice EXCEPT ![desk[d].bill] = new] /\ UNCHANGED refused
  /\ UNCHANGED <<paid, year, straddled>>

\* The process dies or a statement throws.
DropInvoice(d) ==
  /\ desk[d] # Vacant /\ Clear(d)
  /\ UNCHANGED <<paid, invoice, year, refused, straddled>>

PaymentMoves(b) ==
  /\ paid[b] # "REFUNDED"
  /\ paid' = [paid EXCEPT ![b] = IF @ = "open" THEN "SUCCEEDED" ELSE "REFUNDED"]
  /\ UNCHANGED <<invoice, desk, year, refused, straddled>>

NewYear ==
  /\ year < Years /\ year' = year + 1   \* bound
  /\ straddled' = (straddled \/ \E d \in Desks : OnDesk(d, "create"))
  /\ UNCHANGED <<paid, invoice, desk, refused>>

InvoiceNext ==
  \/ \E d \in Desks :
       \/ \E b \in Bills : GenerateBegin(d, b)
       \/ FindInvoice(d) \/ GenerateInvoiceNumber(d) \/ CreateInvoice(d) \/ DropInvoice(d)
  \/ \E b \in Bills : PaymentMoves(b)
  \/ NewYear

InvoiceSpec == InvoiceInit /\ [][InvoiceNext]_invoiceVars

---------------------------------------------------------------------------
(* The invoices are numbered 1, 2, 3, ... over all years, each number      *)
(* once, whatever calls die or are refused; only calls that overlap and    *)
(* write across a turn of the year may take one number for two.            *)
NumbersRunOn ==
  \/ {invoice[b].number : b \in Issued} = 1..Cardinality(Issued)
  \/ straddled

(* A succeeded payment gets its invoice: a number is taken already, or the *)
(* payment invoiced, only if another call was under way.                   *)
InvoicesSound == NumbersRunOn /\ ~refused
=============================================================================
