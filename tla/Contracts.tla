----------------------------- MODULE Contracts ------------------------------
(***************************************************************************)
(* The contract of one deal: its versions, the signatures of the two       *)
(* parties, its status and its event log (src/contracts).  Only create     *)
(* looks at the deal, which may be active or not: no other step waits.     *)
(*                                                                         *)
(* Only the two unique keys, one contract per deal and one signature per   *)
(* version and party, are enforced by the database.  The status is read at *)
(* the beginning of a handler and written at its end, after other awaits.  *)
(***************************************************************************)
EXTENDS Integers, FiniteSets

CONSTANTS
  Clerks,        \* handlers in flight at the same time
  MaxVersions,   \* bound on the versions of the contract
  MaxLosses      \* bound on handlers that end between two steps

ASSUME ContractConstants == MaxVersions \in Nat \ {0} /\ MaxLosses \in Nat

VARIABLES
  status,        \* contracts.status, or none
  versions,      \* number of contract_versions; they are numbered from 1
  pdf,           \* versions with a pdfFilename
  signed,        \* contract_signatures: version and party
  log,           \* contract_events: type and version
  clerk,         \* the handler in each slot
  mixed,         \* history: two handlers that write the status were at work at once
  deaths         \* history

contractRows    == <<status, versions, pdf, signed, log>>
contractHistory == <<mixed, deaths>>
contractVars    == <<contractRows, clerk, contractHistory>>

Parties     == {"BRAND", "CREATOR"}
NonTerminal == {"DRAFT", "AWAITING_SIGNATURE", "PARTIALLY_SIGNED"}
Signable    == {"AWAITING_SIGNATURE", "PARTIALLY_SIGNED"}
Statuses    == NonTerminal \cup {"EXECUTED", "VOIDED"}
EventTypes  == {"CREATED", "VERSION_CREATED", "SENT_FOR_SIGNATURE", "SIGNED", "FULLY_EXECUTED", "VOIDED"}
Versions    == 1..MaxVersions

Free   == [pc |-> "idle"]
AtWork ==
  [pc: {"create", "version.latest", "sign.latest"}, party: Parties \cup {"either"}]
  \cup [pc: {"create.pdf", "create.log", "version.create", "version.pdf", "version.reset", "version.log",
             "sign.create", "sign.count", "sign.partial", "sign.execute", "sign.log", "sign.done"},
        party: Parties \cup {"either"}, version: Versions]
  \cup [pc: {"send", "send.log", "void", "void.log"}, party: Parties \cup {"either"}]

ContractTypeOK ==
  /\ status \in Statuses \cup {"none"}
  /\ versions \in 0..MaxVersions /\ pdf \subseteq 1..versions
  /\ (status = "none") = (versions = 0)
  /\ signed \subseteq (1..versions) \X Parties
  /\ log \subseteq EventTypes \X (0..versions)
  /\ clerk \in [Clerks -> {Free} \cup AtWork]
  /\ mixed \in BOOLEAN /\ deaths \in 0..MaxLosses

ContractInit ==
  /\ status = "none" /\ versions = 0 /\ pdf = {} /\ signed = {} /\ log = {}
  /\ clerk = [r \in Clerks |-> Free]
  /\ mixed = FALSE /\ deaths = 0

---------------------------------------------------------------------------
Doing(r, pc)   == clerk[r].pc = pc
Version(r)     == clerk[r].version
Busy           == {r \in Clerks : clerk[r] # Free}
Proceed(r, pc) == clerk' = [clerk EXCEPT ![r].pc = pc] /\ UNCHANGED contractHistory
Have(r, pc, v) ==
  /\ clerk' = [clerk EXCEPT ![r] = [pc |-> pc, party |-> clerk[r].party, version |-> v]]
  /\ UNCHANGED contractHistory
Leave(r)       == clerk' = [clerk EXCEPT ![r] = Free] /\ UNCHANGED contractHistory

\* A handler has read the status and passed the checks.
TakeUp(r, pc, party) ==
  /\ clerk[r] = Free
  /\ clerk' = [clerk EXCEPT ![r] = [pc |-> pc, party |-> party]]
  /\ mixed' = (mixed \/ Busy # {})
  /\ UNCHANGED <<contractRows, deaths>>

Write(r, s, pc) == status' = s /\ Proceed(r, pc) /\ UNCHANGED <<versions, pdf, signed, log>>

(* ContractEventsService.record                                            *)
Record(type, v) == log' = log \cup {<<type, v>>} /\ UNCHANGED <<status, versions, pdf, signed>>

---------------------------------------------------------------------------
(* ContractsService.create, for the brand's owner                          *)
CreateBegin(r) == status = "none" /\ TakeUp(r, "create", "either")

CreateRow(r) ==
  /\ Doing(r, "create")
  /\ IF status # "none" THEN Leave(r) /\ UNCHANGED contractRows
     ELSE /\ status' = "DRAFT" /\ versions' = 1
          /\ Have(r, "create.pdf", 1)
          /\ UNCHANGED <<pdf, signed, log>>

LogCreated(r) == Doing(r, "create.log") /\ Record("CREATED", 1) /\ Proceed(r, "version.log")

(* ContractsService.createVersion                                          *)
VersionBegin(r) == status \in NonTerminal /\ TakeUp(r, "version.latest", "either")

VersionLatest(r) ==
  /\ Doing(r, "version.latest") /\ versions < MaxVersions                    \* bound
  /\ Have(r, "version.create", versions + 1)
  /\ UNCHANGED contractRows

VersionCreate(r) ==
  /\ Doing(r, "version.create")
  /\ IF versions >= Version(r) THEN Leave(r) /\ UNCHANGED contractRows
     ELSE versions' = Version(r) /\ Proceed(r, "version.pdf") /\ UNCHANGED <<status, pdf, signed, log>>

\* attachPdf, at the end of both kinds of creation
AttachPdf(r) ==
  /\ clerk[r].pc \in {"create.pdf", "version.pdf"}
  /\ pdf' = pdf \cup {Version(r)}
  /\ Proceed(r, IF Doing(r, "create.pdf") THEN "create.log" ELSE "version.reset")
  /\ UNCHANGED <<status, versions, signed, log>>

\* Mutant: a new version leaves the status alone.
VersionKeepsStatus(r) == Doing(r, "version.reset") /\ Write(r, status, "version.log")

VersionReset(r) == Doing(r, "version.reset") /\ Write(r, "DRAFT", "version.log")
LogVersion(r)   == Doing(r, "version.log") /\ Record("VERSION_CREATED", Version(r)) /\ Leave(r)

(* ContractsService.sendForSignature and void                              *)
SendBegin(r) == status = "DRAFT" /\ TakeUp(r, "send", "either")
SendWrite(r)        == Doing(r, "send") /\ Write(r, "AWAITING_SIGNATURE", "send.log")
LogSent(r)          == Doing(r, "send.log") /\ Record("SENT_FOR_SIGNATURE", versions) /\ Leave(r)

\* Mutant: an executed contract may be voided.
VoidAny(r)   == status # "none" /\ TakeUp(r, "void", "either")

VoidBegin(r) == status \in NonTerminal /\ TakeUp(r, "void", "either")
VoidWrite(r)        == Doing(r, "void") /\ Write(r, "VOIDED", "void.log")
LogVoided(r)        == Doing(r, "void.log") /\ Record("VOIDED", versions) /\ Leave(r)

---------------------------------------------------------------------------
(* SignaturesService.sign                                                  *)
SignBegin(r, party) == status \in Signable /\ TakeUp(r, "sign.latest", party)

SignLatest(r) ==
  /\ Doing(r, "sign.latest")
  /\ IF <<versions, clerk[r].party>> \in signed THEN Leave(r) ELSE Have(r, "sign.create", versions)
  /\ UNCHANGED contractRows

SignCreate(r) ==
  LET s == <<Version(r), clerk[r].party>> IN
  /\ Doing(r, "sign.create")
  /\ IF s \in signed THEN Leave(r) ELSE Proceed(r, "sign.count")
  /\ signed' = signed \cup {s}
  /\ UNCHANGED <<status, versions, pdf, log>>

SignCount(r) ==
  /\ Doing(r, "sign.count")
  /\ Proceed(r, IF \A p \in Parties : <<Version(r), p>> \in signed THEN "sign.execute" ELSE "sign.partial")
  /\ UNCHANGED contractRows

Execute(r)         == Doing(r, "sign.execute") /\ Write(r, "EXECUTED", "sign.done")
PartiallySigned(r) == Doing(r, "sign.partial") /\ Write(r, "PARTIALLY_SIGNED", "sign.log")

LogSigned(r)   == Doing(r, "sign.log") /\ Record("SIGNED", Version(r)) /\ Leave(r)
LogExecuted(r) == Doing(r, "sign.done") /\ Record("FULLY_EXECUTED", Version(r)) /\ Leave(r)

ClerkDies(r) ==
  /\ clerk[r] # Free /\ deaths < MaxLosses                              \* bound
  /\ deaths' = deaths + 1
  /\ clerk' = [clerk EXCEPT ![r] = Free]
  /\ UNCHANGED <<contractRows, mixed>>

---------------------------------------------------------------------------
Step(r) == \/ CreateRow(r) \/ LogCreated(r) \/ VersionLatest(r) \/ VersionCreate(r) \/ AttachPdf(r)
           \/ VersionReset(r) \/ LogVersion(r) \/ SendWrite(r) \/ LogSent(r) \/ VoidWrite(r) \/ LogVoided(r)
           \/ SignLatest(r) \/ SignCreate(r) \/ SignCount(r) \/ Execute(r) \/ PartiallySigned(r)
           \/ LogSigned(r) \/ LogExecuted(r) \/ ClerkDies(r)

ContractNext ==
  \E r \in Clerks :
    \/ CreateBegin(r) \/ VersionBegin(r) \/ SendBegin(r) \/ VoidBegin(r) \/ Step(r)
    \/ \E p \in Parties : SignBegin(r, p)
ContractSpec == ContractInit /\ [][ContractNext]_contractVars

---------------------------------------------------------------------------
BothSigned(v) == \A p \in Parties : <<v, p>> \in signed
Signatures(v) == Cardinality({p \in Parties : <<v, p>> \in signed})

(* A contract is EXECUTED only when both parties have signed one and the   *)
(* same version, whatever overlaps; and when no two handlers overlapped    *)
(* and none died, its status says at rest how many have signed the latest  *)
(* version, and every version has its PDF and its entry in the log.        *)
StatusTellsSignatures ==
  /\ status = "EXECUTED" => \E v \in Versions : BothSigned(v)
  /\ Busy = {} /\ ~mixed /\ deaths = 0 /\ status # "none" =>
       /\ status = "EXECUTED" => Signatures(versions) = 2
       /\ status = "PARTIALLY_SIGNED" => Signatures(versions) = 1
       /\ status \in {"DRAFT", "AWAITING_SIGNATURE"} => Signatures(versions) = 0
       /\ pdf = 1..versions /\ \A v \in 1..versions : <<"VERSION_CREATED", v>> \in log
       /\ <<"FULLY_EXECUTED", versions>> \in log <=> status = "EXECUTED"

(* An executed or voided contract stays so, unless a handler that had read *)
(* its earlier status was still at work.                                   *)
FinalStays == [][status \notin NonTerminal \cup {"none"} /\ ~mixed => status' = status]_contractVars
=============================================================================
