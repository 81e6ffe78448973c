----------------------------- MODULE Agreements -----------------------------
(***************************************************************************)
(* Deals and contracts.  Only the creation of a contract looks at the deal *)
(* it is for; nothing else is shared.                                      *)
(***************************************************************************)
EXTENDS Deals, Contracts

AgreementsSpec == Spec /\ ContractSpec

(* Every variable of the two modules keeps its type.                       *)
TypesOK == TypeOK /\ ContractTypeOK
=============================================================================
