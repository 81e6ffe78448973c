------------------------------ MODULE Content -------------------------------
(***************************************************************************)
(* The parts around the orders and the deals that share no state: who may  *)
(* enter which route, the catalog, the shelf, files, invoices, the search  *)
(* index and the idempotency keys.                                         *)
(***************************************************************************)
EXTENDS Access, Catalog, Media, Search, Idempotency, Shelf, Invoices

ContentSpec ==
  /\ AccessSpec /\ CatalogSpec /\ MediaSpec /\ SearchSpec
  /\ KeySpec /\ ShelfSpec /\ InvoiceSpec

(* Every variable of every part keeps its type.                            *)
ContentTypeOK ==
  /\ AccessTypeOK /\ CatalogTypeOK /\ MediaTypeOK /\ SearchTypeOK
  /\ KeyTypeOK /\ ShelfTypeOK /\ InvoiceTypeOK

(* What is in the catalog and on the shelf is sound: see CatalogSound in   *)
(* Catalog and ShelfSound in Shelf.                                        *)
WaresSound == CatalogSound /\ ShelfSound

(* Files, and invoices with their numbers: see FilesMatchRows in Media and *)
(* InvoicesSound in Invoices.                                              *)
PapersSound == FilesMatchRows /\ InvoicesSound
=============================================================================
