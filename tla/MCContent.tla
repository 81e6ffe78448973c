------------------------------ MODULE MCContent ------------------------------
(* Seven small modules that share no state, one behaviour in one of them: *)
(* the parts of Catalog that do not touch each other count separately.     *)
EXTENDS Content, TLC

CONSTANTS q1, q2   \* requests, whichever part they come to
VARIABLE side   \* the part this behaviour is about

Sides == {"access", "drop", "followers", "settings", "media", "search", "keys", "shelf", "invoices"}

Init == AccessInit /\ CatalogInit /\ MediaInit /\ SearchInit /\ KeyInit /\ ShelfInit /\ InvoiceInit /\ side \in Sides

CatalogOnly == UNCHANGED <<accessVars, mediaVars, searchVars, keyVars, shelfVars, invoiceVars>>

Next ==
  /\ \/ side = "drop"      /\ DropNext      /\ CatalogOnly
     \/ side = "followers" /\ FollowersNext /\ CatalogOnly
     \/ side = "settings"  /\ SettingsNext  /\ CatalogOnly
     \/ side = "access"   /\ AccessNext  /\ UNCHANGED <<catalogVars, mediaVars, searchVars, keyVars, shelfVars, invoiceVars>>
     \/ side = "media"    /\ MediaNext   /\ UNCHANGED <<accessVars, catalogVars, searchVars, keyVars, shelfVars, invoiceVars>>
     \/ side = "search"   /\ SearchNext  /\ UNCHANGED <<accessVars, catalogVars, mediaVars, keyVars, shelfVars, invoiceVars>>
     \/ side = "keys"     /\ KeyNext     /\ UNCHANGED <<accessVars, catalogVars, mediaVars, searchVars, shelfVars, invoiceVars>>
     \/ side = "shelf"    /\ ShelfNext   /\ UNCHANGED <<accessVars, catalogVars, mediaVars, searchVars, keyVars, invoiceVars>>
     \/ side = "invoices" /\ InvoiceNext /\ UNCHANGED <<accessVars, catalogVars, mediaVars, searchVars, keyVars, shelfVars>>
  /\ UNCHANGED side

Spec == Init /\ [][Next]_<<accessVars, catalogVars, mediaVars, searchVars, keyVars, shelfVars, invoiceVars, side>>

Symmetries == Permutations({q1, q2})
=============================================================================
