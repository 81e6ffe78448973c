------------------------------- MODULE Shelf -------------------------------
(***************************************************************************)
(* What a brand has on its shelf: products with their variants, drops with *)
(* their contents, the brand's own row, and what gets into a cart          *)
(* (src/products/services, src/brands/services/brands.service.ts,          *)
(* src/drops/services, src/orders/services/cart.service.ts).               *)
(*                                                                         *)
(* Every change first reads the row, then asks whether the brand is active *)
(* and the user its owner or an administrator, then writes.  Whoever asks  *)
(* for a change passes the second question; a visitor may be a guest.  All *)
(* creations ask for the same name.  Prices, texts, categories, pictures,  *)
(* the verified mark, the deal a drop names and the page of a drop are     *)
(* left out: an edit is its checks.  Drops are published and archived by   *)
(* the handlers of Catalog, and orders are made by those of Checkout.      *)
(***************************************************************************)
EXTENDS Integers, FiniteSets

CONSTANTS MaxItems,   \* bound: rows of products and drops ever created
          Goods,      \* rows of variants ever created
          Clerks,     \* requests under way at a time
          MaxSuffix   \* bound: suffixes a slug may get

ASSUME ShelfConstants == MaxItems \in Nat /\ MaxSuffix \in Nat

VARIABLES
  open,       \* the brand's isActive
  item,       \* its products and drops
  good,       \* its variants
  taken,      \* variant -> whether it is in a cart or an order
  clerk,      \* slot -> the request
  overtaken,  \* history: requests whose check has been overturned since
  balked,     \* history: a slug was refused although no other creation was under way
  pulled      \* history: variants taken off sale after somebody took them

shelfRows    == <<open, item, good, taken>>
shelfHistory == <<overtaken, balked, pulled>>
shelfVars    == <<shelfRows, clerk, shelfHistory>>

Items  == 1..MaxItems
Kinds  == {"product", "drop"}
Nil    == [kind |-> "none"]
Item   == [kind: Kinds, slug: 0..MaxSuffix, state: {"active", "inactive", "DRAFT", "PUBLISHED", "ARCHIVED"}, private: BOOLEAN]
NoGood == [state |-> "none"]
Good   == [state: {"active", "inactive"}, of: Items]
AtRest == [pc |-> "rest"]
Clerk  == [pc: {"door", "slug", "create"}, op: {"create"}, of: Kinds, slug: 0..MaxSuffix, rival: BOOLEAN]
            \cup [pc: {"door", "write", "show"}, op: {"edit", "remove", "visibility", "view", "variant", "unvariant"},
                  of: Items \cup Goods, owner: BOOLEAN]
            \cup [pc: {"write"}, op: {"edit brand", "close"}]
            \cup [pc: {"put"}, op: {"put"}, of: Goods]

ShelfTypeOK ==
  /\ open \in BOOLEAN
  /\ item \in [Items -> {Nil} \cup Item] /\ good \in [Goods -> {NoGood} \cup Good]
  /\ \A i \in Items : item[i].kind = "drop" => item[i].state \in {"DRAFT", "PUBLISHED", "ARCHIVED"}
  /\ taken \in [Goods -> {"no", "cart", "order"}] /\ pulled \subseteq Goods
  /\ clerk \in [Clerks -> {AtRest} \cup Clerk]
  /\ overtaken \subseteq Clerks /\ balked \in BOOLEAN

ShelfInit ==
  /\ open = TRUE
  /\ item = [i \in Items |-> Nil] /\ good = [g \in Goods |-> NoGood]
  /\ taken = [g \in Goods |-> "no"]
  /\ clerk = [c \in Clerks |-> AtRest]
  /\ overtaken = {} /\ balked = FALSE /\ pulled = {}

---------------------------------------------------------------------------
IsA(i, kind) == item[i].kind = kind
In(c, pc)    == clerk[c].pc = pc
Asks(c, op)  == In(c, "write") /\ clerk[c].op = op
Come(c, x)   == clerk[c] = AtRest /\ clerk' = [clerk EXCEPT ![c] = x]
Advance(c, pc) == clerk' = [clerk EXCEPT ![c].pc = pc]
Quit(c)     == clerk' = [clerk EXCEPT ![c] = AtRest] /\ overtaken' = overtaken \ {c}
SameShelf    == UNCHANGED shelfRows /\ UNCHANGED shelfHistory
QuitQuietly(c) == Quit(c) /\ UNCHANGED <<balked, pulled>>
OnSale(g)    == good[g].state = "active" /\ item[good[g].of].state = "active"
TakenFrom(G) == pulled' = pulled \cup {g \in G : taken[g] # "no" \/ \E c \in Clerks : In(c, "put") /\ clerk[c].of = g}

\* assertViewable lets anybody see a product that is active ...
\* ... and a drop that is published and not private.
Public(i) == item[i].state = "active" \/ (item[i].state = "PUBLISHED" /\ ~item[i].private)

Overturned(active, public) ==
  {c \in Clerks : \/ ~active /\ clerk[c].pc \in {"slug", "create", "write"}
                  \/ In(c, "show") /\ ~(IF clerk[c].owner THEN active ELSE public[clerk[c].of])}
Showing    == [i \in Items |-> Public(i)]
Hide(i)    == overtaken' = overtaken \cup Overturned(open, [Showing EXCEPT ![i] = FALSE])
SetOpen(b) == open' = b /\ overtaken' = overtaken \cup Overturned(b, Showing)

---------------------------------------------------------------------------
(* What every request begins with.                                         *)
AskFor(c, op, x) == Come(c, [pc |-> "door", op |-> op, of |-> x, owner |-> TRUE]) /\ SameShelf

EditProduct(c, i)  == IsA(i, "product") /\ AskFor(c, "edit", i)
EditDrop(c, i)     == IsA(i, "drop") /\ item[i].state # "ARCHIVED" /\ AskFor(c, "edit", i)
EditContents(c, i) == IsA(i, "drop") /\ AskFor(c, "edit", i)
HideDrop(c, i)     == IsA(i, "drop") /\ AskFor(c, "visibility", i)
RemoveBegin(c, i)  == IsA(i, "product") /\ item[i].state = "active" /\ AskFor(c, "remove", i)
VariantBegin(c, i) == IsA(i, "product") /\ AskFor(c, "variant", i)
EditVariant(c, g)  == good[g] # NoGood /\ AskFor(c, "edit", good[g].of)
VariantFind(c, g)  == good[g] # NoGood /\ AskFor(c, "unvariant", g)

CreateBegin(c, kind) ==
  LET rivals == {d \in Clerks : clerk[d] # AtRest /\ clerk[d].op = "create" /\ clerk[d].of = kind} IN
  /\ clerk[c] = AtRest
  /\ clerk' = [d \in Clerks |->
       IF d = c THEN [pc |-> "door", op |-> "create", of |-> kind, slug |-> 0, rival |-> rivals # {}]
       ELSE IF d \in rivals THEN [clerk[d] EXCEPT !.rival = TRUE] ELSE clerk[d]]
  /\ SameShelf

\* A guest, or a user who may turn out to be the owner.
AskToSee(c, i, owner) ==
  /\ item[i] # Nil
  /\ Public(i) \/ owner
  /\ Come(c, [pc |-> IF Public(i) THEN "show" ELSE "door", op |-> "view", of |-> i, owner |-> owner /\ ~Public(i)])
  /\ SameShelf

\* assertBrandOwnerOrAdmin
Door(c) ==
  /\ In(c, "door")
  /\ IF ~open THEN QuitQuietly(c)
     ELSE /\ Advance(c, IF clerk[c].op = "create" THEN "slug" ELSE IF clerk[c].op = "view" THEN "show" ELSE "write")
          /\ UNCHANGED shelfHistory
  /\ UNCHANGED shelfRows

Show(c) == In(c, "show") /\ QuitQuietly(c) /\ UNCHANGED shelfRows

---------------------------------------------------------------------------
(* Creation: the slug of the name if it is free, else one with a suffix    *)
(* that is free; the row later.                                            *)
Slugs(kind) == {item[i].slug : i \in {j \in Items : IsA(j, kind)}}

LookUpSlug(c) ==
  /\ In(c, "slug")
  /\ \E s \in (0..MaxSuffix) \ Slugs(clerk[c].of) :
       /\ s = 0 \/ 0 \in Slugs(clerk[c].of)
       /\ clerk' = [clerk EXCEPT ![c].pc = "create", ![c].slug = s]
  /\ SameShelf

CreateItem(c) ==
  LET kind == clerk[c].of
      free == {i \in Items : item[i] = Nil} IN
  /\ In(c, "create") /\ free # {}
  /\ IF clerk[c].slug \in Slugs(kind)
     THEN balked' = (balked \/ ~clerk[c].rival) /\ UNCHANGED item
     ELSE /\ item' = [item EXCEPT ![MaxItems + 1 - Cardinality(free)] =
                        [kind |-> kind, slug |-> clerk[c].slug, private |-> FALSE,
                         state |-> IF kind = "drop" THEN "DRAFT" ELSE "active"]]
          /\ UNCHANGED balked
  /\ Quit(c)
  /\ UNCHANGED <<open, good, taken, pulled>>

CreateVariant(c, g) ==
  /\ Asks(c, "variant") /\ good[g] = NoGood
  /\ good' = [good EXCEPT ![g] = [state |-> "active", of |-> clerk[c].of]]
  /\ QuitQuietly(c) /\ UNCHANGED <<open, item, taken>>

---------------------------------------------------------------------------
(* Changes                                                                 *)
Edit(c) ==
  /\ Asks(c, "edit") \/ Asks(c, "edit brand")
  /\ QuitQuietly(c) /\ UNCHANGED shelfRows

Remove(c) ==
  LET i == clerk[c].of IN
  /\ Asks(c, "remove")
  /\ item' = [item EXCEPT ![i].state = "inactive"]
  /\ overtaken' = (overtaken \cup Overturned(open, [Showing EXCEPT ![i] = FALSE])) \ {c}
  /\ TakenFrom({g \in Goods : good[g] # NoGood /\ good[g].of = i})
  /\ clerk' = [clerk EXCEPT ![c] = AtRest]
  /\ UNCHANGED <<open, good, taken, balked>>

UpdateVisibility(c, private) ==
  LET i == clerk[c].of IN
  /\ Asks(c, "visibility")
  /\ item' = [item EXCEPT ![i].private = private]
  /\ overtaken' = (IF private THEN overtaken \cup Overturned(open, [Showing EXCEPT ![i] = FALSE]) ELSE overtaken) \ {c}
  /\ clerk' = [clerk EXCEPT ![c] = AtRest]
  /\ UNCHANGED <<open, good, taken, balked, pulled>>

RemoveVariant(c) ==
  LET g == clerk[c].of IN
  /\ Asks(c, "unvariant")
  /\ good' = [good EXCEPT ![g].state = "inactive"]
  /\ TakenFrom({g}) /\ Quit(c)
  /\ UNCHANGED <<open, item, taken, balked>>

\* publish and archive of Catalog
MoveDrop(i) ==
  /\ IsA(i, "drop") /\ item[i].state # "ARCHIVED"
  /\ \E to \in {"PUBLISHED", "ARCHIVED"} \ {item[i].state} :
       /\ item' = [item EXCEPT ![i].state = to]
       /\ IF to = "ARCHIVED" THEN Hide(i) ELSE UNCHANGED overtaken
  /\ UNCHANGED <<open, good, taken, clerk, balked, pulled>>

---------------------------------------------------------------------------
(* The brand's own row, which its handlers read active and the             *)
(* administrator's in any state.                                           *)
BrandBegin(c, op) == open /\ Come(c, [pc |-> "write", op |-> op]) /\ SameShelf

CloseBrand(c) ==
  /\ Asks(c, "close")
  /\ open' = FALSE
  /\ overtaken' = (overtaken \cup Overturned(FALSE, Showing)) \ {c}
  /\ clerk' = [clerk EXCEPT ![c] = AtRest]
  /\ UNCHANGED <<item, good, taken, balked, pulled>>

Administer ==
  /\ \E b \in BOOLEAN : SetOpen(b)
  /\ UNCHANGED <<item, good, taken, clerk, balked, pulled>>

---------------------------------------------------------------------------
(* The cart looks at the variant and its product once, when it takes them; *)
(* the checkout does not.                                                  *)
\* Mutant: the product of the variant is not looked at.
PutVariant(c, g) ==
  /\ good[g].state = "active"
  /\ Come(c, [pc |-> "put", op |-> "put", of |-> g]) /\ SameShelf

PutBegin(c, g) ==
  /\ good[g].state = "active" /\ item[good[g].of].state = "active"
  /\ Come(c, [pc |-> "put", op |-> "put", of |-> g]) /\ SameShelf

Put(c) ==
  /\ In(c, "put")
  /\ taken' = [taken EXCEPT ![clerk[c].of] = IF @ = "no" THEN "cart" ELSE @]
  /\ QuitQuietly(c) /\ UNCHANGED <<open, item, good>>

Order(g) ==
  /\ taken[g] = "cart" /\ taken' = [taken EXCEPT ![g] = "order"]
  /\ UNCHANGED <<open, item, good, clerk, shelfHistory>>

\* The process dies or a statement throws.
Walk(c) == clerk[c] # AtRest /\ QuitQuietly(c) /\ UNCHANGED shelfRows

ShelfNext ==
  \/ \E c \in Clerks :
       \/ \E i \in Items : \/ EditProduct(c, i) \/ EditDrop(c, i) \/ EditContents(c, i) \/ HideDrop(c, i)
                           \/ RemoveBegin(c, i) \/ VariantBegin(c, i)
                           \/ \E owner \in BOOLEAN : AskToSee(c, i, owner)
       \/ \E g \in Goods : EditVariant(c, g) \/ VariantFind(c, g) \/ CreateVariant(c, g) \/ PutBegin(c, g)
       \/ \E kind \in Kinds : CreateBegin(c, kind)
       \/ \E op \in {"edit brand", "close"} : BrandBegin(c, op)
       \/ \E private \in BOOLEAN : UpdateVisibility(c, private)
       \/ Door(c) \/ Show(c) \/ LookUpSlug(c) \/ CreateItem(c) \/ Edit(c) \/ Remove(c) \/ RemoveVariant(c)
       \/ CloseBrand(c) \/ Put(c) \/ Walk(c)
  \/ \E i \in Items : MoveDrop(i)
  \/ \E g \in Goods : Order(g)
  \/ Administer

ShelfSpec == ShelfInit /\ [][ShelfNext]_shelfVars

---------------------------------------------------------------------------
(* Nothing of a brand that was deactivated is written, and nothing that is *)
(* not public is shown to a guest, but by a request that had asked before. *)
DoorsHold ==
  \A c \in Clerks \ overtaken :
    /\ clerk[c].pc \in {"slug", "create", "write"} => open
    /\ In(c, "show") => IF clerk[c].owner THEN open
                        ELSE item[clerk[c].of].state = "active"
                             \/ (item[clerk[c].of].state = "PUBLISHED" /\ ~item[clerk[c].of].private)

(* A name can always be used again, with a suffix: the unique key refuses  *)
(* a slug only if two creations overlapped.                                *)
NamesFree == ~balked

(* A cart and an order hold a variant that is off sale only if it was      *)
(* taken off after it went into the cart.                                  *)
TakenOnSale == \A g \in Goods : taken[g] = "no" \/ OnSale(g) \/ g \in pulled

(* Doors, names and carts, together.                                       *)
ShelfSound == DoorsHold /\ NamesFree /\ TakenOnSale
=============================================================================
