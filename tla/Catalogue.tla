----------------------------- MODULE Catalogue -----------------------------
(***************************************************************************)
(* Products, their price tiers (variants) and their images: the admin      *)
(* catalogue service, the storefront's view of it, and the seed script.    *)
(* The service reads its rows first and writes them in a transaction of    *)
(* its own that checks nothing again, so an admin's operation is a "task"  *)
(* that is begun, may store a file, and is committed later.                *)
(***************************************************************************)
EXTENDS Pricing, FiniteSets

CONSTANTS Products, Variants, Images, Admins,
          SeedVariants,     \* the variants the seed script gives each product
          SeedRow,          \* the price tier those variants start with
          VariantRows,      \* the price tiers an administrator may type in
          NoProduct, NoImage

ASSUME CatalogueAssumption ==
    /\ SeedVariants \in [Products -> SUBSET Variants]
    /\ \A p, q \in Products : p # q => SeedVariants[p] \cap SeedVariants[q] = {}
    /\ NoProduct \notin Products
    /\ Images \cap {NoImage, "link", "demo"} = {}

VARIABLES
    product,       \* product[p]: status ("NONE": no such row), soft deletion, image
    variant,       \* variant[v]: its product (NoProduct: no such SKU), active, price tier
    stored,        \* the uploaded images that are in the storage provider
    task           \* task[a]: the catalogue operation administrator a has under way

catalogueVars == <<product, variant, stored, task>>

LifecycleStatus == {"DRAFT", "ACTIVE", "PAUSED", "OUT_OF_STOCK", "RETIRED"}

NoTask == [op |-> "none"]

(***************************************************************************)
(* What the storefront and the checkout ask of the tables.                 *)
(***************************************************************************)

(* The filter of listProducts, getProductBySlug and getBrandBySlug.        *)
Listed(p) == product[p].status = "ACTIVE" /\ ~product[p].deleted

(* The check CheckoutService.checkout makes of every variant it has read.  *)
MutantSellable(v) ==
    /\ variant[v].product # NoProduct
    /\ variant[v].active
    /\ product[variant[v].product].status = "ACTIVE"

Sellable(v) ==
    /\ variant[v].product # NoProduct
    /\ variant[v].active
    /\ product[variant[v].product].status = "ACTIVE"
    /\ ~product[variant[v].product].deleted

(***************************************************************************)
(* The state right after the seed script's first run.                      *)
(***************************************************************************)
CatalogueInit ==
    /\ product = [p \in Products |->
                    [status  |-> IF SeedVariants[p] = {} THEN "NONE" ELSE "ACTIVE",
                     deleted |-> FALSE,
                     image   |-> IF SeedVariants[p] = {} THEN NoImage ELSE "demo"]]
    /\ variant = [v \in Variants |->
                    LET owners == {p \in Products : v \in SeedVariants[p]}
                    IN  [product |-> IF owners = {} THEN NoProduct ELSE CHOOSE p \in owners : TRUE,
                         active  |-> TRUE,
                         row     |-> SeedRow]]
    /\ stored = {}
    /\ task = [a \in Admins |-> NoTask]

(* getProduct: an existing product that is not soft deleted.               *)
Editable(p) == product[p].status # "NONE" /\ ~product[p].deleted

Idle(a) == task[a] = NoTask

Begin(a, t) == task' = [task EXCEPT ![a] = t] /\ UNCHANGED <<product, variant, stored>>

Finish(a) == task' = [task EXCEPT ![a] = NoTask]

(***************************************************************************)
(* Each operation's checks, made before its transaction.                   *)
(***************************************************************************)
BeginCreateProduct(a, p, v) ==
    /\ Idle(a)
    /\ product[p].status = "NONE"
    /\ variant[v].product = NoProduct
    /\ Begin(a, [op |-> "createProduct", product |-> p, variant |-> v])

BeginUpdateProduct(a, p, s) ==
    /\ Idle(a) /\ Editable(p)
    /\ Begin(a, [op |-> "updateProduct", product |-> p, status |-> s])

BeginLinkImage(a, p) ==
    /\ Idle(a) /\ Editable(p)
    /\ Begin(a, [op |-> "linkImage", product |-> p])

BeginUploadImage(a, p, i) ==
    /\ Idle(a) /\ Editable(p)
    /\ i \notin stored
    /\ \A b \in Admins : task[b].op \in {"upload", "uploaded"} => task[b].image # i
    /\ Begin(a, [op |-> "upload", product |-> p, image |-> i])

BeginDeleteProduct(a, p) ==
    /\ Idle(a) /\ Editable(p)
    /\ Begin(a, [op |-> "deleteProduct", product |-> p])

BeginCreateVariant(a, p, v) ==
    /\ Idle(a) /\ Editable(p)
    /\ variant[v].product = NoProduct
    /\ Begin(a, [op |-> "createVariant", product |-> p, variant |-> v])

(***************************************************************************)
(* Its writes.  Rows are never removed, so an update always finds its row; *)
(* a creation can still lose to the unique slug or SKU (Collide).          *)
(***************************************************************************)
CreateVariantRow(v, p) ==
    \E row \in VariantRows :
        variant' = [variant EXCEPT ![v] = [product |-> p, active |-> TRUE, row |-> row]]

CommitCreateProduct(a) ==
    /\ task[a].op = "createProduct"
    /\ product[task[a].product].status = "NONE"
    /\ variant[task[a].variant].product = NoProduct
    /\ \E image \in {NoImage, "link"} :
          product' = [product EXCEPT ![task[a].product].status = "DRAFT",
                                     ![task[a].product].image = image]
    /\ CreateVariantRow(task[a].variant, task[a].product)
    /\ Finish(a)
    /\ UNCHANGED stored

CommitCreateVariant(a) ==
    /\ task[a].op = "createVariant"
    /\ variant[task[a].variant].product = NoProduct
    /\ CreateVariantRow(task[a].variant, task[a].product)
    /\ Finish(a)
    /\ UNCHANGED <<product, stored>>

Collide(a) ==
    /\ task[a].op \in {"createProduct", "createVariant"}
    /\ \/ variant[task[a].variant].product # NoProduct
       \/ task[a].op = "createProduct" /\ product[task[a].product].status # "NONE"
    /\ Finish(a)
    /\ UNCHANGED <<product, variant, stored>>

CommitUpdateProduct(a) ==
    /\ task[a].op = "updateProduct"
    /\ product' = [product EXCEPT ![task[a].product].status = task[a].status]
    /\ Finish(a)
    /\ UNCHANGED <<variant, stored>>

CommitLinkImage(a) ==
    /\ task[a].op = "linkImage"
    /\ product' = [product EXCEPT ![task[a].product].image = "link"]
    /\ Finish(a)
    /\ UNCHANGED <<variant, stored>>

(* uploadProductImage puts the file first and points the row at it after.  *)
MutantStoreImage(a) ==
    /\ task[a].op = "upload"
    /\ product' = [product EXCEPT ![task[a].product].image = task[a].image]
    /\ task' = [task EXCEPT ![a].op = "uploaded"]
    /\ UNCHANGED <<variant, stored>>

StoreImage(a) ==
    /\ task[a].op = "upload"
    /\ stored' = stored \cup {task[a].image}
    /\ task' = [task EXCEPT ![a].op = "uploaded"]
    /\ UNCHANGED <<product, variant>>

CommitUploadImage(a) ==
    /\ task[a].op = "uploaded"
    /\ product' = [product EXCEPT ![task[a].product].image = task[a].image]
    /\ Finish(a)
    /\ UNCHANGED <<variant, stored>>

CommitDeleteProduct(a) ==
    /\ task[a].op = "deleteProduct"
    /\ product' = [product EXCEPT ![task[a].product].deleted = TRUE,
                                  ![task[a].product].status = "RETIRED"]
    /\ Finish(a)
    /\ UNCHANGED <<variant, stored>>

(* The API process dies, or storage refuses the file, before the commit.   *)
AbandonTask(a) ==
    /\ ~Idle(a)
    /\ Finish(a)
    /\ UNCHANGED <<product, variant, stored>>

(* updateVariant and deactivateVariant check only that the row exists,     *)
(* which never stops being so: one step each.                              *)
UpdateVariant(v, row, active) ==
    /\ variant[v].product # NoProduct
    /\ variant' = [variant EXCEPT ![v].row = row, ![v].active = active]
    /\ UNCHANGED <<product, stored, task>>

DeactivateVariant(v) ==
    /\ variant[v].product # NoProduct
    /\ variant' = [variant EXCEPT ![v].active = FALSE]
    /\ UNCHANGED <<product, stored, task>>

(* The seed script run again: its upsert finds the product and puts the    *)
(* demo image back, whatever an administrator has put there since.         *)
Reseed(p) ==
    /\ SeedVariants[p] # {}
    /\ product' = [product EXCEPT ![p].image = "demo"]
    /\ UNCHANGED <<variant, stored, task>>

(***************************************************************************)
(* The next-state relation.                                                *)
(***************************************************************************)
BeginTask(a) ==
    \E p \in Products :
        \/ \E v \in Variants : BeginCreateProduct(a, p, v) \/ BeginCreateVariant(a, p, v)
        \/ \E s \in LifecycleStatus : BeginUpdateProduct(a, p, s)
        \/ \E i \in Images : BeginUploadImage(a, p, i)
        \/ BeginLinkImage(a, p)
        \/ BeginDeleteProduct(a, p)

CommitTask(a) ==
    \/ CommitCreateProduct(a)
    \/ CommitCreateVariant(a)
    \/ Collide(a)
    \/ CommitUpdateProduct(a)
    \/ CommitLinkImage(a)
    \/ StoreImage(a)
    \/ CommitUploadImage(a)
    \/ CommitDeleteProduct(a)

VariantEdit ==
    \E v \in Variants :
        \/ \E row \in VariantRows, active \in BOOLEAN : UpdateVariant(v, row, active)
        \/ DeactivateVariant(v)

CatalogueNext ==
    \/ \E a \in Admins : BeginTask(a) \/ CommitTask(a) \/ AbandonTask(a)
    \/ VariantEdit
    \/ \E p \in Products : Reseed(p)

CatalogueSpec == CatalogueInit /\ [][CatalogueNext]_catalogueVars

(***************************************************************************)
(* Properties.                                                             *)
(***************************************************************************)
Task ==
    {NoTask}
      \cup [op : {"createProduct", "createVariant"}, product : Products, variant : Variants]
      \cup [op : {"updateProduct"}, product : Products, status : LifecycleStatus]
      \cup [op : {"upload", "uploaded"}, product : Products, image : Images]
      \cup [op : {"linkImage", "deleteProduct"}, product : Products]

CatalogueTypeOK ==
    /\ product \in [Products -> [status  : LifecycleStatus \cup {"NONE"},
                                 deleted : BOOLEAN,
                                 image   : Images \cup {NoImage, "link", "demo"}]]
    /\ variant \in [Variants -> [product : Products \cup {NoProduct},
                                 active  : BOOLEAN,
                                 row     : VariantRows \cup {SeedRow}]]
    /\ stored \subseteq Images
    /\ task \in [Admins -> Task]

(* A deleted product is gone for good: whatever edits were already under   *)
(* way when it was deleted, and whatever variants they add or revive, it   *)
(* is never listed again and the checkout never accepts one of its         *)
(* variants.                                                               *)
DeletedStaysOffShelf ==
    [][\A p \in Products :
          product[p].deleted =>
            /\ product'[p].deleted
            /\ ~Listed(p)'
            /\ \A v \in Variants : variant'[v].product = p => ~Sellable(v)']_catalogueVars

(* An image a product points to, if it was uploaded at all, is in the      *)
(* storage: an upload that dies half way may leave a file nobody points    *)
(* to, never a product whose picture does not exist.                       *)
UploadedImageIsStored ==
    \A p \in Products : product[p].image \in Images => product[p].image \in stored
=============================================================================
