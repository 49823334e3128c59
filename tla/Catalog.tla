------------------------------ MODULE Catalog -------------------------------
(***************************************************************************)
(* The catalogue against the orders placed on it: products, variants, the  *)
(* files that are sold, and the requests of administrators that publish,   *)
(* edit and delete them while customers buy.                               *)
(*                                                                         *)
(* A request of several awaited steps belongs to a clerk (one request at a *)
(* time); one of a single statement or transaction needs none, and is one  *)
(* step.  An order has one line; module Payments details its payment, and  *)
(* module Uploads the images, which only count here.                       *)
(***************************************************************************)
EXTENDS Naturals, FiniteSets

CONSTANTS
    Product, Variant, Order, File,
    ProductOf,     \* the product of each variant
    Clerk,         \* requests of administrators in progress
    MaxImages,     \* MAX_IMAGES_PER_PRODUCT, 10 in the code
    FaultKinds,    \* "db": a statement is rejected; "bucket": a call to the bucket
                   \* fails; "crash": the process dies
    NoFile, NoVariant

ASSUME CatalogAssumption ==
    /\ ProductOf \in [Variant -> Product]
    /\ MaxImages \in Nat \ {0}
    /\ FaultKinds \subseteq {"db", "bucket", "crash"}
    /\ NoFile \notin File
    /\ NoVariant \notin Variant

VARIABLES
    product,    \* "none" without a row, "draft", "active" (isActive), "deleted"
    digital,    \* the products whose fulfillmentType is DIGITAL
    images,     \* how many images each product has
    variant,    \* "none", "off", "on" (isActive), "deleted"
    printable,  \* the variants with providerProductUid and printFileUrl
    asset,      \* the digitalAssetPath column of the variants
    bucket,     \* the objects in the private bucket
    used,       \* the paths generated so far
    order,      \* "none", the status column of orders, "deleted"
    line,       \* the line of each order, with its copy of the path
    session,    \* the payment session at Stripe
    task,       \* what each clerk's request is doing
    halted      \* history: variants whose removed file is still in the row,
                \* since the request broke off

productVars == <<product, digital, images>>
variantVars == <<variant, printable, asset>>
fileVars    == <<bucket, used>>
orderVars   == <<order, line, session>>
vars == <<productVars, variantVars, fileVars, orderVars, task, halted>>

\* What a request still has to do, with what it has read.
Idle == [op |-> "idle"]
Task ==
    {Idle}
    \cup [op : {"publish", "image", "collect"}, on : Product]
    \cup [op : {"erase", "sweep"}, on : Product, files : SUBSET File]
    \cup [op : {"store", "strip"}, on : Variant, old : File \cup {NoFile}]
    \cup [op : {"point"}, on : Variant, old : File \cup {NoFile}, new : File]
    \cup [op : {"replace"}, old : File]
    \cup [op : {"clear"}, on : Variant]

NoLine == [variant |-> NoVariant, file |-> NoFile]

TypeOK ==
    /\ product \in [Product -> {"none", "draft", "active", "deleted"}]
    /\ digital \subseteq Product
    /\ images \in [Product -> Nat]
    /\ variant \in [Variant -> {"none", "off", "on", "deleted"}]
    /\ printable \subseteq Variant
    /\ asset \in [Variant -> File \cup {NoFile}]
    /\ bucket \subseteq used /\ used \subseteq File
    /\ order \in [Order -> {"none", "PENDING_PAYMENT", "PAID", "CANCELLED", "deleted"}]
    /\ line \in [Order -> [variant : Variant \cup {NoVariant}, file : File \cup {NoFile}]]
    /\ session \in [Order -> {"none", "open", "paid", "expired"}]
    /\ \A o \in Order : order[o] \notin {"none", "deleted"} =>
          \E v \in Variant : line[o].variant = v /\ variant[v] \in {"on", "off"}
    /\ task \in [Clerk -> Task]
    /\ halted \subseteq Variant

Init ==
    /\ product = [p \in Product |-> "none"]
    /\ digital = {}
    /\ images = [p \in Product |-> 0]
    /\ variant = [v \in Variant |-> "none"]
    /\ printable = {}
    /\ asset = [v \in Variant |-> NoFile]
    /\ bucket = {}
    /\ used = {}
    /\ order = [o \in Order |-> "none"]
    /\ line = [o \in Order |-> NoLine]
    /\ session = [o \in Order |-> "none"]
    /\ task = [c \in Clerk |-> Idle]
    /\ halted = {}

Begin(c, t) == task[c] = Idle /\ task' = [task EXCEPT ![c] = t]
Goto(c, t) == task' = [task EXCEPT ![c] = t]

IsProduct(p) == product[p] \in {"draft", "active"}
IsVariant(v) == variant[v] \in {"on", "off"}
VariantsOf(p) == {v \in Variant : ProductOf[v] = p /\ IsVariant(v)}

-----------------------------------------------------------------------------
(* What can be published.                                                  *)

\* assertProductIsPublishable.
Publishable(p) ==
    LET onSale == {v \in VariantsOf(p) : variant[v] = "on"} IN
    /\ onSale # {}
    /\ images[p] > 0
    /\ IF p \in digital
       THEN \A v \in onSale : asset[v] # NoFile
       ELSE onSale \subseteq printable

\* assertStillPublishable: at the end of a transaction, on what it leaves.
StillPublishable(p) == product[p] = "active" => Publishable(p)

-----------------------------------------------------------------------------
(* Products.                                                               *)

\* A digital product brings its only variant, on sale but without a file.
CreateProduct(p) ==
    /\ product[p] = "none"
    /\ product' = [product EXCEPT ![p] = "draft"]
    /\ \/ UNCHANGED <<digital, variant>>
       \/ \E v \in Variant :
             /\ ProductOf[v] = p /\ variant[v] = "none"
             /\ digital' = digital \cup {p}
             /\ variant' = [variant EXCEPT ![v] = "on"]
    /\ UNCHANGED <<images, printable, asset, fileVars, orderVars, task, halted>>

\* updateProduct without isActive: true is not checked, whatever it changes.
EditProduct(p) ==
    /\ IsProduct(p)
    /\ product' \in {product, [product EXCEPT ![p] = "draft"]}
    /\ digital' \in {digital \cup {p}, digital \ {p}}
    /\ UNCHANGED <<images, variantVars, fileVars, orderVars, task, halted>>

PublishCheck(c, p) ==
    /\ IsProduct(p)
    /\ Publishable(p)
    /\ Begin(c, [op |-> "publish", on |-> p])
    /\ UNCHANGED <<productVars, variantVars, fileVars, orderVars, halted>>

\* The update by id, which may change the type that was checked too; it fails
\* if the product is gone.
Publish(c) ==
    LET p == task[c].on IN
    /\ task[c].op = "publish"
    /\ IF IsProduct(p)
       THEN /\ product' = [product EXCEPT ![p] = "active"]
            /\ digital' \in {digital \cup {p}, digital \ {p}}
       ELSE UNCHANGED <<product, digital>>
    /\ Goto(c, Idle)
    /\ UNCHANGED <<images, variantVars, fileVars, orderVars, halted>>

\* uploadImage counts before the object is uploaded ...
CountImages(c, p) ==
    /\ IsProduct(p)
    /\ images[p] < MaxImages
    /\ Begin(c, [op |-> "image", on |-> p])
    /\ UNCHANGED <<productVars, variantVars, fileVars, orderVars, halted>>

\* ... and adds the row afterwards, without another look at the count.
AddImage(c) ==
    LET p == task[c].on IN
    /\ task[c].op = "image"
    /\ \/ IsProduct(p) /\ images' = [images EXCEPT ![p] = @ + 1]
       \/ (FaultKinds # {} \/ ~IsProduct(p)) /\ UNCHANGED images
    /\ Goto(c, Idle)
    /\ UNCHANGED <<product, digital, variantVars, fileVars, orderVars, halted>>

\* The transaction of deleteImage reverts when it would leave none on sale.
DropImage(p) ==
    /\ IsProduct(p)
    /\ images[p] > (IF product[p] = "active" THEN 1 ELSE 0)
    /\ images' = [images EXCEPT ![p] = @ - 1]
    /\ UNCHANGED <<product, digital, variantVars, fileVars, orderVars, task, halted>>

-----------------------------------------------------------------------------
(* Variants.                                                               *)

\* createVariant checks only that the product exists.
CreateVariant(v) ==
    /\ IsProduct(ProductOf[v])
    /\ variant[v] = "none"
    /\ \E sale \in {"on", "off"} : variant' = [variant EXCEPT ![v] = sale]
    /\ printable' \in {printable, printable \cup {v}}
    /\ UNCHANGED <<productVars, asset, fileVars, orderVars, task, halted>>

\* The transaction of updateVariant reverts what cannot be produced any more.
EditVariant(v) ==
    /\ IsVariant(v)
    /\ \E sale \in {"on", "off"} : variant' = [variant EXCEPT ![v] = sale]
    /\ printable' \in {printable \ {v}, printable \cup {v}}
    /\ UNCHANGED <<productVars, asset, fileVars, orderVars, task, halted>>
    /\ StillPublishable(ProductOf[v])'

\* The rows of order_items that refer to these variants.
HasLine(o) == order[o] \in {"PENDING_PAYMENT", "PAID", "CANCELLED"}
LinesOn(V) == {o \in Order : HasLine(o) /\ line[o].variant \in V}

\* NUNCA_COBRADO: no trace of a payment in the row.
NeverCharged(o) == order[o] \in {"PENDING_PAYMENT", "CANCELLED"}

\* A mutant: attempts that nobody paid do not count.
SoldOn(v) == {o \in LinesOn({v}) : ~NeverCharged(o)}

\* What keeps a variant: any line, paid or not (the count, and again the
\* foreign key).
RefersTo(v) == LinesOn({v})

\* deleteVariant.  The file stays in the bucket.
DropVariant(v) ==
    /\ IsVariant(v)
    /\ RefersTo(v) = {}
    /\ variant' = [variant EXCEPT ![v] = "deleted"]
    /\ asset' = [asset EXCEPT ![v] = NoFile]
    /\ printable' = printable \ {v}
    /\ halted' = halted \ {v}
    /\ UNCHANGED <<productVars, fileVars, orderVars, task>>
    /\ StillPublishable(ProductOf[v])'

-----------------------------------------------------------------------------
(* deleteProduct.                                                          *)

SalesOf(p) == {o \in LinesOn(VariantsOf(p)) : ~NeverCharged(o)}

\* It exists and has no sales.
DeleteCheck(c, p) ==
    /\ IsProduct(p)
    /\ SalesOf(p) = {}
    /\ Begin(c, [op |-> "collect", on |-> p])
    /\ UNCHANGED <<productVars, variantVars, fileVars, orderVars, halted>>

\* The paths are read before the rows that hold them are deleted.
CollectFiles(c) ==
    LET p == task[c].on IN
    /\ task[c].op = "collect"
    /\ Goto(c, IF IsProduct(p)
               THEN [op |-> "erase", on |-> p,
                     files |-> {asset[v] : v \in VariantsOf(p)} \ {NoFile}]
               ELSE Idle)
    /\ UNCHANGED <<productVars, variantVars, fileVars, orderVars, halted>>

\* A mutant: the transaction trusts the count made before.
TrustingErased(p) == LinesOn(VariantsOf(p))

\* The attempts that go with the product.
Erased(p) == {o \in LinesOn(VariantsOf(p)) : NeverCharged(o)}

\* A mutant: what was collected is swept although nothing was erased.
SweepsAnyway(c) == [task[c] EXCEPT !.op = "sweep"]

\* The exception of the transaction ends the request.
Reverted(c) == Idle

\* One transaction: the attempts, then the product with its variants and images.
\* A line that is left makes the foreign key refuse, and nothing is deleted.
EraseProduct(c) ==
    LET p == task[c].on
        V == VariantsOf(p)
    IN
    /\ task[c].op = "erase"
    /\ \/ /\ IsProduct(p)
          /\ LinesOn(V) \subseteq Erased(p)
          /\ order' = [o \in Order |-> IF o \in Erased(p) THEN "deleted" ELSE order[o]]
          /\ product' = [product EXCEPT ![p] = "deleted"]
          /\ digital' = digital \ {p}
          /\ images' = [images EXCEPT ![p] = 0]
          /\ variant' = [v \in Variant |-> IF v \in V THEN "deleted" ELSE variant[v]]
          /\ asset' = [v \in Variant |-> IF v \in V THEN NoFile ELSE asset[v]]
          /\ printable' = printable \ V
          /\ halted' = halted \ V
          /\ Goto(c, [task[c] EXCEPT !.op = "sweep"])
       \/ /\ "db" \in FaultKinds \/ ~IsProduct(p) \/ ~(LinesOn(V) \subseteq Erased(p))
          /\ Goto(c, Reverted(c))
          /\ UNCHANGED <<productVars, variantVars, order, halted>>
    /\ UNCHANGED <<fileVars, line, session>>

\* borrarEnSilencio, file by file.
SweepFile(c) ==
    /\ task[c].op = "sweep"
    /\ IF task[c].files = {}
       THEN Goto(c, Idle) /\ UNCHANGED bucket
       ELSE \E f \in task[c].files :
               /\ Goto(c, [task[c] EXCEPT !.files = @ \ {f}])
               /\ \/ bucket' = bucket \ {f}
                  \/ "bucket" \in FaultKinds /\ UNCHANGED bucket
    /\ UNCHANGED <<productVars, variantVars, used, orderVars, halted>>

-----------------------------------------------------------------------------
(* The file of a variant.                                                  *)

UploadCheck(c, v) ==
    /\ IsVariant(v)
    /\ ProductOf[v] \in digital
    /\ Begin(c, [op |-> "store", on |-> v, old |-> asset[v]])
    /\ UNCHANGED <<productVars, variantVars, fileVars, orderVars, halted>>

\* A mutant: the new file takes the place of the old one at once.
StoredOver(t, f) == (bucket \ {t.old}) \cup {f}

Stored(t, f) == bucket \cup {f}

\* Every upload has a path of its own (randomUUID).
StoreFile(c) ==
    LET t == task[c] IN
    /\ t.op = "store"
    /\ \/ \E f \in File \ used :
             /\ bucket' = Stored(t, f)
             /\ used' = used \cup {f}
             /\ Goto(c, [op |-> "point", on |-> t.on, old |-> t.old, new |-> f])
       \/ /\ "bucket" \in FaultKinds \/ used = File
          /\ Goto(c, Idle)
          /\ UNCHANGED fileVars
    /\ UNCHANGED <<productVars, variantVars, orderVars, halted>>

\* The variant now points to the new file, the old one can go.
PointToFile(c) ==
    LET t == task[c] IN
    /\ t.op = "point"
    /\ \/ /\ IsVariant(t.on)
          /\ asset' = [asset EXCEPT ![t.on] = t.new]
          /\ halted' = halted \ {t.on}
          /\ Goto(c, IF t.old = NoFile THEN Idle ELSE [op |-> "replace", old |-> t.old])
       \/ /\ "db" \in FaultKinds \/ ~IsVariant(t.on)
          /\ Goto(c, Idle)
          /\ UNCHANGED <<asset, halted>>
    /\ UNCHANGED <<productVars, variant, printable, fileVars, orderVars>>

RemoveOld(c) ==
    /\ task[c].op = "replace"
    /\ \/ bucket' = bucket \ {task[c].old}
       \/ "bucket" \in FaultKinds /\ UNCHANGED bucket
    /\ Goto(c, Idle)
    /\ UNCHANGED <<productVars, variantVars, used, orderVars, halted>>

\* remove: the product must not be on sale when it is read.
StripCheck(c, v) ==
    /\ IsVariant(v)
    /\ product[ProductOf[v]] = "draft"
    /\ asset[v] # NoFile
    /\ Begin(c, [op |-> "strip", on |-> v, old |-> asset[v]])
    /\ UNCHANGED <<productVars, variantVars, fileVars, orderVars, halted>>

StripFile(c) ==
    /\ task[c].op = "strip"
    /\ \/ bucket' = bucket \ {task[c].old}
       \/ "bucket" \in FaultKinds /\ UNCHANGED bucket
    /\ Goto(c, [op |-> "clear", on |-> task[c].on])
    /\ UNCHANGED <<productVars, variantVars, used, orderVars, halted>>

\* A request that ends before it has cleared the path leaves it in the row.
Ends(c) ==
    /\ Goto(c, Idle)
    /\ halted' = IF task[c].op = "clear" /\ asset[task[c].on] # NoFile
                 THEN halted \cup {task[c].on} ELSE halted

ClearPath(c) ==
    LET v == task[c].on IN
    /\ task[c].op = "clear"
    /\ \/ /\ IsVariant(v)
          /\ asset' = [asset EXCEPT ![v] = NoFile]
          /\ halted' = halted \ {v}
          /\ Goto(c, Idle)
       \/ /\ "db" \in FaultKinds \/ ~IsVariant(v)
          /\ Ends(c)
          /\ UNCHANGED asset
    /\ UNCHANGED <<productVars, variant, printable, fileVars, orderVars>>

\* The process dies, and the request with it; what the database and the bucket
\* have stays.  A crash of several requests is several of these steps.
RequestDies(c) ==
    /\ "crash" \in FaultKinds
    /\ task[c] # Idle
    /\ Ends(c)
    /\ UNCHANGED <<productVars, variantVars, fileVars, orderVars>>

-----------------------------------------------------------------------------
(* Customers.                                                              *)

Complete(v) ==
    IF ProductOf[v] \in digital THEN asset[v] # NoFile ELSE v \in printable

\* buildLinesFromDatabase: on sale, and complete whatever publishing let pass.
FillCart(o, v) ==
    /\ order[o] = "none" /\ line[o] = NoLine
    /\ variant[v] = "on" /\ product[ProductOf[v]] = "active"
    /\ Complete(v)
    /\ line' = [line EXCEPT ![o] = [variant |-> v, file |-> asset[v]]]
    /\ UNCHANGED <<productVars, variantVars, fileVars, order, session, task, halted>>

\* order.create with the line as it was read, if its variant still exists;
\* then the session.  Module Payments has the failures in between.
PlaceOrder(o) ==
    /\ order[o] = "none" /\ line[o] # NoLine
    /\ IF IsVariant(line[o].variant)
       THEN /\ order' = [order EXCEPT ![o] = "PENDING_PAYMENT"]
            /\ session' = [session EXCEPT ![o] = "open"]
            /\ UNCHANGED line
       ELSE line' = [line EXCEPT ![o] = NoLine] /\ UNCHANGED <<order, session>>
    /\ UNCHANGED <<productVars, variantVars, fileVars, task, halted>>

\* The customer pays, or lets the session end: Stripe knows, the rows do not.
SessionEnds(o) ==
    /\ session[o] = "open"
    /\ session' \in {[session EXCEPT ![o] = s] : s \in {"paid", "expired"}}
    /\ UNCHANGED <<productVars, variantVars, fileVars, order, line, task, halted>>

\* handlePaymentSucceeded or handleSessionExpired, by webhook or by a pass.
SessionHandled(o) ==
    /\ session[o] \in {"paid", "expired"}
    /\ order[o] = "PENDING_PAYMENT"
    /\ order' = [order EXCEPT ![o] = IF session[o] = "paid" THEN "PAID" ELSE "CANCELLED"]
    /\ UNCHANGED <<productVars, variantVars, fileVars, line, session, task, halted>>

-----------------------------------------------------------------------------
Request(c) ==
    \/ \E p \in Product : PublishCheck(c, p) \/ CountImages(c, p) \/ DeleteCheck(c, p)
    \/ \E v \in Variant : UploadCheck(c, v) \/ StripCheck(c, v)
    \/ Publish(c)
    \/ AddImage(c)
    \/ CollectFiles(c)
    \/ EraseProduct(c)
    \/ SweepFile(c)
    \/ StoreFile(c)
    \/ PointToFile(c)
    \/ RemoveOld(c)
    \/ StripFile(c)
    \/ ClearPath(c)
    \/ RequestDies(c)

Customer(o) ==
    \/ \E v \in Variant : FillCart(o, v)
    \/ PlaceOrder(o)
    \/ SessionEnds(o)
    \/ SessionHandled(o)

Next ==
    \/ \E c \in Clerk : Request(c)
    \/ \E o \in Order : Customer(o)
    \/ \E p \in Product : CreateProduct(p) \/ EditProduct(p) \/ DropImage(p)
    \/ \E v \in Variant : CreateVariant(v) \/ EditVariant(v) \/ DropVariant(v)

Spec == Init /\ [][Next]_vars

-----------------------------------------------------------------------------
(* Properties.                                                             *)

\* A confirmed sale keeps its row and its variant whatever administrators
\* delete, and however the payment falls between the reads and the transaction
\* of deleteProduct (catalog.service.ts:227-230).
SalesAreKept ==
    [][\A o \in Order : order[o] = "PAID" =>
          order'[o] = "PAID" /\ variant'[line[o].variant] \in {"on", "off"}]_vars

\* deleteProduct removes no file that a confirmed sale delivers: the paths were
\* read before the deletion, and the sale could have come since.
SweptFilesAreUnsold ==
    \A c \in Clerk : task[c].op = "sweep" =>
        \A o \in Order : order[o] = "PAID" => line[o].file \notin task[c].files

\* Uploads, replacements, deletions and removals at once, and requests that
\* break off anywhere, never leave a variant pointing to a file that is gone,
\* but for a removal, which deletes the file first: while it is under way, or
\* if it broke off before it cleared the row (digital-asset.service.ts:83-85,
\* against what catalog.service.ts:245-247 reasons).
RowsPointToFiles ==
    \A v \in Variant : asset[v] # NoFile /\ asset[v] \notin bucket =>
        v \in halted \/ \E c \in Clerk : task[c].op = "clear" /\ task[c].on = v

\* Does not hold, and no run checks it: whoever paid keeps downloading what was
\* bought (schema.prisma:465-467).
SoldFileIsKept ==
    \A o \in Order :
        order[o] = "PAID" /\ line[o].file # NoFile => line[o].file \in bucket

\* Does not hold, and no run checks it: an order that Stripe charged is never
\* thrown away as an attempt that nobody paid
\* (order.constants.ts:9, catalog.service.ts:227-230).
ChargedIsNotErased ==
    \A o \in Order : session[o] = "paid" => order[o] # "deleted"

\* Does not hold, and no run checks it: what is on sale can be produced
\* (catalog.service.ts:390-391).
PublishedIsProducible ==
    \A p \in Product : product[p] = "active" => Publishable(p)
=============================================================================
