---------------------------- MODULE CatalogProofs ----------------------------
(***************************************************************************)
(* The catalogue against its orders and files, for any products, variants, *)
(* orders, files and requests of administrators.                           *)
(***************************************************************************)
EXTENDS Catalog, TLAPS

\* What is inductive of the types on its own.
Typed ==
    /\ product \in [Product -> {"none", "draft", "active", "deleted"}]
    /\ digital \subseteq Product
    /\ images \in [Product -> Nat]
    /\ variant \in [Variant -> {"none", "off", "on", "deleted"}]
    /\ printable \subseteq Variant
    /\ asset \in [Variant -> File \cup {NoFile}]
    /\ bucket \subseteq used /\ used \subseteq File
    /\ order \in [Order -> {"none", "PENDING_PAYMENT", "PAID", "CANCELLED", "deleted"}]
    /\ line \in [Order -> [variant : Variant \cup {NoVariant}, file : File \cup {NoFile}]]
    /\ session \in [Order -> {"none", "open", "paid", "expired"}]
    /\ task \in [Clerk -> Task]
    /\ halted \subseteq Variant

\* Earlier files that a request has read, and may delete.
Old(t) ==
    IF t.op \in {"store", "strip", "point", "replace"} THEN {t.old} \ {NoFile}
    ELSE IF t.op \in {"erase", "sweep"} THEN t.files ELSE {}

\* The file that a request has stored, and that no row has yet.
New(t) == IF t.op = "point" THEN {t.new} ELSE {}

\* Whether a request that has read a file leaves it to that variant for now.
Leaves(t, v) ==
    \/ t.op \in {"store", "strip", "point"} /\ t.on = v
    \/ t.op = "erase" /\ ProductOf[v] = t.on

\* A path that is anywhere was generated: another upload does not get it.
FilesAreUsed ==
    /\ \A v \in Variant : asset[v] \in used \cup {NoFile}
    /\ \A o \in Order : line[o].file \in used \cup {NoFile}
    /\ \A c \in Clerk : Old(task[c]) \cup New(task[c]) \subseteq used

\* Only a variant that exists has a file, and no other has the same.
OneFileEach ==
    /\ \A v \in Variant : asset[v] # NoFile => IsVariant(v)
    /\ \A v, w \in Variant : asset[v] = asset[w] /\ asset[v] # NoFile => v = w

\* The file on its way to a variant is there, and nobody else knows of it.
NewIsUnknown ==
    \A c \in Clerk : \A f \in New(task[c]) :
        /\ f \in bucket
        /\ \A v \in Variant : asset[v] # f
        /\ \A o \in Order : line[o].file # f
        /\ \A d \in Clerk : f \notin Old(task[d]) /\ (d # c => f \notin New(task[d]))

\* What a request is about to delete, no row has; what it has read before, at
\* most the row it read.
OldIsLeft ==
    \A c \in Clerk : \A f \in Old(task[c]) :
        \A v \in Variant : asset[v] = f => Leaves(task[c], v)

\* A line has a variant that was created, and keeps it while it is a row.
LinesHaveVariants ==
    \A o \in Order :
        /\ line[o].variant # NoVariant => variant[line[o].variant] # "none"
        /\ line[o].file # NoFile => line[o].variant \in Variant
        /\ HasLine(o) => line[o].variant \in Variant /\ IsVariant(line[o].variant)

\* The file of a line is of its variant, or of none any more.
LinesHaveTheirFile ==
    \A o \in Order : line[o].file # NoFile =>
        \A v \in Variant : asset[v] = line[o].file => v = line[o].variant

\* A line with a file that deleteProduct has read is of that product, and no
\* order once the product is deleted.
DeletedAreOver ==
    \A c \in Clerk : \A o \in Order :
        line[o].file # NoFile /\ line[o].file \in Old(task[c]) =>
            /\ task[c].op = "erase" => ProductOf[line[o].variant] = task[c].on
            /\ task[c].op = "sweep" => ~HasLine(o) /\ variant[line[o].variant] = "deleted"

CatalogInv ==
    /\ Typed
    /\ FilesAreUsed
    /\ OneFileEach
    /\ NewIsUnknown
    /\ OldIsLeft
    /\ LinesHaveVariants
    /\ LinesHaveTheirFile
    /\ DeletedAreOver

-----------------------------------------------------------------------------
(* Types.                                                                  *)

LEMMA TaskShape ==
    ASSUME NEW t \in Task
    PROVE  /\ t.op \in {"idle", "publish", "image", "collect", "erase", "sweep", "store", "strip",
                        "point", "replace", "clear"}
           /\ t.op = "idle" => t = Idle
           /\ t.op \in {"publish", "image", "collect", "erase", "sweep"} => t.on \in Product
           /\ t.op \in {"erase", "sweep"} =>
                 t.files \in SUBSET File /\ t = [op |-> t.op, on |-> t.on, files |-> t.files]
           /\ t.op \in {"store", "strip", "point", "clear"} => t.on \in Variant
           /\ t.op \in {"store", "strip", "point"} => t.old \in File \cup {NoFile}
           /\ t.op = "point" => t.new \in File
           /\ t.op = "replace" => t.old \in File
  BY DEF Task, Idle

LEMMA TasksAre ==
    /\ Idle \in Task /\ Idle.op = "idle"
    /\ \A op \in {"publish", "image", "collect"}, p \in Product : [op |-> op, on |-> p] \in Task
    /\ \A op \in {"erase", "sweep"}, p \in Product, F \in SUBSET File :
          [op |-> op, on |-> p, files |-> F] \in Task
    /\ \A op \in {"store", "strip"}, v \in Variant, f \in File \cup {NoFile} :
          [op |-> op, on |-> v, old |-> f] \in Task
    /\ \A v \in Variant, f \in File \cup {NoFile}, g \in File :
          [op |-> "point", on |-> v, old |-> f, new |-> g] \in Task
    /\ \A f \in File : [op |-> "replace", old |-> f] \in Task
    /\ \A v \in Variant : [op |-> "clear", on |-> v] \in Task
  BY DEF Task, Idle

\* A deletion goes on with the files it has read, or with one less.
LEMMA NextTask ==
    ASSUME NEW t \in Task, t.op \in {"erase", "sweep"}
    PROVE  /\ [t EXCEPT !.op = "sweep"] = [op |-> "sweep", on |-> t.on, files |-> t.files]
           /\ \A f : [t EXCEPT !.files = @ \ {f}]
                        = [op |-> t.op, on |-> t.on, files |-> t.files \ {f}]
<1>1. t = [op |-> t.op, on |-> t.on, files |-> t.files]
  BY TaskShape
<1>. QED  BY <1>1

OnlyMoves(c) == \A d \in Clerk : d # c => task'[d] = task[d]

\* What a step does to a task, and to what it has read.
TaskMoves(c) ==
    \/ task'[c] = task[c]
    \/ task'[c].op \in {"idle", "publish", "image", "collect", "clear"}
    \/ /\ task[c].op = "collect" /\ UNCHANGED <<asset, line, order, variant>>
       /\ task'[c].op = "erase" /\ task'[c].on = task[c].on
       /\ task'[c].files = {asset[v] : v \in VariantsOf(task[c].on)} \ {NoFile}
    \/ /\ task[c].op = "erase" /\ UNCHANGED line
       /\ LinesOn(VariantsOf(task[c].on)) \subseteq Erased(task[c].on)
       /\ order' = [o \in Order |-> IF o \in Erased(task[c].on) THEN "deleted" ELSE order[o]]
       /\ variant' = [v \in Variant |->
                        IF v \in VariantsOf(task[c].on) THEN "deleted" ELSE variant[v]]
       /\ asset' = [v \in Variant |-> IF v \in VariantsOf(task[c].on) THEN NoFile ELSE asset[v]]
       /\ task'[c].op = "sweep" /\ task'[c].on = task[c].on /\ task'[c].files = task[c].files
    \/ /\ task[c].op = "sweep" /\ task'[c].op = "sweep"
       /\ task'[c].on = task[c].on /\ task'[c].files \subseteq task[c].files
    \/ /\ UNCHANGED <<asset, line>>
       /\ task'[c].op \in {"store", "strip"} /\ task'[c].on \in Variant
       /\ task'[c].old = asset[task'[c].on]
    \/ /\ task[c].op = "store" /\ OnlyMoves(c) /\ UNCHANGED <<asset, line>>
       /\ task'[c].op = "point" /\ task'[c].on = task[c].on /\ task'[c].old = task[c].old
       /\ task'[c].new \in File \ used
       /\ bucket' = bucket \cup {task'[c].new} /\ used' = used \cup {task'[c].new}
    \/ /\ task[c].op = "point"
       /\ asset' = [asset EXCEPT ![task[c].on] = task[c].new]
       /\ task'[c].op = "replace" /\ task'[c].old = task[c].old /\ task[c].old # NoFile

LEMMA TasksMove ==
    ASSUME Typed, [Next]_vars, NEW c \in Clerk
    PROVE  TaskMoves(c)
<1>. task \in [Clerk -> Task] /\ Typed
  BY DEF Typed
<1>. USE DEF TaskMoves, productVars, variantVars, fileVars, orderVars
<1>1. CASE task' = task
  BY <1>1
<1>2. ASSUME NEW d \in Clerk, NEW t, task' = [task EXCEPT ![d] = t], d # c
      PROVE  TaskMoves(c)
  BY <1>2
<1>3. ASSUME NEW d \in Clerk,
             \/ (\E p \in Product : PublishCheck(d, p) \/ CountImages(d, p) \/ DeleteCheck(d, p))
             \/ Publish(d) \/ AddImage(d) \/ RemoveOld(d) \/ ClearPath(d) \/ RequestDies(d)
      PROVE  TaskMoves(c)
  <2>1. \E t : t.op \in {"idle", "publish", "image", "collect"} /\ task' = [task EXCEPT ![d] = t]
    <3>1. CASE \E p \in Product : PublishCheck(d, p) \/ CountImages(d, p) \/ DeleteCheck(d, p)
      BY <3>1 DEF PublishCheck, CountImages, DeleteCheck, Begin
    <3>2. CASE Publish(d) \/ AddImage(d) \/ RemoveOld(d) \/ ClearPath(d) \/ RequestDies(d)
      BY <3>2 DEF Publish, AddImage, RemoveOld, ClearPath, RequestDies, Ends, Goto, Idle
    <3>. QED  BY <1>3, <3>1, <3>2
  <2>. QED  BY <2>1
<1>4. ASSUME NEW d \in Clerk, \E v \in Variant : UploadCheck(d, v) \/ StripCheck(d, v)
      PROVE  TaskMoves(c)
  BY <1>4 DEF UploadCheck, StripCheck, Begin
<1>5. ASSUME NEW d \in Clerk, CollectFiles(d)
      PROVE  TaskMoves(c)
  <2>. DEFINE files == {asset[v] : v \in VariantsOf(task[d].on)} \ {NoFile}
  <2>1. /\ task[d].op = "collect" /\ UNCHANGED <<asset, line, order, variant>>
        /\ \/ task' = [task EXCEPT ![d] = Idle]
           \/ task' = [task EXCEPT ![d] = [op |-> "erase", on |-> task[d].on, files |-> files]]
    BY <1>5 DEF CollectFiles, Goto
  <2>. HIDE DEF files
  <2>2. CASE d = c
    <3>1. CASE task'[c] = Idle
      BY <3>1 DEF Idle
    <3>2. CASE task'[c] = [op |-> "erase", on |-> task[d].on, files |-> files]
      BY <2>1, <2>2, <3>2 DEF files
    <3>. QED  BY <2>1, <2>2, <3>1, <3>2
  <2>3. CASE d # c
    BY <2>1, <2>3
  <2>. QED  BY <2>2, <2>3
<1>6. ASSUME NEW d \in Clerk, EraseProduct(d)
      PROVE  TaskMoves(c)
  <2>1. [task[d] EXCEPT !.op = "sweep"]
            = [op |-> "sweep", on |-> task[d].on, files |-> task[d].files]
    BY <1>6, NextTask DEF EraseProduct
  <2>2. CASE d = c
    <3>1. CASE task' = [task EXCEPT ![d] = Idle]
      BY <3>1 DEF Idle
    <3>2. CASE task' # [task EXCEPT ![d] = Idle]
      <4>1. task'[c] = [op |-> "sweep", on |-> task[c].on, files |-> task[c].files]
        BY <1>6, <2>1, <2>2, <3>2 DEF EraseProduct, Goto, Reverted
      <4>2. /\ task[c].op = "erase" /\ UNCHANGED line
            /\ LinesOn(VariantsOf(task[c].on)) \subseteq Erased(task[c].on)
            /\ order' = [o \in Order |->
                           IF o \in Erased(task[c].on) THEN "deleted" ELSE order[o]]
            /\ variant' = [v \in Variant |->
                             IF v \in VariantsOf(task[c].on) THEN "deleted" ELSE variant[v]]
            /\ asset' = [v \in Variant |->
                           IF v \in VariantsOf(task[c].on) THEN NoFile ELSE asset[v]]
        BY <1>6, <2>2, <3>2 DEF EraseProduct, Goto, Reverted
      <4>. QED  BY <4>1, <4>2
    <3>. QED  BY <3>1, <3>2
  <2>3. CASE d # c
    BY <1>6, <2>3 DEF EraseProduct, Goto
  <2>. QED  BY <2>2, <2>3
<1>7. ASSUME NEW d \in Clerk, SweepFile(d)
      PROVE  TaskMoves(c)
  <2>1. \A f : [task[d] EXCEPT !.files = @ \ {f}]
                  = [op |-> "sweep", on |-> task[d].on, files |-> task[d].files \ {f}]
    BY <1>7, NextTask DEF SweepFile
  <2>2. /\ task[d].op = "sweep"
        /\ \/ task' = [task EXCEPT ![d] = Idle]
           \/ \E f \in task[d].files :
                 task' = [task EXCEPT ![d] = [task[d] EXCEPT !.files = @ \ {f}]]
    BY <1>7 DEF SweepFile, Goto
  <2>3. ASSUME NEW f \in task[d].files,
               task' = [task EXCEPT ![d] = [task[d] EXCEPT !.files = @ \ {f}]]
        PROVE  TaskMoves(c)
    <3>1. task' = [task EXCEPT ![d] = [op |-> "sweep", on |-> task[d].on,
                                       files |-> task[d].files \ {f}]]
      BY <2>1, <2>3
    <3>2. task[d].op = "sweep"
      BY <2>2
    <3>. QED  BY <3>1, <3>2
  <2>4. CASE task' = [task EXCEPT ![d] = Idle]
    BY <2>4 DEF Idle
  <2>. QED  BY <2>2, <2>3, <2>4
<1>8. ASSUME NEW d \in Clerk, StoreFile(d)
      PROVE  TaskMoves(c)
  <2>1. CASE task' = [task EXCEPT ![d] = Idle]
    BY <2>1 DEF Idle
  <2>2. ASSUME NEW f \in File \ used, bucket' = bucket \cup {f}, used' = used \cup {f},
               task' = [task EXCEPT ![d] = [op |-> "point", on |-> task[d].on,
                                            old |-> task[d].old, new |-> f]]
        PROVE  TaskMoves(c)
    <3>1. task[d].op = "store" /\ UNCHANGED <<asset, line>>
      BY <1>8 DEF StoreFile
    <3>2. CASE d = c
      <4>1. /\ task'[c].op = "point" /\ task'[c].on = task[c].on
            /\ task'[c].old = task[c].old /\ task'[c].new = f
        BY <2>2, <3>2
      <4>2. OnlyMoves(c)
        BY <2>2, <3>2 DEF OnlyMoves
      <4>. QED  BY <2>2, <3>1, <3>2, <4>1, <4>2
    <3>3. CASE d # c
      BY <2>2, <3>3
    <3>. QED  BY <3>2, <3>3
  <2>. QED  BY <1>8, <2>1, <2>2 DEF StoreFile, Goto, Stored
<1>9. ASSUME NEW d \in Clerk, PointToFile(d)
      PROVE  TaskMoves(c)
  <2>1. CASE task' = [task EXCEPT ![d] = Idle]
    BY <2>1 DEF Idle
  <2>2. CASE task' # [task EXCEPT ![d] = Idle]
    BY <1>9, <2>2 DEF PointToFile, Goto
  <2>. QED  BY <2>1, <2>2
<1>10. ASSUME NEW d \in Clerk, StripFile(d)
       PROVE  TaskMoves(c)
  BY <1>10 DEF StripFile, Goto
<1>11. CASE \/ \E o \in Order : Customer(o)
            \/ \E p \in Product : CreateProduct(p) \/ EditProduct(p) \/ DropImage(p)
            \/ \E v \in Variant : CreateVariant(v) \/ EditVariant(v) \/ DropVariant(v)
            \/ UNCHANGED vars
  BY <1>1, <1>11 DEF Customer, FillCart, PlaceOrder, SessionEnds, SessionHandled, CreateProduct,
     EditProduct, DropImage, CreateVariant, EditVariant, DropVariant, vars
<1>. QED
  BY <1>3, <1>4, <1>5, <1>6, <1>7, <1>8, <1>9, <1>10, <1>11 DEF Next, Request

LEMMA TaskTypes ==
    ASSUME Typed, [Next]_vars
    PROVE  task' \in [Clerk -> Task]
<1>. USE DEF Typed
<1>1. ASSUME NEW d \in Clerk, NEW t, task' = [task EXCEPT ![d] = t], t \in Task
      PROVE  task' \in [Clerk -> Task]
  BY <1>1
<1>2. ASSUME NEW d \in Clerk, NEW p \in Product,
             PublishCheck(d, p) \/ CountImages(d, p) \/ DeleteCheck(d, p)
      PROVE  task' \in [Clerk -> Task]
  BY <1>2, TasksAre DEF PublishCheck, CountImages, DeleteCheck, Begin
<1>3. ASSUME NEW d \in Clerk, NEW v \in Variant, UploadCheck(d, v) \/ StripCheck(d, v)
      PROVE  task' \in [Clerk -> Task]
  BY <1>3, TasksAre DEF UploadCheck, StripCheck, Begin
<1>4. ASSUME NEW d \in Clerk,
             Publish(d) \/ AddImage(d) \/ RemoveOld(d) \/ ClearPath(d) \/ RequestDies(d)
      PROVE  task' \in [Clerk -> Task]
  BY <1>4, TasksAre DEF Publish, AddImage, RemoveOld, ClearPath, RequestDies, Ends, Goto
<1>5. ASSUME NEW d \in Clerk, CollectFiles(d)
      PROVE  task' \in [Clerk -> Task]
  <2>1. task[d].on \in Product
    BY <1>5, TaskShape DEF CollectFiles
  <2>2. {asset[v] : v \in VariantsOf(task[d].on)} \ {NoFile} \in SUBSET File
    BY DEF VariantsOf
  <2>3. \A p \in Product, F \in SUBSET File : [op |-> "erase", on |-> p, files |-> F] \in Task
    BY TasksAre
  <2>. QED  BY <1>5, <2>1, <2>2, <2>3, TasksAre DEF CollectFiles, Goto
<1>6. ASSUME NEW d \in Clerk, EraseProduct(d)
      PROVE  task' \in [Clerk -> Task]
  <2>1. /\ [task[d] EXCEPT !.op = "sweep"]
              = [op |-> "sweep", on |-> task[d].on, files |-> task[d].files]
        /\ task[d].on \in Product /\ task[d].files \in SUBSET File
    BY <1>6, NextTask, TaskShape DEF EraseProduct
  <2>2. [task[d] EXCEPT !.op = "sweep"] \in Task
    BY <2>1, TasksAre
  <2>. QED  BY <1>6, <2>2, TasksAre DEF EraseProduct, Goto, Reverted
<1>7. ASSUME NEW d \in Clerk, SweepFile(d)
      PROVE  task' \in [Clerk -> Task]
  <2>1. task[d] \in Task /\ task[d].op = "sweep"
    BY <1>7 DEF SweepFile
  <2>2. task[d].on \in Product /\ task[d].files \in SUBSET File
    BY <2>1, TaskShape
  <2>3. ASSUME NEW f
        PROVE  [task[d] EXCEPT !.files = @ \ {f}] \in Task
    <3>1. [task[d] EXCEPT !.files = @ \ {f}]
             = [op |-> "sweep", on |-> task[d].on, files |-> task[d].files \ {f}]
      BY <2>1, NextTask
    <3>2. [op |-> "sweep", on |-> task[d].on, files |-> task[d].files \ {f}] \in Task
      BY <2>2, TasksAre
    <3>. QED  BY <3>1, <3>2
  <2>4. \E t \in Task : task' = [task EXCEPT ![d] = t]
    BY <1>7, <2>3, TasksAre DEF SweepFile, Goto
  <2>. QED  BY <1>1, <2>4
<1>8. ASSUME NEW d \in Clerk, StoreFile(d)
      PROVE  task' \in [Clerk -> Task]
  <2>1. task[d].on \in Variant /\ task[d].old \in File \cup {NoFile}
    BY <1>8, TaskShape DEF StoreFile
  <2>2. \A f \in File : [op |-> "point", on |-> task[d].on, old |-> task[d].old, new |-> f] \in Task
    BY <2>1, TasksAre
  <2>3. Idle \in Task
    BY TasksAre
  <2>. QED  BY <1>8, <2>2, <2>3 DEF StoreFile, Goto
<1>9. ASSUME NEW d \in Clerk, PointToFile(d)
      PROVE  task' \in [Clerk -> Task]
  <2>1. task[d].old \in File \cup {NoFile}
    BY <1>9, TaskShape DEF PointToFile
  <2>. QED  BY <1>9, <2>1, TasksAre DEF PointToFile, Goto
<1>10. ASSUME NEW d \in Clerk, StripFile(d)
       PROVE  task' \in [Clerk -> Task]
  <2>1. task[d].on \in Variant
    BY <1>10, TaskShape DEF StripFile
  <2>. QED  BY <1>10, <2>1, TasksAre DEF StripFile, Goto
<1>11. CASE \/ \E o \in Order : Customer(o)
            \/ \E p \in Product : CreateProduct(p) \/ EditProduct(p) \/ DropImage(p)
            \/ \E v \in Variant : CreateVariant(v) \/ EditVariant(v) \/ DropVariant(v)
            \/ UNCHANGED vars
  BY <1>11 DEF Customer, FillCart, PlaceOrder, SessionEnds, SessionHandled, CreateProduct,
     EditProduct, DropImage, CreateVariant, EditVariant, DropVariant, vars
<1>. QED
  BY <1>2, <1>3, <1>4, <1>5, <1>6, <1>7, <1>8, <1>9, <1>10, <1>11 DEF Next, Request

LEMMA TypeStep ==
    ASSUME Typed, [Next]_vars
    PROVE  Typed'
<1>. task \in [Clerk -> Task] /\ task' \in [Clerk -> Task]
  BY TaskTypes DEF Typed
<1>. USE CatalogAssumption DEF Typed, productVars, variantVars, fileVars, orderVars
<1>1. ASSUME NEW d \in Clerk,
             \/ \E p \in Product : PublishCheck(d, p) \/ CountImages(d, p) \/ DeleteCheck(d, p)
             \/ \E v \in Variant : UploadCheck(d, v) \/ StripCheck(d, v)
             \/ CollectFiles(d)
      PROVE  Typed'
  BY <1>1 DEF PublishCheck, CountImages, DeleteCheck, UploadCheck, StripCheck, CollectFiles
<1>2. ASSUME NEW d \in Clerk, Publish(d) \/ AddImage(d)
      PROVE  Typed'
  <2>1. task[d].on \in Product
    BY <1>2, TaskShape DEF Publish, AddImage
  <2>. QED  BY <1>2, <2>1 DEF Publish, AddImage
<1>3. ASSUME NEW d \in Clerk, EraseProduct(d)
      PROVE  Typed'
  <2>1. /\ product' \in [Product -> {"none", "draft", "active", "deleted"}]
        /\ order' \in [Order -> {"none", "PENDING_PAYMENT", "PAID", "CANCELLED", "deleted"}]
        /\ variant' \in [Variant -> {"none", "off", "on", "deleted"}]
    BY <1>3 DEF EraseProduct
  <2>2. /\ asset' \in [Variant -> File \cup {NoFile}] /\ printable' \subseteq Variant
        /\ UNCHANGED <<fileVars, line, session>>
    BY <1>3 DEF EraseProduct
  <2>3. digital' \subseteq Product /\ images' \in [Product -> Nat] /\ halted' \subseteq Variant
    BY <1>3 DEF EraseProduct
  <2>. QED  BY <2>1, <2>2, <2>3
<1>4. ASSUME NEW d \in Clerk, SweepFile(d) \/ RemoveOld(d) \/ StripFile(d) \/ StoreFile(d)
      PROVE  Typed'
  <2>1. bucket' \subseteq used' /\ used' \subseteq File
    BY <1>4 DEF SweepFile, RemoveOld, StripFile, StoreFile, Stored
  <2>2. UNCHANGED <<productVars, variantVars, orderVars, halted>>
    BY <1>4 DEF SweepFile, RemoveOld, StripFile, StoreFile
  <2>. QED  BY <2>1, <2>2
<1>5. ASSUME NEW d \in Clerk, PointToFile(d) \/ ClearPath(d) \/ RequestDies(d)
      PROVE  Typed'
  <2>1. asset' \in [Variant -> File \cup {NoFile}]
    BY <1>5, TaskShape DEF PointToFile, ClearPath, RequestDies
  <2>2. UNCHANGED <<productVars, variant, printable, fileVars, orderVars>>
    BY <1>5 DEF PointToFile, ClearPath, RequestDies
  <2>3. halted' \subseteq Variant
    BY <1>5, TaskShape DEF PointToFile, ClearPath, RequestDies, Ends
  <2>. QED  BY <2>1, <2>2, <2>3
<1>6. ASSUME NEW o \in Order, Customer(o)
      PROVE  Typed'
  <2>1. /\ order' \in [Order -> {"none", "PENDING_PAYMENT", "PAID", "CANCELLED", "deleted"}]
        /\ line' \in [Order -> [variant : Variant \cup {NoVariant}, file : File \cup {NoFile}]]
        /\ session' \in [Order -> {"none", "open", "paid", "expired"}]
    <3>1. ASSUME NEW v \in Variant, FillCart(o, v)
          PROVE  /\ UNCHANGED <<order, session>>
                 /\ line' \in [Order -> [variant : Variant \cup {NoVariant},
                                         file : File \cup {NoFile}]]
      BY <3>1 DEF FillCart
    <3>2. CASE PlaceOrder(o)
      <4>1. NoLine \in [variant : Variant \cup {NoVariant}, file : File \cup {NoFile}]
        BY DEF NoLine
      <4>2. CASE IsVariant(line[o].variant)
        BY <3>2, <4>2 DEF PlaceOrder
      <4>3. CASE ~IsVariant(line[o].variant)
        BY <3>2, <4>1, <4>3 DEF PlaceOrder
      <4>. QED  BY <4>2, <4>3
    <3>3. CASE SessionEnds(o)
      <4>1. \/ session' = [session EXCEPT ![o] = "paid"]
            \/ session' = [session EXCEPT ![o] = "expired"]
        BY <3>3 DEF SessionEnds
      <4>2. UNCHANGED <<order, line>>
        BY <3>3 DEF SessionEnds
      <4>. QED  BY <4>1, <4>2
    <3>4. CASE SessionHandled(o)
      <4>1. order' = [order EXCEPT ![o] = "PAID"] \/ order' = [order EXCEPT ![o] = "CANCELLED"]
        BY <3>4 DEF SessionHandled
      <4>2. UNCHANGED <<line, session>>
        BY <3>4 DEF SessionHandled
      <4>. QED  BY <4>1, <4>2
    <3>. QED  BY <1>6, <3>1, <3>2, <3>3, <3>4 DEF Customer
  <2>2. UNCHANGED <<productVars, variantVars, fileVars, halted>>
    BY <1>6 DEF Customer, FillCart, PlaceOrder, SessionEnds, SessionHandled
  <2>. QED  BY <2>1, <2>2
<1>7. ASSUME NEW p \in Product, CreateProduct(p) \/ EditProduct(p) \/ DropImage(p)
      PROVE  Typed'
  BY <1>7 DEF CreateProduct, EditProduct, DropImage
<1>8. ASSUME NEW v \in Variant, CreateVariant(v) \/ EditVariant(v) \/ DropVariant(v)
      PROVE  Typed'
  BY <1>8 DEF CreateVariant, EditVariant, DropVariant
<1>9. CASE UNCHANGED vars
  BY <1>9 DEF vars
<1>. QED
  BY <1>1, <1>2, <1>3, <1>4, <1>5, <1>6, <1>7, <1>8, <1>9 DEF Next, Request

-----------------------------------------------------------------------------
(* What a step does to a variant, a line, an order and a file.             *)

\* A variant keeps its file, loses it, or gets the one that a request stored.
FileMoves(v) ==
    \/ asset'[v] = asset[v]
    \/ asset'[v] = NoFile
    \/ \E c \in Clerk :
          /\ task[c].op = "point" /\ task[c].on = v /\ IsVariant(v)
          /\ asset' = [asset EXCEPT ![v] = task[c].new]
          /\ task'[c].op \in {"idle", "replace"}
          /\ UNCHANGED <<variant, bucket, line>>

\* A variant that leaves the catalogue takes its file along, and no row of
\* order_items refers to it.
VariantMoves(v) ==
    /\ variant[v] # "none" => variant'[v] # "none"
    /\ variant[v] = "deleted" => variant'[v] = "deleted"
    /\ IsVariant(v) /\ ~IsVariant(v)' =>
          /\ asset'[v] = NoFile
          /\ \A o \in Order : HasLine(o)' => line'[o].variant # v

LEMMA VariantsMove ==
    ASSUME Typed, [Next]_vars, NEW v \in Variant
    PROVE  FileMoves(v) /\ VariantMoves(v)
<1>. USE DEF FileMoves, VariantMoves, IsVariant
<1>. /\ variant \in [Variant -> {"none", "off", "on", "deleted"}]
     /\ asset \in [Variant -> File \cup {NoFile}]
     /\ task \in [Clerk -> Task]
  BY DEF Typed
<1>1. CASE UNCHANGED <<variant, asset>>
  BY <1>1
<1>2. ASSUME NEW c \in Clerk, PointToFile(c)
      PROVE  FileMoves(v) /\ VariantMoves(v)
  <2>1. CASE asset' = asset
    BY <1>1, <1>2, <2>1 DEF PointToFile
  <2>2. CASE asset' # asset
    <3>1. /\ task[c].op = "point" /\ IsVariant(task[c].on)
          /\ asset' = [asset EXCEPT ![task[c].on] = task[c].new]
          /\ UNCHANGED <<variant, bucket, line>>
      BY <1>2, <2>2 DEF PointToFile, fileVars, orderVars
    <3>2. task'[c].op \in {"idle", "replace"}
      BY <1>2, <2>2 DEF PointToFile, Goto, Idle
    <3>3. CASE task[c].on = v
      BY <3>1, <3>2, <3>3
    <3>4. CASE task[c].on # v
      BY <3>1, <3>4
    <3>. QED  BY <3>3, <3>4
  <2>. QED  BY <2>1, <2>2
<1>3. ASSUME NEW c \in Clerk, ClearPath(c)
      PROVE  FileMoves(v) /\ VariantMoves(v)
  BY <1>3 DEF ClearPath
<1>4. ASSUME NEW c \in Clerk, EraseProduct(c)
      PROVE  FileMoves(v) /\ VariantMoves(v)
  <2>. DEFINE V == VariantsOf(task[c].on)
  <2>1. CASE UNCHANGED <<variant, asset>>
    BY <1>1, <2>1
  <2>2. CASE ~UNCHANGED <<variant, asset>>
    <3>1. /\ LinesOn(V) \subseteq Erased(task[c].on)
          /\ order' = [o \in Order |-> IF o \in Erased(task[c].on) THEN "deleted" ELSE order[o]]
          /\ variant' = [w \in Variant |-> IF w \in V THEN "deleted" ELSE variant[w]]
          /\ asset' = [w \in Variant |-> IF w \in V THEN NoFile ELSE asset[w]]
          /\ line' = line
      BY <1>4, <2>2 DEF EraseProduct, variantVars
    <3>2. ASSUME v \in V, NEW o \in Order, HasLine(o)'
          PROVE  line'[o].variant # v
      <4>1. HasLine(o) /\ o \notin LinesOn(V)
        BY <3>1, <3>2 DEF HasLine
      <4>. QED  BY <3>1, <3>2, <4>1 DEF LinesOn
    <3>3. FileMoves(v)
      BY <3>1
    <3>4. CASE v \in V
      BY <3>1, <3>2, <3>3, <3>4 DEF VariantsOf
    <3>5. CASE v \notin V
      BY <3>1, <3>3, <3>5
    <3>. QED  BY <3>4, <3>5
  <2>. QED  BY <2>1, <2>2
<1>5. ASSUME NEW p \in Product, CreateProduct(p)
      PROVE  FileMoves(v) /\ VariantMoves(v)
  BY <1>5 DEF CreateProduct
<1>6. ASSUME NEW w \in Variant, CreateVariant(w) \/ EditVariant(w)
      PROVE  FileMoves(v) /\ VariantMoves(v)
  BY <1>6 DEF CreateVariant, EditVariant
<1>7. ASSUME NEW w \in Variant, DropVariant(w)
      PROVE  FileMoves(v) /\ VariantMoves(v)
  <2>1. /\ variant' = [variant EXCEPT ![w] = "deleted"] /\ asset' = [asset EXCEPT ![w] = NoFile]
        /\ LinesOn({w}) = {} /\ UNCHANGED <<order, line>>
    BY <1>7 DEF DropVariant, RefersTo, orderVars
  <2>2. \A o \in Order : HasLine(o)' => line'[o].variant # w
    BY <2>1 DEF LinesOn, HasLine
  <2>. QED  BY <2>1, <2>2
<1>8. CASE \/ \E c \in Clerk :
                 \/ \E p \in Product : PublishCheck(c, p) \/ CountImages(c, p) \/ DeleteCheck(c, p)
                 \/ \E w \in Variant : UploadCheck(c, w) \/ StripCheck(c, w)
                 \/ Publish(c) \/ AddImage(c) \/ CollectFiles(c) \/ SweepFile(c) \/ StoreFile(c)
                 \/ RemoveOld(c) \/ StripFile(c) \/ RequestDies(c)
           \/ \E o \in Order : Customer(o)
           \/ \E p \in Product : EditProduct(p) \/ DropImage(p)
           \/ UNCHANGED vars
  <2>1. UNCHANGED <<variant, asset>>
    BY <1>8 DEF PublishCheck, CountImages, DeleteCheck, UploadCheck, StripCheck, Publish,
       AddImage, CollectFiles, SweepFile, StoreFile, RemoveOld, StripFile, RequestDies, Customer,
       FillCart, PlaceOrder, SessionEnds,
       SessionHandled, EditProduct, DropImage, variantVars, vars
  <2>. QED  BY <1>1, <2>1
<1>. QED
  BY <1>2, <1>3, <1>4, <1>5, <1>6, <1>7, <1>8 DEF Next, Request

\* A line is filled once, with the file that its variant has then, and stays
\* unless the order is refused; a refused order has no line.
LineMoves(o) ==
    \/ line'[o] = line[o] /\ (HasLine(o)' /\ ~HasLine(o) =>
          variant'[line[o].variant] \in {"on", "off"} /\ line[o] # NoLine)
    \/ line'[o] = NoLine /\ ~HasLine(o)'
    \/ /\ ~HasLine(o)' /\ UNCHANGED <<asset, variant, task>>
       /\ \E v \in Variant : IsVariant(v) /\ line'[o] = [variant |-> v, file |-> asset[v]]

LEMMA LinesMove ==
    ASSUME Typed, [Next]_vars, NEW o \in Order
    PROVE  LineMoves(o) /\ (order[o] = "PAID" => order'[o] = "PAID")
<1>. DEFINE Goal == LineMoves(o) /\ (order[o] = "PAID" => order'[o] = "PAID")
<1>. USE DEF LineMoves, HasLine
<1>. /\ order \in [Order -> {"none", "PENDING_PAYMENT", "PAID", "CANCELLED", "deleted"}]
     /\ line \in [Order -> [variant : Variant \cup {NoVariant}, file : File \cup {NoFile}]]
  BY DEF Typed
<1>1. CASE UNCHANGED <<order, line>>
  BY <1>1
<1>2. ASSUME NEW c \in Clerk, EraseProduct(c)
      PROVE  Goal
  <2>1. /\ UNCHANGED line
        /\ \/ UNCHANGED order
           \/ order' = [q \in Order |-> IF q \in Erased(task[c].on) THEN "deleted" ELSE order[q]]
    BY <1>2 DEF EraseProduct
  <2>2. o \in Erased(task[c].on) => order[o] # "PAID"
    BY DEF Erased, NeverCharged
  <2>. QED  BY <2>1, <2>2
<1>3. ASSUME NEW q \in Order, NEW v \in Variant, FillCart(q, v)
      PROVE  Goal
  BY <1>3 DEF FillCart, IsVariant, variantVars
<1>4. ASSUME NEW q \in Order, PlaceOrder(q)
      PROVE  Goal
  <2>1. CASE IsVariant(line[q].variant)
    BY <1>4, <2>1 DEF PlaceOrder, IsVariant, variantVars
  <2>2. CASE ~IsVariant(line[q].variant)
    BY <1>4, <2>2 DEF PlaceOrder
  <2>. QED  BY <2>1, <2>2
<1>5. ASSUME NEW q \in Order, SessionHandled(q)
      PROVE  Goal
  <2>1. order' = [order EXCEPT ![q] = "PAID"] \/ order' = [order EXCEPT ![q] = "CANCELLED"]
    BY <1>5 DEF SessionHandled
  <2>2. line' = line /\ order[q] = "PENDING_PAYMENT"
    BY <1>5 DEF SessionHandled
  <2>. QED  BY <2>1, <2>2
<1>6. CASE \/ \E c \in Clerk :
                 \/ \E p \in Product : PublishCheck(c, p) \/ CountImages(c, p) \/ DeleteCheck(c, p)
                 \/ \E v \in Variant : UploadCheck(c, v) \/ StripCheck(c, v)
                 \/ Publish(c) \/ AddImage(c) \/ CollectFiles(c) \/ SweepFile(c) \/ StoreFile(c)
                 \/ PointToFile(c) \/ RemoveOld(c) \/ StripFile(c) \/ ClearPath(c) \/ RequestDies(c)
           \/ \E q \in Order : SessionEnds(q)
           \/ \E p \in Product : CreateProduct(p) \/ EditProduct(p) \/ DropImage(p)
           \/ \E v \in Variant : CreateVariant(v) \/ EditVariant(v) \/ DropVariant(v)
           \/ UNCHANGED vars
  <2>1. UNCHANGED <<order, line>>
    BY <1>6 DEF PublishCheck, CountImages, DeleteCheck, UploadCheck, StripCheck, Publish,
       AddImage, CollectFiles, SweepFile, StoreFile, PointToFile, RemoveOld, StripFile, ClearPath,
       RequestDies, SessionEnds,
       CreateProduct, EditProduct, DropImage, CreateVariant, EditVariant, DropVariant,
       orderVars, vars
  <2>. QED  BY <1>1, <2>1
<1>. QED
  BY <1>2, <1>3, <1>4, <1>5, <1>6 DEF Next, Request, Customer

\* A path is never given twice, and only a file that a request has read goes.
BucketMoves ==
    /\ used \subseteq used'
    /\ \A f \in bucket \ bucket' :
          /\ UNCHANGED asset
          /\ \E c \in Clerk :
                /\ f \in Old(task[c]) \cup {NoFile}
                /\ \/ task[c].op \in {"sweep", "replace"}
                   \/ task[c].op = "strip" /\ task'[c] = [op |-> "clear", on |-> task[c].on]

LEMMA FilesMove ==
    ASSUME Typed, [Next]_vars
    PROVE  BucketMoves
<1>. USE DEF BucketMoves
<1>. task \in [Clerk -> Task]
  BY DEF Typed
<1>1. CASE UNCHANGED fileVars
  BY <1>1 DEF fileVars
<1>2. ASSUME NEW c \in Clerk, SweepFile(c) \/ RemoveOld(c)
      PROVE  BucketMoves
  <2>1. UNCHANGED <<asset, used>>
    BY <1>2 DEF SweepFile, RemoveOld, variantVars
  <2>2. ASSUME NEW f \in bucket, f \notin bucket'
        PROVE  f \in Old(task[c]) \cup {NoFile} /\ task[c].op \in {"sweep", "replace"}
    BY <1>2, <2>2 DEF SweepFile, RemoveOld, Old
  <2>. QED  BY <2>1, <2>2
<1>3. ASSUME NEW c \in Clerk, StripFile(c)
      PROVE  BucketMoves
  BY <1>3 DEF StripFile, Goto, Old, variantVars
<1>4. ASSUME NEW c \in Clerk, StoreFile(c)
      PROVE  BucketMoves
  BY <1>4 DEF StoreFile, Stored, fileVars
<1>5. CASE \/ \E c \in Clerk :
                 \/ \E p \in Product : PublishCheck(c, p) \/ CountImages(c, p) \/ DeleteCheck(c, p)
                 \/ \E v \in Variant : UploadCheck(c, v) \/ StripCheck(c, v)
                 \/ Publish(c) \/ AddImage(c) \/ CollectFiles(c) \/ EraseProduct(c)
                 \/ PointToFile(c) \/ ClearPath(c) \/ RequestDies(c)
           \/ \E o \in Order : Customer(o)
           \/ \E p \in Product : CreateProduct(p) \/ EditProduct(p) \/ DropImage(p)
           \/ \E v \in Variant : CreateVariant(v) \/ EditVariant(v) \/ DropVariant(v)
           \/ UNCHANGED vars
  <2>1. UNCHANGED fileVars
    BY <1>5 DEF PublishCheck, CountImages, DeleteCheck, UploadCheck, StripCheck, Publish,
       AddImage, CollectFiles, EraseProduct, PointToFile, ClearPath, RequestDies, Customer,
       FillCart, PlaceOrder, SessionEnds,
       SessionHandled, CreateProduct, EditProduct, DropImage, CreateVariant,
       EditVariant, DropVariant, vars
  <2>. QED  BY <1>1, <2>1
<1>. QED
  BY <1>2, <1>3, <1>4, <1>5 DEF Next, Request

-----------------------------------------------------------------------------
(* The invariant.                                                          *)

\* A request comes to know only the files of rows, and of uploads.
LEMMA OldMoves ==
    ASSUME Typed, FilesAreUsed, [Next]_vars, NEW c \in Clerk
    PROVE  /\ Old(task'[c]) \subseteq Old(task[c]) \cup {asset[v] : v \in Variant}
           /\ New(task'[c]) \subseteq New(task[c]) \cup (used' \ used)
           /\ New(task'[c]) # {} => task'[c].op = "point"
<1>. USE DEF Old, New
<1>1. TaskMoves(c)
  BY TasksMove
<1>. CatalogAssumption /\ task[c] \in Task
  BY CatalogAssumption DEF Typed
<1>. QED
  BY <1>1, TaskShape DEF TaskMoves, Idle, VariantsOf

LEMMA LineFile ==
    ASSUME Typed, [Next]_vars, NEW o \in Order
    PROVE  \/ line'[o].file \in {line[o].file, NoFile}
           \/ \E v \in Variant : line'[o].file = asset[v]
<1>1. LineMoves(o)
  BY LinesMove
<1>2. NoLine.file = NoFile
  BY DEF NoLine
<1>. QED
  <2>1. CASE line'[o] = line[o] \/ line'[o] = NoLine
    BY <1>2, <2>1
  <2>2. ASSUME NEW v \in Variant, line'[o] = [variant |-> v, file |-> asset[v]]
        PROVE  line'[o].file = asset[v]
    BY <2>2
  <2>. QED  BY <1>1, <2>1, <2>2 DEF LineMoves

LEMMA FilesAreUsedStep ==
    ASSUME Typed, FilesAreUsed, [Next]_vars
    PROVE  FilesAreUsed'
<1>. USE DEF FilesAreUsed
<1>1. used \subseteq used'
  BY FilesMove DEF BucketMoves
<1>2. ASSUME NEW v \in Variant
      PROVE  asset'[v] \in used' \cup {NoFile}
  <2>1. asset \in [Variant -> File \cup {NoFile}]
    BY DEF Typed
  <2>. QED  BY <1>1, <2>1, VariantsMove DEF FileMoves, New
<1>3. ASSUME NEW o \in Order
      PROVE  line'[o].file \in used' \cup {NoFile}
  BY <1>1, <1>3, LineFile
<1>4. ASSUME NEW c \in Clerk
      PROVE  Old(task'[c]) \cup New(task'[c]) \subseteq used'
  <2>1. NoFile \notin Old(task'[c])
    <3>1. task'[c] \in Task /\ NoFile \notin File
      BY TypeStep, CatalogAssumption DEF Typed
    <3>. QED  BY <3>1, TaskShape DEF Old
  <2>. QED  BY <1>1, <2>1, OldMoves
<1>. QED
  BY <1>2, <1>3, <1>4

LEMMA OneFileEachStep ==
    ASSUME Typed, OneFileEach, NewIsUnknown, [Next]_vars
    PROVE  OneFileEach'
<1>. USE DEF OneFileEach
<1>. asset \in [Variant -> File \cup {NoFile}]
  BY DEF Typed
<1>1. ASSUME NEW v \in Variant, asset'[v] # NoFile
      PROVE  IsVariant(v)'
  BY <1>1, VariantsMove DEF FileMoves, VariantMoves, IsVariant
<1>2. ASSUME NEW v \in Variant, NEW w \in Variant, asset'[v] = asset'[w], asset'[v] # NoFile
      PROVE  v = w
  <2>1. FileMoves(v) /\ FileMoves(w)
    BY VariantsMove
  <2>2. \A c \in Clerk, x \in Variant : task[c].op = "point" => asset[x] # task[c].new
    BY DEF NewIsUnknown, New
  <2>. QED  BY <1>2, <2>1, <2>2 DEF FileMoves
<1>. QED
  BY <1>1, <1>2

LEMMA NewIsUnknownStep ==
    ASSUME Typed, FilesAreUsed, NewIsUnknown, [Next]_vars
    PROVE  NewIsUnknown'
<1>. SUFFICES ASSUME NEW c \in Clerk, NEW f \in New(task'[c])
              PROVE  /\ f \in bucket'
                     /\ \A v \in Variant : asset'[v] # f
                     /\ \A o \in Order : line'[o].file # f
                     /\ \A d \in Clerk :
                           f \notin Old(task'[d]) /\ (d # c => f \notin New(task'[d]))
  BY DEF NewIsUnknown
<1>. NoFile \notin File /\ bucket \subseteq used /\ used \subseteq File
  BY CatalogAssumption DEF Typed
<1>. asset \in [Variant -> File \cup {NoFile}]
  BY DEF Typed
<1>1. TaskMoves(c) /\ task'[c].op = "point"
  BY TasksMove, OldMoves
<1>2. CASE task'[c] = task[c]
  <2>1. /\ f \in bucket /\ f \in File
        /\ \A v \in Variant : asset[v] # f
        /\ \A o \in Order : line[o].file # f
        /\ \A d \in Clerk : f \notin Old(task[d]) /\ (d # c => f \notin New(task[d]))
    BY <1>2 DEF NewIsUnknown
  <2>2. f \in bucket'
    BY <2>1, FilesMove DEF BucketMoves
  <2>3. ASSUME NEW v \in Variant
        PROVE  asset'[v] # f
    BY <1>1, <2>1, VariantsMove DEF FileMoves, New
  <2>4. ASSUME NEW o \in Order
        PROVE  line'[o].file # f
    BY <2>1, LineFile
  <2>5. ASSUME NEW d \in Clerk
        PROVE  f \notin Old(task'[d]) /\ (d # c => f \notin New(task'[d]))
    BY <2>1, OldMoves
  <2>. QED  BY <2>2, <2>3, <2>4, <2>5
<1>3. CASE task'[c] # task[c]
  <2>1. /\ task[c].op = "store" /\ OnlyMoves(c) /\ UNCHANGED <<asset, line>>
        /\ f \in File \ used /\ bucket' = bucket \cup {f}
        /\ task'[c].old = task[c].old
    BY <1>1, <1>3 DEF TaskMoves, New, Idle
  <2>2. /\ f \in bucket' /\ \A v \in Variant : asset'[v] # f
        /\ \A o \in Order : line'[o].file # f
    BY <2>1 DEF FilesAreUsed
  <2>3. ASSUME NEW d \in Clerk
        PROVE  f \notin Old(task'[d]) /\ (d # c => f \notin New(task'[d]))
    <3>1. CASE d = c
      BY <1>1, <2>1, <3>1 DEF FilesAreUsed, Old
    <3>2. CASE d # c
      BY <2>1, <3>2 DEF FilesAreUsed, OnlyMoves
    <3>. QED  BY <3>1, <3>2
  <2>. QED  BY <2>2, <2>3
<1>. QED
  BY <1>2, <1>3

LEMMA OldIsLeftStep ==
    ASSUME Typed, FilesAreUsed, OneFileEach, NewIsUnknown, OldIsLeft, [Next]_vars
    PROVE  OldIsLeft'
<1>. SUFFICES ASSUME NEW c \in Clerk, NEW f \in Old(task'[c]),
                     NEW v \in Variant, asset'[v] = f
              PROVE  Leaves(task'[c], v)
  BY DEF OldIsLeft, Leaves
<1>. /\ asset \in [Variant -> File \cup {NoFile}] /\ task[c] \in Task
     /\ NoFile \notin File /\ used' \subseteq File
  BY TypeStep, CatalogAssumption DEF Typed
<1>1. f \in File
  BY FilesAreUsedStep DEF FilesAreUsed
<1>2. \A d \in Clerk : task[d].op = "point" =>
          task[d].new \notin Old(task[c]) \cup {asset[w] : w \in Variant}
  BY DEF NewIsUnknown, New
<1>3. asset'[v] = asset[v] /\ asset[v] = f
  BY <1>1, <1>2, VariantsMove, OldMoves DEF FileMoves
<1>4. f \in Old(task[c]) => Leaves(task[c], v)
  BY <1>3 DEF OldIsLeft
<1>5. \A w \in Variant : asset[w] = f => w = v
  BY <1>1, <1>3 DEF OneFileEach
<1>6. TaskMoves(c)
  BY TasksMove
<1>7. CASE task'[c] = task[c]
  BY <1>4, <1>7
<1>8. CASE task[c].op = "collect" /\ task'[c].op = "erase"
  <2>1. \E w \in VariantsOf(task[c].on) : f = asset[w]
    BY <1>6, <1>8 DEF TaskMoves, Old, Idle
  <2>2. ProductOf[v] = task[c].on
    BY <1>5, <2>1 DEF VariantsOf
  <2>3. task'[c].on = task[c].on
    BY <1>6, <1>8 DEF TaskMoves, Idle
  <2>. QED  BY <1>8, <2>2, <2>3 DEF Leaves
<1>9. CASE task[c].op = "erase" /\ task'[c].op = "sweep"
  <2>1. /\ asset' = [w \in Variant |->
                       IF w \in VariantsOf(task[c].on) THEN NoFile ELSE asset[w]]
        /\ task'[c].files = task[c].files
    BY <1>6, <1>9 DEF TaskMoves, Idle
  <2>2. ProductOf[v] = task[c].on /\ IsVariant(v)
    BY <1>1, <1>3, <1>4, <1>9, <2>1 DEF Leaves, Old, OneFileEach
  <2>. QED  BY <1>1, <1>3, <2>1, <2>2 DEF VariantsOf
<1>10. CASE task[c].op = "sweep" /\ task'[c].op = "sweep"
  BY <1>4, <1>6, <1>10 DEF TaskMoves, Old, Leaves, Idle
<1>11. CASE task'[c].op \in {"store", "strip"} /\ task'[c] # task[c]
  BY <1>5, <1>6, <1>11 DEF TaskMoves, Old, Leaves, Idle
<1>12. CASE task[c].op = "store" /\ task'[c].op = "point"
  BY <1>4, <1>6, <1>12 DEF TaskMoves, Old, Leaves, Idle
<1>13. CASE task[c].op = "point" /\ task'[c].op = "replace"
  <2>1. asset' = [asset EXCEPT ![task[c].on] = task[c].new] /\ f = task[c].old /\ f # NoFile
    BY <1>1, <1>6, <1>13 DEF TaskMoves, Old, Idle
  <2>2. v = task[c].on
    BY <1>4, <1>13, <2>1 DEF Old, Leaves
  <2>. QED  BY <1>2, <1>3, <1>13, <2>1, <2>2
<1>. QED
  BY <1>6, <1>7, <1>8, <1>9, <1>10, <1>11, <1>12, <1>13 DEF TaskMoves, Old, Idle

LEMMA LinesHaveVariantsStep ==
    ASSUME Typed, LinesHaveVariants, OneFileEach, [Next]_vars
    PROVE  LinesHaveVariants'
<1>. SUFFICES ASSUME NEW o \in Order
              PROVE  /\ line'[o].variant # NoVariant => variant'[line'[o].variant] # "none"
                     /\ line'[o].file # NoFile => line'[o].variant \in Variant
                     /\ HasLine(o)' => /\ line'[o].variant \in Variant
                                       /\ variant'[line'[o].variant] \in {"on", "off"}
  BY DEF LinesHaveVariants, IsVariant
<1>. /\ NoVariant \notin Variant
     /\ line[o] \in [variant : Variant \cup {NoVariant}, file : File \cup {NoFile}]
     /\ line'[o] \in [variant : Variant \cup {NoVariant}, file : File \cup {NoFile}]
  BY TypeStep, CatalogAssumption DEF Typed
<1>1. LineMoves(o)
  BY LinesMove
<1>2. CASE line'[o] = line[o] /\ (HasLine(o)' /\ ~HasLine(o) =>
             variant'[line[o].variant] \in {"on", "off"} /\ line[o] # NoLine)
  <2>. DEFINE v == line[o].variant
  <2>1. v # NoVariant => v \in Variant /\ variant[v] # "none" /\ VariantMoves(v)
    BY VariantsMove DEF LinesHaveVariants
  <2>2. line[o].file # NoFile => v \in Variant
    BY DEF LinesHaveVariants
  <2>3. line[o] # NoLine => v \in Variant
    BY <2>2 DEF NoLine
  <2>4. HasLine(o) => v \in Variant /\ IsVariant(v)
    BY DEF LinesHaveVariants
  <2>5. HasLine(o)' /\ HasLine(o) => variant'[v] \in {"on", "off"}
    BY <1>2, <2>1, <2>4 DEF VariantMoves, IsVariant
  <2>. QED  BY <1>2, <2>1, <2>2, <2>3, <2>4, <2>5 DEF VariantMoves
<1>3. CASE line'[o] = NoLine /\ ~HasLine(o)'
  BY <1>3 DEF NoLine
<1>4. CASE /\ ~HasLine(o)' /\ UNCHANGED variant
           /\ \E v \in Variant : IsVariant(v) /\ line'[o] = [variant |-> v, file |-> asset[v]]
  BY <1>4 DEF IsVariant
<1>. QED
  BY <1>1, <1>2, <1>3, <1>4 DEF LineMoves

LEMMA LinesHaveTheirFileStep ==
    ASSUME Typed, LinesHaveTheirFile, OneFileEach, NewIsUnknown, [Next]_vars
    PROVE  LinesHaveTheirFile'
<1>. SUFFICES ASSUME NEW o \in Order, line'[o].file # NoFile,
                     NEW v \in Variant, asset'[v] = line'[o].file
              PROVE  v = line'[o].variant
  BY DEF LinesHaveTheirFile
<1>. asset \in [Variant -> File \cup {NoFile}]
  BY DEF Typed
<1>1. CASE line'[o] = line[o]
  <2>1. \A c \in Clerk : task[c].op = "point" => task[c].new # line[o].file
    BY DEF NewIsUnknown, New
  <2>2. asset[v] = line[o].file
    BY <1>1, <2>1, VariantsMove DEF FileMoves
  <2>. QED  BY <1>1, <2>2 DEF LinesHaveTheirFile
<1>2. CASE /\ UNCHANGED asset
           /\ \E w \in Variant : line'[o] = [variant |-> w, file |-> asset[w]]
  BY <1>2 DEF OneFileEach
<1>. QED
  BY <1>1, <1>2, LinesMove DEF LineMoves, NoLine

LEMMA DeletedAreOverStep ==
    ASSUME CatalogInv, [Next]_vars
    PROVE  DeletedAreOver'
<1>. SUFFICES ASSUME NEW c \in Clerk, NEW o \in Order,
                     line'[o].file # NoFile, line'[o].file \in Old(task'[c])
              PROVE  /\ task'[c].op = "erase" => ProductOf[line'[o].variant] = task'[c].on
                     /\ task'[c].op = "sweep" => /\ ~HasLine(o)'
                                                 /\ variant'[line'[o].variant] = "deleted"
  BY DEF DeletedAreOver, HasLine
<1>. USE DEF CatalogInv
<1>. asset \in [Variant -> File \cup {NoFile}]
  BY DEF Typed
<1>. DEFINE v == line[o].variant
<1>1. TaskMoves(c) /\ LineMoves(o)
  BY TasksMove, LinesMove
<1>2. CASE /\ UNCHANGED task
           /\ \E w \in Variant : line'[o] = [variant |-> w, file |-> asset[w]]
  BY <1>2 DEF OldIsLeft, Leaves
<1>3. CASE line'[o] = line[o] /\ (HasLine(o)' /\ ~HasLine(o) =>
             variant'[line[o].variant] \in {"on", "off"})
  <2>1. v \in Variant /\ variant[v] # "none" /\ VariantMoves(v)
    BY <1>3, VariantsMove, CatalogAssumption DEF LinesHaveVariants
  <2>2. ~HasLine(o) /\ variant[v] = "deleted" => ~HasLine(o)' /\ variant'[v] = "deleted"
    BY <1>3, <2>1 DEF VariantMoves
  <2>3. CASE task'[c] = task[c]
    BY <1>3, <2>2, <2>3 DEF DeletedAreOver
  <2>4. CASE task'[c].op = "erase" /\ task'[c] # task[c]
    <3>1. /\ task[c].op = "collect" /\ UNCHANGED <<asset, line>> /\ task'[c].on = task[c].on
          /\ \E w \in VariantsOf(task[c].on) : asset[w] = line[o].file
      BY <1>1, <1>3, <2>4 DEF TaskMoves, Old, Idle
    <3>2. v \in VariantsOf(task[c].on)
      BY <1>3, <3>1 DEF LinesHaveTheirFile, VariantsOf
    <3>. QED  BY <1>3, <2>4, <3>1, <3>2 DEF VariantsOf
  <2>5. CASE task'[c].op = "sweep" /\ task[c].op = "sweep"
    <3>1. line[o].file \in Old(task[c])
      BY <1>1, <1>3, <2>5 DEF TaskMoves, Old, Idle
    <3>. QED  BY <1>3, <2>2, <2>5, <3>1 DEF DeletedAreOver
  <2>6. CASE task'[c].op = "sweep" /\ task[c].op = "erase"
    <3>. DEFINE p == task[c].on
    <3>1. /\ LinesOn(VariantsOf(p)) \subseteq Erased(p)
          /\ order' = [q \in Order |-> IF q \in Erased(p) THEN "deleted" ELSE order[q]]
          /\ variant' = [w \in Variant |-> IF w \in VariantsOf(p) THEN "deleted" ELSE variant[w]]
          /\ line[o].file \in Old(task[c])
      BY <1>1, <1>3, <2>6 DEF TaskMoves, Old, Idle
    <3>2. ProductOf[v] = p
      BY <1>3, <2>6, <3>1 DEF DeletedAreOver
    <3>3. variant'[v] = "deleted"
      <4>1. CASE IsVariant(v)
        BY <2>1, <3>1, <3>2, <4>1 DEF VariantsOf
      <4>2. CASE ~IsVariant(v)
        BY <2>1, <4>2 DEF VariantMoves, IsVariant, Typed
      <4>. QED  BY <4>1, <4>2
    <3>4. HasLine(o) => o \in LinesOn(VariantsOf(p))
      BY <2>1, <3>2 DEF LinesHaveVariants, LinesOn, VariantsOf
    <3>5. ~HasLine(o)'
      BY <3>1, <3>4 DEF HasLine
    <3>. QED  BY <1>3, <2>6, <3>3, <3>5
  <2>7. CASE task'[c].op \notin {"erase", "sweep"}
    BY <2>7
  <2>. QED  BY <1>1, <2>3, <2>4, <2>5, <2>6, <2>7 DEF TaskMoves, Idle
<1>. QED
  BY <1>1, <1>2, <1>3 DEF LineMoves, NoLine

LEMMA CatalogInitially == Init => CatalogInv
<1>. SUFFICES ASSUME Init PROVE CatalogInv
  OBVIOUS
<1>. USE CatalogAssumption DEF Init
<1>1. Typed
  BY TasksAre DEF Typed, NoLine
<1>2. FilesAreUsed /\ NewIsUnknown /\ OldIsLeft /\ DeletedAreOver
  BY DEF FilesAreUsed, NewIsUnknown, OldIsLeft, DeletedAreOver, Old, New, Idle, NoLine
<1>3. OneFileEach /\ LinesHaveVariants /\ LinesHaveTheirFile
  BY DEF OneFileEach, LinesHaveVariants, LinesHaveTheirFile, HasLine, NoLine
<1>. QED
  BY <1>1, <1>2, <1>3 DEF CatalogInv

LEMMA CatalogStep == CatalogInv /\ [Next]_vars => CatalogInv'
  BY TypeStep, FilesAreUsedStep, OneFileEachStep, NewIsUnknownStep, OldIsLeftStep,
     LinesHaveVariantsStep, LinesHaveTheirFileStep, DeletedAreOverStep DEF CatalogInv

\* What the theorems rest on holds in every reachable state.
LEMMA CatalogAlways == Spec => []CatalogInv
  BY CatalogInitially, CatalogStep, PTL DEF Spec

-----------------------------------------------------------------------------
(* What the catalogue promises.                                            *)

\* Every variable keeps to the values that the code can store: the requests of
\* administrators, the columns and the objects in the bucket; and the line of an
\* order that has a row names a variant that has one.
THEOREM CatalogTypes == Spec => []TypeOK
<1>1. CatalogInv => TypeOK
  BY DEF CatalogInv, LinesHaveVariants, Typed, TypeOK, HasLine, IsVariant
<1>. QED
  BY <1>1, CatalogAlways, PTL

\* The sweep of deleteProduct leaves every file that a confirmed order was sold,
\* although it was listed before the transaction, and the order may have come,
\* or been paid, in between (catalog.service.ts:227-247).
THEOREM SweepsSpareSales == Spec => []SweptFilesAreUnsold
<1>1. CatalogInv => SweptFilesAreUnsold
  <2>. SUFFICES ASSUME CatalogInv, NEW c \in Clerk, task[c].op = "sweep",
                       NEW o \in Order, order[o] = "PAID", line[o].file \in task[c].files
                PROVE  FALSE
    BY DEF SweptFilesAreUnsold
  <2>1. line[o].file \in Old(task[c])
    BY DEF Old
  <2>2. line[o].file # NoFile
    BY <2>1, CatalogAssumption DEF CatalogInv, FilesAreUsed, Typed
  <2>3. ~HasLine(o)
    BY <2>1, <2>2 DEF CatalogInv, DeletedAreOver
  <2>. QED  BY <2>3 DEF HasLine
<1>. QED
  BY <1>1, CatalogAlways, PTL

\* No step takes a confirmed sale away, nor the variant that it sold: what
\* deleteProduct and deleteVariant check first, and what the transaction and
\* the foreign key see, leave no order behind (catalog.service.ts:227-230).
THEOREM SalesStay == Spec => SalesAreKept
<1>1. CatalogInv /\ [Next]_vars =>
        [\A o \in Order : order[o] = "PAID" =>
            order'[o] = "PAID" /\ variant'[line[o].variant] \in {"on", "off"}]_vars
  <2>. SUFFICES ASSUME CatalogInv, [Next]_vars, NEW o \in Order, order[o] = "PAID"
                PROVE  order'[o] = "PAID" /\ variant'[line[o].variant] \in {"on", "off"}
    OBVIOUS
  <2>. USE DEF CatalogInv
  <2>1. order'[o] = "PAID" /\ LineMoves(o)
    BY LinesMove
  <2>2. line[o].variant \in Variant /\ IsVariant(line[o].variant)
    BY DEF LinesHaveVariants, HasLine
  <2>3. HasLine(o) /\ HasLine(o)'
    BY <2>1 DEF HasLine
  <2>4. line'[o] = line[o] \/ (~HasLine(o)')
    BY <2>1 DEF LineMoves
  <2>5. VariantMoves(line[o].variant)
    BY <2>2, VariantsMove
  <2>. QED  BY <2>1, <2>2, <2>3, <2>4, <2>5 DEF VariantMoves, IsVariant
<1>. QED
  BY <1>1, CatalogAlways, PTL DEF Spec, SalesAreKept

\* A removal ends with the row that has no file, or is remembered as halted.
LEMMA ClearEnds ==
    ASSUME Typed, [Next]_vars, NEW c \in Clerk, task[c].op = "clear", task'[c] # task[c],
           asset[task[c].on] # NoFile
    PROVE  asset'[task[c].on] = NoFile \/ task[c].on \in halted'
<1>. task \in [Clerk -> Task] /\ asset \in [Variant -> File \cup {NoFile}]
  BY DEF Typed
<1>1. task[c].on \in Variant
  BY TaskShape
<1>2. ASSUME NEW d \in Clerk, NEW t, task' = [task EXCEPT ![d] = t], task[d].op # "clear"
      PROVE  FALSE
  BY <1>2
<1>3. ASSUME NEW d \in Clerk, ClearPath(d) \/ RequestDies(d)
      PROVE  asset'[task[c].on] = NoFile \/ task[c].on \in halted'
  <2>1. d = c
    BY <1>3 DEF ClearPath, RequestDies, Ends, Goto
  <2>2. Ends(c) => task[c].on \in halted'
    BY DEF Ends
  <2>. QED  BY <1>1, <1>3, <2>1, <2>2 DEF ClearPath, RequestDies
<1>4. ASSUME NEW d \in Clerk, NEW p \in Product,
             PublishCheck(d, p) \/ CountImages(d, p) \/ DeleteCheck(d, p)
      PROVE  FALSE
  BY <1>2, <1>4 DEF PublishCheck, CountImages, DeleteCheck, Begin, Idle
<1>5. ASSUME NEW d \in Clerk, NEW v \in Variant, UploadCheck(d, v) \/ StripCheck(d, v)
      PROVE  FALSE
  BY <1>2, <1>5 DEF UploadCheck, StripCheck, Begin, Idle
<1>6. ASSUME NEW d \in Clerk,
             \/ Publish(d) \/ AddImage(d) \/ CollectFiles(d) \/ EraseProduct(d) \/ SweepFile(d)
             \/ StoreFile(d) \/ PointToFile(d) \/ RemoveOld(d) \/ StripFile(d)
      PROVE  FALSE
  <2>1. task[d].op # "clear" /\ \E t : task' = [task EXCEPT ![d] = t]
    BY <1>6 DEF Publish, AddImage, CollectFiles, EraseProduct, SweepFile, StoreFile, PointToFile,
       RemoveOld, StripFile, Goto
  <2>. QED  BY <1>2, <2>1
<1>7. CASE \/ \E o \in Order : Customer(o)
           \/ \E p \in Product : CreateProduct(p) \/ EditProduct(p) \/ DropImage(p)
           \/ \E v \in Variant : CreateVariant(v) \/ EditVariant(v) \/ DropVariant(v)
           \/ UNCHANGED vars
  <2>1. task' = task
    BY <1>7 DEF Customer, FillCart, PlaceOrder, SessionEnds, SessionHandled, CreateProduct,
       EditProduct, DropImage, CreateVariant, EditVariant, DropVariant, vars
  <2>. QED  BY <2>1
<1>. QED
  BY <1>3, <1>4, <1>5, <1>6, <1>7 DEF Next, Request

\* A halted removal is forgotten with the path that it left in the row.
LEMMA HaltedStays ==
    ASSUME Typed, NewIsUnknown, [Next]_vars, NEW v \in halted,
           asset'[v] = asset[v], asset[v] # NoFile
    PROVE  v \in halted'
<1>. v \in Variant /\ asset \in [Variant -> File \cup {NoFile}] /\ task \in [Clerk -> Task]
  BY DEF Typed
<1>1. ASSUME NEW d \in Clerk, EraseProduct(d)
      PROVE  v \in halted'
  BY <1>1 DEF EraseProduct
<1>2. ASSUME NEW d \in Clerk, PointToFile(d)
      PROVE  v \in halted'
  <2>1. task[d].op = "point" => asset[v] # task[d].new
    BY DEF NewIsUnknown, New
  <2>. QED  BY <1>2, <2>1 DEF PointToFile
<1>3. ASSUME NEW d \in Clerk, ClearPath(d) \/ RequestDies(d)
      PROVE  v \in halted'
  BY <1>3 DEF ClearPath, RequestDies, Ends
<1>4. ASSUME NEW w \in Variant, DropVariant(w)
      PROVE  v \in halted'
  BY <1>4 DEF DropVariant
<1>5. CASE \/ \E d \in Clerk :
                 \/ \E p \in Product :
                       PublishCheck(d, p) \/ CountImages(d, p) \/ DeleteCheck(d, p)
                 \/ \E w \in Variant : UploadCheck(d, w) \/ StripCheck(d, w)
                 \/ Publish(d) \/ AddImage(d) \/ CollectFiles(d) \/ SweepFile(d)
                 \/ StoreFile(d) \/ RemoveOld(d) \/ StripFile(d)
           \/ \E o \in Order : Customer(o)
           \/ \E p \in Product : CreateProduct(p) \/ EditProduct(p) \/ DropImage(p)
           \/ \E w \in Variant : CreateVariant(w) \/ EditVariant(w)
           \/ UNCHANGED vars
  BY <1>5 DEF PublishCheck, CountImages, DeleteCheck, UploadCheck, StripCheck, Publish, AddImage,
     CollectFiles, SweepFile, StoreFile, RemoveOld, StripFile, Customer, FillCart, PlaceOrder,
     SessionEnds, SessionHandled, CreateProduct, EditProduct, DropImage, CreateVariant,
     EditVariant, vars
<1>. QED
  BY <1>1, <1>2, <1>3, <1>4, <1>5 DEF Next, Request

\* A variant whose file is gone is the one of a removal that is about to clear
\* it, or of one that broke off before it did: no upload, replacement or deletion
\* at the same time, no call to the bucket that fails and no request that a
\* rejected statement or a crash ends elsewhere leaves a row that points to
\* nothing (catalog.service.ts:245-247, digital-asset.service.ts:83-85).
THEOREM RowsKeepTheirFiles == Spec => []RowsPointToFiles
<1>1. Init => RowsPointToFiles
  BY DEF Init, RowsPointToFiles
<1>2. CatalogInv /\ RowsPointToFiles /\ [Next]_vars => RowsPointToFiles'
  <2>. SUFFICES ASSUME CatalogInv, RowsPointToFiles, [Next]_vars,
                       NEW v \in Variant, asset'[v] # NoFile, asset'[v] \notin bucket'
                PROVE  v \in halted' \/ \E c \in Clerk : task'[c].op = "clear" /\ task'[c].on = v
    BY DEF RowsPointToFiles
  <2>. USE DEF CatalogInv
  <2>. asset \in [Variant -> File \cup {NoFile}]
    BY DEF Typed
  <2>1. asset'[v] = asset[v]
    <3>1. ASSUME NEW c \in Clerk, task[c].op = "point"
          PROVE  task[c].new \in bucket
      BY <3>1 DEF NewIsUnknown, New
    <3>. QED  BY <3>1, VariantsMove DEF FileMoves
  <2>2. CASE asset[v] \in bucket
    <3>1. PICK c \in Clerk :
             /\ asset[v] \in Old(task[c])
             /\ \/ task[c].op \in {"sweep", "replace"}
                \/ task[c].op = "strip" /\ task'[c] = [op |-> "clear", on |-> task[c].on]
      BY <2>1, <2>2, FilesMove DEF BucketMoves
    <3>2. Leaves(task[c], v)
      BY <3>1 DEF OldIsLeft
    <3>. QED  BY <3>1, <3>2 DEF Leaves
  <2>3. CASE asset[v] \notin bucket
    <3>1. ASSUME NEW c \in Clerk, task[c].op = "clear", task[c].on = v
          PROVE  task'[c] = task[c] \/ v \in halted'
      BY <2>1, <3>1, ClearEnds
    <3>2. v \in halted => v \in halted'
      BY <2>1, <2>3, HaltedStays
    <3>. QED  BY <2>1, <2>3, <3>1, <3>2 DEF RowsPointToFiles
  <2>. QED  BY <2>2, <2>3
<1>. QED
  BY <1>1, <1>2, CatalogAlways, PTL DEF Spec
=============================================================================
