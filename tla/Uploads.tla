------------------------------ MODULE Uploads -------------------------------
(***************************************************************************)
(* Files of the public bucket and the rows that point to them: the images  *)
(* of one product and the notes of the wall, some of them drawings.  Each  *)
(* clerk is a request in progress, one step for each statement or call to  *)
(* the bucket that it waits for.  Module Catalog has what is sold.         *)
(***************************************************************************)
EXTENDS Naturals, FiniteSets

CONSTANTS
    Upload,      \* a row and the object it names, by the UUID of its path
    Clerk,
    MaxImages,   \* MAX_IMAGES_PER_PRODUCT
    FaultKinds,  \* "write": a write is rejected; "bucket": a call fails; "crash"
    NoUpload

ASSUME UploadsAssumption ==
    /\ IsFiniteSet(Upload) /\ IsFiniteSet(Clerk) /\ Clerk # {}
    /\ MaxImages \in Nat \ {0}
    /\ FaultKinds \subseteq {"write", "bucket", "crash"}
    /\ NoUpload \notin Upload

VARIABLES
    product,    \* "draft", "active", "deleted"
    images,     \* its rows of product_images
    primary,    \* those with isPrimary
    sortOrder,  \* a column of them, 0 for what is not one
    note,       \* "none" or the status of each note
    drawings,   \* the notes with a storagePath
    bucket,     \* the objects there are
    task,       \* what each clerk is doing, with what it has read
    raced,      \* history: deletions or publications have overlapped
    left,       \* history: objects left behind by a failure or a race
    broken      \* history: notes whose deletion failed after their file was gone

productVars == <<product, images, primary, sortOrder>>
noteVars    == <<note, drawings>>
pastVars    == <<raced, left, broken>>
vars == <<productVars, noteVars, bucket, task, pastVars>>

Idle == [at |-> "idle", item |-> NoUpload, first |-> FALSE, position |-> 0, rows |-> {}]

Notes == {u \in Upload : note[u] # "none"}
Exists == product # "deleted"

\* What a request that is at one of these steps still has to write or delete.
Objects(t) ==
    IF t.at \in {"insert", "insertDrawing", "discard"} THEN {t.item}
    ELSE IF t.at = "sweep" THEN t.rows ELSE {}

\* A new path: nothing names it.
Fresh == Upload \ (images \cup Notes \cup bucket \cup left \cup broken
                   \cup UNION {{task[c].item} \cup task[c].rows : c \in Clerk})

TypeOK ==
    /\ product \in {"draft", "active", "deleted"}
    /\ images \subseteq Upload /\ (product = "deleted" => images = {})
    /\ primary \subseteq images /\ Cardinality(primary) <= 1
    /\ sortOrder \in [Upload -> 0..(MaxImages + Cardinality(Clerk) - 1)]
    /\ \A u \in Upload \ images : sortOrder[u] = 0
    /\ note \in [Upload -> {"none", "PENDING", "APPROVED"}]
    /\ drawings \subseteq Notes
    /\ bucket \cup left \cup broken \subseteq Upload
    /\ task \in [Clerk -> [at : {"idle", "store", "insert", "storeDrawing", "insertDrawing",
                                 "discard", "reorder", "delete", "commit", "publish",
                                 "erase", "sweep", "dropFile", "dropNote"},
                           item : Upload \cup {NoUpload}, first : BOOLEAN,
                           position : 0..MaxImages, rows : SUBSET Upload]]
    /\ raced \in BOOLEAN

Init ==
    /\ product = "draft"
    /\ images = {} /\ primary = {} /\ drawings = {} /\ bucket = {}
    /\ sortOrder = [u \in Upload |-> 0]
    /\ note = [u \in Upload |-> "none"]
    /\ task = [c \in Clerk |-> Idle]
    /\ raced = FALSE /\ left = {} /\ broken = {}

Idles(c) == task[c].at = "idle"
Goto(c, t) == task' = [task EXCEPT ![c] = t]
Begin(c, t) == Idles(c) /\ Goto(c, t)
Finish(c) == Goto(c, Idle)

\* Publications and deletions read the images and act on them later.
BeginRacing(c, t) ==
    /\ Begin(c, t)
    /\ raced' = (raced \/ \E d \in Clerk : task[d].at \in {"delete", "commit", "publish"})

-----------------------------------------------------------------------------
(* Objects.                                                                *)

\* A call that fails may have stored the object: the caller has no path and
\* leaves it there.
StoreFails(c, u) ==
    /\ "bucket" \in FaultKinds
    /\ Finish(c)
    /\ \/ UNCHANGED <<bucket, left>>
       \/ bucket' = bucket \cup {u} /\ left' = left \cup {u}

\* StorageService.uploadImage, with any of the drivers.
Store(c, then) ==
    /\ \/ /\ Goto(c, then)
          /\ bucket' = bucket \cup {then.item}
          /\ UNCHANGED left
       \/ StoreFails(c, then.item)
    /\ UNCHANGED <<productVars, noteVars, raced, broken>>

\* deleteFile, where nothing depends on its answer: an object that is gone is no
\* error, a call that fails may have deleted it, and one that has not leaves it.
DeleteFile(u) ==
    \/ bucket' = bucket \ {u} /\ UNCHANGED left
    \/ "bucket" \in FaultKinds /\ left' = left \cup {u} /\ UNCHANGED bucket

\* A mutant: a failed insertion leaves its object behind.
LeavesIt(t) == Idle

\* What follows a failed insertion, or the commit of a deletion.
Compensation(t) == [Idle EXCEPT !.at = "discard", !.item = t.item]

\* safeDeleteFile: the request goes on without it if that fails.
Discard(c) ==
    /\ task[c].at = "discard"
    /\ DeleteFile(task[c].item)
    /\ Finish(c)
    /\ UNCHANGED <<productVars, noteVars, raced, broken>>

-----------------------------------------------------------------------------
(* Images of the product.                                                  *)

\* A mutant: one image more than the maximum.
RoomForOneMore(n) == n <= MaxImages

HasRoom(n) == n < MaxImages

UploadCheck(c) ==
    LET n == Cardinality(images) IN
    /\ Exists /\ HasRoom(n)
    /\ \E u \in Fresh, asked \in BOOLEAN :
          Begin(c, [Idle EXCEPT !.at = "store", !.item = u, !.position = n,
                                !.first = asked \/ n = 0])
    /\ UNCHANGED <<productVars, noteVars, bucket, pastVars>>

StoreImage(c) ==
    /\ task[c].at = "store"
    /\ Store(c, [task[c] EXCEPT !.at = "insert"])

\* A mutant: the primary image stays so when another one becomes it.
KeepsPrimary(u) == primary \cup {u}

NewPrimary(u) == {u}

\* The transaction of uploadImage: a product that is gone rejects the row.
InsertImage(c) ==
    LET t == task[c] IN
    /\ t.at = "insert"
    /\ Exists
    /\ images' = images \cup {t.item}
    /\ primary' = IF t.first THEN NewPrimary(t.item) ELSE primary
    /\ sortOrder' = [sortOrder EXCEPT ![t.item] = t.position]
    /\ Finish(c)
    /\ UNCHANGED <<product, noteVars, bucket, pastVars>>

InsertFails(c) ==
    /\ \/ task[c].at = "insert" /\ (~Exists \/ "write" \in FaultKinds)
       \/ task[c].at = "insertDrawing" /\ "write" \in FaultKinds
    /\ Goto(c, Compensation(task[c]))
    /\ UNCHANGED <<productVars, noteVars, bucket, pastVars>>

\* updateImage, which reads what no other request changes.
EditImage(c, u) ==
    /\ Idles(c)
    /\ u \in images
    /\ primary' \in {NewPrimary(u), primary \ {u}}
    /\ UNCHANGED <<product, images, sortOrder, noteVars, bucket, task, pastVars>>

ReorderCheck(c) ==
    /\ Exists /\ images # {}
    /\ Begin(c, [Idle EXCEPT !.at = "reorder", !.rows = images])
    /\ UNCHANGED <<productVars, noteVars, bucket, pastVars>>

\* The positions asked for, on the images that were read: none if one is gone.
Reorder(c) ==
    LET R == task[c].rows
        Positions == 0..(Cardinality(R) - 1)
        Orders == {f \in [R -> Positions] : \A u, v \in R : f[u] = f[v] => u = v} IN
    /\ task[c].at = "reorder"
    /\ IF R \subseteq images
       THEN \E f \in Orders :
              sortOrder' = [u \in Upload |-> IF u \in R THEN f[u] ELSE sortOrder[u]]
       ELSE UNCHANGED sortOrder
    /\ Finish(c)
    /\ UNCHANGED <<product, images, primary, noteVars, bucket, pastVars>>

\* deleteImage: the row as read, which says whether it is the primary one.
DeleteCheck(c, u) ==
    /\ u \in images
    /\ BeginRacing(c, [Idle EXCEPT !.at = "delete", !.item = u, !.first = u \in primary])
    /\ UNCHANGED <<productVars, noteVars, bucket, left, broken>>

\* A mutant: the last image of a published product can go.
MayBeEmptied(rest) == TRUE

MayBecome(rest) == product = "active" => rest # {}

\* Its transaction, on what is committed when it looks.
DeleteSees(c) ==
    LET u == task[c].item
        rest == images \ {u}
        \* the first by position, of several any
        next == {v \in rest : \A w \in rest : sortOrder[v] <= sortOrder[w]} IN
    /\ task[c].at = "delete"
    /\ IF u \in images /\ MayBecome(rest)
       THEN IF task[c].first /\ rest # {}
            THEN \E v \in next : Goto(c, [task[c] EXCEPT !.at = "commit", !.rows = {v}])
            ELSE Goto(c, [task[c] EXCEPT !.at = "commit"])
       ELSE Finish(c)
    /\ UNCHANGED <<productVars, noteVars, bucket, pastVars>>

Without(U) == [u \in Upload |-> IF u \in U THEN 0 ELSE sortOrder[u]]

\* A mutant: what was undone has its object deleted all the same.
DiscardsAnyway(t) == Compensation(t)

Undone(t) == Idle

\* The commit, unless a row it needs is gone, or the unique index has another
\* primary image.
DeleteCommits(c) ==
    LET t == task[c]
        others == primary \ {t.item}
        done == t.item \in images /\ t.rows \subseteq images
                /\ (t.rows # {} => others \subseteq t.rows) IN
    /\ t.at = "commit"
    /\ \/ /\ done
          /\ images' = images \ {t.item}
          /\ primary' = others \cup t.rows
          /\ sortOrder' = Without({t.item})
          /\ Goto(c, Compensation(t))
       \/ /\ ~done \/ "write" \in FaultKinds
          /\ Goto(c, Undone(t))
          /\ UNCHANGED <<images, primary, sortOrder>>
    /\ UNCHANGED <<product, noteVars, bucket, pastVars>>

-----------------------------------------------------------------------------
(* The product.                                                            *)

PublishCheck(c) ==
    /\ Exists /\ images # {}
    /\ BeginRacing(c, [Idle EXCEPT !.at = "publish"])
    /\ UNCHANGED <<productVars, noteVars, bucket, left, broken>>

Publish(c) ==
    /\ task[c].at = "publish"
    /\ product' = IF Exists THEN "active" ELSE product
    /\ Finish(c)
    /\ UNCHANGED <<images, primary, sortOrder, noteVars, bucket, pastVars>>

Unpublish(c) ==
    /\ Idles(c)
    /\ product = "active" /\ product' = "draft"
    /\ UNCHANGED <<images, primary, sortOrder, noteVars, bucket, task, pastVars>>

\* deleteProduct, of one that was never sold: the paths it reads.
Collect(c) ==
    /\ Exists
    /\ Begin(c, [Idle EXCEPT !.at = "erase", !.rows = images])
    /\ UNCHANGED <<productVars, noteVars, bucket, pastVars>>

\* The cascade: images added since then lose their rows and keep their objects.
EraseProduct(c) ==
    /\ task[c].at = "erase"
    /\ \/ /\ Exists
          /\ product' = "deleted" /\ images' = {} /\ primary' = {}
          /\ sortOrder' = Without(images)
          /\ left' = left \cup (images \ task[c].rows)
          /\ Goto(c, [task[c] EXCEPT !.at = "sweep"])
       \/ /\ ~Exists \/ "write" \in FaultKinds
          /\ Finish(c)
          /\ UNCHANGED <<productVars, left>>
    /\ UNCHANGED <<noteVars, bucket, raced, broken>>

\* borrarEnSilencio, one file after the other.
Sweep(c) ==
    /\ task[c].at = "sweep"
    /\ \/ \E u \in task[c].rows :
             /\ Goto(c, [task[c] EXCEPT !.rows = @ \ {u}])
             /\ DeleteFile(u)
       \/ task[c].rows = {} /\ Finish(c) /\ UNCHANGED <<bucket, left>>
    /\ UNCHANGED <<productVars, noteVars, raced, broken>>

-----------------------------------------------------------------------------
(* Notes of the wall.                                                      *)

CreateTextNote(c) ==
    /\ Idles(c)
    /\ \E u \in Fresh : note' = [note EXCEPT ![u] = "PENDING"]
    /\ UNCHANGED <<productVars, drawings, bucket, task, pastVars>>

BeginDrawing(c) ==
    /\ \E u \in Fresh : Begin(c, [Idle EXCEPT !.at = "storeDrawing", !.item = u])
    /\ UNCHANGED <<productVars, noteVars, bucket, pastVars>>

StoreDrawing(c) ==
    /\ task[c].at = "storeDrawing"
    /\ Store(c, [task[c] EXCEPT !.at = "insertDrawing"])

InsertDrawing(c) ==
    LET u == task[c].item IN
    /\ task[c].at = "insertDrawing"
    /\ note' = [note EXCEPT ![u] = "PENDING"]
    /\ drawings' = drawings \cup {u}
    /\ Finish(c)
    /\ UNCHANGED <<productVars, bucket, pastVars>>

\* approveNote and rejectNote, an update by id.
Moderate(c, u) ==
    /\ Idles(c)
    /\ u \in Notes
    /\ \E s \in {"APPROVED", "PENDING"} : note' = [note EXCEPT ![u] = s]
    /\ UNCHANGED <<productVars, drawings, bucket, task, pastVars>>

\* deleteNote: the file first, if there is one.
DropCheck(c, u) ==
    /\ u \in Notes
    /\ Begin(c, [Idle EXCEPT !.at = IF u \in drawings THEN "dropFile" ELSE "dropNote",
                             !.item = u])
    /\ UNCHANGED <<productVars, noteVars, bucket, pastVars>>

\* The request ends here if the call fails, and the note stays: with its file, or
\* without it when the bucket had already deleted it.
DropFile(c) ==
    LET u == task[c].item IN
    /\ task[c].at = "dropFile"
    /\ \/ /\ bucket' = bucket \ {u}
          /\ Goto(c, [task[c] EXCEPT !.at = "dropNote"])
          /\ UNCHANGED broken
       \/ /\ "bucket" \in FaultKinds
          /\ Finish(c)
          /\ \/ UNCHANGED <<bucket, broken>>
             \/ bucket' = bucket \ {u} /\ broken' = broken \cup ({u} \cap drawings)
    /\ UNCHANGED <<productVars, noteVars, raced, left>>

\* deleteNoteById, which finds nothing the second time.
DropNote(c) ==
    LET u == task[c].item IN
    /\ task[c].at = "dropNote"
    /\ \/ /\ note' = [note EXCEPT ![u] = "none"]
          /\ drawings' = drawings \ {u}
          /\ broken' = broken \ {u}
       \/ /\ "write" \in FaultKinds
          /\ broken' = broken \cup ({u} \cap drawings)
          /\ UNCHANGED noteVars
    /\ Finish(c)
    /\ UNCHANGED <<productVars, bucket, raced, left>>

\* A restart of the process, for each request it cuts short.
Crash(c) ==
    /\ "crash" \in FaultKinds
    /\ left' = left \cup Objects(task[c])
    /\ broken' = broken \cup (IF task[c].at = "dropNote" THEN {task[c].item} \cap drawings ELSE {})
    /\ ~Idles(c) /\ Finish(c)
    /\ UNCHANGED <<productVars, noteVars, bucket, raced>>

Work(c) ==
    \/ UploadCheck(c) \/ StoreImage(c) \/ InsertImage(c) \/ InsertFails(c) \/ Discard(c)
    \/ \E u \in Upload : EditImage(c, u) \/ DeleteCheck(c, u) \/ Moderate(c, u) \/ DropCheck(c, u)
    \/ ReorderCheck(c) \/ Reorder(c) \/ DeleteSees(c) \/ DeleteCommits(c)
    \/ PublishCheck(c) \/ Publish(c) \/ Unpublish(c)
    \/ Collect(c) \/ EraseProduct(c) \/ Sweep(c)
    \/ CreateTextNote(c) \/ BeginDrawing(c) \/ StoreDrawing(c) \/ InsertDrawing(c)
    \/ DropFile(c) \/ DropNote(c) \/ Crash(c)

Next == \E c \in Clerk : Work(c)

Spec == Init /\ [][Next]_vars

-----------------------------------------------------------------------------
(* Properties.                                                             *)

\* Concurrent uploads pass the maximum, which each compares with a count of
\* before its upload, by at most one each (product-images.service.ts:46-54).
ImagesWithinReach == Cardinality(images) <= MaxImages + Cardinality(Clerk) - 1

\* No row points to nothing: an image never, a drawing only while its note is
\* being deleted or after a failure then (catalog.service.ts:245-247).
RowsHaveObjects ==
    /\ images \subseteq bucket
    /\ \A u \in drawings \ (bucket \cup broken) :
          \E c \in Clerk : task[c].at = "dropNote" /\ task[c].item = u

\* An object that no row points to is in the hands of a request, or one of
\* those left behind: by a failed call, a crash, or an image uploaded while its
\* product was deleted (product-images.service.ts:88-90, notes.service.ts:99-102).
OrphansAreAccountedFor ==
    bucket \subseteq images \cup drawings \cup left
                     \cup UNION {Objects(task[c]) : c \in Clerk}

\* Only publications and deletions of images that overlap leave a published
\* product without any; uploads, edits, reorders and crashes do not
\* (product-images.service.ts:174-189).
PublishedShowsAnImage == product = "active" /\ ~raced => images # {}

\* Does not hold, and no run checks it: a published product always has an image
\* (product-images.service.ts:174-175). Two deletions may each count the image
\* of the other.
PublishedNeverEmpty == product = "active" => images # {}

\* Does not hold, and no run checks it: its images have different positions.
\* Two uploads at once take the same one.
PositionsDiffer ==
    \A u, v \in images : sortOrder[u] = sortOrder[v] => u = v
=============================================================================
