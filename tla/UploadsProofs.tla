---------------------------- MODULE UploadsProofs ----------------------------
(***************************************************************************)
(* The files of the public bucket against the rows that point to them, for *)
(* any uploads, any number of requests at a time and any maximum of images.*)
(***************************************************************************)
EXTENDS Uploads, FiniteSetTheorems, TLAPS

\* The tasks of the clerks, as TypeOK has them.
Steps == {"idle", "store", "insert", "storeDrawing", "insertDrawing", "discard", "reorder",
          "delete", "commit", "publish", "erase", "sweep", "dropFile", "dropNote"}
Tasks == [at : Steps, item : Upload \cup {NoUpload}, first : BOOLEAN,
          position : 0..MaxImages, rows : SUBSET Upload]

\* The uploads between the count of the images and the row of the new one.
Uploading == {c \in Clerk : task[c].at \in {"store", "insert"}}

Brings(t) == t.at \in {"store", "insert", "storeDrawing", "insertDrawing"}

\* The last upload that counted the images found room for one.
ReachOfUploads ==
    Cardinality(images) + Cardinality(Uploading) <= MaxImages + Cardinality(Clerk) - 1

ImagesAreNotNotes == images \cap Notes = {}

\* What a request brings is its own, and in the bucket once it is stored.
BroughtIsNew ==
    \A c \in Clerk : Brings(task[c]) =>
        /\ task[c].item \in Upload \ (images \cup Notes)
        /\ task[c].at \in {"insert", "insertDrawing"} => task[c].item \in bucket
        /\ \A d \in Clerk \ {c} : task[c].item \notin {task[d].item} \cup task[d].rows

\* A request that deletes has what it read; where it deletes objects, no row
\* has them any more, or it is the row of the note that goes next.
DeletionsKnow ==
    \A c \in Clerk : LET t == task[c] IN
        /\ t.at \in {"delete", "commit"} => t.item \in Upload \ Notes
        /\ t.at = "delete" => t.rows = {}
        /\ t.at = "commit" => t.rows = {} \/ \E v \in Upload : v # t.item /\ t.rows = {v}
        /\ t.at = "discard" => t.item \in Upload \ (images \cup Notes)
        /\ t.at \in {"erase", "sweep"} => t.rows \cap Notes = {}
        /\ t.at = "sweep" => product = "deleted"
        /\ t.at \in {"dropFile", "dropNote"} => t.item \in Upload \ images
        /\ t.at = "dropNote" => t.item \notin bucket \cap drawings

Racing(t) == t.at \in {"delete", "commit", "publish"}

\* Without a race, what a publication or a deletion saw is still so.
LoneSeesTrue ==
    ~raced => \A c \in Clerk :
        /\ Racing(task[c]) => \A d \in Clerk \ {c} : ~Racing(task[d])
        /\ task[c].at = "publish" /\ Exists => images # {}
        /\ task[c].at = "commit" /\ product = "active" => images \ {task[c].item} # {}

UploadsInv ==
    /\ TypeOK
    /\ ReachOfUploads
    /\ ImagesAreNotNotes
    /\ BroughtIsNew
    /\ DeletionsKnow
    /\ RowsHaveObjects
    /\ OrphansAreAccountedFor
    /\ LoneSeesTrue
    /\ PublishedShowsAnImage

-----------------------------------------------------------------------------
(* What a step does to the task of its clerk.                              *)

\* A task that is at this step, with this row or object and these rows.
Is(t, at, item, rows) == t \in Tasks /\ t.at = at /\ t.item = item /\ t.rows = rows

LEMMA IdleIs == Is(Idle, "idle", NoUpload, {})
  BY UploadsAssumption DEF Is, Idle, Tasks, Steps

LEMMA TaskForms ==
    ASSUME NEW t \in Tasks
    PROVE  /\ \A at \in Steps : Is([t EXCEPT !.at = at], at, t.item, t.rows)
           /\ \A at \in Steps, item \in Upload \cup {NoUpload} :
                 Is([t EXCEPT !.at = at, !.item = item], at, item, t.rows)
           /\ \A at \in Steps, item \in Upload \cup {NoUpload}, first \in BOOLEAN :
                 Is([t EXCEPT !.at = at, !.item = item, !.first = first], at, item, t.rows)
           /\ \A at \in Steps, item \in Upload \cup {NoUpload}, first \in BOOLEAN,
                 n \in 0..MaxImages :
                 Is([t EXCEPT !.at = at, !.item = item, !.position = n, !.first = first],
                    at, item, t.rows)
           /\ \A at \in Steps, rows \in SUBSET Upload :
                 Is([t EXCEPT !.at = at, !.rows = rows], at, t.item, rows)
           /\ \A rows \in SUBSET Upload : Is([t EXCEPT !.rows = rows], t.at, t.item, rows)
<1>. USE DEF Is, Tasks
<1>1. \A at \in Steps : Is([t EXCEPT !.at = at], at, t.item, t.rows)
  OBVIOUS
<1>2. \A at \in Steps, item \in Upload \cup {NoUpload} :
         Is([t EXCEPT !.at = at, !.item = item], at, item, t.rows)
  OBVIOUS
<1>3. \A at \in Steps, item \in Upload \cup {NoUpload}, first \in BOOLEAN :
         Is([t EXCEPT !.at = at, !.item = item, !.first = first], at, item, t.rows)
  OBVIOUS
<1>4. ASSUME NEW at \in Steps, NEW item \in Upload \cup {NoUpload},
             NEW first \in BOOLEAN, NEW n \in 0..MaxImages
      PROVE  Is([t EXCEPT !.at = at, !.item = item, !.position = n, !.first = first],
                at, item, t.rows)
  OBVIOUS
<1>5. \A at \in Steps, rows \in SUBSET Upload :
         Is([t EXCEPT !.at = at, !.rows = rows], at, t.item, rows)
  OBVIOUS
<1>6. \A rows \in SUBSET Upload : Is([t EXCEPT !.rows = rows], t.at, t.item, rows)
  OBVIOUS
<1>. HIDE DEF Is, Tasks
<1>. QED
  BY <1>1, <1>2, <1>3, <1>4, <1>5, <1>6

OnlyMoves(c) == \A d \in Clerk : d # c => task'[d] = task[d]

\* A new path is not known to anybody.
LEMMA FreshIsNew ==
    ASSUME NEW u \in Fresh
    PROVE  /\ u \in Upload \ (images \cup Notes \cup bucket \cup left \cup broken)
           /\ \A c \in Clerk : u # task[c].item /\ u \notin task[c].rows
  BY DEF Fresh

NobodyRaces == \A c \in Clerk : ~Racing(task[c])

LEMMA RacesAreSeen ==
    ASSUME NEW c, NEW t, BeginRacing(c, t)
    PROVE  raced' \/ NobodyRaces
<1>1. CASE \E d \in Clerk : task[d].at \in {"delete", "commit", "publish"}
  BY <1>1 DEF BeginRacing
<1>2. CASE ~ \E d \in Clerk : task[d].at \in {"delete", "commit", "publish"}
  BY <1>2 DEF NobodyRaces, Racing
<1>. QED  BY <1>1, <1>2

\* The clerk ends its request, or goes on with what it has read.
TaskMoves(c) == LET t == task[c]  n == task'[c] IN
    \/ n = t
    \/ n = Idle
    \/ /\ t.at = "idle" /\ n.at \in {"store", "storeDrawing"}
       /\ n.item \in Fresh /\ n.rows = {}
       /\ UNCHANGED <<bucket, left, images>>
       /\ n.at = "store" => HasRoom(Cardinality(images))
    \/ /\ \/ t.at = "store" /\ n.at = "insert"
          \/ t.at = "storeDrawing" /\ n.at = "insertDrawing"
       /\ n.item = t.item /\ n.rows = t.rows
       /\ bucket' = bucket \cup {t.item}
    \/ /\ t.at \in {"insert", "insertDrawing"} /\ n.at = "discard"
       /\ n.item = t.item /\ n.rows = {}
    \/ n.at = "reorder" /\ n.item = NoUpload /\ n.rows = images
    \/ /\ n.at = "delete" /\ n.item \in images /\ n.rows = {}
       /\ raced' \/ NobodyRaces
    \/ /\ t.at = "delete" /\ n.at = "commit"
       /\ n.item = t.item
       /\ n.rows = t.rows \/ \E v \in images \ {t.item} : n.rows = {v}
       /\ product = "active" => images \ {t.item} # {}
       /\ UNCHANGED <<images, product>>
    \/ /\ t.at = "commit" /\ n.at = "discard"
       /\ n.item = t.item /\ n.rows = {}
       /\ images' = images \ {t.item}
    \/ /\ n.at = "publish" /\ n.item = NoUpload /\ n.rows = {}
       /\ images # {} /\ UNCHANGED images
       /\ raced' \/ NobodyRaces
    \/ n.at = "erase" /\ n.item = NoUpload /\ n.rows = images
    \/ /\ t.at = "erase" /\ n.at = "sweep"
       /\ n.item = t.item /\ n.rows = t.rows /\ product' = "deleted"
    \/ /\ t.at = "sweep" /\ n.at = "sweep"
       /\ n.item = t.item /\ n.rows \subseteq t.rows
    \/ /\ n.at \in {"dropFile", "dropNote"} /\ n.item \in Notes /\ n.rows = {}
       /\ n.at = "dropNote" => n.item \notin drawings
       /\ UNCHANGED drawings
    \/ /\ t.at = "dropFile" /\ n.at = "dropNote"
       /\ n.item = t.item /\ n.rows = t.rows
       /\ bucket' = bucket \ {t.item}

LEMMA TasksMove ==
    ASSUME TypeOK, NEW c \in Clerk, Work(c)
    PROVE  OnlyMoves(c) /\ TaskMoves(c) /\ task' \in [Clerk -> Tasks]
<1>. DEFINE Goal == OnlyMoves(c) /\ TaskMoves(c) /\ task' \in [Clerk -> Tasks]
<1>. DEFINE t == task[c]
<1>. task \in [Clerk -> Tasks] /\ t \in Tasks /\ Idle \in Tasks
  BY IdleIs DEF TypeOK, Tasks, Steps, Is
<1>0. /\ t.at \in Steps /\ t.item \in Upload \cup {NoUpload} /\ t.rows \in SUBSET Upload
      /\ images \in SUBSET Upload /\ Idle.item = NoUpload /\ Idle.rows = {}
  BY IdleIs DEF Tasks, TypeOK, Is
<1>. HIDE DEF t
<1>1. ASSUME task' = task
      PROVE  Goal
  BY <1>1 DEF OnlyMoves, TaskMoves, t
<1>2. ASSUME Finish(c)
      PROVE  Goal
  BY <1>2 DEF Finish, Goto, OnlyMoves, TaskMoves
<1>3. ASSUME NEW m, NEW at, NEW item, NEW rows, Goto(c, m), Is(m, at, item, rows)
      PROVE  /\ OnlyMoves(c) /\ task' \in [Clerk -> Tasks]
             /\ task'[c].at = at /\ task'[c].item = item /\ task'[c].rows = rows
  BY <1>3 DEF Goto, OnlyMoves, Is
<1>4. CASE UploadCheck(c)
  <2>. DEFINE n == Cardinality(images)
  <2>1. n \in 0..MaxImages
    BY <1>4, FS_Subset, FS_CardinalityType, UploadsAssumption DEF UploadCheck, HasRoom, TypeOK
  <2>. HIDE DEF n
  <2>2. PICK u \in Fresh, asked \in BOOLEAN :
           /\ t.at = "idle" /\ UNCHANGED <<bucket, left, images>> /\ HasRoom(n)
           /\ Goto(c, [Idle EXCEPT !.at = "store", !.item = u, !.position = n,
                                   !.first = asked \/ n = 0])
    BY <1>4 DEF UploadCheck, Begin, Idles, pastVars, productVars, n, t
  <2>. DEFINE first == asked \/ n = 0
              m == [Idle EXCEPT !.at = "store", !.item = u, !.position = n, !.first = first]
  <2>3. first \in BOOLEAN
    OBVIOUS
  <2>4. Is(m, "store", u, {})
    <3>. HIDE DEF first
    <3>1. "store" \in Steps /\ u \in Upload
      BY FreshIsNew DEF Steps
    <3>2. Is(m, "store", u, Idle.rows)
      BY <2>1, <2>3, <3>1, TaskForms
    <3>. QED  BY <1>0, <3>2
  <2>5. Goto(c, m)
    BY <2>2
  <2>. HIDE DEF m
  <2>. QED  BY <1>3, <2>2, <2>4, <2>5 DEF TaskMoves, t, n
<1>5. CASE StoreImage(c) \/ StoreDrawing(c)
  <2>1. CASE Finish(c)
    BY <1>2, <2>1
  <2>2. CASE ~Finish(c)
    <3>1. PICK a \in {"insert", "insertDrawing"} :
             /\ \/ t.at = "store" /\ a = "insert"
                \/ t.at = "storeDrawing" /\ a = "insertDrawing"
             /\ Goto(c, [t EXCEPT !.at = a]) /\ bucket' = bucket \cup {[t EXCEPT !.at = a].item}
      BY <1>5, <2>2 DEF StoreImage, StoreDrawing, Store, StoreFails, t
    <3>2. Is([t EXCEPT !.at = a], a, t.item, t.rows)
      BY <1>0, TaskForms DEF Steps
    <3>. QED  BY <1>3, <3>1, <3>2 DEF TaskMoves, Is, t
  <2>. QED  BY <2>1, <2>2
<1>6. ASSUME NEW item \in Upload \cup {NoUpload}
      PROVE  /\ \A at \in Steps : Is([Idle EXCEPT !.at = at, !.item = item], at, item, {})
             /\ \A at \in Steps, first \in BOOLEAN :
                   Is([Idle EXCEPT !.at = at, !.item = item, !.first = first], at, item, {})
             /\ \A at \in Steps, rows \in SUBSET Upload :
                   Is([Idle EXCEPT !.at = at, !.rows = rows], at, NoUpload, rows)
             /\ \A at \in Steps : Is([Idle EXCEPT !.at = at], at, NoUpload, {})
             /\ \A at \in Steps : Is([t EXCEPT !.at = at], at, t.item, t.rows)
  <2>1. \A at \in Steps : Is([t EXCEPT !.at = at], at, t.item, t.rows)
    BY TaskForms
  <2>2. \A at \in Steps : Is([Idle EXCEPT !.at = at, !.item = item], at, item, Idle.rows)
    BY TaskForms
  <2>3. \A at \in Steps, first \in BOOLEAN :
            Is([Idle EXCEPT !.at = at, !.item = item, !.first = first], at, item, Idle.rows)
    BY TaskForms
  <2>4. \A at \in Steps, rows \in SUBSET Upload :
            Is([Idle EXCEPT !.at = at, !.rows = rows], at, Idle.item, rows)
    BY TaskForms
  <2>5. \A at \in Steps : Is([Idle EXCEPT !.at = at], at, Idle.item, Idle.rows)
    BY TaskForms
  <2>. QED  BY <1>0, <2>1, <2>2, <2>3, <2>4, <2>5
<1>7. ASSUME InsertFails(c) \/ (DeleteCommits(c) /\ ~Finish(c))
      PROVE  Goal
  <2>1. /\ \/ t.at \in {"insert", "insertDrawing"}
           \/ t.at = "commit" /\ images' = images \ {t.item}
        /\ Goto(c, [Idle EXCEPT !.at = "discard", !.item = t.item])
    BY <1>7 DEF InsertFails, DeleteCommits, Compensation, Undone, Finish, t
  <2>2. Is([Idle EXCEPT !.at = "discard", !.item = t.item], "discard", t.item, {})
    BY <1>0, <1>6 DEF Steps
  <2>. QED  BY <1>3, <2>1, <2>2 DEF TaskMoves, t
<1>8. CASE ReorderCheck(c)
  <2>1. Goto(c, [Idle EXCEPT !.at = "reorder", !.rows = images])
    BY <1>8 DEF ReorderCheck, Begin
  <2>2. Is([Idle EXCEPT !.at = "reorder", !.rows = images], "reorder", NoUpload, images)
    BY <1>0, <1>6 DEF Steps
  <2>. QED  BY <1>3, <2>1, <2>2 DEF TaskMoves
<1>9. CASE \E u \in Upload : DeleteCheck(c, u)
  <2>1. PICK u \in images : Goto(c, [Idle EXCEPT !.at = "delete", !.item = u,
                                                 !.first = u \in primary])
    BY <1>9 DEF DeleteCheck, BeginRacing, Begin
  <2>. DEFINE first == u \in primary
              m == [Idle EXCEPT !.at = "delete", !.item = u, !.first = first]
  <2>2. first \in BOOLEAN
    OBVIOUS
  <2>3. Is(m, "delete", u, {})
    <3>. HIDE DEF first
    <3>. QED  BY <1>0, <1>6, <2>2 DEF Steps
  <2>4. Goto(c, m)
    BY <2>1
  <2>5. raced' \/ NobodyRaces
    BY <1>9, RacesAreSeen DEF DeleteCheck
  <2>. HIDE DEF m
  <2>. QED  BY <1>3, <2>3, <2>4, <2>5 DEF TaskMoves
<1>10. CASE DeleteSees(c)
  <2>. DEFINE rest == images \ {t.item}
  <2>1. CASE Finish(c)
    BY <1>2, <2>1
  <2>2. CASE ~Finish(c)
    <3>1. /\ t.at = "delete" /\ MayBecome(rest) /\ UNCHANGED <<images, product>>
          /\ \/ \E v \in rest : Goto(c, [t EXCEPT !.at = "commit", !.rows = {v}])
             \/ Goto(c, [t EXCEPT !.at = "commit"])
      BY <1>10, <2>2 DEF DeleteSees, productVars, t
    <3>2. CASE Goto(c, [t EXCEPT !.at = "commit"])
      <4>1. Is([t EXCEPT !.at = "commit"], "commit", t.item, t.rows)
        BY <1>0, <1>6 DEF Steps
      <4>. QED  BY <1>3, <3>1, <3>2, <4>1 DEF TaskMoves, MayBecome, t
    <3>3. ASSUME NEW v \in rest, Goto(c, [t EXCEPT !.at = "commit", !.rows = {v}])
          PROVE  Goal
      <4>1. {v} \in SUBSET Upload
        BY <1>0
      <4>2. Is([t EXCEPT !.at = "commit", !.rows = {v}], "commit", t.item, {v})
        BY <1>0, <4>1, TaskForms DEF Steps
      <4>. QED  BY <1>3, <3>1, <3>3, <4>2 DEF TaskMoves, MayBecome, t
    <3>. QED  BY <3>1, <3>2, <3>3
  <2>. QED  BY <2>1, <2>2
<1>11. CASE DeleteCommits(c)
  BY <1>2, <1>7, <1>11
<1>12. CASE PublishCheck(c)
  <2>1. /\ Goto(c, [Idle EXCEPT !.at = "publish"])
        /\ images # {} /\ UNCHANGED images
    BY <1>12 DEF PublishCheck, BeginRacing, Begin, productVars
  <2>2. Is([Idle EXCEPT !.at = "publish"], "publish", NoUpload, {})
    BY <1>6 DEF Steps
  <2>3. raced' \/ NobodyRaces
    BY <1>12, RacesAreSeen DEF PublishCheck
  <2>. QED  BY <1>3, <2>1, <2>2, <2>3 DEF TaskMoves
<1>13. CASE Collect(c)
  <2>1. Goto(c, [Idle EXCEPT !.at = "erase", !.rows = images])
    BY <1>13 DEF Collect, Begin
  <2>2. Is([Idle EXCEPT !.at = "erase", !.rows = images], "erase", NoUpload, images)
    BY <1>0, <1>6 DEF Steps
  <2>. QED  BY <1>3, <2>1, <2>2 DEF TaskMoves
<1>14. CASE EraseProduct(c)
  <2>1. CASE Finish(c)
    BY <1>2, <2>1
  <2>2. CASE ~Finish(c)
    <3>1. t.at = "erase" /\ product' = "deleted" /\ Goto(c, [t EXCEPT !.at = "sweep"])
      BY <1>14, <2>2 DEF EraseProduct, t
    <3>2. Is([t EXCEPT !.at = "sweep"], "sweep", t.item, t.rows)
      BY <1>6 DEF Steps
    <3>. QED  BY <1>3, <3>1, <3>2 DEF TaskMoves, t
  <2>. QED  BY <2>1, <2>2
<1>15. CASE Sweep(c)
  <2>1. CASE Finish(c)
    BY <1>2, <2>1
  <2>2. CASE ~Finish(c)
    <3>1. PICK u \in t.rows : t.at = "sweep" /\ Goto(c, [t EXCEPT !.rows = t.rows \ {u}])
      BY <1>15, <2>2 DEF Sweep, t
    <3>. DEFINE rows == t.rows \ {u}
                m == [t EXCEPT !.rows = rows]
    <3>2. rows \in SUBSET Upload
      BY <1>0
    <3>3. Is(m, t.at, t.item, rows)
      <4>. HIDE DEF rows
      <4>. QED  BY <1>0, <3>2, TaskForms
    <3>4. Goto(c, m)
      BY <3>1
    <3>. HIDE DEF m
    <3>. QED  BY <1>3, <3>1, <3>3, <3>4 DEF TaskMoves, t
  <2>. QED  BY <2>1, <2>2
<1>16. CASE BeginDrawing(c)
  <2>1. PICK u \in Fresh :
           /\ t.at = "idle" /\ UNCHANGED <<bucket, left, images>>
           /\ Goto(c, [Idle EXCEPT !.at = "storeDrawing", !.item = u])
    BY <1>16 DEF BeginDrawing, Begin, Idles, pastVars, productVars, t
  <2>2. Is([Idle EXCEPT !.at = "storeDrawing", !.item = u], "storeDrawing", u, {})
    BY <1>6, FreshIsNew DEF Steps
  <2>. QED  BY <1>3, <2>1, <2>2 DEF TaskMoves, t
<1>17. CASE \E u \in Upload : DropCheck(c, u)
  <2>1. PICK u \in Notes, a \in {"dropFile", "dropNote"} :
           /\ a = "dropNote" => u \notin drawings
           /\ Goto(c, [Idle EXCEPT !.at = a, !.item = u])
           /\ UNCHANGED drawings
    <3>1. PICK u \in Upload : DropCheck(c, u)
      BY <1>17
    <3>. DEFINE a == IF u \in drawings THEN "dropFile" ELSE "dropNote"
    <3>2. /\ u \in Notes /\ Goto(c, [Idle EXCEPT !.at = a, !.item = u])
          /\ a \in {"dropFile", "dropNote"} /\ (a = "dropNote" => u \notin drawings)
          /\ UNCHANGED drawings
      BY <3>1 DEF DropCheck, Begin, noteVars
    <3>. HIDE DEF a
    <3>. QED  BY <3>2
  <2>2. Is([Idle EXCEPT !.at = a, !.item = u], a, u, {})
    BY <1>6 DEF Steps, Notes
  <2>. QED  BY <1>3, <2>1, <2>2 DEF TaskMoves
<1>18. CASE DropFile(c)
  <2>1. CASE Finish(c)
    BY <1>2, <2>1
  <2>2. CASE ~Finish(c)
    <3>1. /\ t.at = "dropFile" /\ bucket' = bucket \ {t.item}
          /\ Goto(c, [t EXCEPT !.at = "dropNote"])
      BY <1>18, <2>2 DEF DropFile, t
    <3>2. Is([t EXCEPT !.at = "dropNote"], "dropNote", t.item, t.rows)
      BY <1>6 DEF Steps
    <3>. QED  BY <1>3, <3>1, <3>2 DEF TaskMoves, t
  <2>. QED  BY <2>1, <2>2
<1>19. CASE \/ InsertImage(c) \/ Discard(c) \/ Reorder(c) \/ Publish(c) \/ InsertDrawing(c)
            \/ DropNote(c) \/ Crash(c)
  BY <1>2, <1>19 DEF InsertImage, Discard, Reorder, Publish, InsertDrawing, DropNote, Crash
<1>20. CASE \/ \E u \in Upload : EditImage(c, u) \/ Moderate(c, u)
            \/ Unpublish(c) \/ CreateTextNote(c)
  BY <1>1, <1>20 DEF EditImage, Moderate, Unpublish, CreateTextNote
<1>. QED
  BY <1>4, <1>5, <1>7, <1>8, <1>9, <1>10, <1>11, <1>12, <1>13, <1>14, <1>15, <1>16,
     <1>17, <1>18, <1>19, <1>20 DEF Work

-----------------------------------------------------------------------------
(* What a step does to the rows, the objects and the histories.            *)

\* An image is added by its insertion, and goes with its deletion or with its
\* product, which is never one again.
ImageMoves(c) == LET t == task[c]  n == task'[c] IN
    /\ \/ UNCHANGED images
       \/ /\ t.at = "insert" /\ images' = images \cup {t.item} /\ n = Idle
          /\ UNCHANGED <<product, note, drawings, bucket>> /\ Exists
       \/ /\ t.at = "commit" /\ images' = images \ {t.item}
          /\ n.at = "discard" /\ n.item = t.item
          /\ UNCHANGED <<product, note, drawings, bucket>>
       \/ /\ t.at = "erase" /\ images' = {} /\ product' = "deleted"
          /\ left' = left \cup (images \ t.rows) /\ n.at = "sweep" /\ n.rows = t.rows
          /\ UNCHANGED <<note, drawings, bucket>>
    /\ \/ UNCHANGED product
       \/ product' = "deleted" /\ images' = {}
       \/ product' = "draft" /\ product = "active" /\ UNCHANGED images
       \/ product' = "active" /\ t.at = "publish" /\ Exists /\ UNCHANGED images

LEMMA ImagesMove ==
    ASSUME TypeOK, NEW c \in Clerk, Work(c)
    PROVE  ImageMoves(c)
<1>. task \in [Clerk -> Tasks]
  BY DEF TypeOK, Tasks, Steps
<1>. USE DEF ImageMoves, productVars, noteVars
<1>1. CASE UNCHANGED <<images, product>>
  BY <1>1
<1>2. CASE InsertImage(c)
  BY <1>2 DEF InsertImage, Finish, Goto
<1>3. CASE DeleteCommits(c)
  <2>1. CASE UNCHANGED images
    BY <1>1, <1>3, <2>1 DEF DeleteCommits
  <2>2. CASE ~UNCHANGED images
    <3>1. /\ task[c].at = "commit" /\ images' = images \ {task[c].item}
          /\ UNCHANGED <<product, note, drawings, bucket>>
          /\ Goto(c, [Idle EXCEPT !.at = "discard", !.item = task[c].item])
      BY <1>3, <2>2 DEF DeleteCommits, Compensation
    <3>2. task[c] \in Tasks /\ task[c].item \in Upload \cup {NoUpload} /\ Idle \in Tasks
      BY IdleIs DEF Tasks, Is
    <3>3. Is([Idle EXCEPT !.at = "discard", !.item = task[c].item], "discard", task[c].item,
             Idle.rows)
      BY <3>2, TaskForms DEF Steps
    <3>4. task'[c].at = "discard" /\ task'[c].item = task[c].item
      BY <3>1, <3>3 DEF Goto, Is
    <3>. QED  BY <3>1, <3>4
  <2>. QED  BY <2>1, <2>2
<1>4. CASE EraseProduct(c)
  <2>1. CASE UNCHANGED <<images, product>>
    BY <1>1, <2>1
  <2>2. CASE ~UNCHANGED <<images, product>>
    <3>1. /\ task[c].at = "erase" /\ images' = {} /\ product' = "deleted"
          /\ left' = left \cup (images \ task[c].rows)
          /\ UNCHANGED <<note, drawings, bucket>>
          /\ Goto(c, [task[c] EXCEPT !.at = "sweep"])
      BY <1>4, <2>2 DEF EraseProduct
    <3>2. Is([task[c] EXCEPT !.at = "sweep"], "sweep", task[c].item, task[c].rows)
      BY TaskForms DEF Steps
    <3>3. task'[c].at = "sweep" /\ task'[c].rows = task[c].rows
      BY <3>1, <3>2 DEF Goto, Is
    <3>. QED  BY <3>1, <3>3
  <2>. QED  BY <2>1, <2>2
<1>5. CASE Publish(c) \/ Unpublish(c)
  BY <1>5 DEF Publish, Unpublish
<1>6. CASE \/ UploadCheck(c) \/ StoreImage(c) \/ InsertFails(c) \/ Discard(c)
           \/ \E u \in Upload :
                 EditImage(c, u) \/ DeleteCheck(c, u) \/ Moderate(c, u) \/ DropCheck(c, u)
           \/ ReorderCheck(c) \/ Reorder(c) \/ DeleteSees(c) \/ PublishCheck(c) \/ Collect(c)
           \/ Sweep(c) \/ CreateTextNote(c) \/ BeginDrawing(c) \/ StoreDrawing(c)
           \/ InsertDrawing(c) \/ DropFile(c) \/ DropNote(c) \/ Crash(c)
  <2>1. UNCHANGED <<images, product>>
    BY <1>6 DEF UploadCheck, StoreImage, Store, InsertFails, Discard, EditImage, DeleteCheck,
       Moderate, DropCheck, ReorderCheck, Reorder, DeleteSees, PublishCheck, Collect, Sweep,
       CreateTextNote, BeginDrawing, StoreDrawing, InsertDrawing, DropFile, DropNote, Crash
  <2>. QED  BY <1>1, <2>1
<1>. QED
  BY <1>2, <1>3, <1>4, <1>5, <1>6 DEF Work

\* A note comes with a new path, or with the drawing that was stored for it,
\* and goes with its deletion.
NoteMoves(c) == LET t == task[c] IN
    \/ Notes' = Notes /\ UNCHANGED drawings
    \/ /\ \E u \in Fresh : Notes' = Notes \cup {u}
       /\ UNCHANGED <<task, drawings, images>>
    \/ /\ t.at = "insertDrawing" /\ task'[c] = Idle /\ UNCHANGED <<images, bucket>>
       /\ Notes' = Notes \cup {t.item} /\ drawings' = drawings \cup {t.item}
    \/ /\ t.at = "dropNote" /\ UNCHANGED <<images, bucket>>
       /\ Notes' = Notes \ {t.item} /\ drawings' = drawings \ {t.item}

LEMMA NotesMove ==
    ASSUME TypeOK, BroughtIsNew, NEW c \in Clerk, Work(c)
    PROVE  NoteMoves(c)
<1>. USE DEF NoteMoves, noteVars, productVars
<1>. note \in [Upload -> {"none", "PENDING", "APPROVED"}] /\ task \in [Clerk -> Tasks]
  BY DEF TypeOK, Tasks, Steps
<1>1. CASE UNCHANGED noteVars
  BY <1>1 DEF Notes
<1>2. CASE CreateTextNote(c)
  <2>1. PICK u \in Fresh : note' = [note EXCEPT ![u] = "PENDING"]
    BY <1>2 DEF CreateTextNote
  <2>2. Notes' = Notes \cup {u}
    BY <2>1, FreshIsNew DEF Notes
  <2>. QED  BY <1>2, <2>2 DEF CreateTextNote
<1>3. CASE \E u \in Upload : Moderate(c, u)
  BY <1>3 DEF Moderate, Notes
<1>4. CASE InsertDrawing(c)
  <2>1. task[c].item \in Upload
    BY <1>4 DEF InsertDrawing, BroughtIsNew, Brings
  <2>2. Notes' = Notes \cup {task[c].item}
    BY <1>4, <2>1 DEF InsertDrawing, Notes
  <2>. QED  BY <1>4, <2>2 DEF InsertDrawing, Finish, Goto
<1>5. CASE DropNote(c)
  BY <1>1, <1>5 DEF DropNote, Notes
<1>6. CASE \/ UploadCheck(c) \/ StoreImage(c) \/ InsertImage(c) \/ InsertFails(c) \/ Discard(c)
           \/ \E u \in Upload : EditImage(c, u) \/ DeleteCheck(c, u) \/ DropCheck(c, u)
           \/ ReorderCheck(c) \/ Reorder(c) \/ DeleteSees(c) \/ DeleteCommits(c)
           \/ PublishCheck(c) \/ Publish(c) \/ Unpublish(c) \/ Collect(c) \/ EraseProduct(c)
           \/ Sweep(c) \/ BeginDrawing(c) \/ StoreDrawing(c) \/ DropFile(c) \/ Crash(c)
  <2>1. UNCHANGED noteVars
    BY <1>6 DEF UploadCheck, StoreImage, Store, InsertImage, InsertFails, Discard, EditImage,
       DeleteCheck, DropCheck, ReorderCheck, Reorder, DeleteSees, DeleteCommits, PublishCheck,
       Publish, Unpublish, Collect, EraseProduct, Sweep, BeginDrawing, StoreDrawing, DropFile,
       Crash
  <2>. QED  BY <1>1, <2>1
<1>. QED
  BY <1>2, <1>3, <1>4, <1>5, <1>6 DEF Work

\* An object is stored for the request that goes on to write its row, or is left
\* behind; only a request that has it deletes it.
ObjectMoves(c) == LET t == task[c]  n == task'[c] IN
    /\ left \subseteq left'
    /\ \/ UNCHANGED bucket
       \/ /\ t.at \in {"store", "storeDrawing"} /\ bucket' = bucket \cup {t.item}
          /\ \/ n.at \in {"insert", "insertDrawing"} /\ n.item = t.item
             \/ t.item \in left'
       \/ /\ t.at = "discard" /\ bucket' = bucket \ {t.item} /\ UNCHANGED <<images, drawings>>
       \/ /\ t.at = "dropFile" /\ bucket' = bucket \ {t.item} /\ UNCHANGED <<images, drawings>>
          /\ \/ n.at = "dropNote" /\ n.item = t.item
             \/ {t.item} \cap drawings \subseteq broken'
       \/ /\ t.at = "sweep" /\ UNCHANGED <<images, drawings>>
          /\ \E u \in t.rows : bucket' = bucket \ {u}

LEMMA ObjectsMove ==
    ASSUME TypeOK, NEW c \in Clerk, Work(c)
    PROVE  ObjectMoves(c)
<1>. DEFINE t == task[c]
<1>. task \in [Clerk -> Tasks] /\ t \in Tasks
  BY DEF TypeOK, Tasks, Steps
<1>. USE DEF ObjectMoves, noteVars, productVars, pastVars
<1>1. ASSUME UNCHANGED bucket, left \subseteq left'
      PROVE  ObjectMoves(c)
  BY <1>1
<1>2. CASE StoreImage(c) \/ StoreDrawing(c)
  <2>1. PICK a \in {"insert", "insertDrawing"} :
           t.at \in {"store", "storeDrawing"} /\ Store(c, [t EXCEPT !.at = a])
    BY <1>2 DEF StoreImage, StoreDrawing
  <2>2. Is([t EXCEPT !.at = a], a, t.item, t.rows)
    BY TaskForms DEF Steps
  <2>. DEFINE m == [t EXCEPT !.at = a]
  <2>. HIDE DEF m
  <2>3. \/ Goto(c, m) /\ bucket' = bucket \cup {m.item} /\ UNCHANGED left
        \/ UNCHANGED <<bucket, left>>
        \/ bucket' = bucket \cup {m.item} /\ left' = left \cup {m.item}
    BY <2>1 DEF Store, StoreFails, m
  <2>4. m.at = a /\ m.item = t.item
    BY <2>2 DEF Is, m
  <2>. QED  BY <2>1, <2>3, <2>4 DEF Goto
<1>3. CASE Discard(c)
  BY <1>3 DEF Discard, DeleteFile
<1>4. CASE DropFile(c)
  <2>1. CASE UNCHANGED bucket
    BY <1>1, <1>4, <2>1 DEF DropFile
  <2>2. CASE ~UNCHANGED bucket
    <3>1. /\ t.at = "dropFile" /\ bucket' = bucket \ {t.item}
          /\ UNCHANGED <<images, drawings, left>>
          /\ \/ Goto(c, [t EXCEPT !.at = "dropNote"])
             \/ broken' = broken \cup ({t.item} \cap drawings)
      BY <1>4, <2>2 DEF DropFile
    <3>2. Is([t EXCEPT !.at = "dropNote"], "dropNote", t.item, t.rows)
      BY TaskForms DEF Steps
    <3>3. \/ task'[c].at = "dropNote" /\ task'[c].item = t.item
          \/ {t.item} \cap drawings \subseteq broken'
      BY <3>1, <3>2 DEF Goto, Is
    <3>. QED  BY <3>1, <3>3
  <2>. QED  BY <2>1, <2>2
<1>5. CASE Sweep(c)
  BY <1>5 DEF Sweep, DeleteFile
<1>6. CASE \/ UploadCheck(c) \/ InsertImage(c) \/ InsertFails(c)
           \/ \E u \in Upload :
                 EditImage(c, u) \/ DeleteCheck(c, u) \/ Moderate(c, u) \/ DropCheck(c, u)
           \/ ReorderCheck(c) \/ Reorder(c) \/ DeleteSees(c) \/ DeleteCommits(c)
           \/ PublishCheck(c) \/ Publish(c) \/ Unpublish(c) \/ Collect(c) \/ EraseProduct(c)
           \/ CreateTextNote(c) \/ BeginDrawing(c) \/ InsertDrawing(c) \/ DropNote(c)
           \/ Crash(c)
  <2>1. UNCHANGED bucket /\ left \subseteq left'
    BY <1>6 DEF UploadCheck, InsertImage, InsertFails, EditImage, DeleteCheck, Moderate,
       DropCheck, ReorderCheck, Reorder, DeleteSees, DeleteCommits, PublishCheck, Publish,
       Unpublish, Collect, EraseProduct, CreateTextNote, BeginDrawing, InsertDrawing,
       DropNote, Crash
  <2>. QED  BY <1>1, <2>1
<1>. QED
  BY <1>2, <1>3, <1>4, <1>5, <1>6 DEF Work

\* What a request still had to write or delete is a row or an object now, or it
\* was left behind, or it is gone.
LEMMA ObjectsAreKept ==
    ASSUME TypeOK, NEW c \in Clerk, Work(c), NEW u \in Objects(task[c]), u \in bucket'
    PROVE  u \in images' \cup drawings' \cup left' \cup Objects(task'[c])
<1>. DEFINE t == task[c]
<1>. task \in [Clerk -> Tasks] /\ t \in Tasks
  BY DEF TypeOK, Tasks, Steps
<1>. USE DEF Objects
<1>1. CASE task'[c] = t
  BY <1>1
<1>2. CASE Crash(c)
  BY <1>2 DEF Crash
<1>3. CASE InsertImage(c) \/ InsertDrawing(c)
  BY <1>3 DEF InsertImage, InsertDrawing
<1>4. CASE InsertFails(c)
  <2>1. task'[c].at = "discard" /\ task'[c].item = t.item
    <3>1. t.item \in Upload \cup {NoUpload} /\ Idle \in Tasks
      BY IdleIs DEF Tasks, Is
    <3>2. Is([Idle EXCEPT !.at = "discard", !.item = t.item], "discard", t.item, Idle.rows)
      BY <3>1, TaskForms DEF Steps
    <3>. QED  BY <1>4, <3>2 DEF InsertFails, Compensation, Goto, Is
  <2>. QED  BY <1>4, <2>1 DEF InsertFails
<1>5. CASE Discard(c)
  BY <1>5 DEF Discard, DeleteFile
<1>6. CASE Sweep(c)
  <2>1. CASE t.rows = {}
    BY <1>6, <2>1 DEF Sweep
  <2>2. CASE t.rows # {}
    <3>1. PICK f \in t.rows : /\ Goto(c, [t EXCEPT !.rows = t.rows \ {f}])
                              /\ DeleteFile(f)
      BY <1>6, <2>2 DEF Sweep
    <3>. DEFINE rows == t.rows \ {f}
                m == [t EXCEPT !.rows = rows]
    <3>2. rows \in SUBSET Upload
      BY DEF Tasks
    <3>3. Is(m, t.at, t.item, rows)
      <4>. HIDE DEF rows
      <4>. QED  BY <3>2, TaskForms
    <3>4. Goto(c, m) /\ t.at = "sweep"
      BY <1>6, <3>1 DEF Sweep
    <3>. HIDE DEF m
    <3>5. task'[c].at = "sweep" /\ task'[c].rows = t.rows \ {f}
      BY <3>3, <3>4 DEF Goto, Is
    <3>6. u # f \/ u \in left'
      BY <3>1 DEF DeleteFile
    <3>. QED  BY <3>4, <3>5, <3>6
  <2>. QED  BY <2>1, <2>2
<1>7. CASE \/ UploadCheck(c) \/ StoreImage(c)
           \/ \E v \in Upload :
                 EditImage(c, v) \/ DeleteCheck(c, v) \/ Moderate(c, v) \/ DropCheck(c, v)
           \/ ReorderCheck(c) \/ Reorder(c) \/ DeleteSees(c) \/ DeleteCommits(c)
           \/ PublishCheck(c) \/ Publish(c) \/ Unpublish(c) \/ Collect(c) \/ EraseProduct(c)
           \/ CreateTextNote(c) \/ BeginDrawing(c) \/ StoreDrawing(c)
           \/ DropFile(c) \/ DropNote(c)
  <2>1. t.at \notin {"insert", "insertDrawing", "discard", "sweep"}
    BY <1>7 DEF UploadCheck, StoreImage, EditImage, DeleteCheck, Moderate, DropCheck,
       ReorderCheck, Reorder, DeleteSees, DeleteCommits, PublishCheck, Publish, Unpublish,
       Collect, EraseProduct, CreateTextNote, BeginDrawing, StoreDrawing, DropFile, DropNote,
       BeginRacing, Begin, Idles
  <2>. QED  BY <2>1
<1>. QED
  BY <1>2, <1>3, <1>4, <1>5, <1>6, <1>7 DEF Work

\* A drawing without its object is noted before its deletion is given up, and
\* the histories only grow, but for the drawings that go after all.
LEMMA PastMoves ==
    ASSUME TypeOK, NEW c \in Clerk, Work(c)
    PROVE  /\ \A u \in broken \ broken' : u \notin drawings'
           /\ task[c].at = "dropNote" => task[c].item \notin drawings' \ broken'
           /\ raced => raced'
<1>. DEFINE Goal == /\ \A u \in broken \ broken' : u \notin drawings'
                    /\ task[c].at = "dropNote" => task[c].item \notin drawings' \ broken'
                    /\ raced => raced'
<1>1. CASE DropNote(c)
  BY <1>1 DEF DropNote, noteVars
<1>2. CASE Crash(c)
  BY <1>2 DEF Crash, noteVars
<1>3. CASE PublishCheck(c) \/ \E u \in Upload : DeleteCheck(c, u)
  <2>1. /\ raced' = (raced \/ \E d \in Clerk : task[d].at \in {"delete", "commit", "publish"})
        /\ UNCHANGED broken /\ task[c].at = "idle"
    BY <1>3 DEF PublishCheck, DeleteCheck, BeginRacing, Begin, Idles
  <2>. QED  BY <2>1
<1>4. CASE \/ UploadCheck(c) \/ StoreImage(c) \/ InsertImage(c) \/ InsertFails(c) \/ Discard(c)
           \/ \E u \in Upload : EditImage(c, u) \/ Moderate(c, u) \/ DropCheck(c, u)
           \/ ReorderCheck(c) \/ Reorder(c) \/ DeleteSees(c) \/ DeleteCommits(c)
           \/ Publish(c) \/ Unpublish(c) \/ Collect(c) \/ EraseProduct(c) \/ Sweep(c)
           \/ CreateTextNote(c) \/ BeginDrawing(c) \/ StoreDrawing(c) \/ InsertDrawing(c)
  <2>1. UNCHANGED <<raced, broken>> /\ task[c].at # "dropNote"
    BY <1>4 DEF UploadCheck, StoreImage, Store, InsertImage, InsertFails, Discard, EditImage,
       Moderate, DropCheck, ReorderCheck, Reorder, DeleteSees, DeleteCommits, Publish,
       Unpublish, Collect, EraseProduct, Sweep, CreateTextNote, BeginDrawing, StoreDrawing,
       InsertDrawing, pastVars, Begin, Idles
  <2>. QED  BY <2>1
<1>5. CASE DropFile(c)
  <2>1. raced' = raced /\ broken \subseteq broken' /\ task[c].at # "dropNote"
    BY <1>5 DEF DropFile
  <2>. QED  BY <2>1
<1>. QED
  BY <1>1, <1>2, <1>3, <1>4, <1>5 DEF Work

-----------------------------------------------------------------------------
(* Types.                                                                  *)

LEMMA Counts ==
    ASSUME TypeOK
    PROVE  /\ IsFiniteSet(images) /\ Cardinality(images) \in Nat
           /\ IsFiniteSet(Uploading) /\ Cardinality(Uploading) \in Nat
           /\ Cardinality(Clerk) \in Nat \ {0} /\ MaxImages \in Nat \ {0}
           /\ Uploading \subseteq Clerk /\ Cardinality(Uploading) <= Cardinality(Clerk)
<1>1. IsFiniteSet(images) /\ Cardinality(images) \in Nat
  BY FS_Subset, FS_CardinalityType, UploadsAssumption DEF TypeOK
<1>2. /\ IsFiniteSet(Uploading) /\ Cardinality(Uploading) \in Nat
      /\ Uploading \subseteq Clerk /\ Cardinality(Uploading) <= Cardinality(Clerk)
  BY FS_Subset, FS_CardinalityType, UploadsAssumption DEF Uploading
<1>3. Cardinality(Clerk) \in Nat \ {0}
  BY FS_CardinalityType, FS_EmptySet, UploadsAssumption
<1>. QED
  BY <1>1, <1>2, <1>3, UploadsAssumption

\* Every upload in progress has counted the images before it adds one.
LEMMA ReachStep ==
    ASSUME TypeOK, TypeOK', ReachOfUploads, BroughtIsNew, NEW c \in Clerk, Work(c)
    PROVE  ReachOfUploads'
<1>. /\ IsFiniteSet(images) /\ Cardinality(images) \in Nat
     /\ IsFiniteSet(Uploading) /\ Cardinality(Uploading) \in Nat
     /\ IsFiniteSet(images') /\ Cardinality(images') \in Nat
     /\ IsFiniteSet(Uploading') /\ Cardinality(Uploading') \in Nat
     /\ Cardinality(Clerk) \in Nat \ {0} /\ MaxImages \in Nat \ {0}
     /\ Cardinality(Uploading') <= Cardinality(Clerk)
  <2>1. /\ IsFiniteSet(images') /\ Cardinality(images') \in Nat
        /\ IsFiniteSet(Uploading') /\ Cardinality(Uploading') \in Nat
        /\ Cardinality(Uploading') <= Cardinality(Clerk)
    <3>1. images' \subseteq Upload /\ Uploading' \subseteq Clerk
      BY DEF TypeOK, Uploading
    <3>. QED  BY <3>1, FS_Subset, FS_CardinalityType, UploadsAssumption
  <2>. QED  BY <2>1, Counts
<1>1. OnlyMoves(c) /\ TaskMoves(c) /\ ImageMoves(c)
  BY TasksMove, ImagesMove
<1>2. CASE images' \subseteq images /\ Uploading' \subseteq Uploading
  <2>1. Cardinality(images') <= Cardinality(images)
        /\ Cardinality(Uploading') <= Cardinality(Uploading)
    BY <1>2, FS_Subset
  <2>. QED  BY <2>1 DEF ReachOfUploads
<1>3. CASE ~(images' \subseteq images)
  <2>1. task[c].at = "insert" /\ images' = images \cup {task[c].item} /\ task'[c] = Idle
    BY <1>1, <1>3 DEF ImageMoves
  <2>2. task[c].item \notin images
    BY <2>1 DEF BroughtIsNew, Brings
  <2>3. Cardinality(images') = Cardinality(images) + 1
    BY <2>1, <2>2, FS_AddElement
  <2>4. c \in Uploading /\ Uploading' = Uploading \ {c}
    BY <1>1, <2>1 DEF Uploading, OnlyMoves, Idle
  <2>5. Cardinality(Uploading') = Cardinality(Uploading) - 1
    BY <2>4, FS_RemoveElement
  <2>. QED  BY <2>3, <2>5 DEF ReachOfUploads
<1>4. CASE ~(Uploading' \subseteq Uploading)
  <2>1. task'[c].at \in {"store", "insert"} /\ task[c].at \notin {"store", "insert"}
    BY <1>1, <1>4 DEF Uploading, OnlyMoves
  <2>2. images' = images /\ Cardinality(images) < MaxImages
    BY <1>1, <2>1 DEF TaskMoves, Idle, HasRoom
  <2>. QED  BY <2>2 DEF ReachOfUploads
<1>. QED
  BY <1>2, <1>3, <1>4

\* Without an upload in progress the images are within reach, too.
LEMMA Reach ==
    ASSUME TypeOK, ReachOfUploads
    PROVE  /\ Cardinality(images) <= MaxImages + Cardinality(Clerk) - 1
           /\ MaxImages + Cardinality(Clerk) - 1 \in Nat
           /\ MaxImages <= MaxImages + Cardinality(Clerk) - 1
  BY Counts DEF ReachOfUploads

LEMMA PrimaryStep ==
    ASSUME TypeOK, DeletionsKnow, NEW c \in Clerk, Work(c)
    PROVE  primary' \subseteq images' /\ Cardinality(primary') <= 1
<1>. USE DEF TypeOK, productVars
<1>. IsFiniteSet(primary) /\ Cardinality({}) = 0
  BY FS_Subset, FS_EmptySet, UploadsAssumption
<1>7. \A S \in SUBSET primary : Cardinality(S) <= 1
  <2>1. ASSUME NEW S \in SUBSET primary
        PROVE  Cardinality(S) <= 1
    <3>1. Cardinality(S) <= Cardinality(primary) /\ IsFiniteSet(S)
      BY FS_Subset
    <3>2. Cardinality(S) \in Nat /\ Cardinality(primary) \in Nat
      BY <3>1, FS_CardinalityType
    <3>. QED  BY <3>1, <3>2
  <2>. QED  BY <2>1
<1>8. \A u : Cardinality({u}) <= 1
  <2>1. ASSUME NEW u
        PROVE  Cardinality({u}) <= 1
    <3>1. Cardinality({u}) = 1
      BY FS_Singleton
    <3>. QED  BY <3>1
  <2>. QED  BY <2>1
<1>9. \A S : S = {} => Cardinality(S) <= 1
  BY FS_EmptySet
<1>1. CASE UNCHANGED <<images, primary>>
  BY <1>1
<1>2. CASE InsertImage(c)
  BY <1>8, <1>2 DEF InsertImage, NewPrimary
<1>3. CASE \E u \in Upload : EditImage(c, u)
  BY <1>7, <1>8, <1>3 DEF EditImage, NewPrimary
<1>4. CASE DeleteCommits(c)
  <2>. DEFINE t == task[c]
              others == primary \ {t.item}
  <2>1. CASE UNCHANGED <<images, primary>>
    BY <1>1, <2>1
  <2>2. CASE ~UNCHANGED <<images, primary>>
    <3>1. /\ images' = images \ {t.item} /\ primary' = others \cup t.rows
          /\ t.rows \subseteq images /\ (t.rows # {} => others \subseteq t.rows)
          /\ t.at = "commit"
      BY <1>4, <2>2 DEF DeleteCommits
    <3>2. t.rows = {} \/ \E v \in Upload : v # t.item /\ t.rows = {v}
      BY <3>1 DEF DeletionsKnow
    <3>3. CASE t.rows = {}
      BY <1>7, <3>1, <3>3
    <3>4. ASSUME NEW v \in Upload, v # t.item, t.rows = {v}
          PROVE  primary' \subseteq images' /\ Cardinality(primary') <= 1
      <4>1. primary' = {v} /\ v \in images'
        BY <3>1, <3>4
      <4>. QED  BY <1>8, <4>1
    <3>. QED  BY <3>2, <3>3, <3>4
  <2>. QED  BY <2>1, <2>2
<1>5. CASE EraseProduct(c)
  BY <1>1, <1>9, <1>5 DEF EraseProduct
<1>6. CASE \/ UploadCheck(c) \/ StoreImage(c) \/ InsertFails(c) \/ Discard(c)
           \/ \E u \in Upload : DeleteCheck(c, u) \/ Moderate(c, u) \/ DropCheck(c, u)
           \/ ReorderCheck(c) \/ Reorder(c) \/ DeleteSees(c) \/ PublishCheck(c) \/ Publish(c)
           \/ Unpublish(c) \/ Collect(c) \/ Sweep(c) \/ CreateTextNote(c) \/ BeginDrawing(c)
           \/ StoreDrawing(c) \/ InsertDrawing(c) \/ DropFile(c) \/ DropNote(c) \/ Crash(c)
  <2>1. UNCHANGED <<images, primary>>
    BY <1>6 DEF UploadCheck, StoreImage, Store, InsertFails, Discard, DeleteCheck, Moderate,
       DropCheck, ReorderCheck, Reorder, DeleteSees, PublishCheck, Publish, Unpublish,
       Collect, Sweep, CreateTextNote, BeginDrawing, StoreDrawing, InsertDrawing, DropFile,
       DropNote, Crash
  <2>. QED  BY <1>1, <2>1
<1>. QED
  BY <1>2, <1>3, <1>4, <1>5, <1>6 DEF Work

LEMMA PositionsStep ==
    ASSUME TypeOK, ReachOfUploads, BroughtIsNew, NEW c \in Clerk, Work(c)
    PROVE  /\ sortOrder' \in [Upload -> 0..(MaxImages + Cardinality(Clerk) - 1)]
           /\ \A u \in Upload \ images' : sortOrder'[u] = 0
<1>. DEFINE N == MaxImages + Cardinality(Clerk) - 1
            t == task[c]
            Goal == /\ sortOrder' \in [Upload -> 0..N]
                    /\ \A u \in Upload \ images' : sortOrder'[u] = 0
<1>. USE DEF productVars
<1>. /\ sortOrder \in [Upload -> 0..N] /\ (\A u \in Upload \ images : sortOrder[u] = 0)
     /\ images \subseteq Upload /\ t \in Tasks
  BY DEF TypeOK, Tasks, Steps
<1>0. N \in Nat /\ MaxImages <= N /\ 0 \in 0..N /\ Cardinality(images) <= N
      /\ IsFiniteSet(images) /\ MaxImages \in Nat
  BY Reach, Counts
<1>. SUFFICES Goal
  OBVIOUS
<1>. HIDE DEF N
<1>1. CASE UNCHANGED <<images, sortOrder>>
  BY <1>1
<1>2. CASE InsertImage(c)
  <2>1. t.item \in Upload /\ t.position \in 0..N
    BY <1>0, <1>2 DEF InsertImage, BroughtIsNew, Brings, Tasks
  <2>2. images' = images \cup {t.item} /\ sortOrder' = [sortOrder EXCEPT ![t.item] = t.position]
    BY <1>2 DEF InsertImage
  <2>. QED  BY <2>1, <2>2
<1>3. CASE Reorder(c)
  <2>. DEFINE R == t.rows
  <2>1. CASE UNCHANGED sortOrder
    BY <1>1, <1>3, <2>1 DEF Reorder
  <2>2. CASE ~UNCHANGED sortOrder
    <3>1. PICK f \in [R -> 0..(Cardinality(R) - 1)] :
             /\ R \subseteq images /\ UNCHANGED images
             /\ sortOrder' = [u \in Upload |-> IF u \in R THEN f[u] ELSE sortOrder[u]]
      BY <1>3, <2>2 DEF Reorder
    <3>2. Cardinality(R) <= Cardinality(images) /\ Cardinality(R) \in Nat
          /\ Cardinality(images) \in Nat
      BY <1>0, <3>1, FS_Subset, FS_CardinalityType
    <3>3. 0..(Cardinality(R) - 1) \subseteq 0..N
      BY <1>0, <3>2
    <3>4. \A u \in R : f[u] \in 0..N
      BY <3>1, <3>3
    <3>. QED  BY <3>1, <3>4
  <2>. QED  BY <2>1, <2>2
<1>4. CASE DeleteCommits(c)
  BY <1>0, <1>4 DEF DeleteCommits, Without
<1>5. CASE EraseProduct(c)
  BY <1>0, <1>5 DEF EraseProduct, Without
<1>6. CASE \/ UploadCheck(c) \/ StoreImage(c) \/ InsertFails(c) \/ Discard(c)
           \/ \E u \in Upload :
                 EditImage(c, u) \/ DeleteCheck(c, u) \/ Moderate(c, u) \/ DropCheck(c, u)
           \/ ReorderCheck(c) \/ DeleteSees(c) \/ PublishCheck(c) \/ Publish(c)
           \/ Unpublish(c) \/ Collect(c) \/ Sweep(c) \/ CreateTextNote(c) \/ BeginDrawing(c)
           \/ StoreDrawing(c) \/ InsertDrawing(c) \/ DropFile(c) \/ DropNote(c) \/ Crash(c)
  <2>1. UNCHANGED <<images, sortOrder>>
    BY <1>6 DEF UploadCheck, StoreImage, Store, InsertFails, Discard, EditImage, DeleteCheck,
       Moderate, DropCheck, ReorderCheck, DeleteSees, PublishCheck, Publish, Unpublish,
       Collect, Sweep, CreateTextNote, BeginDrawing, StoreDrawing, InsertDrawing, DropFile,
       DropNote, Crash
  <2>. QED  BY <1>1, <2>1
<1>. QED
  BY <1>2, <1>3, <1>4, <1>5, <1>6 DEF Work

LEMMA NoteTypes ==
    ASSUME TypeOK, BroughtIsNew, NEW c \in Clerk, Work(c)
    PROVE  /\ note' \in [Upload -> {"none", "PENDING", "APPROVED"}]
           /\ drawings' \subseteq Notes'
<1>. USE DEF noteVars
<1>. note \in [Upload -> {"none", "PENDING", "APPROVED"}] /\ drawings \subseteq Notes
  BY DEF TypeOK
<1>1. drawings' \subseteq Notes'
  BY NotesMove DEF NoteMoves
<1>2. CASE UNCHANGED note
  BY <1>1, <1>2
<1>3. CASE CreateTextNote(c) \/ InsertDrawing(c) \/ \E u \in Upload : Moderate(c, u)
  BY <1>1, <1>3 DEF CreateTextNote, InsertDrawing, Moderate
<1>4. CASE DropNote(c)
  BY <1>1, <1>4 DEF DropNote
<1>5. CASE \/ UploadCheck(c) \/ StoreImage(c) \/ InsertImage(c) \/ InsertFails(c) \/ Discard(c)
           \/ \E u \in Upload : EditImage(c, u) \/ DeleteCheck(c, u) \/ DropCheck(c, u)
           \/ ReorderCheck(c) \/ Reorder(c) \/ DeleteSees(c) \/ DeleteCommits(c)
           \/ PublishCheck(c) \/ Publish(c) \/ Unpublish(c) \/ Collect(c) \/ EraseProduct(c)
           \/ Sweep(c) \/ BeginDrawing(c) \/ StoreDrawing(c) \/ DropFile(c) \/ Crash(c)
  <2>1. UNCHANGED note
    BY <1>5 DEF UploadCheck, StoreImage, Store, InsertImage, InsertFails, Discard, EditImage,
       DeleteCheck, DropCheck, ReorderCheck, Reorder, DeleteSees, DeleteCommits, PublishCheck,
       Publish, Unpublish, Collect, EraseProduct, Sweep, BeginDrawing, StoreDrawing, DropFile,
       Crash
  <2>. QED  BY <1>2, <2>1
<1>. QED
  BY <1>3, <1>4, <1>5 DEF Work

\* What is stored, left behind or broken has a path.
LEMMA ObjectTypes ==
    ASSUME TypeOK, BroughtIsNew, DeletionsKnow, NEW c \in Clerk, Work(c)
    PROVE  bucket' \cup left' \cup broken' \subseteq Upload /\ raced' \in BOOLEAN
<1>. DEFINE t == task[c]
            Goal == left' \cup broken' \subseteq Upload /\ raced' \in BOOLEAN
<1>. USE DEF pastVars
<1>. /\ bucket \cup left \cup broken \cup images \cup drawings \subseteq Upload
     /\ raced \in BOOLEAN /\ t.rows \subseteq Upload /\ t \in Tasks
  BY DEF TypeOK, Tasks, Notes, Steps
<1>0. /\ t.at \in {"store", "storeDrawing", "insert", "insertDrawing"} => t.item \in Upload
      /\ t.at = "discard" => t.item \in Upload
      /\ Objects(t) \subseteq Upload
  BY DEF BroughtIsNew, Brings, DeletionsKnow, Objects
<1>1. bucket' \subseteq Upload
  BY <1>0, ObjectsMove DEF ObjectMoves
<1>2. CASE StoreImage(c) \/ StoreDrawing(c)
  <2>1. PICK a \in Steps : t.at \in {"store", "storeDrawing"} /\ Store(c, [t EXCEPT !.at = a])
    BY <1>2 DEF StoreImage, StoreDrawing, Steps
  <2>2. [t EXCEPT !.at = a].item = t.item
    BY TaskForms DEF Is
  <2>. DEFINE m == [t EXCEPT !.at = a]
  <2>3. m.item \in Upload /\ Store(c, m)
    BY <1>0, <2>1, <2>2
  <2>. HIDE DEF m
  <2>. QED  BY <1>1, <2>3 DEF Store, StoreFails
<1>3. CASE Discard(c) \/ Sweep(c)
  BY <1>0, <1>1, <1>3 DEF Discard, Sweep, DeleteFile
<1>4. CASE EraseProduct(c) \/ DropNote(c)
  BY <1>1, <1>4 DEF EraseProduct, DropNote
<1>5. CASE Crash(c)
  BY <1>0, <1>1, <1>5 DEF Crash
<1>6. CASE PublishCheck(c) \/ \E u \in Upload : DeleteCheck(c, u)
  <2>1. UNCHANGED <<left, broken>>
    BY <1>6 DEF PublishCheck, DeleteCheck
  <2>2. raced' \in BOOLEAN
    BY <1>6, ZenonT(20) DEF PublishCheck, DeleteCheck, BeginRacing
  <2>. QED  BY <1>1, <2>1, <2>2
<1>7. CASE \/ UploadCheck(c) \/ InsertImage(c) \/ InsertFails(c)
           \/ \E u \in Upload : EditImage(c, u) \/ Moderate(c, u) \/ DropCheck(c, u)
           \/ ReorderCheck(c) \/ Reorder(c) \/ DeleteSees(c) \/ DeleteCommits(c)
           \/ Publish(c) \/ Unpublish(c) \/ Collect(c) \/ CreateTextNote(c) \/ BeginDrawing(c)
           \/ InsertDrawing(c)
  <2>1. UNCHANGED <<raced, left, broken>>
    BY <1>7 DEF UploadCheck, InsertImage, InsertFails, EditImage, Moderate, DropCheck,
       ReorderCheck, Reorder, DeleteSees, DeleteCommits, Publish, Unpublish, Collect,
       CreateTextNote, BeginDrawing, InsertDrawing
  <2>. QED  BY <1>1, <2>1
<1>8. CASE DropFile(c)
  <2>1. UNCHANGED <<raced, left>> /\ broken' \subseteq broken \cup drawings
    BY <1>8 DEF DropFile
  <2>. QED  BY <1>1, <2>1
<1>. QED
  BY <1>2, <1>3, <1>4, <1>5, <1>6, <1>7, <1>8 DEF Work

LEMMA TypeStep ==
    ASSUME TypeOK, ReachOfUploads, BroughtIsNew, DeletionsKnow, NEW c \in Clerk, Work(c)
    PROVE  TypeOK'
<1>1. /\ product' \in {"draft", "active", "deleted"}
      /\ images' \subseteq Upload /\ (product' = "deleted" => images' = {})
  BY ImagesMove DEF ImageMoves, TypeOK, Exists, BroughtIsNew, Brings
<1>2. task' \in [Clerk -> Tasks]
  BY TasksMove
<1>. QED
  BY <1>1, <1>2, PrimaryStep, PositionsStep, NoteTypes, ObjectTypes DEF TypeOK, Tasks, Steps

-----------------------------------------------------------------------------
(* Each part of the invariant is kept.                                     *)

\* Nobody learns of a path but from the rows, or by taking a new one.
LEMMA KnownMoves ==
    ASSUME TypeOK, NEW c \in Clerk, Work(c)
    PROVE  {task'[c].item} \cup task'[c].rows
              \subseteq {task[c].item} \cup task[c].rows \cup Fresh \cup images \cup Notes
                           \cup {NoUpload}
<1>1. TaskMoves(c) /\ Idle.item = NoUpload /\ Idle.rows = {}
  BY TasksMove, IdleIs DEF Is
<1>. QED
  BY <1>1 DEF TaskMoves

LEMMA ImagesAndNotesStep ==
    ASSUME TypeOK, ImagesAreNotNotes, BroughtIsNew, NEW c \in Clerk, Work(c)
    PROVE  ImagesAreNotNotes'
<1>. USE DEF ImagesAreNotNotes
<1>0. ImageMoves(c) /\ NoteMoves(c)
  BY ImagesMove, NotesMove
<1>1. CASE task[c].at = "insert"
  <2>1. task[c].item \notin Notes /\ (Notes' = Notes \/ UNCHANGED images)
    BY <1>0, <1>1 DEF ImageMoves, NoteMoves, BroughtIsNew, Brings, Notes
  <2>. QED  BY <1>0, <1>1, <2>1, FreshIsNew DEF ImageMoves, NoteMoves
<1>2. CASE task[c].at # "insert"
  <2>1. images' \subseteq images
    BY <1>0, <1>2 DEF ImageMoves
  <2>2. task[c].at = "insertDrawing" => task[c].item \notin images
    BY DEF BroughtIsNew, Brings
  <2>. QED  BY <1>0, <2>1, <2>2, FreshIsNew DEF NoteMoves
<1>. QED
  BY <1>1, <1>2

LEMMA BroughtStep ==
    ASSUME TypeOK, BroughtIsNew, NEW c \in Clerk, Work(c)
    PROVE  BroughtIsNew'
<1>. DEFINE t == task[c]
            n == task'[c]
<1>0. /\ OnlyMoves(c) /\ TaskMoves(c) /\ ImageMoves(c) /\ NoteMoves(c) /\ ObjectMoves(c)
      /\ ~Brings(Idle)
  BY TasksMove, ImagesMove, NotesMove, ObjectsMove DEF Brings, Idle
\* What a request brings comes from a request that did so, or is new.
<1>1. ASSUME Brings(n)
      PROVE  /\ \/ Brings(t) /\ n.item = t.item
                \/ t.at = "idle" /\ n.item \in Fresh /\ UNCHANGED images
             /\ n.at \in {"insert", "insertDrawing"} =>
                   \/ n = t
                   \/ bucket' = bucket \cup {n.item}
  BY <1>0, <1>1 DEF TaskMoves, Brings
<1>2. ASSUME NEW d \in Clerk, Brings(task'[d])
      PROVE  /\ task'[d].item \in Upload \ (images' \cup Notes')
             /\ task'[d].at \in {"insert", "insertDrawing"} => task'[d].item \in bucket'
             /\ \A e \in Clerk \ {d} : task'[d].item \notin {task'[e].item} \cup task'[e].rows
  <2>1. CASE d # c
    <3>. DEFINE i == task[d].item
    <3>1. /\ task'[d] = task[d] /\ Brings(task[d]) /\ i \in Upload \ (images \cup Notes)
          /\ i \notin Fresh /\ i # NoUpload /\ i \notin {t.item} \cup t.rows
      BY <1>0, <1>2, <2>1, FreshIsNew, UploadsAssumption DEF OnlyMoves, BroughtIsNew
    <3>2. i \notin images'
      BY <1>0, <3>1 DEF ImageMoves
    <3>3. i \notin Notes'
      BY <1>0, <3>1 DEF NoteMoves
    <3>4. task[d].at \in {"insert", "insertDrawing"} => i \in bucket'
      BY <1>0, <3>1 DEF ObjectMoves, BroughtIsNew
    <3>5. ASSUME NEW e \in Clerk \ {d}
          PROVE  i \notin {task'[e].item} \cup task'[e].rows
      <4>1. CASE e = c
        BY <3>1, <4>1, KnownMoves
      <4>2. CASE e # c
        BY <1>0, <3>1, <4>2 DEF OnlyMoves, BroughtIsNew
      <4>. QED  BY <4>1, <4>2
    <3>. QED  BY <3>1, <3>2, <3>3, <3>4, <3>5
  <2>2. CASE d = c /\ Brings(t) /\ n.item = t.item
    <3>1. t.item \in Upload \ (images \cup Notes) /\ n # Idle /\ t.item \notin Fresh
      BY <1>0, <1>2, <2>2, FreshIsNew DEF BroughtIsNew
    <3>2. t.item \notin images'
      BY <1>0, <3>1 DEF ImageMoves
    <3>3. t.item \notin Notes'
      BY <1>0, <3>1 DEF NoteMoves
    <3>4. n.at \in {"insert", "insertDrawing"} => n.item \in bucket'
      <4>1. CASE n = t
        BY <1>0, <2>2, <4>1 DEF ObjectMoves, BroughtIsNew, Brings
      <4>2. CASE n # t
        BY <1>1, <1>2, <2>2, <4>2
      <4>. QED  BY <4>1, <4>2
    <3>5. \A e \in Clerk \ {c} : t.item \notin {task'[e].item} \cup task'[e].rows
      BY <1>0, <2>2 DEF OnlyMoves, BroughtIsNew
    <3>. QED  BY <2>2, <3>1, <3>2, <3>3, <3>4, <3>5
  <2>3. CASE d = c /\ t.at = "idle" /\ n.item \in Fresh /\ UNCHANGED images
    <3>1. n.item \in Upload \ (images' \cup Notes)
      BY <2>3, FreshIsNew
    <3>2. Notes' \subseteq Notes
      BY <1>0, <1>2, <2>3 DEF NoteMoves, Brings
    <3>3. n.at \in {"insert", "insertDrawing"} => n.item \in bucket'
      BY <1>1, <1>2, <2>3
    <3>4. \A e \in Clerk \ {c} : n.item \notin {task'[e].item} \cup task'[e].rows
      BY <1>0, <2>3, FreshIsNew DEF OnlyMoves
    <3>. QED  BY <2>3, <3>1, <3>2, <3>3, <3>4
  <2>. QED  BY <1>1, <1>2, <2>1, <2>2, <2>3
<1>. QED
  BY <1>2 DEF BroughtIsNew

LEMMA DeletionsStep ==
    ASSUME TypeOK, TypeOK', ImagesAreNotNotes, BroughtIsNew, DeletionsKnow,
           NEW c \in Clerk, Work(c)
    PROVE  DeletionsKnow'
<1>. DEFINE Known(t, I, N, D, B, p) ==
                /\ t.at \in {"delete", "commit"} => t.item \in Upload \ N
                /\ t.at = "delete" => t.rows = {}
                /\ t.at = "commit" => t.rows = {} \/ \E v \in Upload : v # t.item /\ t.rows = {v}
                /\ t.at = "discard" => t.item \in Upload \ (I \cup N)
                /\ t.at \in {"erase", "sweep"} => t.rows \cap N = {}
                /\ t.at = "sweep" => p = "deleted"
                /\ t.at \in {"dropFile", "dropNote"} => t.item \in Upload \ I
                /\ t.at = "dropNote" => t.item \notin B \cap D
<1>. DEFINE t == task[c]
            n == task'[c]
<1>0. /\ OnlyMoves(c) /\ TaskMoves(c) /\ ImageMoves(c) /\ NoteMoves(c) /\ ObjectMoves(c)
      /\ Idle.at = "idle"
  BY TasksMove, ImagesMove, NotesMove, ObjectsMove DEF Idle
<1>1. \A d \in Clerk : Known(task[d], images, Notes, drawings, bucket, product)
  BY DEF DeletionsKnow
<1>2. images \subseteq Upload /\ Notes \subseteq Upload /\ drawings \subseteq Notes
  BY DEF TypeOK, Notes
<1>3. product = "deleted" => product' = "deleted"
  BY <1>0 DEF ImageMoves, Exists
\* A row that appears is what its clerk brought, or new.
<1>4. \A u \in images' \ images : t.at = "insert" /\ u = t.item /\ n = Idle
  BY <1>0 DEF ImageMoves
<1>5. \A u \in Notes' \ Notes :
         \/ u \in Fresh /\ UNCHANGED task
         \/ t.at = "insertDrawing" /\ u = t.item /\ n = Idle
  BY <1>0 DEF NoteMoves
<1>6. \A u \in drawings' \ drawings : t.at = "insertDrawing" /\ u = t.item /\ n = Idle
  BY <1>0 DEF NoteMoves
<1>7. \A u \in bucket' \ bucket : t.at \in {"store", "storeDrawing"} /\ u = t.item
  BY <1>0 DEF ObjectMoves
<1>8. ASSUME NEW d \in Clerk, d # c
      PROVE  Known(task'[d], images', Notes', drawings', bucket', product')
  <2>1. task'[d] = task[d]
    BY <1>0, <1>8 DEF OnlyMoves
  <2>2. t.at \in {"store", "insert", "storeDrawing", "insertDrawing"} =>
           t.item \notin {task[d].item} \cup task[d].rows
    BY <1>8 DEF BroughtIsNew, Brings
  <2>3. Fresh \cap ({task[d].item} \cup task[d].rows) = {}
    BY FreshIsNew
  <2>4. Known(task[d], images, Notes, drawings, bucket, product)
    BY <1>1
  <2>. QED  BY <1>3, <1>4, <1>5, <1>6, <1>7, <2>1, <2>2, <2>3, <2>4
<1>9. Known(n, images', Notes', drawings', bucket', product')
  <2>0. Known(t, images, Notes, drawings, bucket, product)
    BY <1>1
  <2>1. CASE n = t
    <3>1. t.at \in {"insert", "insertDrawing"} => n # Idle
      BY <1>0, <2>1
    <3>2. Fresh \cap ({t.item} \cup t.rows) = {}
      BY FreshIsNew
    <3>. QED  BY <1>3, <1>4, <1>5, <1>6, <1>7, <2>0, <2>1, <3>1, <3>2
  <2>2. CASE n = Idle
    BY <1>0, <2>2
  <2>3. CASE n # t /\ n # Idle
    <3>1. images' \subseteq images /\ Notes' \subseteq Notes /\ drawings' \subseteq drawings
      BY <1>4, <1>5, <1>6, <2>3
    <3>2. n.at \in {"delete", "commit"} => n.item \in Upload \ Notes
      BY <1>0, <1>2, <2>0, <2>3 DEF TaskMoves, ImagesAreNotNotes
    <3>3. /\ n.at = "delete" => n.rows = {}
          /\ n.at = "commit" => n.rows = {} \/ \E v \in Upload : v # n.item /\ n.rows = {v}
      BY <1>0, <1>2, <2>0, <2>3 DEF TaskMoves
    <3>4. n.at = "discard" => n.item \in Upload \ (images' \cup Notes)
      <4>1. t.at \in {"insert", "insertDrawing"} => t.item \in Upload \ (images \cup Notes)
        BY DEF BroughtIsNew, Brings
      <4>. QED  BY <1>0, <2>0, <2>3, <3>1, <4>1 DEF TaskMoves
    <3>5. /\ n.at \in {"erase", "sweep"} => n.rows \cap Notes = {}
          /\ n.at = "sweep" => product' = "deleted"
      BY <1>0, <1>3, <2>0, <2>3 DEF TaskMoves, ImagesAreNotNotes
    <3>6. n.at \in {"dropFile", "dropNote"} => n.item \in Upload \ images
      BY <1>0, <1>2, <2>0, <2>3 DEF TaskMoves, ImagesAreNotNotes
    <3>7. n.at = "dropNote" => n.item \notin bucket' \cap drawings'
      BY <1>0, <2>3, <3>1 DEF TaskMoves
    <3>. QED  BY <3>1, <3>2, <3>3, <3>4, <3>5, <3>6, <3>7
  <2>. QED  BY <2>1, <2>2, <2>3
<1>. QED
  BY <1>8, <1>9 DEF DeletionsKnow

LEMMA RowsStep ==
    ASSUME TypeOK, BroughtIsNew, DeletionsKnow, RowsHaveObjects, NEW c \in Clerk, Work(c)
    PROVE  RowsHaveObjects'
<1>. DEFINE t == task[c]
            n == task'[c]
<1>0. OnlyMoves(c) /\ ImageMoves(c) /\ NoteMoves(c) /\ ObjectMoves(c)
  BY TasksMove, ImagesMove, NotesMove, ObjectsMove
\* The objects that go are of no image, and of no note but one being deleted.
<1>1. \A u \in bucket \ bucket' :
         /\ u \notin images' /\ UNCHANGED images
         /\ u \in drawings' => (n.at = "dropNote" /\ n.item = u) \/ u \in broken'
  BY <1>0 DEF ObjectMoves, DeletionsKnow, TypeOK, Notes
<1>2. images' \subseteq bucket'
  <2>1. \A u \in images' \ images : u \in bucket /\ UNCHANGED bucket
    BY <1>0 DEF ImageMoves, BroughtIsNew, Brings
  <2>. QED  BY <1>1, <2>1 DEF RowsHaveObjects
<1>3. ASSUME NEW u \in drawings' \ (bucket' \cup broken')
      PROVE  \E d \in Clerk : task'[d].at = "dropNote" /\ task'[d].item = u
  <2>1. CASE u \in bucket
    BY <1>1, <1>3, <2>1
  <2>2. CASE u \notin bucket
    <3>1. u \in drawings
      BY <1>0, <1>3, <2>2 DEF NoteMoves, BroughtIsNew, Brings
    <3>2. u \notin broken
      BY <1>3, PastMoves
    <3>3. PICK d \in Clerk : task[d].at = "dropNote" /\ task[d].item = u
      BY <2>2, <3>1, <3>2 DEF RowsHaveObjects
    <3>4. d # c
      BY <1>3, <3>3, PastMoves
    <3>. QED  BY <1>0, <3>3, <3>4 DEF OnlyMoves
  <2>. QED  BY <2>1, <2>2
<1>. QED
  BY <1>2, <1>3 DEF RowsHaveObjects

LEMMA OrphansStep ==
    ASSUME TypeOK, BroughtIsNew, DeletionsKnow, OrphansAreAccountedFor,
           NEW c \in Clerk, Work(c)
    PROVE  OrphansAreAccountedFor'
<1>. DEFINE t == task[c]
            n == task'[c]
            Accounted(u) == \/ u \in images' \cup drawings' \cup left'
                            \/ \E d \in Clerk : u \in Objects(task'[d])
<1>0. OnlyMoves(c) /\ ImageMoves(c) /\ NoteMoves(c) /\ ObjectMoves(c)
  BY TasksMove, ImagesMove, NotesMove, ObjectsMove
<1>1. ASSUME NEW u \in bucket'
      PROVE  Accounted(u)
  <2>1. CASE u \notin bucket
    <3>1. \/ u \in left'
          \/ n.at \in {"insert", "insertDrawing"} /\ n.item = u
      BY <1>0, <1>1, <2>1 DEF ObjectMoves
    <3>. QED  BY <3>1 DEF Objects
  <2>2. CASE u \in images
    <3>1. \/ u \in images' \cup left'
          \/ n.at = "discard" /\ n.item = u
          \/ n.at = "sweep" /\ u \in n.rows
      BY <1>0, <2>2 DEF ImageMoves
    <3>. QED  BY <3>1 DEF Objects
  <2>3. CASE u \in bucket \cap drawings
    <3>1. u \in drawings'
      BY <1>0, <2>3 DEF NoteMoves, DeletionsKnow
    <3>. QED  BY <3>1
  <2>4. CASE u \in left
    BY <1>0, <2>4 DEF ObjectMoves
  <2>5. ASSUME NEW d \in Clerk, u \in Objects(task[d])
        PROVE  Accounted(u)
    <3>1. CASE d = c
      BY <1>1, <2>5, <3>1, ObjectsAreKept
    <3>2. CASE d # c
      BY <1>0, <2>5, <3>2 DEF OnlyMoves
    <3>. QED  BY <3>1, <3>2
  <2>. QED  BY <2>1, <2>2, <2>3, <2>4, <2>5 DEF OrphansAreAccountedFor
<1>. QED
  BY <1>1 DEF OrphansAreAccountedFor

LEMMA LoneStep ==
    ASSUME TypeOK, LoneSeesTrue, NEW c \in Clerk, Work(c)
    PROVE  LoneSeesTrue'
<1>. DEFINE t == task[c]
            n == task'[c]
<1>0. /\ OnlyMoves(c) /\ TaskMoves(c) /\ ImageMoves(c)
      /\ Exists' => Exists
      /\ Idle.at = "idle"
  <2>1. ImageMoves(c)
    BY ImagesMove
  <2>. QED  BY <2>1, TasksMove DEF ImageMoves, Exists, Idle
<1>. SUFFICES ASSUME ~raced', NEW d \in Clerk
              PROVE  /\ Racing(task'[d]) => \A e \in Clerk \ {d} : ~Racing(task'[e])
                     /\ task'[d].at = "publish" /\ Exists' => images' # {}
                     /\ task'[d].at = "commit" /\ product' = "active" =>
                           images' \ {task'[d].item} # {}
  BY DEF LoneSeesTrue
<1>1. ~raced
  BY PastMoves
\* One that starts to race is alone.
<1>2. Racing(n) => Racing(t) \/ NobodyRaces
  BY <1>0 DEF TaskMoves, Racing
<1>3. Racing(task'[d]) => \A e \in Clerk \ {d} : ~Racing(task'[e])
  BY <1>0, <1>1, <1>2 DEF LoneSeesTrue, NobodyRaces, OnlyMoves
<1>4. CASE d # c /\ Racing(task[d])
  <2>1. task'[d] = task[d] /\ ~Racing(t)
    BY <1>0, <1>1, <1>4 DEF OnlyMoves, LoneSeesTrue
  <2>2. /\ images \subseteq images' \/ product' = "deleted"
        /\ product' = "active" => product = "active"
    BY <1>0, <2>1 DEF ImageMoves, Racing
  <2>. QED  BY <1>0, <1>1, <1>3, <2>1, <2>2 DEF LoneSeesTrue, Exists
<1>5. CASE d # c /\ ~Racing(task[d])
  <2>1. task'[d].at \notin {"publish", "commit"}
    BY <1>0, <1>5 DEF OnlyMoves, Racing
  <2>. QED  BY <1>3, <2>1
<1>6. CASE d = c /\ n = t
  <2>1. t.at \in {"publish", "commit"} => UNCHANGED images
    BY <1>0, <1>6 DEF ImageMoves
  <2>2. t.at = "commit" => (product' = "active" => product = "active")
    BY <1>0, <1>6 DEF ImageMoves
  <2>. QED  BY <1>0, <1>1, <1>3, <1>6, <2>1, <2>2 DEF LoneSeesTrue
<1>7. CASE d = c /\ n # t
  <2>1. n.at = "publish" => images' # {}
    BY <1>0, <1>7 DEF TaskMoves
  <2>2. n.at = "commit" => UNCHANGED product /\ images' = images /\
                           (product = "active" => images \ {n.item} # {})
    BY <1>0, <1>7 DEF TaskMoves
  <2>. QED  BY <1>3, <1>7, <2>1, <2>2
<1>. QED
  BY <1>4, <1>5, <1>6, <1>7

LEMMA PublishedStep ==
    ASSUME LoneSeesTrue, PublishedShowsAnImage, TypeOK, NEW c \in Clerk, Work(c)
    PROVE  PublishedShowsAnImage'
<1>. SUFFICES ASSUME product' = "active", ~raced'
              PROVE  images' # {}
  BY DEF PublishedShowsAnImage
<1>0. ImageMoves(c) /\ ~raced
  BY ImagesMove, PastMoves
<1>1. CASE product = "active"
  BY <1>0, <1>1 DEF ImageMoves, PublishedShowsAnImage, LoneSeesTrue
<1>2. CASE product # "active"
  BY <1>0, <1>2 DEF ImageMoves, LoneSeesTrue
<1>. QED
  BY <1>1, <1>2

-----------------------------------------------------------------------------
(* The invariant, and what it says of every run.                           *)

LEMMA UploadsInitially == Init => UploadsInv
<1>. SUFFICES ASSUME Init
              PROVE  UploadsInv
  OBVIOUS
<1>. USE DEF Init
<1>0. /\ \A c \in Clerk : task[c] = Idle
      /\ Is(Idle, "idle", NoUpload, {}) /\ task \in [Clerk -> Tasks]
      /\ Notes = {} /\ Uploading = {} /\ Cardinality({}) = 0
  BY IdleIs, FS_EmptySet DEF Notes, Uploading, Idle, Is
<1>1. Cardinality(Clerk) \in Nat \ {0} /\ MaxImages \in Nat \ {0}
  BY FS_CardinalityType, FS_EmptySet, UploadsAssumption
<1>2. TypeOK
  <2>1. 0 \in 0..(MaxImages + Cardinality(Clerk) - 1)
    BY <1>1
  <2>2. /\ sortOrder \in [Upload -> 0..(MaxImages + Cardinality(Clerk) - 1)]
        /\ \A u \in Upload \ images : sortOrder[u] = 0
    BY <2>1
  <2>3. note \in [Upload -> {"none", "PENDING", "APPROVED"}] /\ drawings \subseteq Notes
    OBVIOUS
  <2>4. raced \in BOOLEAN
    OBVIOUS
  <2>5. /\ product = "draft" /\ images = {} /\ primary = {} /\ Cardinality(primary) <= 1
        /\ bucket \cup left \cup broken = {}
    BY <1>0
  <2>. HIDE DEF Init
  <2>. QED  BY <1>0, <2>2, <2>3, <2>4, <2>5 DEF TypeOK, Tasks, Steps
<1>3. ReachOfUploads
  BY <1>0, <1>1 DEF ReachOfUploads
<1>4. ImagesAreNotNotes /\ RowsHaveObjects /\ OrphansAreAccountedFor /\ PublishedShowsAnImage
  BY DEF ImagesAreNotNotes, RowsHaveObjects, OrphansAreAccountedFor, PublishedShowsAnImage
<1>5. BroughtIsNew /\ DeletionsKnow /\ LoneSeesTrue
  BY <1>0 DEF BroughtIsNew, DeletionsKnow, LoneSeesTrue, Brings, Racing, Is
<1>. QED
  BY <1>2, <1>3, <1>4, <1>5 DEF UploadsInv

LEMMA UploadsStep == UploadsInv /\ [Next]_vars => UploadsInv'
<1>. SUFFICES ASSUME UploadsInv, [Next]_vars
              PROVE  UploadsInv'
  OBVIOUS
<1>. USE DEF UploadsInv
<1>1. ASSUME NEW c \in Clerk, Work(c)
      PROVE  UploadsInv'
  <2>1. TypeOK'
    BY <1>1, TypeStep
  <2>2. ReachOfUploads' /\ ImagesAreNotNotes' /\ BroughtIsNew' /\ DeletionsKnow'
    BY <1>1, <2>1, ReachStep, ImagesAndNotesStep, BroughtStep, DeletionsStep
  <2>3. RowsHaveObjects' /\ OrphansAreAccountedFor' /\ LoneSeesTrue' /\ PublishedShowsAnImage'
    BY <1>1, RowsStep, OrphansStep, LoneStep, PublishedStep
  <2>. QED  BY <2>1, <2>2, <2>3
<1>2. CASE UNCHANGED vars
  <2>. USE <1>2 DEF vars, productVars, noteVars, pastVars
  <2>1. UNCHANGED <<Notes, Uploading>>
    BY DEF Notes, Uploading
  <2>2. TypeOK' /\ ReachOfUploads' /\ ImagesAreNotNotes'
    BY <2>1 DEF TypeOK, ReachOfUploads, ImagesAreNotNotes
  <2>3. BroughtIsNew' /\ DeletionsKnow'
    BY <2>1 DEF BroughtIsNew, DeletionsKnow
  <2>4. RowsHaveObjects' /\ OrphansAreAccountedFor' /\ LoneSeesTrue' /\ PublishedShowsAnImage'
    BY DEF RowsHaveObjects, OrphansAreAccountedFor, LoneSeesTrue, PublishedShowsAnImage, Exists
  <2>. QED  BY <2>2, <2>3, <2>4
<1>. QED
  BY <1>1, <1>2 DEF Next

LEMMA UploadsAlways == Spec => []UploadsInv
  BY UploadsInitially, UploadsStep, PTL DEF Spec

\* Every row, position, object and request has its type; at most one image is
\* the primary one, whatever insertions, edits and deletions overlap
\* (product-images.service.ts:66-95, 174-189).
THEOREM UploadTypes == Spec => []TypeOK
<1>1. UploadsInv => TypeOK
  BY DEF UploadsInv
<1>. QED
  BY <1>1, UploadsAlways, PTL

\* Uploads that each compare the maximum with a count of before their upload
\* pass it by at most one image for every other request at the same time
\* (product-images.service.ts:46-54).
THEOREM ImagesStayWithinReach == Spec => []ImagesWithinReach
<1>1. UploadsInv => ImagesWithinReach
  BY Reach DEF UploadsInv, ImagesWithinReach
<1>. QED
  BY <1>1, UploadsAlways, PTL

\* An image never points to an object that is gone; a drawing does so only
\* while its note is being deleted, or once that has failed
\* (catalog.service.ts:245-247, notes.service.ts:99-102).
THEOREM RowsKeepTheirObjects == Spec => []RowsHaveObjects
<1>1. UploadsInv => RowsHaveObjects
  BY DEF UploadsInv
<1>. QED
  BY <1>1, UploadsAlways, PTL

\* An object that no row points to is in the hands of a request, or is one of
\* those that a failure, a crash or a deletion at the same time left behind
\* (product-images.service.ts:88-90, notes.service.ts:99-102).
THEOREM NoOrphanIsLost == Spec => []OrphansAreAccountedFor
<1>1. UploadsInv => OrphansAreAccountedFor
  BY DEF UploadsInv
<1>. QED
  BY <1>1, UploadsAlways, PTL

\* A published product keeps an image as long as no two publications or
\* deletions of images overlap (product-images.service.ts:174-189).
THEOREM PublishedKeepsAnImage == Spec => []PublishedShowsAnImage
<1>1. UploadsInv => PublishedShowsAnImage
  BY DEF UploadsInv
<1>. QED
  BY <1>1, UploadsAlways, PTL
=============================================================================
