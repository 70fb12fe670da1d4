-------------------------------- MODULE Assets --------------------------------
(***************************************************************************)
(* The files in storage and the rows that show them: images of generations *)
(* and their thumbnails (imageStorageService, creationsController), covers *)
(* of styles (uploadController, styleController), avatars (avatarService), *)
(* their erasure after a row is deleted (creationAssetCleanup) and the     *)
(* scripts that look for files nobody shows (reconcileOrphanedCreations,   *)
(* reconcileOrphanedAvatars).                                              *)
(*                                                                         *)
(* Nothing holds storage and database together: a request stores, then     *)
(* writes its row; a deletion removes the row, then asks of every file     *)
(* whether a row still refers to it, then removes the files; a script      *)
(* lists, asks, and removes at the end.  Every call is an action.  An      *)
(* object is <<folder, name>>; a URL is the object it addresses, or        *)
(* Foreign, one that is not of this storage.                               *)
(***************************************************************************)
EXTENDS Naturals, FiniteSets, Sequences, SequencesExt

CONSTANTS
    Generated,    \* names of images that generations make
    Covers,       \* names of images that administrators upload
    Users,
    Rows,         \* creations and styles at a time
    Callers,     \* requests at a time
    Scripts,      \* runs of the reconciling scripts at a time
    Batch,        \* DELETE_BATCH
    Foreign,
    MaxNames,     \* bound: names of objects in use at a time
    MaxFailures     \* bound: calls that fail and processes that die

Avatar(u) == <<"avatar", u>>
Original(n) == <<"original", n>>
Thumbnail(n) == <<"thumbs", n>>
Objects == ({"original", "thumbs"} \X (Generated \cup Covers)) \cup {Avatar(u) : u \in Users}

Bucket(o) ==
    IF o[1] = "avatar" THEN "avatars"
    ELSE IF o[2] \in Generated THEN "creations" ELSE "style-images"

DeletableBuckets == {"creations", "style-images"}

ASSUME NamesAssumption ==
    /\ Generated \cap Covers = {} /\ (Generated \cup Covers) \cap Users = {}
    /\ Foreign \notin Objects \cup Generated \cup Covers \cup Users
    /\ IsFiniteSet(Generated \cup Covers \cup Users) /\ Callers \cap Scripts = {}
ASSUME BatchAssumption == Batch \in Nat \ {0} /\ {MaxNames, MaxFailures} \subseteq Nat

VARIABLES
    stored,   \* the objects in storage
    young,    \* those less than minAgeHours old
    known,    \* the objects whose URLs clients were given
    row,      \* public.creations and public.styles
    profile,  \* profiles.avatar_url of the accounts there are
    task,     \* what each request and each script is doing
    late,     \* references to an object that was gone or cleared for removal when
              \* they were written, or that DELETE /api/upload took away
    strays,   \* objects that a fault, an edit or a deleted account left behind
    failures

tables == <<row, profile>>
fileHistory == <<late, strays>>
assetVars == <<stored, young, known, tables, task, fileHistory, failures>>

Unused == [kind |-> "none", urls |-> <<>>]
URLs == Objects \cup {Foreign}

Stages == {"idle", "thumb", "insert", "avatar", "checking", "owner", "removing"}

(* name: of the files being stored; todo: URLs to be checked; targets: those
   cleared for removal. *)
NoTask == [at |-> "idle", name |-> Foreign, todo |-> <<>>, targets |-> {}]

AssetsTypeOK ==
    /\ young \subseteq stored /\ stored \subseteq Objects /\ known \subseteq Objects
    /\ row \in [Rows -> [kind : {"none", "creation", "style"}, urls : Seq(URLs)]]
    /\ \A r \in Rows :
        Len(row[r].urls) <= 2 /\ (row[r].kind # "none" <=> row[r].urls # <<>>)
    /\ profile \in [Users -> {"none", "provider", "ours", "gone"}]
    /\ task \in [Callers \cup Scripts ->
                [at : Stages, name : Generated \cup Covers \cup Users \cup {Foreign},
                 todo : Seq(URLs), targets : SUBSET Objects]]
    /\ \A p \in Callers \cup Scripts :
        /\ task[p].at \in {"idle", "thumb", "insert", "avatar"} => task[p].targets = {}
        /\ task[p].at \in {"checking", "owner"} => task[p].todo # <<>>
        /\ p \in Scripts => task[p].at \in {"idle", "checking", "owner", "removing"}
    /\ late \subseteq Rows \X Objects
    /\ strays \subseteq stored
    /\ failures \in 0..MaxFailures

AssetsInit ==
    /\ stored = {} /\ young = {} /\ known = {}
    /\ row = [r \in Rows |-> Unused]
    /\ profile = [u \in Users |-> "provider"]
    /\ task = [p \in Callers \cup Scripts |-> NoTask]
    /\ late = {} /\ strays = {}
    /\ failures = 0

-----------------------------------------------------------------------------
Doing(p, step) == task[p].at = step
Live(r) == row[r].urls # <<>>

Becomes(p, j) == task' = [task EXCEPT ![p] = j]
Done(p) == Becomes(p, NoTask)

Fault == failures < MaxFailures /\ failures' = failures + 1

Store(o) == stored' = stored \cup {o} /\ young' = young \cup ({o} \ stored)
Erase(O) == stored' = stored \ O /\ young' = young \ O
(* O is left in storage, as far as it is there. *)
Stray(O) == strays' = (strays \cup O) \cap stored'

(* isReferenced: any column that can hold the URL. *)
IsReferenced(o) ==
    \/ \E r \in Rows : o \in Range(row[r].urls)
    \/ \E u \in Users : o = Avatar(u) /\ profile[u] = "ours"

(* Objects some job has found unreferenced and not removed yet. *)
Cleared ==
    UNION {task[p].targets \cup (IF Doing(p, "owner") THEN {Head(task[p].todo)} ELSE {})
           : p \in DOMAIN task}

(* A row is written with URLs its writer was handed before. *)
Refer(r, kind, urls) ==
    /\ row' = [row EXCEPT ![r] = [kind |-> kind, urls |-> urls]]
    /\ late' = (late \ ({r} \X Objects)) \cup
               ({r} \X (Range(urls) \cap (Cleared \cup (Objects \ stored))))

-----------------------------------------------------------------------------
(* Names that something still bears. *)
Named ==
    {o[2] : o \in stored \cup known \cup Cleared} \cup
    {task[q].name : q \in Callers} \cup
    {o[2] : o \in UNION {Range(task[p].todo) \ {Foreign} : p \in DOMAIN task}}

RoomFor(n) == Cardinality((Named \cup {n}) \ {Foreign}) <= MaxNames

(* uploadOriginalWithThumbnail, for a generation or for POST /api/upload.
   Names are fresh uuids. *)
StoreOriginal(p, n) ==
    /\ Doing(p, "idle")
    /\ n \notin Named /\ RoomFor(n)
    /\ \/ /\ Store(Original(n))
          /\ Becomes(p, [NoTask EXCEPT !.at = "thumb", !.name = n])
          /\ UNCHANGED <<strays, failures>>
       \/ /\ Fault    \* stored, and the answer lost
          /\ Store(Original(n)) /\ Stray({Original(n)})
          /\ UNCHANGED task
    /\ UNCHANGED <<known, tables, late>>

(* The thumbnail comes after, or not at all.  The URLs of an upload are
   handed to its administrator; a generation writes them itself. *)
Pair(n, withThumbnail) == IF withThumbnail THEN <<Original(n), Thumbnail(n)>> ELSE <<Original(n)>>

Uploaded(p, urls) ==
    IF task[p].name \in Generated
    THEN Becomes(p, [task[p] EXCEPT !.at = "insert", !.todo = urls]) /\ UNCHANGED <<known, strays>>
    ELSE /\ Done(p)
         /\ known' = known \cup Range(urls)
         /\ Stray(Range(urls))   \* until a style shows them

StoreThumbnail(p) ==
    /\ Doing(p, "thumb")
    /\ Store(Thumbnail(task[p].name))
    /\ Uploaded(p, Pair(task[p].name, TRUE))
    /\ UNCHANGED <<tables, late, failures>>

ThumbnailFails(p) ==
    /\ Doing(p, "thumb") /\ Fault
    /\ UNCHANGED <<stored, young>>
    /\ Uploaded(p, Pair(task[p].name, FALSE))
    /\ UNCHANGED <<tables, late>>

(* addCreation, at the end of a generation. *)
AddCreation(p, r) ==
    /\ Doing(p, "insert") /\ row[r] = Unused
    /\ row' = [row EXCEPT ![r] = [kind |-> "creation", urls |-> task[p].todo]]
    /\ known' = known \cup Range(task[p].todo)
    /\ Done(p)
    /\ UNCHANGED <<stored, young, profile, fileHistory, failures>>

(* The INSERT fails, or any call of a generation or of an avatar throws:
   what is stored stays.  Without its row a generation is answered all the
   same, and the client has the URLs. *)
RequestFails(p) ==
    /\ \E step \in {"thumb", "insert", "avatar"} : Doing(p, step)
    /\ Fault /\ Done(p)
    /\ \/ UNCHANGED known
       \/ Doing(p, "insert") /\ known' = known \cup Range(task[p].todo)
    /\ UNCHANGED <<stored, young, tables, late>>
    /\ Stray({o \in stored : o[2] = task[p].name})

(* migrateCreations: a row of the client's own making, one URL. *)
MigrateCreation(r, url) ==
    /\ row[r] = Unused
    /\ Refer(r, "creation", <<url>>)
    /\ UNCHANGED <<stored, young, known, profile, task, strays, failures>>

(* createStyle, updateStyle.  A cover that is replaced stays in storage. *)
SaveStyle(r, urls) ==
    /\ row[r].kind \in {"none", "style"}
    /\ Refer(r, "style", urls)
    /\ UNCHANGED <<stored, young, known, profile, task, failures>>
    /\ Stray(Range(row[r].urls))

(* DELETE /api/upload: deleteOriginalAndThumbnail asks nobody. *)
DeleteUpload(n) ==
    /\ Original(n) \in known
    /\ Erase({Original(n), Thumbnail(n)})
    /\ Stray({})
    /\ late' = late \cup {l \in Rows \X {Original(n), Thumbnail(n)} : l[2] \in Range(row[l[1]].urls)}
    /\ UNCHANGED <<known, tables, task, failures>>

-----------------------------------------------------------------------------
(* deleteCreation, deleteStyle: the row goes first, and its URLs are what
   the DELETE returns. *)
DeleteRow(p, r) ==
    /\ Doing(p, "idle") /\ Live(r)
    /\ row' = [row EXCEPT ![r] = Unused]
    /\ late' = late \ ({r} \X Objects)
    /\ Becomes(p, [NoTask EXCEPT !.at = "checking", !.todo = row[r].urls])
    /\ UNCHANGED <<stored, young, known, profile, strays, failures>>

(* One check too many. *)
CheckedOffByOne(p, targets) ==
    LET rest == Tail(task[p].todo) IN
    IF task[p].todo # <<>>
    THEN Becomes(p, [NoTask EXCEPT !.at = "checking", !.todo = rest, !.targets = targets])
    ELSE IF targets = {} THEN Done(p)
    ELSE Becomes(p, [NoTask EXCEPT !.at = "removing", !.targets = targets])

(* The rest of the URLs, of which no two are the same; after the last, the
   removal. *)
Checked(p, targets) ==
    LET rest == Tail(task[p].todo) IN
    IF rest # <<>>
    THEN Becomes(p, [NoTask EXCEPT !.at = "checking", !.todo = rest, !.targets = targets])
    ELSE IF targets = {} THEN Done(p)
    ELSE Becomes(p, [NoTask EXCEPT !.at = "removing", !.targets = targets])

(* resolveDeletableTargets. *)
Deletable(u) == u # Foreign /\ Bucket(u) \in DeletableBuckets /\ ~IsReferenced(u)

CheckTarget(p) ==
    /\ p \in Callers /\ Doing(p, "checking")
    /\ LET u == Head(task[p].todo) IN
        Checked(p, IF Deletable(u) THEN task[p].targets \cup {u} ELSE task[p].targets)
    /\ UNCHANGED <<stored, young, known, tables, fileHistory, failures>>

(* eraseAssets removes bucket by bucket. *)
Removed(p, O) ==
    /\ Erase(O) /\ Stray({})
    /\ IF task[p].targets = O THEN Done(p)
       ELSE Becomes(p, [task[p] EXCEPT !.targets = @ \ O])

RemoveTargets(p) ==
    /\ p \in Callers /\ Doing(p, "removing")
    /\ \E b \in {Bucket(o) : o \in task[p].targets} :
        Removed(p, {o \in task[p].targets : Bucket(o) = b})
    /\ UNCHANGED <<known, tables, late, failures>>

(* Whatever throws in eraseAssets is caught, logged, and ends it. *)
ErasureFails(p) ==
    /\ p \in Callers /\ (Doing(p, "checking") \/ Doing(p, "removing"))
    /\ Fault /\ Done(p)
    /\ UNCHANGED <<stored, young, known, tables, late>>
    /\ Stray(Range(task[p].todo) \cup task[p].targets)

-----------------------------------------------------------------------------
(* The scripts, run with --delete.  listAllObjects, storage.list. *)
List(k, b) ==
    /\ Doing(k, "idle")
    /\ LET found == {o \in stored : Bucket(o) = b} IN
        /\ found # {}
        /\ Becomes(k, [NoTask EXCEPT !.at = "checking", !.todo = SetToSeq(found)])
    /\ UNCHANGED <<stored, young, known, tables, fileHistory, failures>>

(* The age is a floor: what is young may be about to get its row. *)
TooNewNever(o) == FALSE
TooNew(o) == o \in young

(* One object of the listing: an orphan that is not an avatar is cleared,
   one that is has its owner looked up. A limit may end the loop early. *)
Classify(k) ==
    /\ k \in Scripts /\ Doing(k, "checking")
    /\ LET o == Head(task[k].todo) IN
        IF TooNew(o) \/ IsReferenced(o) THEN Checked(k, task[k].targets)
        ELSE IF Bucket(o) = "avatars" THEN Becomes(k, [task[k] EXCEPT !.at = "owner"])
        ELSE \/ Checked(k, task[k].targets \cup {o})
             \/ Becomes(k, [NoTask EXCEPT !.at = "removing", !.targets = task[k].targets \cup {o}])
    /\ UNCHANGED <<stored, young, known, tables, fileHistory, failures>>

(* userExists. *)
OwnerIgnored(u) == FALSE
UserExists(u) == profile[u] # "gone"

ClassifyOwner(k) ==
    /\ Doing(k, "owner")
    /\ LET o == Head(task[k].todo) IN
        Checked(k, IF UserExists(o[2]) THEN task[k].targets ELSE task[k].targets \cup {o})
    /\ UNCHANGED <<stored, young, known, tables, fileHistory, failures>>

(* Creations go batch by batch, a failed one is passed over; avatars at once. *)
RemoveBatch(k) ==
    /\ k \in Scripts /\ Doing(k, "removing")
    /\ \E O \in SUBSET task[k].targets :
        /\ O # {}
        /\ \/ O = task[k].targets
           \/ Cardinality(O) = Batch /\ \A o \in O : Bucket(o) # "avatars"
        /\ \/ Removed(k, O) /\ UNCHANGED failures
           \/ /\ Fault /\ UNCHANGED <<stored, young, strays>>
              /\ IF O = task[k].targets THEN Done(k)
                 ELSE Becomes(k, [task[k] EXCEPT !.targets = @ \ O])
    /\ UNCHANGED <<known, tables, late>>

(* A listing or a query fails, or the script is stopped. *)
ScriptFails(k) ==
    /\ k \in Scripts /\ ~Doing(k, "idle")
    /\ Fault /\ Done(k)
    /\ UNCHANGED <<stored, young, known, tables, fileHistory>>

-----------------------------------------------------------------------------
(* replaceAvatar: one object for each user, overwritten in place. *)
StoreAvatar(p, u) ==
    /\ Doing(p, "idle") /\ profile[u] # "gone" /\ RoomFor(u)
    /\ Store(Avatar(u))
    /\ Becomes(p, [NoTask EXCEPT !.at = "avatar", !.name = u])
    /\ UNCHANGED <<known, tables, fileHistory, failures>>

SetAvatarUrl(p) ==
    /\ Doing(p, "avatar")
    /\ profile' = [profile EXCEPT ![task[p].name] = IF @ = "gone" THEN @ ELSE "ours"]
    /\ known' = known \cup {Avatar(task[p].name)}
    /\ Done(p)
    /\ UNCHANGED <<stored, young, row, fileHistory, failures>>

(* An account's rows are deleted by hand; its creations go with it. *)
DeleteAccount(u) ==
    /\ profile[u] # "gone"
    /\ profile' = [profile EXCEPT ![u] = "gone"]
    /\ UNCHANGED <<stored, young, known, row, task, late, failures>>
    /\ Stray({Avatar(u)})

(* More than minAgeHours pass; no request lasts that long. *)
AgeAll ==
    /\ young # {}
    /\ \A p \in Callers : task[p].at \notin {"thumb", "insert", "avatar"}
    /\ young' = {}
    /\ UNCHANGED <<stored, known, tables, task, fileHistory, failures>>

(* The server dies, with all its requests. *)
Crash ==
    /\ Fault
    /\ \E p \in Callers : ~Doing(p, "idle")
    /\ task' = [p \in DOMAIN task |-> IF p \in Callers THEN NoTask ELSE task[p]]
    /\ UNCHANGED <<stored, young, known, tables, late>>
    /\ Stray(UNION {{o \in Objects : o[2] = task[p].name} \cup
                    Range(task[p].todo) \cup task[p].targets : p \in Callers})

(* No request comes in. *)
Rest == (\A p \in DOMAIN task : Doing(p, "idle")) /\ UNCHANGED assetVars

AssetsNext ==
    \/ \E p \in Callers :
        \/ \E n \in Generated \cup Covers : StoreOriginal(p, n)
        \/ StoreThumbnail(p)
        \/ ThumbnailFails(p)
        \/ RequestFails(p)
        \/ \E r \in Rows : AddCreation(p, r) \/ DeleteRow(p, r)
        \/ CheckTarget(p)
        \/ RemoveTargets(p)
        \/ ErasureFails(p)
        \/ \E u \in Users : StoreAvatar(p, u)
        \/ SetAvatarUrl(p)
    \/ \E r \in Rows :
        \/ \E url \in known \cup {Foreign} : MigrateCreation(r, url)
        \/ \E n \in Covers, thumbnail \in BOOLEAN :
            Range(Pair(n, thumbnail)) \subseteq known /\ SaveStyle(r, Pair(n, thumbnail))
    \/ \E n \in Covers : DeleteUpload(n)
    \/ \E k \in Scripts :
        \/ \E b \in DeletableBuckets \cup {"avatars"} : List(k, b)
        \/ Classify(k)
        \/ ClassifyOwner(k)
        \/ RemoveBatch(k)
        \/ ScriptFails(k)
    \/ \E u \in Users : DeleteAccount(u)
    \/ AgeAll
    \/ Crash
    \/ Rest

AssetsSpec == AssetsInit /\ [][AssetsNext]_assetVars

(* For TLC: requests and rows can be told apart by nothing but their names. *)
Symmetric == Permutations(Callers) \cup Permutations(Rows)

-----------------------------------------------------------------------------
(* getCreationImage: what a client asking for the image of a row gets; a URL
   is signed only when there is an object. *)
GetCreationImage(r, variant) ==
    LET urls == row[r].urls
        url == IF variant = "thumbnail" THEN urls[Len(urls)] ELSE urls[1]
    IN IF ~Live(r) THEN "not found"
       ELSE IF url = Foreign THEN "not available"
       ELSE IF url \in stored THEN "redirect" ELSE "unavailable"

(* resolveAvatarDelivery. *)
AvatarDelivery(u) ==
    CASE profile[u] \in {"none", "gone"} -> "none"
      [] profile[u] = "provider" -> "external"
      [] OTHER -> IF Avatar(u) \in stored THEN "signed" ELSE "unavailable"

(* A picture that a row shows is never lost to an erasure or a script: it is
   gone only when an administrator deleted the upload itself, or when the
   row took up a URL it had been given earlier, of a file already gone or
   already cleared for removal.  The row of a generation is never such a
   row: the age floor keeps the scripts off what it has just stored
   (isReferenced, eraseAssets, reconcileOrphanedCreations). *)
LossHasACause ==
    \A r \in Rows, variant \in {"original", "thumbnail"} :
        GetCreationImage(r, variant) = "unavailable" =>
            \E o \in Range(row[r].urls) \ stored : <<r, o>> \in late

(* Without a fault nothing that was shown is left behind when its last row
   goes, also when rows share the file and are deleted together: whatever
   nobody refers to is on some job's list, or was left by a fault, an edit
   of a style, an upload no style took or a deleted account
   (deleteCreation, deleteStyle: "the row goes first"). *)
NothingIsLeftBehind ==
    \A o \in stored \ strays :
        \/ IsReferenced(o)
        \/ \E p \in Callers : \/ task[p].name = o[2]
                              \/ o \in Range(task[p].todo) \cup task[p].targets

(* The files match the rows: what a row shows is there, and what is there is
   shown, or its absence and its presence each have a cause. *)
FilesMatchRows == LossHasACause /\ NothingIsLeftBehind

(* No job takes away the avatar of an account there is, whatever rows were
   migrated with its URL and however a script overlaps with an upload
   (DELETABLE_BUCKETS, classifyAvatarObject). *)
AvatarsStay ==
    [][\A u \in Users : /\ AvatarDelivery(u)' # "unavailable"
                        /\ profile[u] # "gone" /\ Avatar(u) \in stored => Avatar(u) \in stored']_assetVars
=============================================================================
