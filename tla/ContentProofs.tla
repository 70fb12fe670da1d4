--------------------------- MODULE ContentProofs ----------------------------
(***************************************************************************)
(* What the app shows: the catalog of styles, and the files of users.      *)
(***************************************************************************)
EXTENDS Catalog, Assets, FiniteSetTheorems, FunctionTheorems, WellFoundedInduction, TLAPS

-----------------------------------------------------------------------------
(***************************************************************************)
(* The files: their types, that files and rows match, and that avatars     *)
(* stay, for every set of names, users, rows, requests and scripts.        *)
(***************************************************************************)

(* What the job of request or script p is, whatever step it is at, where K are
   the files whose URLs were given out and G the deleted accounts: a file in
   the making has a name, a request checks and removes only files of K, and no
   avatars, a script avatars of deleted accounts only. *)
TaskFits(p, j, K, G) ==
    /\ j.at = "idle" => j = NoTask
    /\ j.at = "thumb" => j.name \in Generated \cup Covers
    /\ j.at = "insert" => /\ j.name \in Generated
                          /\ j.todo \in {Pair(j.name, TRUE), Pair(j.name, FALSE)}
    /\ j.at = "avatar" => j.name \in Users
    /\ j.at \in {"checking", "owner", "removing"} => j.name = Foreign
    /\ j.at \notin {"insert", "checking", "owner"} => j.todo = <<>>
    /\ p \in Callers =>
        /\ j.at # "owner"
        /\ j.at = "checking" => Range(j.todo) \subseteq K \cup {Foreign}
        /\ \A o \in j.targets : o \in K /\ Bucket(o) # "avatars"
    /\ p \in Scripts =>
        /\ Range(j.todo) \subseteq Objects
        /\ j.at = "owner" => Bucket(Head(j.todo)) = "avatars"
        /\ \A u \in Users : Avatar(u) \in j.targets => u \in G

Gone == {u \in Users : profile[u] = "gone"}

TasksFit == \A p \in Callers \cup Scripts : TaskFits(p, task[p], known, Gone)

(* Rows show files whose URLs were given out; a file one of them shows is gone
   or cleared for removal only when the record says why. *)
RowsFit ==
    \A r \in Rows :
        /\ Range(row[r].urls) \subseteq known \cup {Foreign}
        /\ \A o \in Range(row[r].urls) :
            o \in Cleared \cup (Objects \ stored) => <<r, o>> \in late

Files(n) == {Original(n), Thumbnail(n)}
Making(j) == j.at \in {"thumb", "insert"}

(* The files in the making: young, with a name of their own, unknown to all
   but their maker, and on the list of a script only when they were stored. *)
Fresh(p) ==
    LET n == task[p].name IN
    /\ Original(n) \in stored /\ Files(n) \cap stored \subseteq young
    /\ Files(n) \cap (known \cup Cleared) = {}
    /\ \A k \in Scripts : Files(n) \cap Range(task[k].todo) \subseteq stored
    /\ \A q \in Callers \ {p} : task[q].name # n
    /\ task[p].at = "thumb" => Thumbnail(n) \notin stored
    /\ task[p].at = "insert" => Files(n) \cap stored = Range(task[p].todo)

FilesFresh == \A p \in Callers : Making(task[p]) => Fresh(p)

(* The avatar of an account that has one is stored; any other is being set or
   was left behind. *)
AvatarsFit ==
    \A u \in Users :
        /\ profile[u] = "ours" => Avatar(u) \in stored
        /\ profile[u] = "gone" /\ Avatar(u) \in stored => Avatar(u) \in strays
        /\ Avatar(u) \in stored \ strays =>
            profile[u] = "ours" \/ \E p \in Callers : task[p].name = u
        /\ \A p \in Callers :
            task[p].at = "avatar" /\ task[p].name = u /\ profile[u] # "gone" => Avatar(u) \in stored

HoldsFile(j, o) == j.name = o[2] \/ o \in Range(j.todo) \cup j.targets

(* An image nobody refers to is on the list of a request, or was left behind. *)
ImagesHeld ==
    \A o \in stored \ strays :
        o[2] \in Generated \cup Covers =>
            IsReferenced(o) \/ \E p \in Callers : HoldsFile(task[p], o)

AssetsIInv == AssetsTypeOK /\ TasksFit /\ RowsFit /\ FilesFresh /\ AvatarsFit /\ ImagesHeld

USE NamesAssumption, BatchAssumption

-----------------------------------------------------------------------------
Names == Generated \cup Covers
Workers == Callers \cup Scripts
Task == [at : Stages, name : Names \cup Users \cup {Foreign}, todo : Seq(URLs),
        targets : SUBSET Objects]
Row == [kind : {"none", "creation", "style"}, urls : Seq(URLs)]

(* What AssetsTypeOK says of one job and of one row. *)
TaskTyped(p, j) ==
    /\ j \in Task
    /\ j.at \in {"idle", "thumb", "insert", "avatar"} => j.targets = {}
    /\ j.at \in {"checking", "owner"} => j.todo # <<>>
    /\ p \in Scripts => j.at \in {"idle", "checking", "owner", "removing"}

RowTyped(w) == w \in Row /\ Len(w.urls) <= 2 /\ (w.kind # "none" <=> w.urls # <<>>)

StorageTyped ==
    /\ young \subseteq stored /\ stored \subseteq Objects /\ known \subseteq Objects
    /\ late \subseteq Rows \X Objects /\ strays \subseteq stored
    /\ failures \in 0..MaxFailures

TasksTyped == DOMAIN task = Workers /\ task = [p \in Workers |-> task[p]] /\ \A p \in Workers : TaskTyped(p, task[p])
RowsTyped == DOMAIN row = Rows /\ row = [r \in Rows |-> row[r]] /\ \A r \in Rows : RowTyped(row[r])
ProfilesTyped == profile \in [Users -> {"none", "provider", "ours", "gone"}]

AssetsFit ==
    /\ StorageTyped /\ TasksTyped /\ RowsTyped /\ ProfilesTyped
    /\ TasksFit /\ RowsFit /\ FilesFresh /\ AvatarsFit /\ ImagesHeld

LEMMA AssetsParts == AssetsIInv <=> AssetsFit
  <1>1. TasksTyped <=>
            /\ task \in [Workers -> Task]
            /\ \A p \in Workers :
                /\ task[p].at \in {"idle", "thumb", "insert", "avatar"} => task[p].targets = {}
                /\ task[p].at \in {"checking", "owner"} => task[p].todo # <<>>
                /\ p \in Scripts => task[p].at \in {"idle", "checking", "owner", "removing"}
    BY DEF TasksTyped, TaskTyped
  <1>2. RowsTyped <=>
            /\ row \in [Rows -> Row]
            /\ \A r \in Rows : Len(row[r].urls) <= 2 /\ (row[r].kind # "none" <=> row[r].urls # <<>>)
    BY DEF RowsTyped, RowTyped
  <1> QED
    BY <1>1, <1>2 DEF AssetsIInv, AssetsFit, AssetsTypeOK, StorageTyped, ProfilesTyped, Workers, Task, Row, Names

LEMMA AssetsPartsNext == AssetsIInv' <=> AssetsFit'
  BY AssetsParts, PTL

(* The objects: of a name its image and the thumbnail of it, of a user one
   avatar. *)
LEMMA NamedObjects ==
    /\ \A n \in Names : /\ Original(n) \in Objects /\ Thumbnail(n) \in Objects
                        /\ Original(n) # Thumbnail(n)
                        /\ Original(n)[2] = n /\ Thumbnail(n)[2] = n
                        /\ \A o \in Objects : o[2] = n => o = Original(n) \/ o = Thumbnail(n)
    /\ \A u \in Users : /\ Avatar(u) \in Objects /\ Avatar(u)[2] = u
                        /\ \A o \in Objects : o[2] = u => o = Avatar(u)
    /\ \A o \in Objects : o[2] \in Names \/ o[2] \in Users
    /\ \A n \in Names : n \notin Users /\ n # Foreign
    /\ \A u \in Users : u # Foreign
    /\ Foreign \notin Objects
  BY DEF Names, Objects, Original, Thumbnail, Avatar

LEMMA Buckets ==
    /\ \A n \in Names : Bucket(Original(n)) # "avatars" /\ Bucket(Thumbnail(n)) # "avatars"
    /\ \A u \in Users : Bucket(Avatar(u)) = "avatars" /\ Bucket(Avatar(u)) \notin DeletableBuckets
    /\ \A o \in Objects : \/ Bucket(o) \in DeletableBuckets /\ Bucket(o) # "avatars" /\ o[2] \in Names
                         \/ \E u \in Users : o = Avatar(u)
  BY DEF Names, Objects, Original, Thumbnail, Avatar, Bucket, DeletableBuckets
LEMMA PairURLs ==
    ASSUME NEW n \in Names, NEW b \in BOOLEAN
    PROVE  /\ Pair(n, b) # <<>> /\ Len(Pair(n, b)) <= 2 /\ Pair(n, b) \in Seq(URLs)
           /\ Original(n) \in Range(Pair(n, b)) /\ Range(Pair(n, b)) \subseteq Files(n)
           /\ b = TRUE => Range(Pair(n, b)) = Files(n)
           /\ b = FALSE => Range(Pair(n, b)) = {Original(n)}
  <1>1. Original(n) \in URLs /\ Thumbnail(n) \in URLs
    BY NamedObjects DEF URLs
  <1>2. CASE b = TRUE
    <2>1. PICK s : s = <<Original(n), Thumbnail(n)>>
      OBVIOUS
    <2>2. s = Pair(n, b)
      BY <1>2, <2>1 DEF Pair
    <2>3. s \in Seq(URLs) /\ Len(s) = 2 /\ Len(s) <= 2 /\ s # <<>> /\ DOMAIN s = 1..2
      BY <1>1, <2>1
    <2>4. s[1] = Original(n) /\ s[2] = Thumbnail(n)
      BY <2>1
    <2>5. Range(s) = Files(n)
      BY <2>3, <2>4 DEF Range, Files
    <2>6. b # FALSE
      BY <1>2
    <2>7. Original(n) \in Range(s) /\ Range(s) \subseteq Files(n)
      BY <2>5 DEF Files
    <2> QED
      BY <2>2, <2>3, <2>5, <2>6, <2>7
  <1>3. CASE b = FALSE
    <2>1. PICK s : s = <<Original(n)>>
      OBVIOUS
    <2>2. s = Pair(n, b)
      BY <1>3, <2>1 DEF Pair
    <2>3. s \in Seq(URLs) /\ Len(s) = 1 /\ Len(s) <= 2 /\ s # <<>> /\ DOMAIN s = 1..1
      BY <1>1, <2>1
    <2>4. s[1] = Original(n)
      BY <2>1
    <2>5. Range(s) = {Original(n)}
      BY <2>3, <2>4 DEF Range
    <2>6. b # TRUE
      BY <1>3
    <2>7. Original(n) \in Range(s) /\ Range(s) \subseteq Files(n)
      BY <2>5 DEF Files
    <2> QED
      BY <2>2, <2>3, <2>5, <2>6, <2>7
  <1> QED
    BY <1>2, <1>3

(* The first of a list, and the others. *)
LEMMA HeadAndRest ==
    ASSUME NEW s \in Seq(URLs), s # <<>>
    PROVE  /\ Head(s) \in Range(s) /\ Tail(s) \in Seq(URLs)
           /\ Range(s) = {Head(s)} \cup Range(Tail(s))
  <1>1. /\ Tail(s) \in Seq(URLs) /\ Len(s) \in Nat \ {0} /\ DOMAIN s = 1..Len(s)
        /\ Head(s) = s[1] /\ DOMAIN Tail(s) = 1..(Len(s) - 1)
        /\ \A i \in 1..(Len(s) - 1) : Tail(s)[i] = s[i + 1]
    OBVIOUS
  <1>2. Head(s) \in Range(s)
    BY <1>1 DEF Range
  <1>3. Range(Tail(s)) \subseteq Range(s)
    BY <1>1 DEF Range
  <1>4. ASSUME NEW x \in Range(s), x # Head(s)
        PROVE  x \in Range(Tail(s))
    <2>1. PICK i \in 1..Len(s) : x = s[i]
      BY <1>1 DEF Range
    <2>2. i - 1 \in 1..(Len(s) - 1) /\ Tail(s)[i - 1] = x
      BY <1>1, <1>4, <2>1
    <2> QED
      BY <1>1, <2>2 DEF Range
  <1> QED
    BY <1>1, <1>2, <1>3, <1>4

LEMMA NothingListed == Range(<<>>) = {} /\ <<>> \in Seq(URLs) /\ Len(<<>>) = 0
  BY DEF Range

LEMMA ObjectsFinite == IsFiniteSet(Objects)
  <1>1. IsFiniteSet(Names) /\ IsFiniteSet(Users)
    BY FS_Subset, Names \in SUBSET (Generated \cup Covers \cup Users),
       Users \in SUBSET (Generated \cup Covers \cup Users) DEF Names
  <1>2. IsFiniteSet({"original", "thumbs"})
    <2>1. IsFiniteSet({"original"})
      BY FS_Singleton
    <2>2. IsFiniteSet({"original"} \cup {"thumbs"})
      BY <2>1, FS_AddElement
    <2> QED
      BY <2>2
  <1>3. IsFiniteSet({"original", "thumbs"} \X Names)
    BY <1>1, <1>2, FS_Product
  <1>4. IsFiniteSet({Avatar(u) : u \in Users})
    <2> DEFINE f == [u \in Users |-> Avatar(u)]
    <2>1. f \in Surjection(Users, {Avatar(u) : u \in Users})
      BY DEF Surjection
    <2> QED
      BY <1>1, <2>1, FS_Surjection
  <1> QED
    BY <1>3, <1>4, FS_Union DEF Objects, Names

(* A listing is a sequence of what is listed. *)
LEMMA ListingIs ==
    ASSUME NEW S \in SUBSET Objects, S # {}
    PROVE  SetToSeq(S) \in Seq(URLs) /\ SetToSeq(S) # <<>> /\ Range(SetToSeq(S)) \subseteq S
  <1>1. IsFiniteSet(S)
    BY ObjectsFinite, FS_Subset
  <1> DEFINE N == Cardinality(S)
  <1>2. N \in Nat /\ ExistsBijection(1..N, S) /\ N # 0
    BY <1>1, FS_CardinalityType, FS_EmptySet
  <1>3. PICK g : g \in Bijection(1..N, S)
    BY <1>2 DEF ExistsBijection
  <1>4. g \in [1..N -> S] /\ IsInjective(g)
    BY <1>3 DEF Bijection, Injection, Surjection, IsInjective
  <1>5. PICK s : s = SetToSeq(S)
    OBVIOUS
  <1>6. s \in [1..N -> S]
    BY <1>4, <1>5 DEF SetToSeq
  <1> HIDE DEF N
  <1>7. s \in Seq(S) /\ Len(s) = N
    BY <1>2, <1>6
  <1>8. s \in Seq(URLs) /\ s # <<>>
    BY <1>2, <1>6, <1>7 DEF URLs
  <1>9. Range(s) \subseteq S
    BY <1>6 DEF Range
  <1> QED
    BY <1>5, <1>8, <1>9
-----------------------------------------------------------------------------
(* What a job has cleared for removal. *)
ClearedBy(j) == j.targets \cup (IF j.at = "owner" THEN {Head(j.todo)} ELSE {})

LEMMA ClearedIs == TasksTyped => \A o : o \in Cleared <=> \E p \in Workers : o \in ClearedBy(task[p])
  BY DEF Cleared, ClearedBy, TasksTyped, Doing

LEMMA ClearedIsNext ==
    TasksTyped' => \A o : o \in Cleared' <=> \E p \in Workers : o \in ClearedBy(task'[p])
  BY DEF Cleared, ClearedBy, TasksTyped, Doing

LEMMA ClearedAreObjects == TasksTyped /\ TasksFit => Cleared \subseteq Objects
  <1> SUFFICES ASSUME TasksTyped, TasksFit, NEW o \in Cleared
               PROVE  o \in Objects
    OBVIOUS
  <1>1. PICK p \in Workers : o \in ClearedBy(task[p])
    BY ClearedIs
  <1>2. TaskTyped(p, task[p]) /\ TaskFits(p, task[p], known, Gone)
    BY DEF TasksTyped, TasksFit, Workers
  <1>3. task[p].targets \subseteq Objects /\ task[p].todo \in Seq(URLs)
    BY <1>2 DEF TaskTyped, Task
  <1>4. CASE task[p].at = "owner"
    <2>1. p \in Scripts /\ Range(task[p].todo) \subseteq Objects /\ task[p].todo # <<>>
      BY <1>2, <1>4 DEF Workers, TaskTyped, TaskFits
    <2>2. Head(task[p].todo) \in Objects
      BY <1>3, <2>1, HeadAndRest
    <2> QED
      BY <1>1, <1>3, <1>4, <2>2 DEF ClearedBy
  <1> QED
    BY <1>1, <1>3, <1>4 DEF ClearedBy

(* A job that changes: what is cleared was before, or is by what it became. *)
LEMMA ClearedChanges ==
    ASSUME TasksTyped, TasksTyped', NEW p \in Workers,
           \A q \in Workers \ {p} : task'[q] = task[q]
    PROVE  \A o \in Cleared' : o \in Cleared \/ o \in ClearedBy(task'[p])
  BY ClearedIs, ClearedIsNext

LEMMA NoTaskTyped ==
    \A p \in Workers : \A K, G : TaskTyped(p, NoTask) /\ TaskFits(p, NoTask, K, G) /\ ClearedBy(NoTask) = {}
  <1>1. NoTask \in Task /\ NoTask.at = "idle" /\ NoTask.targets = {} /\ NoTask.todo = <<>>
        /\ NoTask.name = Foreign
    BY NothingListed DEF NoTask, Task, Stages
  <1> QED
    BY <1>1, NothingListed DEF TaskTyped, TaskFits, ClearedBy

(* Jobs keep fitting, whatever is given out and whoever leaves. *)
LEMMA TasksKept ==
    ASSUME TasksTyped, TasksFit, known \subseteq known', Gone \subseteq Gone',
           DOMAIN task' = Workers, task' = [p \in Workers |-> task'[p]],
           \A p \in Workers : \/ task'[p] = task[p]
                              \/ TaskTyped(p, task'[p]) /\ TaskFits(p, task'[p], known', Gone')
    PROVE  TasksTyped' /\ TasksFit'
  <1> SUFFICES ASSUME NEW p \in Workers
               PROVE  TaskTyped(p, task'[p]) /\ TaskFits(p, task'[p], known', Gone')
    BY DEF TasksTyped, TasksFit, Workers
  <1>1. TaskTyped(p, task[p]) /\ TaskFits(p, task[p], known, Gone)
    BY DEF TasksTyped, TasksFit, Workers
  <1>2. TaskFits(p, task[p], known', Gone')
    BY <1>1 DEF TaskFits
  <1> QED
    BY <1>1, <1>2

(* Rows that do not change keep their pictures, or the record says why not. *)
LEMMA RowsKept ==
    ASSUME RowsTyped, RowsFit, row' = row, known \subseteq known', late \subseteq late',
           \A r \in Rows : \A o \in Range(row[r].urls) :
               o \in Cleared' \cup (Objects \ stored') =>
                   o \in Cleared \cup (Objects \ stored) \/ <<r, o>> \in late'
    PROVE  RowsTyped' /\ RowsFit'
  BY DEF RowsTyped, RowsFit

(* A file in the making stays one. *)
LEMMA FreshKept ==
    ASSUME NEW p \in Callers, Fresh(p), task'[p] = task[p],
           \A o \in Files(task[p].name) :
               /\ o \in stored' <=> o \in stored
               /\ o \in stored => o \in young'
               /\ o \notin known' \cup Cleared'
               /\ \A k \in Scripts : o \in Range(task'[k].todo) => o \in stored,
           \A q \in Callers \ {p} : task'[q].name # task[p].name
    PROVE  Fresh(p)'
  BY DEF Fresh, Files

(* Avatars stay as they are when nothing takes one away but those of deleted
   accounts. *)
LEMMA AvatarsKept ==
    ASSUME AvatarsFit, profile' = profile,
           \A u \in Users : /\ Avatar(u) \in stored' => Avatar(u) \in stored
                            /\ Avatar(u) \in stored \ stored' => profile[u] = "gone",
           strays \cap stored' \subseteq strays',
           \A q \in Callers : task'[q] = task[q] \/
               /\ task'[q].at # "avatar"
               /\ \A u \in Users : task[q].name = u => Avatar(u) \notin stored' \ strays'
    PROVE  AvatarsFit'
  <1> SUFFICES ASSUME NEW u \in Users
               PROVE  /\ profile[u] = "ours" => Avatar(u) \in stored'
                      /\ profile[u] = "gone" /\ Avatar(u) \in stored' => Avatar(u) \in strays'
                      /\ Avatar(u) \in stored' \ strays' =>
                          profile[u] = "ours" \/ \E p \in Callers : task'[p].name = u
                      /\ \A p \in Callers :
                          task'[p].at = "avatar" /\ task'[p].name = u /\ profile[u] # "gone" =>
                              Avatar(u) \in stored'
    BY DEF AvatarsFit
  <1> QED
    BY DEF AvatarsFit

(* Images stay held when whatever a request lets go of is shown, or left
   behind. *)
LEMMA ImagesKept ==
    ASSUME ImagesHeld,
           \A o \in stored' \ strays' : o[2] \in Names =>
               \/ o \in stored \ strays
               \/ \E p \in Callers : HoldsFile(task'[p], o),
           \A o \in stored' \ strays' : o[2] \in Names /\ IsReferenced(o) =>
               IsReferenced(o)' \/ \E p \in Callers : HoldsFile(task'[p], o),
           \A o \in stored' \ strays', q \in Callers : o[2] \in Names /\ HoldsFile(task[q], o) =>
               IsReferenced(o)' \/ HoldsFile(task'[q], o)
    PROVE  ImagesHeld'
  <1> SUFFICES ASSUME NEW o \in stored' \ strays', o[2] \in Names
               PROVE  IsReferenced(o)' \/ \E p \in Callers : HoldsFile(task'[p], o)
    BY DEF ImagesHeld, Names, HoldsFile
  <1> QED
    BY DEF ImagesHeld, Names
LEMMA AssetsInitIInv == AssetsInit => AssetsIInv
  <1> SUFFICES ASSUME AssetsInit PROVE AssetsFit
    BY AssetsParts
  <1> USE DEF AssetsInit
  <1>1. TasksTyped /\ TasksFit /\ \A p \in Workers : task[p] = NoTask
    BY NoTaskTyped DEF TasksTyped, TasksFit, Workers
  <1>2. Unused \in Row /\ Unused.urls = <<>> /\ Unused.kind = "none"
    BY NothingListed DEF Unused, Row
  <1>3. RowsTyped /\ RowsFit
    BY <1>2, NothingListed DEF RowsTyped, RowTyped, RowsFit
  <1>4. StorageTyped /\ ProfilesTyped
    BY DEF StorageTyped, ProfilesTyped
  <1>5. FilesFresh /\ AvatarsFit /\ ImagesHeld
    BY <1>1 DEF FilesFresh, AvatarsFit, ImagesHeld, Making, NoTask, Workers
  <1> QED
    BY <1>1, <1>3, <1>4, <1>5 DEF AssetsFit

-----------------------------------------------------------------------------
(* Whose name a job bears. *)
LEMMA NameIs ==
    ASSUME NEW p, NEW j, NEW K, NEW G, TaskTyped(p, j), TaskFits(p, j, K, G)
    PROVE  /\ ~Making(j) /\ j.at # "avatar" => j.name = Foreign
           /\ Making(j) => j.name \in Names
           /\ j.at = "avatar" => j.name \in Users
           /\ p \in Callers => ClearedBy(j) = j.targets /\ j.targets \subseteq K
  <1>1. NoTask.name = Foreign
    BY DEF NoTask
  <1>2. j.at \in {"idle", "thumb", "insert", "avatar", "checking", "owner", "removing"}
    BY DEF TaskTyped, Task, Stages
  <1>3. /\ ~Making(j) /\ j.at # "avatar" => j.name = Foreign
        /\ Making(j) => j.name \in Names
        /\ j.at = "avatar" => j.name \in Users
    BY <1>1, <1>2 DEF TaskFits, Making, Names
  <1>4. p \in Callers => j.at # "owner" /\ \A o \in j.targets : o \in K
    BY DEF TaskFits
  <1> QED
    BY <1>3, <1>4 DEF ClearedBy

LEMMA FitsOf ==
    ASSUME TasksTyped, TasksFit, NEW p \in Workers
    PROVE  /\ TaskTyped(p, task[p]) /\ TaskFits(p, task[p], known, Gone)
           /\ ~Making(task[p]) /\ task[p].at # "avatar" => task[p].name = Foreign
           /\ Making(task[p]) => task[p].name \in Names
           /\ task[p].at = "avatar" => task[p].name \in Users
           /\ p \in Callers => ClearedBy(task[p]) = task[p].targets /\ task[p].targets \subseteq known
  <1>1. TaskTyped(p, task[p]) /\ TaskFits(p, task[p], known, Gone)
    BY DEF TasksTyped, TasksFit, Workers
  <1> QED
    BY <1>1, NameIs

(* A step of one job that touches neither file nor row: what it clears no row
   shows, and is known, or old and on its list; what a request drops is shown,
   or is no image. *)
LEMMA TaskStep ==
    ASSUME AssetsFit, NEW p \in Workers, NEW j, TaskTyped(p, j), TaskFits(p, j, known, Gone),
           task' = [task EXCEPT ![p] = j],
           ~Making(task[p]), task[p].at # "avatar", j.at \notin {"thumb", "insert", "avatar"},
           UNCHANGED <<stored, young, known, row, profile, late, strays>>,
           failures' \in 0..MaxFailures,
           \A o \in ClearedBy(j) : o \in Cleared \/ ~IsReferenced(o),
           p \in Scripts => Range(j.todo) \subseteq stored \cup Range(task[p].todo),
           p \in Scripts => \A o \in ClearedBy(j) :
               o \in Cleared \/ (o \notin young /\ o \in Range(task[p].todo)),
           p \in Callers => \A o \in Objects : HoldsFile(task[p], o) /\ o[2] \in Names =>
                                        HoldsFile(j, o) \/ IsReferenced(o)
    PROVE  AssetsFit'
  <1> USE DEF AssetsFit
  <1>1. /\ task' = [q \in Workers |-> task'[q]] /\ DOMAIN task' = Workers
        /\ task'[p] = j /\ \A q \in Workers \ {p} : task'[q] = task[q]
    BY DEF TasksTyped
  <1>2. Gone' = Gone
    BY DEF Gone
  <1>3. TasksTyped' /\ TasksFit'
    BY <1>1, <1>2, TasksKept
  <1>4. \A o \in Cleared' : o \in Cleared \/ o \in ClearedBy(j)
    BY <1>1, <1>3, ClearedChanges
  <1>5. RowsTyped' /\ RowsFit'
    BY <1>4, RowsKept DEF IsReferenced
  <1>6. /\ j.name = Foreign /\ task[p].name = Foreign
        /\ p \in Callers => ClearedBy(j) \subseteq known
    BY NameIs, FitsOf DEF Making
  <1>7. ASSUME NEW q \in Callers, Making(task'[q])
        PROVE  Fresh(q)'
    <2>1. q \in Workers /\ q # p /\ task'[q] = task[q] /\ Fresh(q)
      BY <1>1, <1>7 DEF Workers, Making, FilesFresh
    <2> DEFINE n == task[q].name
    <2>2. n \in Names /\ n # Foreign
      BY <1>7, <2>1, FitsOf, NamedObjects
    <2>3. ASSUME NEW o \in Files(n)
          PROVE  (o \in stored => o \in young) /\ o \notin known \cup Cleared
      BY <2>1 DEF Fresh
    <2>4. ASSUME NEW o \in Files(n), NEW k \in Scripts, o \in Range(task'[k].todo)
          PROVE  o \in stored
      <3>1. \A l \in Scripts : o \in Range(task[l].todo) => o \in stored
        BY <2>1 DEF Fresh
      <3> QED
        BY <1>1, <2>4, <3>1 DEF Workers
    <2>5. ASSUME NEW o \in Files(n)
          PROVE  o \notin Cleared'
      <3>1. SUFFICES ASSUME o \in ClearedBy(j), o \notin Cleared, o \notin known
                     PROVE  FALSE
        BY <1>4, <2>3
      <3>2. p \in Scripts
        BY <1>6, <3>1 DEF Workers
      <3>3. o \notin young /\ o \in Range(task[p].todo)
        BY <3>1, <3>2
      <3> QED
        BY <2>1, <2>3, <3>2, <3>3 DEF Fresh
    <2>6. \A r \in Callers \ {q} : task'[r].name # n
      BY <1>1, <1>6, <2>1, <2>2 DEF Fresh, Workers
    <2> QED
      BY <2>1, <2>3, <2>4, <2>5, <2>6, FreshKept
  <1>8. FilesFresh'
    BY <1>7 DEF FilesFresh
  <1>9. AvatarsFit'
    <2>1. \A q \in Callers :
              \/ task'[q] = task[q]
              \/ task'[q].at # "avatar" /\ \A u \in Users : task[q].name # u
      BY <1>1, <1>6, NamedObjects DEF Workers
    <2> QED
      BY <2>1, AvatarsKept
  <1>10. ImagesHeld'
    <2>1. \A o : IsReferenced(o)' <=> IsReferenced(o)
      BY DEF IsReferenced
    <2>2. \A o \in stored, q \in Callers : o[2] \in Names /\ HoldsFile(task[q], o) =>
              IsReferenced(o) \/ HoldsFile(task'[q], o)
      BY <1>1 DEF Workers, StorageTyped
    <2> QED
      BY <2>1, <2>2, ImagesKept
  <1>11. StorageTyped' /\ ProfilesTyped'
    BY DEF StorageTyped, ProfilesTyped
  <1> QED
    BY <1>3, <1>5, <1>8, <1>9, <1>10, <1>11
-----------------------------------------------------------------------------
(* What the checks and the scripts write is a job. *)
LEMMA Made ==
    ASSUME NEW a \in Stages, NEW s \in Seq(URLs), NEW T \in SUBSET Objects
    PROVE  [at |-> a, name |-> Foreign, todo |-> s, targets |-> T] \in Task
  BY DEF Task

LEMMA NoTaskIs == /\ NoTask.at = "idle" /\ NoTask.name = Foreign /\ NoTask.todo = <<>> /\ NoTask.targets = {}
                  /\ ~Making(NoTask) /\ \A o \in Objects : ~HoldsFile(NoTask, o)
  BY NothingListed, NamedObjects DEF NoTask, HoldsFile, Making

(* One more URL checked: T is what is cleared by then. *)
LEMMA CheckedStep ==
    ASSUME AssetsFit, NEW p \in Workers, task[p].at \in {"checking", "owner"},
           NEW T \in SUBSET Objects, Checked(p, T),
           UNCHANGED <<stored, young, known, tables, fileHistory, failures>>,
           \A o \in T : o \in Cleared \/ ~IsReferenced(o),
           p \in Scripts => \A o \in T :
               o \in Cleared \/ (o \notin young /\ o \in Range(task[p].todo)),
           p \in Scripts => \A u \in Users : Avatar(u) \in T => u \in Gone,
           p \in Callers => \A o \in T : o \in known /\ Bucket(o) # "avatars",
           p \in Callers =>
               /\ task[p].targets \subseteq T
               /\ LET u == Head(task[p].todo) IN
                   u \in Objects /\ u[2] \in Names => u \in T \/ IsReferenced(u)
    PROVE  AssetsFit'
  <1> USE DEF AssetsFit
  <1> DEFINE todo == task[p].todo
  <1>1. TaskTyped(p, task[p]) /\ TaskFits(p, task[p], known, Gone)
    BY FitsOf
  <1>2. todo \in Seq(URLs) /\ todo # <<>>
    BY <1>1 DEF TaskTyped, Task
  <1>3. /\ Head(todo) \in Range(todo) /\ Tail(todo) \in Seq(URLs)
        /\ Range(todo) = {Head(todo)} \cup Range(Tail(todo))
    BY <1>2, HeadAndRest
  <1>4. ~Making(task[p]) /\ task[p].at # "avatar" /\ task[p].name = Foreign
    BY <1>1, FitsOf DEF Making
  <1>5. p \in Callers => Range(todo) \subseteq known \cup {Foreign}
    BY <1>1 DEF TaskFits
  <1>6. p \in Scripts => Range(todo) \subseteq Objects
    BY <1>1 DEF TaskFits
  <1>7. failures' \in 0..MaxFailures /\ UNCHANGED <<stored, young, known, row, profile, late, strays>>
    BY DEF StorageTyped, tables, fileHistory
  <1>8. p \in Callers => \A o \in Objects : HoldsFile(task[p], o) /\ o[2] \in Names =>
            o \in T \cup Range(Tail(todo)) \/ IsReferenced(o)
    BY <1>3, <1>4, NamedObjects DEF HoldsFile
  <1>9. CASE Tail(todo) # <<>>
    <2>1. PICK j : j = [NoTask EXCEPT !.at = "checking", !.todo = Tail(todo), !.targets = T]
      OBVIOUS
    <2>2. j \in Task /\ j.at = "checking" /\ j.name = Foreign /\ j.todo = Tail(todo) /\ j.targets = T
      <3>1. j = [at |-> "checking", name |-> Foreign, todo |-> Tail(todo), targets |-> T]
        BY <2>1 DEF NoTask
      <3>2. "checking" \in Stages
        BY DEF Stages
      <3> QED
        BY <1>3, <3>1, <3>2, Made
    <2>3. task' = [task EXCEPT ![p] = j]
      BY <1>9, <2>1 DEF Checked, Becomes
    <2>4. TaskTyped(p, j)
      BY <1>9, <2>2 DEF TaskTyped
    <2>5. TaskFits(p, j, known, Gone)
      BY <1>3, <1>5, <1>6, <2>2 DEF TaskFits
    <2>6. ClearedBy(j) = T /\ \A o : o \in T \cup Range(Tail(todo)) => HoldsFile(j, o)
      BY <2>2 DEF ClearedBy, HoldsFile
    <2>7. p \in Scripts => Range(j.todo) \subseteq stored \cup Range(task[p].todo)
      BY <1>3, <2>2
    <2>8. j.at \notin {"thumb", "insert", "avatar"}
      BY <2>2
    <2> QED
      BY <1>4, <1>7, <1>8, <2>3, <2>4, <2>5, <2>6, <2>7, <2>8, TaskStep
  <1>10. CASE Tail(todo) = <<>> /\ T # {}
    <2>1. PICK j : j = [NoTask EXCEPT !.at = "removing", !.targets = T]
      OBVIOUS
    <2>2. j \in Task /\ j.at = "removing" /\ j.name = Foreign /\ j.todo = <<>> /\ j.targets = T
      <3>1. j = [at |-> "removing", name |-> Foreign, todo |-> <<>>, targets |-> T]
        BY <2>1 DEF NoTask
      <3>2. "removing" \in Stages
        BY DEF Stages
      <3> QED
        BY <3>1, <3>2, Made, NothingListed
    <2>3. task' = [task EXCEPT ![p] = j]
      BY <1>10, <2>1 DEF Checked, Becomes
    <2>4. TaskTyped(p, j)
      BY <2>2 DEF TaskTyped
    <2>5. TaskFits(p, j, known, Gone)
      BY NothingListed, <2>2 DEF TaskFits
    <2>6. ClearedBy(j) = T /\ \A o : o \in T \cup Range(Tail(todo)) => HoldsFile(j, o)
      BY <1>10, <2>2, NothingListed DEF ClearedBy, HoldsFile
    <2>7. p \in Scripts => Range(j.todo) \subseteq stored \cup Range(task[p].todo)
      BY NothingListed, <2>2
    <2>8. j.at \notin {"thumb", "insert", "avatar"}
      BY <2>2
    <2> QED
      BY <1>4, <1>7, <1>8, <2>3, <2>4, <2>5, <2>6, <2>7, <2>8, TaskStep
  <1>11. CASE Tail(todo) = <<>> /\ T = {}
    <2>1. task' = [task EXCEPT ![p] = NoTask]
      BY <1>11 DEF Checked, Done, Becomes
    <2>2. TaskTyped(p, NoTask) /\ TaskFits(p, NoTask, known, Gone) /\ ClearedBy(NoTask) = {}
      BY NoTaskTyped
    <2>3. p \in Scripts => Range(NoTask.todo) \subseteq stored \cup Range(task[p].todo)
      BY NoTaskIs, NothingListed
    <2>4. p \in Callers => \A o \in Objects : HoldsFile(task[p], o) /\ o[2] \in Names => IsReferenced(o)
      BY <1>8, <1>11, NothingListed
    <2>5. NoTask.at \notin {"thumb", "insert", "avatar"}
      BY NoTaskIs
    <2> QED
      BY <1>4, <1>7, <2>1, <2>2, <2>3, <2>4, <2>5, TaskStep
  <1> QED
    BY <1>9, <1>10, <1>11
-----------------------------------------------------------------------------
(* What is shown to one who asks, of an avatar: its owner's profile. *)
LEMMA Unshown ==
    ASSUME NEW u \in URLs, Deletable(u)
    PROVE  u \in Objects /\ ~IsReferenced(u) /\ Bucket(u) # "avatars"
  BY DEF Deletable, URLs, DeletableBuckets

LEMMA CheckTargetStep ==
    ASSUME AssetsFit, NEW p \in Callers, CheckTarget(p)
    PROVE  AssetsFit'
  <1> DEFINE u == Head(task[p].todo)
             T == IF Deletable(u) THEN task[p].targets \cup {u} ELSE task[p].targets
  <1>1. /\ p \in Workers /\ task[p].at = "checking" /\ Checked(p, T)
        /\ UNCHANGED <<stored, young, known, tables, fileHistory, failures>>
    BY DEF CheckTarget, Doing, Workers
  <1>2. TaskTyped(p, task[p]) /\ TaskFits(p, task[p], known, Gone)
    BY <1>1, FitsOf DEF AssetsFit
  <1>3. /\ task[p].todo \in Seq(URLs) /\ task[p].todo # <<>> /\ task[p].targets \subseteq Objects
        /\ Range(task[p].todo) \subseteq known \cup {Foreign}
        /\ \A o \in task[p].targets : o \in known /\ Bucket(o) # "avatars"
    BY <1>1, <1>2 DEF TaskTyped, TaskFits, Task
  <1>4. u \in URLs /\ u \in known \cup {Foreign}
    <2>1. u \in Range(task[p].todo)
      BY <1>3, HeadAndRest
    <2> QED
      BY <1>3, <2>1, NamedObjects DEF URLs, AssetsFit, StorageTyped
  <1>5. T \in SUBSET Objects /\ \A o \in T : o \in known /\ Bucket(o) # "avatars"
    BY <1>3, <1>4, Unshown, NamedObjects
  <1>6. \A o \in T : o \in Cleared \/ ~IsReferenced(o)
    BY <1>1, <1>4, Unshown, ClearedIs DEF AssetsFit, ClearedBy
  <1>7. task[p].targets \subseteq T
    OBVIOUS
  <1>8. u \in Objects /\ u[2] \in Names => u \in T \/ IsReferenced(u)
    <2> SUFFICES ASSUME u \in Objects, u[2] \in Names, ~IsReferenced(u)
                 PROVE  Deletable(u)
      OBVIOUS
    <2>1. u # Foreign
      BY NamedObjects
    <2>2. Bucket(u) \in DeletableBuckets
      BY Buckets, NamedObjects
    <2> QED
      BY <2>1, <2>2 DEF Deletable
  <1>9. p \notin Scripts
    BY NamesAssumption
  <1> HIDE DEF T, u
  <1> QED
    BY <1>1, <1>5, <1>6, <1>7, <1>8, <1>9, CheckedStep DEF u

LEMMA ListStep ==
    ASSUME AssetsFit, NEW k \in Scripts, NEW b, List(k, b)
    PROVE  AssetsFit'
  <1> USE DEF AssetsFit
  <1> DEFINE found == {o \in stored : Bucket(o) = b}
  <1>1. /\ k \in Workers /\ k \notin Callers /\ task[k].at = "idle" /\ found # {}
        /\ found \in SUBSET Objects
        /\ UNCHANGED <<stored, young, known, row, profile, late, strays>>
        /\ failures' \in 0..MaxFailures
    BY DEF List, Doing, Workers, StorageTyped, tables, fileHistory
  <1>2. PICK s : s = SetToSeq(found)
    OBVIOUS
  <1>3. s \in Seq(URLs) /\ s # <<>> /\ Range(s) \subseteq found
    BY <1>1, <1>2, ListingIs
  <1>4. PICK j : j = [NoTask EXCEPT !.at = "checking", !.todo = s]
    OBVIOUS
  <1>5. j \in Task /\ j.at = "checking" /\ j.name = Foreign /\ j.todo = s /\ j.targets = {}
    <2>1. j = [at |-> "checking", name |-> Foreign, todo |-> s, targets |-> {}]
      BY <1>4 DEF NoTask
    <2>2. "checking" \in Stages
      BY DEF Stages
    <2> QED
      BY <1>3, <2>1, <2>2, Made
  <1>6. task' = [task EXCEPT ![k] = j]
    BY <1>2, <1>4 DEF List, Becomes
  <1>7. TaskTyped(k, j)
    BY <1>3, <1>5 DEF TaskTyped
  <1>8. TaskFits(k, j, known, Gone)
    BY <1>1, <1>3, <1>5 DEF TaskFits
  <1>9. ClearedBy(j) = {} /\ Range(j.todo) \subseteq stored /\ j.at \notin {"thumb", "insert", "avatar"}
    BY <1>3, <1>5 DEF ClearedBy
  <1>10. ~Making(task[k]) /\ task[k].at # "avatar"
    BY <1>1 DEF Making
  <1> HIDE DEF found
  <1> QED
    BY <1>1, <1>6, <1>7, <1>8, <1>9, <1>10, TaskStep

LEMMA ClassifyStep ==
    ASSUME AssetsFit, NEW k \in Scripts, Classify(k)
    PROVE  AssetsFit'
  <1> USE DEF AssetsFit
  <1> DEFINE o == Head(task[k].todo)
             T == task[k].targets \cup {o}
  <1>1. /\ k \in Workers /\ k \notin Callers /\ task[k].at = "checking"
        /\ UNCHANGED <<stored, young, known, tables, fileHistory, failures>>
    BY DEF Classify, Doing, Workers
  <1>2. TaskTyped(k, task[k]) /\ TaskFits(k, task[k], known, Gone)
    BY <1>1, FitsOf
  <1>3. /\ task[k].todo \in Seq(URLs) /\ task[k].todo # <<>> /\ task[k].targets \in SUBSET Objects
        /\ Range(task[k].todo) \subseteq Objects
        /\ \A u \in Users : Avatar(u) \in task[k].targets => u \in Gone
    BY <1>1, <1>2 DEF TaskTyped, Task, TaskFits, Workers
  <1>4. o \in Range(task[k].todo) /\ o \in Objects
    BY <1>3, HeadAndRest
  <1>5. \A x \in task[k].targets : x \in Cleared
    BY <1>1, ClearedIs DEF ClearedBy
  <1>6. UNCHANGED <<stored, young, known, row, profile, late, strays>> /\ failures' \in 0..MaxFailures
    BY <1>1 DEF tables, fileHistory, StorageTyped
  <1>7. CASE o \in young \/ IsReferenced(o)
    <2>1. Checked(k, task[k].targets)
      BY <1>7 DEF Classify, TooNew
    <2> HIDE DEF o, T
    <2> QED
      BY <1>1, <1>3, <1>5, <2>1, CheckedStep
  <1>8. CASE ~(o \in young \/ IsReferenced(o)) /\ Bucket(o) = "avatars"
    <2>1. PICK j : j = [task[k] EXCEPT !.at = "owner"]
      OBVIOUS
    <2>2. task' = [task EXCEPT ![k] = j]
      BY <1>8, <2>1 DEF Classify, TooNew, Becomes
    <2>3. j \in Task
      BY <1>2, <2>1 DEF TaskTyped, Task, Stages
    <2>4. /\ j.at = "owner" /\ j.name = task[k].name /\ j.todo = task[k].todo
          /\ j.targets = task[k].targets
      BY <1>2, <2>1 DEF TaskTyped, Task
    <2>5. TaskTyped(k, j)
      BY <1>3, <2>3, <2>4 DEF TaskTyped
    <2>6. task[k].name = Foreign
      BY <1>1, <1>2 DEF TaskFits
    <2>7. TaskFits(k, j, known, Gone)
      BY <1>1, <1>3, <1>8, <2>4, <2>6 DEF TaskFits
    <2>8. \A x \in ClearedBy(j) : x \in Cleared \/ x = o
      BY <1>5, <2>4 DEF ClearedBy
    <2>9. ~Making(task[k]) /\ task[k].at # "avatar" /\ j.at \notin {"thumb", "insert", "avatar"}
      BY <1>1, <2>4 DEF Making
    <2>10. Range(j.todo) \subseteq stored \cup Range(task[k].todo)
      BY <2>4
    <2> HIDE DEF o, T
    <2> QED
      BY <1>1, <1>4, <1>6, <1>8, <2>2, <2>5, <2>7, <2>8, <2>9, <2>10, TaskStep
  <1>9. CASE ~(o \in young \/ IsReferenced(o)) /\ Bucket(o) # "avatars"
    <2>1. \/ Checked(k, T)
          \/ Becomes(k, [NoTask EXCEPT !.at = "removing", !.targets = T])
      BY <1>9 DEF Classify, TooNew
    <2>2. T \in SUBSET Objects /\ \A u \in Users : Avatar(u) \in T => u \in Gone
      BY <1>3, <1>4, <1>9, Buckets
    <2>3. \A x \in T : x \in Cleared \/ (~IsReferenced(x) /\ x \notin young /\ x \in Range(task[k].todo))
      BY <1>4, <1>5, <1>9
    <2> HIDE DEF o, T
    <2>4. CASE Checked(k, T)
      BY <1>1, <2>2, <2>3, <2>4, CheckedStep
    <2>5. CASE Becomes(k, [NoTask EXCEPT !.at = "removing", !.targets = T])
      <3>1. PICK j : j = [NoTask EXCEPT !.at = "removing", !.targets = T]
        OBVIOUS
      <3>2. task' = [task EXCEPT ![k] = j]
        BY <2>5, <3>1 DEF Becomes
      <3>3. j \in Task /\ j.at = "removing" /\ j.name = Foreign /\ j.todo = <<>> /\ j.targets = T
        <4>1. j = [at |-> "removing", name |-> Foreign, todo |-> <<>>, targets |-> T]
          BY <3>1 DEF NoTask
        <4>2. "removing" \in Stages
          BY DEF Stages
        <4> QED
          BY <2>2, <4>1, <4>2, Made, NothingListed
      <3>4. TaskTyped(k, j)
        BY <3>3 DEF TaskTyped
      <3>5. TaskFits(k, j, known, Gone)
        BY <1>1, <2>2, <3>3, NothingListed DEF TaskFits
      <3>6. ClearedBy(j) = T /\ Range(j.todo) \subseteq stored \cup Range(task[k].todo)
        BY <3>3, NothingListed DEF ClearedBy
      <3>7. ~Making(task[k]) /\ task[k].at # "avatar" /\ j.at \notin {"thumb", "insert", "avatar"}
        BY <1>1, <3>3 DEF Making
      <3> QED
        BY <1>1, <1>6, <2>3, <3>2, <3>4, <3>5, <3>6, <3>7, TaskStep
    <2> QED
      BY <2>1, <2>4, <2>5
  <1> QED
    BY <1>7, <1>8, <1>9

LEMMA ClassifyOwnerStep ==
    ASSUME AssetsFit, NEW k \in Scripts, ClassifyOwner(k)
    PROVE  AssetsFit'
  <1> USE DEF AssetsFit
  <1> DEFINE o == Head(task[k].todo)
             T == IF UserExists(o[2]) THEN task[k].targets ELSE task[k].targets \cup {o}
  <1>1. /\ k \in Workers /\ k \notin Callers /\ task[k].at = "owner" /\ Checked(k, T)
        /\ UNCHANGED <<stored, young, known, tables, fileHistory, failures>>
    BY DEF ClassifyOwner, Doing, Workers
  <1>2. TaskTyped(k, task[k]) /\ TaskFits(k, task[k], known, Gone)
    BY <1>1, FitsOf
  <1>3. /\ task[k].todo \in Seq(URLs) /\ task[k].todo # <<>> /\ task[k].targets \in SUBSET Objects
        /\ Range(task[k].todo) \subseteq Objects /\ Bucket(o) = "avatars"
        /\ \A u \in Users : Avatar(u) \in task[k].targets => u \in Gone
    BY <1>1, <1>2 DEF TaskTyped, Task, TaskFits, Workers
  <1>4. o \in Objects
    BY <1>3, HeadAndRest
  <1>5. PICK v \in Users : o = Avatar(v)
    BY <1>3, <1>4, Buckets
  <1>6. \A x \in T : x \in Cleared
    BY <1>1, ClearedIs DEF ClearedBy
  <1>7. ~UserExists(o[2]) => v \in Gone
    BY <1>5, NamedObjects DEF UserExists, Gone
  <1>8. T \in SUBSET Objects
    BY <1>3, <1>4
  <1>9. \A u \in Users : Avatar(u) \in T => u \in Gone
    BY <1>3, <1>5, <1>7, NamedObjects
  <1> HIDE DEF o, T
  <1> QED
    BY <1>1, <1>6, <1>8, <1>9, CheckedStep

LEMMA ScriptFailsStep ==
    ASSUME AssetsFit, NEW k \in Scripts, ScriptFails(k)
    PROVE  AssetsFit'
  <1> USE DEF AssetsFit
  <1>1. /\ k \in Workers /\ k \notin Callers /\ task' = [task EXCEPT ![k] = NoTask]
        /\ UNCHANGED <<stored, young, known, row, profile, late, strays>>
        /\ failures' \in 0..MaxFailures
    BY DEF ScriptFails, Done, Becomes, Fault, Workers, StorageTyped, tables, fileHistory
  <1>2. ~Making(task[k]) /\ task[k].at # "avatar"
    BY <1>1, FitsOf DEF TaskTyped, Making
  <1>3. TaskTyped(k, NoTask) /\ TaskFits(k, NoTask, known, Gone) /\ ClearedBy(NoTask) = {}
        /\ NoTask.at \notin {"thumb", "insert", "avatar"} /\ Range(NoTask.todo) \subseteq stored
    BY <1>1, NoTaskTyped, NoTaskIs, NothingListed
  <1> QED
    BY <1>1, <1>2, <1>3, TaskStep
-----------------------------------------------------------------------------
(* A job takes away files it has cleared, in part or all of them. *)
LEMMA RemovedStep ==
    ASSUME AssetsFit, NEW p \in Workers, task[p].at = "removing",
           NEW O \in SUBSET task[p].targets, Removed(p, O),
           UNCHANGED <<known, tables, late>>, failures' = failures
    PROVE  AssetsFit'
  <1> USE DEF AssetsFit
  <1>1. TaskTyped(p, task[p]) /\ TaskFits(p, task[p], known, Gone)
    BY FitsOf
  <1>2. /\ task[p].targets \subseteq Objects /\ task[p].name = Foreign /\ task[p].todo = <<>>
        /\ O \subseteq Objects /\ \A o \in O : o \in Cleared
        /\ p \in Callers => \A o \in O : Bucket(o) # "avatars"
        /\ p \in Scripts => \A u \in Users : Avatar(u) \in O => u \in Gone
    BY <1>1, ClearedIs DEF TaskTyped, Task, TaskFits, ClearedBy
  <1>3. /\ stored' = stored \ O /\ young' = young \ O /\ strays' = strays \cap stored'
        /\ UNCHANGED <<known, row, profile, late, failures>>
    BY DEF Removed, Erase, Stray, tables
  <1>4. PICK j : j = [task[p] EXCEPT !.targets = @ \ O]
    OBVIOUS
  <1>5. /\ j \in Task /\ j.at = "removing" /\ j.name = Foreign /\ j.todo = <<>>
        /\ j.targets = task[p].targets \ O
    <2>1. j \in Task
      BY <1>1, <1>4 DEF TaskTyped, Task
    <2> QED
      BY <1>1, <1>2, <1>4, <2>1 DEF TaskTyped, Task
  <1>6. PICK now : now = task'[p]
    OBVIOUS
  <1>7. /\ task' = [q \in Workers |-> task'[q]] /\ DOMAIN task' = Workers
        /\ \A q \in Workers \ {p} : task'[q] = task[q]
        /\ \/ now = NoTask /\ O = task[p].targets
           \/ now = j
    BY <1>4, <1>6 DEF TasksTyped, Removed, Done, Becomes
  <1>8. TaskTyped(p, j) /\ TaskFits(p, j, known, Gone)
    <2>1. TaskTyped(p, j)
      BY <1>5 DEF TaskTyped
    <2> QED
      BY <1>1, <1>5, <2>1, NothingListed DEF TaskFits
  <1>9. /\ TaskTyped(p, now) /\ TaskFits(p, now, known, Gone)
        /\ ClearedBy(now) \subseteq task[p].targets /\ now.name = Foreign
        /\ \A o \in Objects \ O : o \in task[p].targets => o \in now.targets
        /\ Range(now.todo) = {} /\ now.at # "avatar" /\ ~Making(now)
    <2>1. CASE now = j
      BY <1>5, <1>8, <2>1, NothingListed DEF ClearedBy, Making
    <2>2. CASE now = NoTask /\ O = task[p].targets
      BY <2>2, NoTaskTyped, NoTaskIs, NothingListed
    <2> QED
      BY <1>7, <2>1, <2>2
  <1>10. Gone' = Gone
    BY <1>3 DEF Gone
  <1>11. TasksTyped' /\ TasksFit'
    BY <1>3, <1>6, <1>7, <1>9, <1>10, TasksKept
  <1>12. \A o \in Cleared' : o \in Cleared
    BY <1>1, <1>6, <1>7, <1>9, <1>11, ClearedChanges, ClearedIs DEF ClearedBy
  <1>13. RowsTyped' /\ RowsFit'
    BY <1>2, <1>3, <1>12, RowsKept
  <1>14. ASSUME NEW q \in Callers, Making(task'[q])
         PROVE  Fresh(q)'
    <2>1. q \in Workers /\ q # p /\ task'[q] = task[q] /\ Fresh(q)
      BY <1>6, <1>7, <1>9, <1>14 DEF Workers, FilesFresh
    <2> DEFINE n == task[q].name
    <2>2. n # Foreign
      BY <1>14, <2>1, FitsOf, NamedObjects
    <2>3. ASSUME NEW o \in Files(n)
          PROVE  /\ o \notin known \cup Cleared /\ o \notin O
                 /\ o \in stored => o \in young
                 /\ \A k \in Scripts : o \in Range(task[k].todo) => o \in stored
      BY <1>2, <2>1 DEF Fresh
    <2>4. ASSUME NEW o \in Files(n), NEW k \in Scripts, o \in Range(task'[k].todo)
          PROVE  o \in stored
      BY <1>6, <1>7, <1>9, <2>3, <2>4 DEF Workers
    <2>5. \A r \in Callers \ {q} : task'[r].name # n
      BY <1>6, <1>7, <1>9, <2>1, <2>2 DEF Fresh, Workers
    <2> QED
      BY <1>3, <1>12, <2>1, <2>3, <2>4, <2>5, FreshKept
  <1>15. FilesFresh'
    BY <1>14 DEF FilesFresh
  <1>16. AvatarsFit'
    <2>1. \A q \in Callers :
              \/ task'[q] = task[q]
              \/ task'[q].at # "avatar" /\ \A u \in Users : task[q].name # u
      BY <1>2, <1>6, <1>7, <1>9, NamedObjects DEF Workers
    <2>2. \A u \in Users : Avatar(u) \in stored \ stored' => profile[u] = "gone"
      BY <1>2, <1>3, Buckets DEF Gone, Workers
    <2> QED
      BY <1>3, <2>1, <2>2, AvatarsKept
  <1>17. ImagesHeld'
    <2>1. \A o : IsReferenced(o)' <=> IsReferenced(o)
      BY <1>3 DEF IsReferenced
    <2>2. \A o \in stored', q \in Callers : o[2] \in Names /\ HoldsFile(task[q], o) => HoldsFile(task'[q], o)
      <3> SUFFICES ASSUME NEW o \in stored', NEW q \in Callers, o[2] \in Names, HoldsFile(task[q], o)
                   PROVE  HoldsFile(task'[q], o)
        OBVIOUS
      <3>1. o \in Objects \ O /\ o[2] # Foreign
        BY <1>3, NamedObjects DEF StorageTyped
      <3>2. CASE q = p
        BY <1>2, <1>6, <1>9, <3>1, <3>2, NothingListed DEF HoldsFile
      <3> QED
        BY <1>7, <3>2 DEF Workers
    <2>3. stored' \ strays' \subseteq stored \ strays
      BY <1>3
    <2> QED
      BY <2>1, <2>2, <2>3, ImagesKept
  <1>18. StorageTyped' /\ ProfilesTyped'
    BY <1>3 DEF StorageTyped, ProfilesTyped
  <1> QED
    BY <1>11, <1>13, <1>15, <1>16, <1>17, <1>18

LEMMA RemoveTargetsStep ==
    ASSUME AssetsFit, NEW p \in Callers, RemoveTargets(p)
    PROVE  AssetsFit'
  <1>1. PICK b : Removed(p, {o \in task[p].targets : Bucket(o) = b})
    BY DEF RemoveTargets
  <1>2. p \in Workers /\ task[p].at = "removing" /\ UNCHANGED <<known, tables, late, failures>>
    BY DEF RemoveTargets, Doing, Workers
  <1> QED
    BY <1>1, <1>2, RemovedStep

LEMMA RemoveBatchStep ==
    ASSUME AssetsFit, NEW k \in Scripts, RemoveBatch(k)
    PROVE  AssetsFit'
  <1> USE DEF AssetsFit
  <1>1. k \in Workers /\ k \notin Callers /\ task[k].at = "removing" /\ UNCHANGED <<known, tables, late>>
    BY DEF RemoveBatch, Doing, Workers
  <1>2. PICK O \in SUBSET task[k].targets :
            \/ Removed(k, O) /\ UNCHANGED failures
            \/ /\ Fault /\ UNCHANGED <<stored, young, strays>>
               /\ IF O = task[k].targets THEN Done(k)
                  ELSE Becomes(k, [task[k] EXCEPT !.targets = @ \ O])
    BY DEF RemoveBatch
  <1>3. CASE Removed(k, O) /\ UNCHANGED failures
    BY <1>1, <1>3, RemovedStep
  <1>4. CASE /\ Fault /\ UNCHANGED <<stored, young, strays>>
             /\ IF O = task[k].targets THEN Done(k)
                ELSE Becomes(k, [task[k] EXCEPT !.targets = @ \ O])
    <2>1. TaskTyped(k, task[k]) /\ TaskFits(k, task[k], known, Gone)
      BY <1>1, FitsOf
    <2>2. /\ UNCHANGED <<stored, young, known, row, profile, late, strays>>
          /\ failures' \in 0..MaxFailures
      BY <1>1, <1>4 DEF Fault, StorageTyped, tables
    <2>3. ~Making(task[k]) /\ task[k].at # "avatar"
      BY <1>1 DEF Making
    <2>4. CASE O = task[k].targets
      <3>1. task' = [task EXCEPT ![k] = NoTask]
        BY <1>4, <2>4 DEF Done, Becomes
      <3>2. TaskTyped(k, NoTask) /\ TaskFits(k, NoTask, known, Gone) /\ ClearedBy(NoTask) = {}
            /\ NoTask.at \notin {"thumb", "insert", "avatar"} /\ Range(NoTask.todo) \subseteq stored
        BY <1>1, NoTaskTyped, NoTaskIs, NothingListed
      <3> QED
        BY <1>1, <2>2, <2>3, <3>1, <3>2, TaskStep
    <2>5. CASE O # task[k].targets
      <3>1. PICK j : j = [task[k] EXCEPT !.targets = @ \ O]
        OBVIOUS
      <3>2. task' = [task EXCEPT ![k] = j]
        BY <1>4, <2>5, <3>1 DEF Becomes
      <3>3. j \in Task
        BY <2>1, <3>1 DEF TaskTyped, Task
      <3>4. /\ j.at = "removing" /\ j.name = Foreign /\ j.todo = <<>>
            /\ j.targets = task[k].targets \ O
        BY <1>1, <2>1, <3>1 DEF TaskTyped, Task, TaskFits
      <3>5. TaskTyped(k, j)
        BY <3>3, <3>4 DEF TaskTyped
      <3>6. TaskFits(k, j, known, Gone)
        BY <1>1, <2>1, <3>4, NothingListed DEF TaskFits
      <3>7. \A o \in ClearedBy(j) : o \in Cleared
        BY <1>1, <3>4, ClearedIs DEF ClearedBy
      <3>8. Range(j.todo) \subseteq stored /\ j.at \notin {"thumb", "insert", "avatar"}
        BY <3>4, NothingListed
      <3> QED
        BY <1>1, <2>2, <2>3, <3>2, <3>5, <3>6, <3>7, <3>8, TaskStep
    <2> QED
      BY <2>4, <2>5
  <1> QED
    BY <1>2, <1>3, <1>4
-----------------------------------------------------------------------------
(* A step that clears nothing and touches no file but those of one name: the
   other files in the making stay what they are. *)
LEMMA Frame ==
    ASSUME AssetsFit, NEW m, known \subseteq known', Gone \subseteq Gone',
           DOMAIN task' = Workers, task' = [q \in Workers |-> task'[q]],
           \A q \in Workers :
               \/ task'[q] = task[q]
               \/ /\ TaskTyped(q, task'[q]) /\ TaskFits(q, task'[q], known', Gone')
                  /\ q \in Callers /\ ClearedBy(task'[q]) = {},
           \A q \in Callers : task'[q] = task[q] /\ Making(task[q]) =>
               /\ task[q].name # m
               /\ \A r \in Callers \ {q} : task'[r].name = task[r].name \/ task'[r].name # task[q].name,
           \A o \in Objects : o[2] # m =>
               /\ o \in stored' <=> o \in stored
               /\ o \in young => o \in young'
               /\ o \in known' => o \in known
    PROVE  /\ TasksTyped' /\ TasksFit' /\ Cleared' \subseteq Cleared
           /\ \A q \in Callers : task'[q] = task[q] /\ Making(task[q]) => Fresh(q)'
  <1> USE DEF AssetsFit
  <1>1. TasksTyped' /\ TasksFit'
    BY TasksKept
  <1>2. ASSUME NEW o \in Cleared'
        PROVE  o \in Cleared
    <2>1. PICK q \in Workers : o \in ClearedBy(task'[q])
      BY <1>1, ClearedIsNext
    <2>2. task'[q] = task[q]
      BY <2>1
    <2> QED
      BY <2>1, <2>2, ClearedIs
  <1>3. ASSUME NEW q \in Callers, task'[q] = task[q], Making(task[q])
        PROVE  Fresh(q)'
    <2> DEFINE n == task[q].name
    <2>1. Fresh(q) /\ q \in Workers /\ n \in Names /\ n # m
      BY <1>3, FitsOf DEF FilesFresh, Workers
    <2>2. ASSUME NEW o \in Files(n)
          PROVE  /\ o \in stored' <=> o \in stored
                 /\ o \in stored => o \in young'
                 /\ o \notin known'
      <3>1. o \in Objects /\ o[2] = n
        BY <2>1, NamedObjects DEF Files
      <3>2. (o \in stored => o \in young) /\ o \notin known
        BY <2>1 DEF Fresh
      <3> QED
        BY <2>1, <3>1, <3>2
    <2>3. \A o \in Files(n) : o \notin Cleared'
      BY <1>2, <2>1 DEF Fresh
    <2>4. \A k \in Scripts : task'[k] = task[k]
      BY NamesAssumption DEF Workers
    <2>5. \A o \in Files(n), k \in Scripts : o \in Range(task'[k].todo) => o \in stored
      BY <2>1, <2>4 DEF Fresh
    <2>6. \A r \in Callers \ {q} : task'[r].name # n
      BY <1>3, <2>1 DEF Fresh
    <2> QED
      BY <1>3, <2>1, <2>2, <2>3, <2>5, <2>6, FreshKept
  <1> QED
    BY <1>1, <1>2, <1>3

(* The same, of a step of one request. *)
LEMMA RequestFrame ==
    ASSUME AssetsFit, NEW p \in Callers, NEW j, NEW m, task' = [task EXCEPT ![p] = j],
           TaskTyped(p, j), TaskFits(p, j, known', Gone'), ClearedBy(j) = {},
           known \subseteq known', Gone \subseteq Gone',
           \A q \in Callers \ {p} : Making(task[q]) => task[q].name # m /\ task[q].name # j.name,
           Making(j) => task[p] # j,
           \A o \in Objects : o[2] # m =>
               /\ o \in stored' <=> o \in stored
               /\ o \in young => o \in young'
               /\ o \in known' => o \in known
    PROVE  /\ task'[p] = j /\ \A q \in Workers \ {p} : task'[q] = task[q]
           /\ TasksTyped' /\ TasksFit' /\ Cleared' \subseteq Cleared
           /\ \A q \in Callers \ {p} : Making(task'[q]) => Fresh(q)'
           /\ ~Making(j) => FilesFresh'
  <1>1. /\ DOMAIN task' = Workers /\ task' = [q \in Workers |-> task'[q]]
        /\ p \in Workers /\ task'[p] = j /\ \A q \in Workers \ {p} : task'[q] = task[q]
    BY DEF AssetsFit, TasksTyped, Workers
  <1>2. \A q \in Callers : task'[q] = task[q] /\ Making(task[q]) =>
            /\ task[q].name # m
            /\ \A r \in Callers \ {q} : task'[r].name = task[r].name \/ task'[r].name # task[q].name
    BY <1>1 DEF Workers
  <1>. \A q \in Workers :
            \/ task'[q] = task[q]
            \/ /\ TaskTyped(q, task'[q]) /\ TaskFits(q, task'[q], known', Gone')
               /\ q \in Callers /\ ClearedBy(task'[q]) = {}
    BY <1>1
  <1>3. /\ TasksTyped' /\ TasksFit' /\ Cleared' \subseteq Cleared
        /\ \A q \in Callers : task'[q] = task[q] /\ Making(task[q]) => Fresh(q)'
    BY <1>1, <1>2, Frame
  <1>4. \A q \in Callers \ {p} : Making(task'[q]) => Fresh(q)'
    BY <1>1, <1>3 DEF Workers
  <1> QED
    BY <1>1, <1>3, <1>4 DEF FilesFresh

(* A request stops, and what it held of storage is left behind; its client may
   have been given the URLs K of one name that no other is in the making of. *)
LEMMA LetGoStep ==
    ASSUME AssetsFit, NEW p \in Callers, NEW O, NEW m, NEW K \in SUBSET Objects,
           Done(p), Stray(O), Fault,
           UNCHANGED <<stored, young, tables, late>>, known' = known \cup K,
           \A o \in K : o[2] = m,
           \A q \in Callers \ {p} : Making(task[q]) => task[q].name # m,
           \A o \in stored : HoldsFile(task[p], o) => o \in O
    PROVE  AssetsFit'
  <1> USE DEF AssetsFit
  <1>1. /\ task' = [task EXCEPT ![p] = NoTask] /\ strays' = (strays \cup O) \cap stored
        /\ UNCHANGED <<stored, young, row, profile, late>> /\ failures' \in 0..MaxFailures
        /\ known' = known \cup K /\ Gone' = Gone /\ p \in Workers
    BY DEF Done, Becomes, Stray, Fault, StorageTyped, tables, Gone, Workers
  <1>2. /\ TaskTyped(p, NoTask) /\ TaskFits(p, NoTask, known', Gone') /\ ClearedBy(NoTask) = {}
        /\ ~Making(NoTask) /\ NoTask.name = Foreign /\ NoTask.at = "idle"
    BY <1>1, NoTaskTyped, NoTaskIs
  <1>3. /\ \A q \in Callers \ {p} : Making(task[q]) => task[q].name # m /\ task[q].name # NoTask.name
        /\ Making(NoTask) => task[p] # NoTask
    BY <1>2, FitsOf, NamedObjects DEF Workers
  <1>. /\ known \subseteq known' /\ Gone \subseteq Gone'
       /\ \A o \in Objects : o[2] # m =>
            /\ o \in stored' <=> o \in stored
            /\ o \in young => o \in young'
            /\ o \in known' => o \in known
    BY <1>1
  <1>4. /\ task'[p] = NoTask /\ \A q \in Workers \ {p} : task'[q] = task[q]
        /\ TasksTyped' /\ TasksFit' /\ Cleared' \subseteq Cleared /\ FilesFresh'
    BY <1>1, <1>2, <1>3, RequestFrame, ZenonT(40)
  <1>5. RowsTyped' /\ RowsFit'
    BY <1>1, <1>4, RowsKept
  <1>6. AvatarsFit'
    <2>1. ASSUME NEW u \in Users, task[p].name = u
          PROVE  Avatar(u) \notin stored' \ strays'
      BY <1>1, <2>1, NamedObjects DEF HoldsFile
    <2>2. \A q \in Callers : \/ task'[q] = task[q]
                             \/ /\ task'[q].at # "avatar"
                                /\ \A u \in Users : task[q].name = u => Avatar(u) \notin stored' \ strays'
      BY <1>2, <1>4, <2>1 DEF Workers
    <2> QED
      BY <1>1, <2>2, AvatarsKept
  <1>7. ImagesHeld'
    <2>1. \A o : IsReferenced(o)' <=> IsReferenced(o)
      BY <1>1 DEF IsReferenced
    <2>2. \A o \in stored' \ strays', q \in Callers : HoldsFile(task[q], o) => HoldsFile(task'[q], o)
      BY <1>1, <1>4 DEF Workers
    <2> QED
      BY <1>1, <2>1, <2>2, ImagesKept
  <1>8. StorageTyped' /\ ProfilesTyped'
    BY <1>1 DEF StorageTyped, ProfilesTyped
  <1> QED
    BY <1>4, <1>5, <1>6, <1>7, <1>8

LEMMA RequestFailsStep ==
    ASSUME AssetsFit, NEW p \in Callers, RequestFails(p)
    PROVE  AssetsFit'
  <1> USE DEF AssetsFit
  <1> DEFINE n == task[p].name
             O == {o \in stored : o[2] = n}
  <1>1. /\ task[p].at \in {"thumb", "insert", "avatar"} /\ p \in Workers
        /\ Done(p) /\ Stray(O) /\ Fault /\ UNCHANGED <<stored, young, tables, late>>
        /\ known' = known \/ (task[p].at = "insert" /\ known' = known \cup Range(task[p].todo))
    BY DEF RequestFails, Doing, Workers
  <1>2. TaskTyped(p, task[p]) /\ TaskFits(p, task[p], known, Gone)
    BY <1>1, FitsOf
  <1>3. /\ task[p].targets = {} /\ \A o \in Range(task[p].todo) : o[2] = n
        /\ Range(task[p].todo) \subseteq Objects
    <2>1. CASE task[p].at = "insert"
      <3>1. task[p].name \in Names /\ \E b \in BOOLEAN : task[p].todo = Pair(n, b)
        BY <1>2, <2>1 DEF TaskFits, Names
      <3>2. Range(task[p].todo) \subseteq Files(n)
        BY <3>1, PairURLs
      <3> QED
        BY <1>2, <2>1, <3>1, <3>2, NamedObjects DEF Files, TaskTyped
    <2>2. CASE task[p].at # "insert"
      BY <1>1, <1>2, <2>2, NothingListed DEF TaskTyped, TaskFits
    <2> QED
      BY <2>1, <2>2
  <1>4. \A o \in stored : HoldsFile(task[p], o) => o \in O
    BY <1>3 DEF HoldsFile
  <1> HIDE DEF O
  <1>5. CASE known' = known
    <2>1. \A q \in Callers \ {p} : Making(task[q]) => task[q].name # Foreign
      BY FitsOf, NamedObjects DEF Workers
    <2>2. known' = known \cup {}
      BY <1>5
    <2> QED
      BY <1>1, <1>4, <2>1, <2>2, LetGoStep
  <1>6. CASE task[p].at = "insert" /\ known' = known \cup Range(task[p].todo)
    <2>1. \A q \in Callers \ {p} : Making(task[q]) => task[q].name # n
      BY <1>6 DEF FilesFresh, Making, Fresh
    <2>2. PICK K \in SUBSET Objects : K = Range(task[p].todo)
      BY <1>3
    <2>3. /\ \A o \in K : o[2] = n
          /\ \A q \in Callers \ {p} : Making(task[q]) => task[q].name # n
          /\ known' = known \cup K
      BY <1>3, <1>6, <2>1, <2>2
    <2> QED
      BY <1>1, <1>4, <2>3, LetGoStep
  <1> QED
    BY <1>1, <1>5, <1>6

LEMMA ErasureFailsStep ==
    ASSUME AssetsFit, NEW p \in Callers, ErasureFails(p)
    PROVE  AssetsFit'
  <1> USE DEF AssetsFit
  <1> DEFINE O == Range(task[p].todo) \cup task[p].targets
  <1>1. /\ task[p].at \in {"checking", "removing"} /\ p \in Workers
        /\ Done(p) /\ Stray(O) /\ Fault /\ UNCHANGED <<stored, young, known, tables, late>>
    BY DEF ErasureFails, Doing, Workers
  <1>2. task[p].name = Foreign
    BY <1>1, FitsOf DEF Making
  <1>3. \A o \in stored : HoldsFile(task[p], o) => o \in O
    BY <1>2, NamedObjects DEF HoldsFile, StorageTyped
  <1>4. \A q \in Callers \ {p} : Making(task[q]) => task[q].name # Foreign
    BY FitsOf, NamedObjects DEF Workers
  <1>5. known' = known \cup {} /\ {} \in SUBSET Objects
    BY <1>1
  <1> HIDE DEF O
  <1> QED
    BY <1>1, <1>3, <1>4, <1>5, LetGoStep
-----------------------------------------------------------------------------
LEMMA StoreOriginalStep ==
    ASSUME AssetsFit, NEW p \in Callers, NEW n \in Names, StoreOriginal(p, n)
    PROVE  AssetsFit'
  <1> USE DEF AssetsFit
  <1>1. /\ task[p].at = "idle" /\ n \notin Named /\ p \in Workers
        /\ stored' = stored \cup {Original(n)} /\ young' = young \cup ({Original(n)} \ stored)
        /\ UNCHANGED <<known, row, profile, late>> /\ Gone' = Gone
    BY DEF StoreOriginal, Doing, Store, tables, Gone, Workers
  <1>2. /\ \A o \in stored \cup known \cup Cleared : o[2] # n
        /\ \A q \in Callers : task[q].name # n
        /\ \A q \in Workers : \A o \in Range(task[q].todo) \ {Foreign} : o[2] # n
    BY <1>1 DEF Named, TasksTyped
  <1>3. /\ Original(n) \in Objects /\ Original(n)[2] = n /\ n # Foreign
        /\ \A u \in Users : Avatar(u) # Original(n)
        /\ \A o \in Files(n) : o \in Objects /\ o[2] = n /\ o # Foreign
    BY NamedObjects DEF Files
  <1>4. \A q \in Callers : Making(task[q]) => task[q].name # n /\ task[q].name # Foreign
    BY <1>2, FitsOf, NamedObjects DEF Workers
  <1>5. /\ known \subseteq known' /\ Gone \subseteq Gone'
        /\ \A o \in Objects : o[2] # n =>
               /\ o \in stored' <=> o \in stored
               /\ o \in young => o \in young'
               /\ o \in known' => o \in known
    BY <1>1, <1>3
  <1>6. \A o : IsReferenced(o)' <=> IsReferenced(o)
    BY <1>1 DEF IsReferenced
  <1>7. CASE /\ Becomes(p, [NoTask EXCEPT !.at = "thumb", !.name = n])
             /\ UNCHANGED <<strays, failures>>
    <2>1. PICK j : j = [NoTask EXCEPT !.at = "thumb", !.name = n]
      OBVIOUS
    <2>2. /\ j \in Task /\ j.at = "thumb" /\ j.name = n /\ j.todo = <<>> /\ j.targets = {}
      <3>1. j = [at |-> "thumb", name |-> n, todo |-> <<>>, targets |-> {}]
        BY <2>1 DEF NoTask
      <3> QED
        BY <3>1, NothingListed DEF Task, Stages
    <2>3. task' = [task EXCEPT ![p] = j]
      BY <1>7, <2>1 DEF Becomes
    <2>4. TaskTyped(p, j) /\ ClearedBy(j) = {} /\ Making(j) /\ task[p] # j /\ p \notin Scripts
      BY <1>1, <2>2, NamesAssumption DEF TaskTyped, ClearedBy, Making
    <2>5. TaskFits(p, j, known', Gone')
      BY <2>2, <2>4, NothingListed DEF TaskFits, Names
    <2>6. /\ task'[p] = j /\ \A q \in Workers \ {p} : task'[q] = task[q]
          /\ TasksTyped' /\ TasksFit' /\ Cleared' \subseteq Cleared
          /\ \A q \in Callers \ {p} : Making(task'[q]) => Fresh(q)'
      BY <1>4, <1>5, <2>2, <2>3, <2>4, <2>5, RequestFrame, ZenonT(40)
    <2>7. Fresh(p)'
      <3>1. /\ task'[p].name = n /\ task'[p].at = "thumb"
            /\ Original(n) \in stored' /\ Thumbnail(n) \notin stored'
        BY <1>1, <1>2, <2>2, <2>6, NamedObjects
      <3>2. Files(n) \cap stored' \subseteq young'
        BY <1>1, <1>2, <1>3
      <3>3. Files(n) \cap (known' \cup Cleared') = {}
        BY <1>1, <1>2, <1>3, <2>6
      <3>4. \A k \in Scripts : Files(n) \cap Range(task'[k].todo) \subseteq stored'
        BY <1>2, <1>3, <2>4, <2>6 DEF Workers
      <3>5. \A q \in Callers \ {p} : task'[q].name # n
        BY <1>2, <2>6 DEF Workers
      <3> QED
        BY <3>1, <3>2, <3>3, <3>4, <3>5 DEF Fresh
    <2>8. FilesFresh'
      BY <2>6, <2>7 DEF FilesFresh
    <2>9. RowsTyped' /\ RowsFit'
      BY <1>1, <2>6, RowsKept
    <2>10. AvatarsFit'
      <3>1. \A q \in Callers :
                \/ task'[q] = task[q]
                \/ task'[q].at # "avatar" /\ \A u \in Users : task[q].name # u
        BY <1>1, <2>2, <2>6, FitsOf, NamedObjects DEF Workers, Making
      <3> QED
        BY <1>1, <1>3, <1>7, <3>1, AvatarsKept
    <2>11. ImagesHeld'
      <3>1. \A o \in Objects, q \in Callers : HoldsFile(task[q], o) => HoldsFile(task'[q], o)
        <4>1. task[p] = NoTask
          BY <1>1, FitsOf DEF TaskFits
        <4> QED
          BY <2>6, <4>1, NoTaskIs DEF Workers
      <3>2. HoldsFile(task'[p], Original(n))
        BY <1>3, <2>2, <2>6 DEF HoldsFile
      <3>3. stored' \subseteq Objects
        BY <1>1, <1>3 DEF StorageTyped
      <3> QED
        BY <1>1, <1>6, <1>7, <3>1, <3>2, <3>3, ImagesKept
    <2>12. StorageTyped' /\ ProfilesTyped'
      BY <1>1, <1>3, <1>7 DEF StorageTyped, ProfilesTyped
    <2> QED
      BY <2>6, <2>8, <2>9, <2>10, <2>11, <2>12
  <1>8. CASE Fault /\ Stray({Original(n)}) /\ UNCHANGED task
    <2>1. task[p] = NoTask
      BY <1>1, FitsOf DEF TaskFits
    <2>2. task' = [task EXCEPT ![p] = NoTask]
      BY <1>8, <2>1 DEF TasksTyped
    <2>3. /\ TaskTyped(p, NoTask) /\ TaskFits(p, NoTask, known', Gone') /\ ClearedBy(NoTask) = {}
          /\ Making(NoTask) => task[p] # NoTask
          /\ \A q \in Callers \ {p} : Making(task[q]) => task[q].name # n /\ task[q].name # NoTask.name
          /\ ~Making(NoTask)
      BY <1>1, <1>4, NoTaskTyped, NoTaskIs
    <2>4. TasksTyped' /\ TasksFit' /\ Cleared' \subseteq Cleared /\ FilesFresh'
      BY <1>5, <2>2, <2>3, RequestFrame
    <2>5. RowsTyped' /\ RowsFit'
      BY <1>1, <2>4, RowsKept
    <2>6. strays' = strays \cup {Original(n)} /\ failures' \in 0..MaxFailures
      BY <1>1, <1>8 DEF Stray, StorageTyped, Fault
    <2>7. AvatarsFit'
      BY <1>1, <1>3, <1>8, <2>6, AvatarsKept
    <2>8. ImagesHeld'
      BY <1>1, <1>6, <1>8, <2>6, ImagesKept
    <2>9. StorageTyped' /\ ProfilesTyped'
      BY <1>1, <1>3, <2>6 DEF StorageTyped, ProfilesTyped
    <2> QED
      BY <2>4, <2>5, <2>7, <2>8, <2>9
  <1> QED
    BY <1>7, <1>8 DEF StoreOriginal

(* The original has its thumbnail, or goes without: what was stored is what
   the URLs say. *)
LEMMA UploadedStep ==
    ASSUME AssetsFit, NEW p \in Callers, task[p].at = "thumb", NEW b \in BOOLEAN,
           stored' = stored \cup Range(Pair(task[p].name, b)), young \subseteq young',
           young' \subseteq stored', Range(Pair(task[p].name, b)) \subseteq young',
           Uploaded(p, Pair(task[p].name, b)), failures' \in 0..MaxFailures,
           UNCHANGED <<tables, late>>
    PROVE  AssetsFit'
  <1> USE DEF AssetsFit
  <1> DEFINE n == task[p].name
  <1>1. PICK urls : urls = Pair(n, b)
    OBVIOUS
  <1>2. /\ p \in Workers /\ p \notin Scripts /\ Making(task[p]) /\ n \in Names /\ n # Foreign /\ Fresh(p)
        /\ TaskTyped(p, task[p]) /\ task[p].todo = <<>> /\ task[p].targets = {}
    <2>1. p \in Workers /\ p \notin Scripts /\ Making(task[p])
      BY NamesAssumption DEF Workers, Making
    <2>2. TaskTyped(p, task[p]) /\ TaskFits(p, task[p], known, Gone) /\ n \in Names
      BY <2>1, FitsOf
    <2> QED
      BY <2>1, <2>2, NamedObjects DEF TaskTyped, TaskFits, FilesFresh
  <1>3. /\ urls \in Seq(URLs) /\ Range(urls) \subseteq Files(n) /\ Original(n) \in Range(urls)
        /\ urls \in {Pair(n, TRUE), Pair(n, FALSE)}
    <2>1. urls \in Seq(URLs) /\ Range(urls) \subseteq Files(n) /\ Original(n) \in Range(urls)
      BY <1>1, <1>2, PairURLs
    <2>2. urls \in {Pair(n, TRUE), Pair(n, FALSE)}
      BY <1>1
    <2> QED
      BY <2>1, <2>2
  <1>4. \A o \in Files(n) : o \in Objects /\ o[2] = n /\ \A u \in Users : o # Avatar(u)
    BY <1>2, NamedObjects DEF Files
  <1>5. /\ stored' = stored \cup Range(urls) /\ UNCHANGED <<row, profile, late>> /\ Gone' = Gone
        /\ Range(urls) \subseteq young' /\ Uploaded(p, urls)
        /\ stored' \subseteq Objects
    BY <1>1, <1>3, <1>4 DEF tables, Gone, StorageTyped
  <1>6. /\ Original(n) \in stored /\ Thumbnail(n) \notin stored /\ Files(n) \cap stored \subseteq young
        /\ Files(n) \cap (known \cup Cleared) = {}
        /\ \A k \in Scripts : Files(n) \cap Range(task[k].todo) \subseteq stored
        /\ \A q \in Callers \ {p} : task[q].name # n
    BY <1>2 DEF Fresh
  <1>7. Files(n) \cap stored' = Range(urls)
    BY <1>3, <1>5, <1>6 DEF Files
  <1>8. \A q \in Callers \ {p} : Making(task[q]) => task[q].name # n /\ task[q].name # Foreign
    BY <1>6, FitsOf, NamedObjects DEF Workers
  <1>9. \A o : IsReferenced(o)' <=> IsReferenced(o)
    BY <1>5 DEF IsReferenced
  <1>10. CASE n \in Generated
    <2>1. PICK j : j = [task[p] EXCEPT !.at = "insert", !.todo = urls]
      OBVIOUS
    <2>2. task' = [task EXCEPT ![p] = j] /\ known' = known /\ strays' = strays
      BY <1>5, <1>10, <2>1 DEF Uploaded, Becomes
    <2>3. j \in Task
      BY <1>2, <1>3, <2>1 DEF TaskTyped, Task, Stages
    <2>4. j.at = "insert" /\ j.name = n /\ j.todo = urls /\ j.targets = {}
      BY <1>2, <2>1 DEF TaskTyped, Task
    <2>5. /\ TaskTyped(p, j) /\ ClearedBy(j) = {}
          /\ Making(j) => task[p] # j
          /\ \A q \in Callers \ {p} : Making(task[q]) => task[q].name # n /\ task[q].name # j.name
      BY <1>2, <1>8, <2>3, <2>4 DEF TaskTyped, ClearedBy
    <2>6. TaskFits(p, j, known', Gone')
      BY <1>2, <1>3, <1>10, <2>4 DEF TaskFits
    <2>7. /\ known \subseteq known' /\ Gone \subseteq Gone'
          /\ \A o \in Objects : o[2] # n =>
                 /\ o \in stored' <=> o \in stored
                 /\ o \in young => o \in young'
                 /\ o \in known' => o \in known
      BY <1>3, <1>4, <1>5, <2>2
    <2>8. /\ task'[p] = j /\ \A q \in Workers \ {p} : task'[q] = task[q]
          /\ TasksTyped' /\ TasksFit' /\ Cleared' \subseteq Cleared
          /\ \A q \in Callers \ {p} : Making(task'[q]) => Fresh(q)'
      <3>1. PICK m : m = n
        OBVIOUS
      <3>2. task' = [task EXCEPT ![p] = j] /\ known \subseteq known' /\ Gone \subseteq Gone'
        BY <2>2, <2>7
      <3>3. TaskTyped(p, j) /\ TaskFits(p, j, known', Gone') /\ ClearedBy(j) = {}
        BY <2>5, <2>6
      <3>4. \A q \in Callers \ {p} : Making(task[q]) => task[q].name # m /\ task[q].name # j.name
        BY <2>5, <3>1
      <3>5. Making(j) => task[p] # j
        BY <2>5
      <3>6. \A o \in Objects : o[2] # m =>
               /\ o \in stored' <=> o \in stored
               /\ o \in young => o \in young'
               /\ o \in known' => o \in known
        BY <2>7, <3>1
      <3> HIDE DEF n
      <3> QED
        BY <3>2, <3>3, <3>4, <3>5, <3>6, RequestFrame, ZenonT(40)
    <2>9. Fresh(p)'
      <3>1. /\ task'[p].name = n /\ task'[p].at = "insert" /\ task'[p].todo = urls
            /\ Original(n) \in stored'
        BY <1>5, <1>6, <2>4, <2>8
      <3>2. Files(n) \cap stored' \subseteq young'
        BY <1>5, <1>7
      <3>3. Files(n) \cap (known' \cup Cleared') = {}
        BY <1>6, <2>2, <2>8
      <3>4. \A k \in Scripts : Files(n) \cap Range(task'[k].todo) \subseteq stored'
        BY <1>2, <1>5, <1>6, <2>8 DEF Workers
      <3>5. \A q \in Callers \ {p} : task'[q].name # n
        BY <1>6, <2>8 DEF Workers
      <3> QED
        BY <1>7, <3>1, <3>2, <3>3, <3>4, <3>5 DEF Fresh
    <2>10. FilesFresh'
      BY <2>8, <2>9 DEF FilesFresh
    <2>11. RowsTyped' /\ RowsFit'
      BY <1>5, <2>2, <2>8, RowsKept
    <2>12. AvatarsFit'
      <3>1. \A q \in Callers :
                \/ task'[q] = task[q]
                \/ task'[q].at # "avatar" /\ \A u \in Users : task[q].name # u
        BY <1>2, <2>4, <2>8, NamedObjects DEF Workers
      <3> QED
        BY <1>3, <1>4, <1>5, <2>2, <3>1, AvatarsKept
    <2>13. ImagesHeld'
      <3>1. \A o \in stored', q \in Callers : HoldsFile(task[q], o) => HoldsFile(task'[q], o)
        BY <1>2, <2>4, <2>8, NothingListed DEF Workers, HoldsFile
      <3>2. \A o \in Range(urls) : HoldsFile(task'[p], o)
        BY <2>4, <2>8 DEF HoldsFile
      <3> QED
        BY <1>5, <1>9, <2>2, <3>1, <3>2, ImagesKept
    <2>14. StorageTyped' /\ ProfilesTyped'
      BY <1>5, <2>2 DEF StorageTyped, ProfilesTyped
    <2> QED
      BY <2>8, <2>10, <2>11, <2>12, <2>13, <2>14
  <1>11. CASE n \notin Generated
    <2>1. /\ task' = [task EXCEPT ![p] = NoTask] /\ known' = known \cup Range(urls)
          /\ strays' = (strays \cup Range(urls)) \cap stored'
      BY <1>5, <1>11 DEF Uploaded, Done, Becomes, Stray
    <2>2. /\ TaskTyped(p, NoTask) /\ TaskFits(p, NoTask, known', Gone') /\ ClearedBy(NoTask) = {}
          /\ Making(NoTask) => task[p] # NoTask
          /\ \A q \in Callers \ {p} : Making(task[q]) => task[q].name # n /\ task[q].name # NoTask.name
          /\ ~Making(NoTask) /\ NoTask.at # "avatar"
      BY <1>2, <1>8, NoTaskTyped, NoTaskIs
    <2>3. /\ known \subseteq known' /\ Gone \subseteq Gone'
          /\ \A o \in Objects : o[2] # n =>
                 /\ o \in stored' <=> o \in stored
                 /\ o \in young => o \in young'
                 /\ o \in known' => o \in known
      BY <1>3, <1>4, <1>5, <2>1
    <2>4. /\ task'[p] = NoTask /\ \A q \in Workers \ {p} : task'[q] = task[q]
          /\ TasksTyped' /\ TasksFit' /\ Cleared' \subseteq Cleared /\ FilesFresh'
      BY <2>1, <2>2, <2>3, RequestFrame, ZenonT(40)
    <2>5. RowsTyped' /\ RowsFit'
      BY <1>5, <2>1, <2>4, RowsKept
    <2>6. AvatarsFit'
      <3>1. \A q \in Callers :
                \/ task'[q] = task[q]
                \/ task'[q].at # "avatar" /\ \A u \in Users : task[q].name # u
        BY <1>2, <2>2, <2>4, NamedObjects DEF Workers
      <3> QED
        BY <1>3, <1>4, <1>5, <2>1, <3>1, AvatarsKept
    <2>7. ImagesHeld'
      <3>1. \A o \in stored' \ strays' : o \notin Files(n) /\ o \in Objects /\ o \in stored \ strays
        BY <1>5, <1>7, <2>1
      <3>2. \A o \in stored' \ strays' : ~HoldsFile(task[p], o)
        BY <1>2, <3>1, NamedObjects, NothingListed DEF HoldsFile, Files
      <3>3. \A o \in stored' \ strays', q \in Callers : HoldsFile(task[q], o) => HoldsFile(task'[q], o)
        BY <2>4, <3>2 DEF Workers
      <3> QED
        BY <1>9, <3>1, <3>3, ImagesKept
    <2>8. StorageTyped' /\ ProfilesTyped'
      BY <1>3, <1>4, <1>5, <2>1 DEF StorageTyped, ProfilesTyped
    <2> QED
      BY <2>4, <2>5, <2>6, <2>7, <2>8
  <1> QED
    BY <1>10, <1>11

LEMMA StoreThumbnailStep ==
    ASSUME AssetsFit, NEW p \in Callers, StoreThumbnail(p)
    PROVE  AssetsFit'
  <1> USE DEF AssetsFit
  <1> DEFINE n == task[p].name
  <1>1. /\ task[p].at = "thumb" /\ p \in Workers /\ Uploaded(p, Pair(n, TRUE))
        /\ stored' = stored \cup {Thumbnail(n)} /\ young' = young \cup ({Thumbnail(n)} \ stored)
        /\ UNCHANGED <<tables, late>> /\ failures' \in 0..MaxFailures /\ young \subseteq stored
    BY DEF StoreThumbnail, Doing, Store, Workers, StorageTyped
  <1>2. n \in Names /\ Fresh(p)
    BY <1>1, FitsOf DEF Making, FilesFresh
  <1>3. Range(Pair(n, TRUE)) = Files(n) /\ TRUE \in BOOLEAN
    BY <1>2, PairURLs
  <1>4. Original(n) \in stored /\ Original(n) \in young /\ Thumbnail(n) \notin stored
    BY <1>1, <1>2 DEF Fresh, Files
  <1>5. /\ stored' = stored \cup Range(Pair(n, TRUE)) /\ young \subseteq young'
        /\ young' \subseteq stored' /\ Range(Pair(n, TRUE)) \subseteq young'
    BY <1>1, <1>3, <1>4 DEF Files
  <1> QED
    BY <1>1, <1>3, <1>5, UploadedStep

LEMMA ThumbnailFailsStep ==
    ASSUME AssetsFit, NEW p \in Callers, ThumbnailFails(p)
    PROVE  AssetsFit'
  <1> USE DEF AssetsFit
  <1> DEFINE n == task[p].name
  <1>1. /\ task[p].at = "thumb" /\ p \in Workers
        /\ stored' = stored /\ young' = young
        /\ UNCHANGED <<tables, late>> /\ failures' \in 0..MaxFailures /\ young \subseteq stored
    BY DEF ThumbnailFails, Doing, Fault, Workers, StorageTyped
  <1>6. Uploaded(p, Pair(n, FALSE))
    BY DEF ThumbnailFails
  <1>2. n \in Names /\ Fresh(p)
    BY <1>1, FitsOf DEF Making, FilesFresh
  <1>3. Range(Pair(n, FALSE)) = {Original(n)} /\ FALSE \in BOOLEAN
    BY <1>2, PairURLs
  <1>4. Original(n) \in stored /\ Original(n) \in young
    BY <1>1, <1>2 DEF Fresh, Files
  <1>5. /\ stored' = stored \cup Range(Pair(n, FALSE)) /\ young \subseteq young'
        /\ young' \subseteq stored' /\ Range(Pair(n, FALSE)) \subseteq young'
    BY <1>1, <1>3, <1>4
  <1> QED
    BY <1>1, <1>3, <1>5, <1>6, UploadedStep
-----------------------------------------------------------------------------
LEMMA RowIs ==
    ASSUME RowsTyped, RowsFit, NEW r \in Rows
    PROVE  /\ row[r].urls \in Seq(URLs) /\ Len(row[r].urls) <= 2
           /\ row[r].kind # "none" <=> row[r].urls # <<>>
           /\ Range(row[r].urls) \subseteq known \cup {Foreign}
  BY DEF RowsTyped, RowTyped, Row, RowsFit

LEMMA UnusedRow == RowTyped(Unused) /\ Unused.urls = <<>> /\ Unused.kind = "none"
  <1>1. Unused \in Row /\ Unused.urls = <<>> /\ Unused.kind = "none"
    BY NothingListed DEF Unused, Row
  <1> QED
    BY <1>1, NothingListed DEF RowTyped

(* One row is written. *)
LEMMA RowWritten ==
    ASSUME RowsTyped, NEW r \in Rows, NEW w, RowTyped(w), row' = [row EXCEPT ![r] = w]
    PROVE  RowsTyped' /\ row'[r] = w /\ \A s \in Rows \ {r} : row'[s] = row[s]
  BY DEF RowsTyped

LEMMA ReferStep ==
    ASSUME AssetsFit, NEW r \in Rows, NEW kind \in {"creation", "style"}, NEW urls \in Seq(URLs),
           urls # <<>>, Len(urls) <= 2, Range(urls) \subseteq known \cup {Foreign},
           Refer(r, kind, urls), UNCHANGED <<stored, young, known, profile, task, failures>>,
           strays' = strays \cup (Range(row[r].urls) \cap stored)
    PROVE  AssetsFit'
  <1> USE DEF AssetsFit
  <1>1. PICK w : w = [kind |-> kind, urls |-> urls]
    OBVIOUS
  <1>2. RowTyped(w) /\ w.urls = urls
    <2>1. w \in Row /\ w.urls = urls /\ w.kind = kind
      BY <1>1 DEF Row
    <2> QED
      BY <2>1 DEF RowTyped
  <1>3. /\ row' = [row EXCEPT ![r] = w]
        /\ late' = (late \ ({r} \X Objects)) \cup
                   ({r} \X (Range(urls) \cap (Cleared \cup (Objects \ stored))))
    BY <1>1 DEF Refer
  <1>4. RowsTyped' /\ row'[r].urls = urls /\ \A s \in Rows \ {r} : row'[s] = row[s]
    BY <1>2, <1>3, RowWritten
  <1>5. Gone' = Gone /\ Cleared' = Cleared
    BY DEF Gone, Cleared, Doing
  <1>6. TasksTyped' /\ TasksFit' /\ FilesFresh' /\ AvatarsFit'
    <2>1. TasksTyped' /\ TasksFit'
      BY <1>5 DEF TasksTyped, TasksFit
    <2>2. FilesFresh'
      BY <1>5 DEF FilesFresh, Fresh
    <2>3. AvatarsFit'
      BY AvatarsKept
    <2> QED
      BY <2>1, <2>2, <2>3
  <1>7. RowsFit'
    <2> SUFFICES ASSUME NEW s \in Rows
                 PROVE  /\ Range(row'[s].urls) \subseteq known \cup {Foreign}
                        /\ \A o \in Range(row'[s].urls) :
                            o \in Cleared \cup (Objects \ stored) => <<s, o>> \in late'
      BY <1>5 DEF RowsFit
    <2>1. CASE s = r
      BY <1>3, <1>4, <2>1
    <2>2. CASE s # r
      BY <1>3, <1>4, <2>2 DEF RowsFit
    <2> QED
      BY <2>1, <2>2
  <1>8. ImagesHeld'
    <2>1. \A o : IsReferenced(o) => IsReferenced(o)' \/ o \in Range(row[r].urls)
      BY <1>4 DEF IsReferenced
    <2> QED
      BY <2>1, ImagesKept
  <1>9. StorageTyped' /\ ProfilesTyped'
    <2>1. late' \subseteq Rows \X Objects
      BY <1>3, ClearedAreObjects DEF StorageTyped
    <2> QED
      BY <2>1 DEF StorageTyped, ProfilesTyped
  <1> QED
    BY <1>4, <1>6, <1>7, <1>8, <1>9

LEMMA MigrateCreationStep ==
    ASSUME AssetsFit, NEW r \in Rows, NEW url \in known \cup {Foreign}, MigrateCreation(r, url)
    PROVE  AssetsFit'
  <1> USE DEF AssetsFit
  <1>1. row[r] = Unused /\ Refer(r, "creation", <<url>>)
        /\ UNCHANGED <<stored, young, known, profile, task, strays, failures>>
    BY DEF MigrateCreation
  <1>2. PICK urls : urls = <<url>>
    OBVIOUS
  <1>3. urls \in Seq(URLs) /\ urls # <<>> /\ Len(urls) <= 2
    BY <1>2 DEF URLs, StorageTyped
  <1>4. Range(urls) \subseteq known \cup {Foreign}
    BY <1>2 DEF Range
  <1>5. strays' = strays \cup (Range(row[r].urls) \cap stored)
    BY <1>1, UnusedRow, NothingListed
  <1> QED
    BY <1>1, <1>2, <1>3, <1>4, <1>5, ReferStep

LEMMA SaveStyleStep ==
    ASSUME AssetsFit, NEW r \in Rows, NEW n \in Covers, NEW b \in BOOLEAN,
           Range(Pair(n, b)) \subseteq known, SaveStyle(r, Pair(n, b))
    PROVE  AssetsFit'
  <1> USE DEF AssetsFit
  <1>1. PICK urls : urls = Pair(n, b)
    OBVIOUS
  <1>2. urls \in Seq(URLs) /\ urls # <<>> /\ Len(urls) <= 2
    BY <1>1, PairURLs DEF Names
  <1>3. Range(urls) \subseteq known /\ SaveStyle(r, urls)
    BY <1>1
  <1>4. /\ Refer(r, "style", urls) /\ UNCHANGED <<stored, young, known, profile, task, failures>>
        /\ strays' = (strays \cup Range(row[r].urls)) \cap stored
    BY <1>3 DEF SaveStyle, Stray
  <1>5. strays' = strays \cup (Range(row[r].urls) \cap stored)
    BY <1>4 DEF StorageTyped
  <1> QED
    BY <1>2, <1>3, <1>4, <1>5, ReferStep

LEMMA DeleteUploadStep ==
    ASSUME AssetsFit, NEW n \in Covers, DeleteUpload(n)
    PROVE  AssetsFit'
  <1> USE DEF AssetsFit
  <1>1. /\ Original(n) \in known /\ n \in Names
        /\ stored' = stored \ Files(n) /\ young' = young \ Files(n)
        /\ strays' = strays \cap stored'
        /\ late' = late \cup {l \in Rows \X Files(n) : l[2] \in Range(row[l[1]].urls)}
        /\ UNCHANGED <<known, row, profile, task, failures>>
    BY DEF DeleteUpload, Erase, Stray, Files, tables, Names
  <1>2. /\ \A o \in Files(n) : o \in Objects /\ o[2] = n /\ \A u \in Users : o # Avatar(u)
        /\ Original(n)[2] = n
    BY <1>1, NamedObjects DEF Files
  <1>3. \A q \in Callers : Making(task[q]) => task[q].name # n
    <2> SUFFICES ASSUME NEW q \in Callers, Making(task[q]), task[q].name = n
                 PROVE  FALSE
      OBVIOUS
    <2>1. Original(n) \notin known
      BY DEF FilesFresh, Fresh, Files
    <2> QED
      BY <1>1, <2>1
  <1>4. Gone' = Gone /\ DOMAIN task' = Workers /\ task' = [q \in Workers |-> task'[q]]
    BY <1>1 DEF Gone, TasksTyped
  <1>5. \A o \in Objects : o[2] # n => /\ o \in stored' <=> o \in stored
                                       /\ o \in young => o \in young'
                                       /\ o \in known' => o \in known
    BY <1>1, <1>2
  <1>6. /\ TasksTyped' /\ TasksFit' /\ Cleared' \subseteq Cleared
        /\ \A q \in Callers : Making(task[q]) => Fresh(q)'
    BY <1>1, <1>3, <1>4, <1>5, Frame
  <1>7. FilesFresh'
    BY <1>1, <1>6 DEF FilesFresh
  <1>8. RowsTyped' /\ RowsFit'
    <2>1. ASSUME NEW r \in Rows, NEW o \in Range(row[r].urls), o \in Objects \ stored', o \in stored
          PROVE  <<r, o>> \in late'
      BY <1>1, <2>1
    <2> QED
      BY <1>1, <1>6, <2>1, RowsKept
  <1>9. AvatarsFit'
    BY <1>1, <1>2, AvatarsKept
  <1>10. ImagesHeld'
    <2>1. \A o : IsReferenced(o)' <=> IsReferenced(o)
      BY <1>1 DEF IsReferenced
    <2> QED
      BY <1>1, <2>1, ImagesKept
  <1>11. StorageTyped' /\ ProfilesTyped'
    BY <1>1, <1>2 DEF StorageTyped, ProfilesTyped
  <1> QED
    BY <1>6, <1>7, <1>8, <1>9, <1>10, <1>11

LEMMA AddCreationStep ==
    ASSUME AssetsFit, NEW p \in Callers, NEW r \in Rows, AddCreation(p, r)
    PROVE  AssetsFit'
  <1> USE DEF AssetsFit
  <1> DEFINE n == task[p].name
  <1>1. PICK urls : urls = task[p].todo
    OBVIOUS
  <1>2. /\ task[p].at = "insert" /\ row[r] = Unused /\ p \in Workers /\ task' = [task EXCEPT ![p] = NoTask]
        /\ row' = [row EXCEPT ![r] = [kind |-> "creation", urls |-> urls]]
        /\ known' = known \cup Range(urls)
        /\ UNCHANGED <<stored, young, profile, late, strays, failures>> /\ Gone' = Gone
    BY <1>1 DEF AddCreation, Doing, Done, Becomes, fileHistory, Gone, Workers
  <1>3. TaskTyped(p, task[p]) /\ TaskFits(p, task[p], known, Gone) /\ n \in Names /\ Fresh(p)
    BY <1>2, FitsOf DEF Making, FilesFresh
  <1>4. /\ urls \in Seq(URLs) /\ urls # <<>> /\ Len(urls) <= 2 /\ Range(urls) \subseteq Files(n)
        /\ task[p].targets = {}
    <2>1. PICK b \in BOOLEAN : urls = Pair(n, b)
      BY <1>1, <1>2, <1>3 DEF TaskFits
    <2>2. urls \in Seq(URLs) /\ urls # <<>> /\ Len(urls) <= 2 /\ Range(urls) \subseteq Files(n)
      BY <1>3, <2>1, PairURLs
    <2>3. task[p].targets = {}
      BY <1>2, <1>3 DEF TaskTyped
    <2> QED
      BY <2>2, <2>3
  <1>5. /\ Files(n) \cap stored = Range(urls) /\ Files(n) \cap Cleared = {}
        /\ \A q \in Callers \ {p} : task[q].name # n
    BY <1>1, <1>2, <1>3 DEF Fresh
  <1>6. \A o \in Files(n) : o \in Objects /\ o[2] = n
    BY <1>3, NamedObjects DEF Files
  <1>7. /\ TaskTyped(p, NoTask) /\ TaskFits(p, NoTask, known', Gone') /\ ClearedBy(NoTask) = {}
        /\ Making(NoTask) => task[p] # NoTask
        /\ \A q \in Callers \ {p} : Making(task[q]) => task[q].name # n /\ task[q].name # NoTask.name
        /\ ~Making(NoTask) /\ NoTask.at # "avatar"
    BY <1>2, <1>5, NoTaskTyped, NoTaskIs, FitsOf, NamedObjects DEF Workers
  <1>8. /\ known \subseteq known' /\ Gone \subseteq Gone'
        /\ \A o \in Objects : o[2] # n =>
               /\ o \in stored' <=> o \in stored
               /\ o \in young => o \in young'
               /\ o \in known' => o \in known
    BY <1>2, <1>4, <1>6
  <1>9. /\ task'[p] = NoTask /\ \A q \in Workers \ {p} : task'[q] = task[q]
        /\ TasksTyped' /\ TasksFit' /\ Cleared' \subseteq Cleared /\ FilesFresh'
    BY <1>2, <1>7, <1>8, RequestFrame, ZenonT(40)
  <1>10. PICK w : w = [kind |-> "creation", urls |-> urls]
    OBVIOUS
  <1>11. RowTyped(w) /\ w.urls = urls
    <2>1. w \in Row /\ w.urls = urls /\ w.kind = "creation"
      BY <1>4, <1>10 DEF Row
    <2> QED
      BY <1>4, <2>1 DEF RowTyped
  <1>12. RowsTyped' /\ row'[r].urls = urls /\ \A s \in Rows \ {r} : row'[s] = row[s]
    BY <1>2, <1>10, <1>11, RowWritten
  <1>13. RowsFit'
    <2> SUFFICES ASSUME NEW s \in Rows
                 PROVE  /\ Range(row'[s].urls) \subseteq known' \cup {Foreign}
                        /\ \A o \in Range(row'[s].urls) :
                            o \in Cleared' \cup (Objects \ stored') => <<s, o>> \in late'
      BY DEF RowsFit
    <2>1. CASE s = r
      BY <1>2, <1>4, <1>5, <1>9, <1>12, <2>1
    <2>2. CASE s # r
      BY <1>2, <1>9, <1>12, <2>2 DEF RowsFit
    <2> QED
      BY <2>1, <2>2
  <1>14. AvatarsFit'
    <2>1. \A q \in Callers :
              \/ task'[q] = task[q]
              \/ task'[q].at # "avatar" /\ \A u \in Users : task[q].name # u
      BY <1>3, <1>7, <1>9, NamedObjects DEF Workers
    <2> QED
      BY <1>2, <2>1, AvatarsKept
  <1>15. ImagesHeld'
    <2>1. \A o : IsReferenced(o) => IsReferenced(o)'
      BY <1>2, <1>12, UnusedRow, NothingListed DEF IsReferenced
    <2>2. \A o \in stored : HoldsFile(task[p], o) => IsReferenced(o)'
      <3> SUFFICES ASSUME NEW o \in stored, HoldsFile(task[p], o)
                   PROVE  o \in Range(urls)
        BY <1>12 DEF IsReferenced
      <3>1. o \in Files(n)
        BY <1>1, <1>3, <1>4, NamedObjects DEF HoldsFile, Files, StorageTyped
      <3> QED
        BY <1>5, <3>1
    <2>3. \A o \in stored, q \in Callers : HoldsFile(task[q], o) => IsReferenced(o)' \/ HoldsFile(task'[q], o)
      BY <1>9, <2>2 DEF Workers
    <2> QED
      BY <1>2, <2>1, <2>3, ImagesKept
  <1>16. StorageTyped' /\ ProfilesTyped'
    BY <1>2, <1>4, <1>6 DEF StorageTyped, ProfilesTyped
  <1> QED
    BY <1>9, <1>12, <1>13, <1>14, <1>15, <1>16

LEMMA DeleteRowStep ==
    ASSUME AssetsFit, NEW p \in Callers, NEW r \in Rows, DeleteRow(p, r)
    PROVE  AssetsFit'
  <1> USE DEF AssetsFit
  <1>1. PICK urls : urls = row[r].urls
    OBVIOUS
  <1>2. PICK j : j = [NoTask EXCEPT !.at = "checking", !.todo = urls]
    OBVIOUS
  <1>3. /\ task[p].at = "idle" /\ urls # <<>> /\ p \in Workers /\ p \notin Scripts
        /\ task' = [task EXCEPT ![p] = j] /\ row' = [row EXCEPT ![r] = Unused]
        /\ late' = late \ ({r} \X Objects)
        /\ UNCHANGED <<stored, young, known, profile, strays, failures>> /\ Gone' = Gone
    BY <1>1, <1>2, NamesAssumption DEF DeleteRow, Doing, Live, Becomes, Gone, Workers
  <1>4. urls \in Seq(URLs) /\ Range(urls) \subseteq known \cup {Foreign}
    BY <1>1, RowIs
  <1>5. j \in Task /\ j.at = "checking" /\ j.name = Foreign /\ j.todo = urls /\ j.targets = {}
    <2>1. j = [at |-> "checking", name |-> Foreign, todo |-> urls, targets |-> {}]
      BY <1>2 DEF NoTask
    <2>2. "checking" \in Stages
      BY DEF Stages
    <2> QED
      BY <1>4, <2>1, <2>2, Made
  <1>6. TaskTyped(p, j) /\ TaskFits(p, j, known', Gone')
    BY <1>3, <1>4, <1>5 DEF TaskTyped, TaskFits
  <1>7. /\ ClearedBy(j) = {} /\ ~Making(j) /\ j.at # "avatar"
        /\ \A q \in Callers \ {p} : Making(task[q]) => task[q].name # Foreign /\ task[q].name # j.name
    BY <1>5, FitsOf, NamedObjects DEF ClearedBy, Making, Workers
  <1>8. /\ known \subseteq known' /\ Gone \subseteq Gone'
        /\ \A o \in Objects : /\ o \in stored' <=> o \in stored
                              /\ o \in young => o \in young'
                              /\ o \in known' => o \in known
    BY <1>3
  <1>9. /\ task'[p] = j /\ \A q \in Workers \ {p} : task'[q] = task[q]
        /\ TasksTyped' /\ TasksFit' /\ Cleared' \subseteq Cleared /\ FilesFresh'
    BY <1>3, <1>6, <1>7, <1>8, RequestFrame
  <1>10. RowsTyped' /\ row'[r].urls = <<>> /\ \A s \in Rows \ {r} : row'[s] = row[s]
    BY <1>3, UnusedRow, RowWritten
  <1>11. RowsFit'
    <2> SUFFICES ASSUME NEW s \in Rows
                 PROVE  /\ Range(row'[s].urls) \subseteq known' \cup {Foreign}
                        /\ \A o \in Range(row'[s].urls) :
                            o \in Cleared' \cup (Objects \ stored') => <<s, o>> \in late'
      BY DEF RowsFit
    <2>1. CASE s = r
      BY <1>10, <2>1, NothingListed
    <2>2. CASE s # r
      BY <1>3, <1>9, <1>10, <2>2 DEF RowsFit
    <2> QED
      BY <2>1, <2>2
  <1>12. task[p] = NoTask
    BY <1>3, FitsOf DEF TaskFits
  <1>13. AvatarsFit'
    <2>1. \A q \in Callers :
              \/ task'[q] = task[q]
              \/ task'[q].at # "avatar" /\ \A u \in Users : task[q].name # u
      BY <1>7, <1>9, <1>12, NoTaskIs, NamedObjects DEF Workers
    <2> QED
      BY <1>3, <2>1, AvatarsKept
  <1>14. ImagesHeld'
    <2>1. \A o : IsReferenced(o) => IsReferenced(o)' \/ o \in Range(urls)
      BY <1>1, <1>3, <1>10 DEF IsReferenced
    <2>2. \A o \in Range(urls) : HoldsFile(task'[p], o)
      BY <1>5, <1>9 DEF HoldsFile
    <2>3. \A o \in Objects, q \in Callers : HoldsFile(task[q], o) => HoldsFile(task'[q], o)
      BY <1>9, <1>12, NoTaskIs DEF Workers
    <2> QED
      BY <1>3, <2>1, <2>2, <2>3, ImagesKept DEF StorageTyped
  <1>15. StorageTyped' /\ ProfilesTyped'
    BY <1>3 DEF StorageTyped, ProfilesTyped
  <1> QED
    BY <1>9, <1>10, <1>11, <1>13, <1>14, <1>15

-----------------------------------------------------------------------------
LEMMA StoreAvatarStep ==
    ASSUME AssetsFit, NEW p \in Callers, NEW u \in Users, StoreAvatar(p, u)
    PROVE  AssetsFit'
  <1> USE DEF AssetsFit
  <1>1. PICK j : j = [NoTask EXCEPT !.at = "avatar", !.name = u]
    OBVIOUS
  <1>2. /\ task[p].at = "idle" /\ profile[u] # "gone" /\ p \in Workers /\ p \notin Scripts
        /\ task' = [task EXCEPT ![p] = j]
        /\ stored' = stored \cup {Avatar(u)} /\ young' = young \cup ({Avatar(u)} \ stored)
        /\ UNCHANGED <<known, row, profile, late, strays, failures>> /\ Gone' = Gone
    BY <1>1, NamesAssumption DEF StoreAvatar, Doing, Store, Becomes, tables, fileHistory, Gone, Workers
  <1>3. j \in Task /\ j.at = "avatar" /\ j.name = u /\ j.todo = <<>> /\ j.targets = {}
    <2>1. j = [at |-> "avatar", name |-> u, todo |-> <<>>, targets |-> {}]
      BY <1>1 DEF NoTask
    <2> QED
      BY <2>1, NothingListed DEF Task, Stages
  <1>4. TaskTyped(p, j) /\ TaskFits(p, j, known', Gone')
    BY <1>2, <1>3 DEF TaskTyped, TaskFits
  <1>5. /\ ClearedBy(j) = {} /\ ~Making(j)
        /\ \A q \in Callers \ {p} : Making(task[q]) => task[q].name # u /\ task[q].name # j.name
    BY <1>3, FitsOf, NamedObjects DEF ClearedBy, Making, Workers
  <1>6. /\ Avatar(u) \in Objects /\ Avatar(u)[2] = u /\ u \notin Names
        /\ \A v \in Users : v # u => Avatar(v) # Avatar(u)
    BY NamedObjects
  <1>7. /\ known \subseteq known' /\ Gone \subseteq Gone'
        /\ \A o \in Objects : o[2] # u =>
               /\ o \in stored' <=> o \in stored
               /\ o \in young => o \in young'
               /\ o \in known' => o \in known
    BY <1>2, <1>6
  <1>8. /\ task'[p] = j /\ \A q \in Workers \ {p} : task'[q] = task[q]
        /\ TasksTyped' /\ TasksFit' /\ Cleared' \subseteq Cleared /\ FilesFresh'
    BY <1>2, <1>4, <1>5, <1>7, RequestFrame, ZenonT(40)
  <1>9. RowsTyped' /\ RowsFit'
    BY <1>2, <1>8, RowsKept
  <1>10. task[p] = NoTask
    BY <1>2, FitsOf DEF TaskFits
  <1>11. AvatarsFit'
    <2> SUFFICES ASSUME NEW v \in Users
                 PROVE  /\ profile[v] = "ours" => Avatar(v) \in stored'
                        /\ profile[v] = "gone" /\ Avatar(v) \in stored' => Avatar(v) \in strays
                        /\ Avatar(v) \in stored' \ strays =>
                            profile[v] = "ours" \/ \E q \in Callers : task'[q].name = v
                        /\ \A q \in Callers :
                            task'[q].at = "avatar" /\ task'[q].name = v /\ profile[v] # "gone" =>
                                Avatar(v) \in stored'
      BY <1>2 DEF AvatarsFit
    <2>1. CASE v = u
      BY <1>2, <1>3, <1>8, <2>1
    <2>2. CASE v # u
      <3>1. task[p].name # v
        BY <1>10, NoTaskIs, NamedObjects
      <3>2. \A q \in Callers : q = p \/ task'[q] = task[q]
        BY <1>8 DEF Workers
      <3> QED
        BY <1>2, <1>3, <1>6, <1>8, <2>2, <3>1, <3>2 DEF AvatarsFit
    <2> QED
      BY <2>1, <2>2
  <1>12. ImagesHeld'
    <2>1. \A o : IsReferenced(o)' <=> IsReferenced(o)
      BY <1>2 DEF IsReferenced
    <2>2. \A o \in Objects, q \in Callers : HoldsFile(task[q], o) => HoldsFile(task'[q], o)
      BY <1>8, <1>10, NoTaskIs DEF Workers
    <2> QED
      BY <1>2, <1>6, <2>1, <2>2, ImagesKept DEF StorageTyped
  <1>13. StorageTyped' /\ ProfilesTyped'
    BY <1>2, <1>6 DEF StorageTyped, ProfilesTyped
  <1> QED
    BY <1>8, <1>9, <1>11, <1>12, <1>13

LEMMA SetAvatarUrlStep ==
    ASSUME AssetsFit, NEW p \in Callers, SetAvatarUrl(p)
    PROVE  AssetsFit'
  <1> USE DEF AssetsFit
  <1>1. PICK u : u = task[p].name
    OBVIOUS
  <1>2. /\ task[p].at = "avatar" /\ p \in Workers /\ task' = [task EXCEPT ![p] = NoTask]
        /\ profile' = [profile EXCEPT ![u] = IF @ = "gone" THEN @ ELSE "ours"]
        /\ known' = known \cup {Avatar(u)}
        /\ UNCHANGED <<stored, young, row, late, strays, failures>>
    BY <1>1 DEF SetAvatarUrl, Doing, Done, Becomes, fileHistory, Workers
  <1>3. u \in Users
    BY <1>1, <1>2, FitsOf
  <1>4. /\ Avatar(u) \in Objects /\ Avatar(u)[2] = u /\ u \notin Names
        /\ \A v \in Users : v # u => Avatar(v) # Avatar(u)
    BY <1>3, NamedObjects
  <1>5. /\ profile' \in [Users -> {"none", "provider", "ours", "gone"}]
        /\ \A v \in Users \ {u} : profile'[v] = profile[v]
        /\ IF profile[u] = "gone" THEN profile'[u] = "gone" ELSE profile'[u] = "ours"
    BY <1>2, <1>3 DEF ProfilesTyped
  <1>6. Gone' = Gone
    BY <1>3, <1>5 DEF Gone
  <1>7. /\ TaskTyped(p, NoTask) /\ TaskFits(p, NoTask, known', Gone') /\ ClearedBy(NoTask) = {}
        /\ Making(NoTask) => task[p] # NoTask
        /\ \A q \in Callers \ {p} : Making(task[q]) => task[q].name # u /\ task[q].name # NoTask.name
        /\ ~Making(NoTask) /\ NoTask.at # "avatar"
    BY <1>2, <1>4, NoTaskTyped, NoTaskIs, FitsOf, NamedObjects DEF Workers
  <1>8. /\ known \subseteq known' /\ Gone \subseteq Gone'
        /\ \A o \in Objects : o[2] # u =>
               /\ o \in stored' <=> o \in stored
               /\ o \in young => o \in young'
               /\ o \in known' => o \in known
    BY <1>2, <1>4, <1>6
  <1>9. /\ task'[p] = NoTask /\ \A q \in Workers \ {p} : task'[q] = task[q]
        /\ TasksTyped' /\ TasksFit' /\ Cleared' \subseteq Cleared /\ FilesFresh'
    <2>1. task' = [task EXCEPT ![p] = NoTask]
      BY <1>2
    <2> QED
      BY <1>3, <1>4, <1>7, <1>8, <2>1, RequestFrame, ZenonT(40)
  <1>10. RowsTyped' /\ RowsFit'
    BY <1>2, <1>9, RowsKept
  <1>11. AvatarsFit'
    <2> SUFFICES ASSUME NEW v \in Users
                 PROVE  /\ profile'[v] = "ours" => Avatar(v) \in stored
                        /\ profile'[v] = "gone" /\ Avatar(v) \in stored => Avatar(v) \in strays
                        /\ Avatar(v) \in stored \ strays =>
                            profile'[v] = "ours" \/ \E q \in Callers : task'[q].name = v
                        /\ \A q \in Callers :
                            task'[q].at = "avatar" /\ task'[q].name = v /\ profile'[v] # "gone" =>
                                Avatar(v) \in stored
      BY <1>2 DEF AvatarsFit
    <2>1. \A q \in Callers : q = p \/ task'[q] = task[q]
      BY <1>9 DEF Workers
    <2>2. CASE v = u
      <3>1. profile[u] # "gone" => Avatar(u) \in stored
        BY <1>1, <1>2, <1>3 DEF AvatarsFit
      <3>2. profile[u] = "gone" /\ Avatar(u) \in stored => Avatar(u) \in strays
        BY <1>3 DEF AvatarsFit
      <3> QED
        BY <1>5, <2>2, <3>1, <3>2
    <2>3. CASE v # u
      BY <1>1, <1>5, <1>7, <1>9, <2>1, <2>3 DEF AvatarsFit
    <2> QED
      BY <2>2, <2>3
  <1>12. ImagesHeld'
    <2>1. \A o : IsReferenced(o) => IsReferenced(o)'
      BY <1>2, <1>5 DEF IsReferenced
    <2>2. \A o \in stored, q \in Callers : o[2] \in Names /\ HoldsFile(task[q], o) => HoldsFile(task'[q], o)
      <3>1. task[p].todo = <<>> /\ task[p].targets = {}
        BY <1>2, FitsOf DEF TaskTyped, TaskFits
      <3>2. \A o \in stored : o[2] \in Names => ~HoldsFile(task[p], o)
        BY <1>1, <1>4, <3>1, NothingListed DEF HoldsFile
      <3> QED
        BY <1>9, <3>2 DEF Workers
    <2> QED
      BY <1>2, <2>1, <2>2, ImagesKept
  <1>13. StorageTyped' /\ ProfilesTyped'
    BY <1>2, <1>4, <1>5 DEF StorageTyped, ProfilesTyped
  <1> QED
    BY <1>9, <1>10, <1>11, <1>12, <1>13

LEMMA DeleteAccountStep ==
    ASSUME AssetsFit, NEW u \in Users, DeleteAccount(u)
    PROVE  AssetsFit'
  <1> USE DEF AssetsFit
  <1>1. /\ profile' = [profile EXCEPT ![u] = "gone"]
        /\ UNCHANGED <<stored, young, known, row, task, late, failures>>
        /\ strays' = (strays \cup {Avatar(u)}) \cap stored
    BY DEF DeleteAccount, Stray
  <1>2. /\ profile' \in [Users -> {"none", "provider", "ours", "gone"}]
        /\ profile'[u] = "gone" /\ \A v \in Users \ {u} : profile'[v] = profile[v]
    BY <1>1 DEF ProfilesTyped
  <1>3. Gone \subseteq Gone' /\ DOMAIN task' = Workers /\ task' = [q \in Workers |-> task'[q]]
    BY <1>1, <1>2 DEF Gone, TasksTyped
  <1>4. \A q \in Callers : Making(task[q]) => task[q].name # Foreign
    BY FitsOf, NamedObjects DEF Workers
  <1>5. /\ known \subseteq known'
        /\ \A o \in Objects : /\ o \in stored' <=> o \in stored
                              /\ o \in young => o \in young'
                              /\ o \in known' => o \in known
    BY <1>1
  <1>6. /\ TasksTyped' /\ TasksFit' /\ Cleared' \subseteq Cleared
        /\ \A q \in Callers : Making(task[q]) => Fresh(q)'
    BY <1>1, <1>3, <1>4, <1>5, Frame
  <1>7. FilesFresh'
    BY <1>1, <1>6 DEF FilesFresh
  <1>8. RowsTyped' /\ RowsFit'
    BY <1>1, <1>6, RowsKept
  <1>9. AvatarsFit'
    <2>1. Avatar(u) \in Objects /\ \A v \in Users : v # u => Avatar(v) # Avatar(u)
      BY NamedObjects
    <2> SUFFICES ASSUME NEW v \in Users
                 PROVE  /\ profile'[v] = "ours" => Avatar(v) \in stored
                        /\ profile'[v] = "gone" /\ Avatar(v) \in stored => Avatar(v) \in strays'
                        /\ Avatar(v) \in stored \ strays' =>
                            profile'[v] = "ours" \/ \E q \in Callers : task[q].name = v
                        /\ \A q \in Callers :
                            task[q].at = "avatar" /\ task[q].name = v /\ profile'[v] # "gone" =>
                                Avatar(v) \in stored
      BY <1>1 DEF AvatarsFit
    <2>2. CASE v = u
      BY <1>1, <1>2, <2>2
    <2>3. CASE v # u
      BY <1>1, <1>2, <2>1, <2>3 DEF AvatarsFit
    <2> QED
      BY <2>2, <2>3
  <1>10. ImagesHeld'
    <2>1. \A o : o[2] \in Names /\ IsReferenced(o) => IsReferenced(o)'
      BY <1>1, <1>2, NamedObjects DEF IsReferenced
    <2> QED
      BY <1>1, <2>1, ImagesKept
  <1>11. StorageTyped' /\ ProfilesTyped'
    BY <1>1, <1>2 DEF StorageTyped, ProfilesTyped
  <1> QED
    BY <1>6, <1>7, <1>8, <1>9, <1>10, <1>11

LEMMA AgeAllStep ==
    ASSUME AssetsFit, AgeAll
    PROVE  AssetsFit'
  <1> USE DEF AssetsFit
  <1>1. /\ young' = {} /\ \A p \in Callers : ~Making(task[p])
        /\ UNCHANGED <<stored, known, row, profile, task, late, strays, failures>>
        /\ Gone' = Gone /\ Cleared' = Cleared
    BY DEF AgeAll, Making, tables, fileHistory, Gone, Cleared, Doing
  <1>2. TasksTyped' /\ TasksFit'
    BY <1>1 DEF TasksTyped, TasksFit
  <1>3. RowsTyped' /\ RowsFit'
    BY <1>1, RowsKept
  <1>4. FilesFresh'
    BY <1>1 DEF FilesFresh
  <1>5. AvatarsFit'
    BY <1>1, AvatarsKept
  <1>6. ImagesHeld'
    <2>1. \A o : IsReferenced(o)' <=> IsReferenced(o)
      BY <1>1 DEF IsReferenced
    <2> QED
      BY <1>1, <2>1, ImagesKept
  <1>7. StorageTyped' /\ ProfilesTyped'
    BY <1>1 DEF StorageTyped, ProfilesTyped
  <1> QED
    BY <1>2, <1>3, <1>4, <1>5, <1>6, <1>7

LEMMA CrashStep ==
    ASSUME AssetsFit, Crash
    PROVE  AssetsFit'
  <1> USE DEF AssetsFit
  <1> DEFINE O == UNION {{o \in Objects : o[2] = task[p].name} \cup
                         Range(task[p].todo) \cup task[p].targets : p \in Callers}
  <1>1. /\ task' = [p \in Workers |-> IF p \in Callers THEN NoTask ELSE task[p]]
        /\ UNCHANGED <<stored, young, known, row, profile, late>> /\ failures' \in 0..MaxFailures
        /\ strays' = (strays \cup O) \cap stored /\ Gone' = Gone
    BY DEF Crash, TasksTyped, Stray, tables, Fault, StorageTyped, Gone
  <1>2. /\ DOMAIN task' = Workers /\ task' = [q \in Workers |-> task'[q]]
        /\ \A q \in Callers : task'[q] = NoTask
        /\ \A q \in Workers \ Callers : task'[q] = task[q]
    BY <1>1 DEF Workers
  <1>3. \A o \in stored, q \in Callers : HoldsFile(task[q], o) => o \in O
    BY DEF HoldsFile, StorageTyped
  <1> HIDE DEF O
  <1>4. \A q \in Workers :
            \/ task'[q] = task[q]
            \/ /\ TaskTyped(q, task'[q]) /\ TaskFits(q, task'[q], known', Gone')
               /\ q \in Callers /\ ClearedBy(task'[q]) = {}
    BY <1>2, NoTaskTyped DEF Workers
  <1>5. \A q \in Callers : ~Making(task'[q]) /\ task'[q].at # "avatar"
    BY <1>2, NoTaskIs
  <1>6. /\ known \subseteq known' /\ Gone \subseteq Gone'
        /\ \A o \in Objects : /\ o \in stored' <=> o \in stored
                              /\ o \in young => o \in young'
                              /\ o \in known' => o \in known
    BY <1>1
  <1>7. TasksTyped' /\ TasksFit' /\ Cleared' \subseteq Cleared
    <2>1. \A q \in Callers : task'[q] = task[q] /\ Making(task[q]) =>
              /\ task[q].name # Foreign
              /\ \A r \in Callers \ {q} : task'[r].name = task[r].name \/ task'[r].name # task[q].name
      BY <1>5
    <2> QED
      BY <1>2, <1>4, <1>6, <2>1, Frame
  <1>8. FilesFresh'
    BY <1>5 DEF FilesFresh
  <1>9. RowsTyped' /\ RowsFit'
    BY <1>1, <1>7, RowsKept
  <1>10. AvatarsFit'
    <2>1. ASSUME NEW q \in Callers, NEW u \in Users, task[q].name = u
          PROVE  Avatar(u) \notin stored' \ strays'
      BY <1>1, <1>3, <2>1, NamedObjects DEF HoldsFile
    <2> QED
      BY <1>1, <1>5, <2>1, AvatarsKept
  <1>11. ImagesHeld'
    <2>1. \A o : IsReferenced(o)' <=> IsReferenced(o)
      BY <1>1 DEF IsReferenced
    <2>2. \A o \in stored' \ strays', q \in Callers : ~HoldsFile(task[q], o)
      BY <1>1, <1>3
    <2> QED
      BY <1>1, <2>1, <2>2, ImagesKept
  <1>12. StorageTyped' /\ ProfilesTyped'
    BY <1>1 DEF StorageTyped, ProfilesTyped
  <1> QED
    BY <1>7, <1>8, <1>9, <1>10, <1>11, <1>12

-----------------------------------------------------------------------------
LEMMA Stutter == AssetsFit /\ UNCHANGED assetVars => AssetsFit'
  <1> SUFFICES ASSUME AssetsFit, UNCHANGED assetVars
               PROVE  AssetsFit'
    OBVIOUS
  <1> USE DEF AssetsFit, assetVars, tables, fileHistory
  <1>1. Cleared' = Cleared /\ Gone' = Gone /\ \A o : IsReferenced(o)' <=> IsReferenced(o)
    BY DEF Cleared, Doing, Gone, IsReferenced
  <1>2. StorageTyped' /\ TasksTyped' /\ RowsTyped' /\ ProfilesTyped'
    BY DEF StorageTyped, TasksTyped, RowsTyped, ProfilesTyped
  <1>3. TasksFit' /\ RowsFit' /\ FilesFresh'
    BY <1>1 DEF TasksFit, RowsFit, FilesFresh, Fresh
  <1>4. AvatarsFit' /\ ImagesHeld'
    BY <1>1 DEF AvatarsFit, ImagesHeld
  <1> QED
    BY <1>2, <1>3, <1>4

LEMMA NextParts ==
    ASSUME AssetsFit, [AssetsNext]_assetVars
    PROVE  AssetsFit'
  <1>1. CASE \E p \in Callers, n \in Names : StoreOriginal(p, n)
    BY <1>1, StoreOriginalStep
  <1>2. CASE \E p \in Callers : StoreThumbnail(p)
    BY <1>2, StoreThumbnailStep
  <1>3. CASE \E p \in Callers : ThumbnailFails(p)
    BY <1>3, ThumbnailFailsStep
  <1>4. CASE \E p \in Callers : RequestFails(p)
    BY <1>4, RequestFailsStep
  <1>5. CASE \E p \in Callers, r \in Rows : AddCreation(p, r)
    BY <1>5, AddCreationStep
  <1>6. CASE \E p \in Callers, r \in Rows : DeleteRow(p, r)
    BY <1>6, DeleteRowStep
  <1>7. CASE \E p \in Callers : CheckTarget(p)
    BY <1>7, CheckTargetStep
  <1>8. CASE \E p \in Callers : RemoveTargets(p)
    BY <1>8, RemoveTargetsStep
  <1>9. CASE \E p \in Callers : ErasureFails(p)
    BY <1>9, ErasureFailsStep
  <1>10. CASE \E p \in Callers, u \in Users : StoreAvatar(p, u)
    BY <1>10, StoreAvatarStep
  <1>11. CASE \E p \in Callers : SetAvatarUrl(p)
    BY <1>11, SetAvatarUrlStep
  <1>12. CASE \E r \in Rows, url \in known \cup {Foreign} : MigrateCreation(r, url)
    BY <1>12, MigrateCreationStep
  <1>13. CASE \E r \in Rows, n \in Covers, thumbnail \in BOOLEAN :
                  Range(Pair(n, thumbnail)) \subseteq known /\ SaveStyle(r, Pair(n, thumbnail))
    BY <1>13, SaveStyleStep
  <1>14. CASE \E n \in Covers : DeleteUpload(n)
    BY <1>14, DeleteUploadStep
  <1>15. CASE \E k \in Scripts, b \in DeletableBuckets \cup {"avatars"} : List(k, b)
    BY <1>15, ListStep
  <1>16. CASE \E k \in Scripts : Classify(k)
    BY <1>16, ClassifyStep
  <1>17. CASE \E k \in Scripts : ClassifyOwner(k)
    BY <1>17, ClassifyOwnerStep
  <1>18. CASE \E k \in Scripts : RemoveBatch(k)
    BY <1>18, RemoveBatchStep
  <1>19. CASE \E k \in Scripts : ScriptFails(k)
    BY <1>19, ScriptFailsStep
  <1>20. CASE \E u \in Users : DeleteAccount(u)
    BY <1>20, DeleteAccountStep
  <1>21. CASE AgeAll
    BY <1>21, AgeAllStep
  <1>22. CASE Crash
    BY <1>22, CrashStep
  <1>23. CASE Rest \/ UNCHANGED assetVars
    BY <1>23, Stutter DEF Rest
  <1> QED
    BY <1>1, <1>2, <1>3, <1>4, <1>5, <1>6, <1>7, <1>8, <1>9, <1>10, <1>11, <1>12,
       <1>13, <1>14, <1>15, <1>16, <1>17, <1>18, <1>19, <1>20, <1>21, <1>22, <1>23
    DEF AssetsNext, Names

LEMMA AssetsNextIInv == AssetsIInv /\ [AssetsNext]_assetVars => AssetsIInv'
  BY AssetsParts, AssetsPartsNext, NextParts

LEMMA AssetsIInvAlways == AssetsSpec => []AssetsIInv
  BY AssetsInitIInv, AssetsNextIInv, PTL DEF AssetsSpec

-----------------------------------------------------------------------------
(* The variables hold what the code puts there, however requests and scripts
   overlap. *)
THEOREM AssetsTyped == AssetsSpec => []AssetsTypeOK
  <1>1. AssetsIInv => AssetsTypeOK
    BY DEF AssetsIInv
  <1> QED
    BY <1>1, AssetsIInvAlways, PTL

(* What a row shows and cannot be had has its cause on record; what is stored
   and no row shows is on the list of a request, or was left behind by a
   fault, an edit, an upload or a deleted account. *)
THEOREM FilesAlwaysMatchRows == AssetsSpec => []FilesMatchRows
  <1>1. ASSUME AssetsIInv
        PROVE  LossHasACause
    <2> SUFFICES ASSUME NEW r \in Rows, NEW variant \in {"original", "thumbnail"},
                        GetCreationImage(r, variant) = "unavailable"
                 PROVE  \E o \in Range(row[r].urls) \ stored : <<r, o>> \in late
      BY DEF LossHasACause
    <2> DEFINE urls == row[r].urls
               url == IF variant = "thumbnail" THEN urls[Len(urls)] ELSE urls[1]
    <2>1. urls # <<>> /\ url # Foreign /\ url \notin stored
      BY DEF GetCreationImage, Live
    <2>2. urls \in Seq(URLs) /\ Range(urls) \subseteq known \cup {Foreign} /\ known \subseteq Objects
      BY <1>1, AssetsParts, RowIs DEF AssetsFit, StorageTyped
    <2>3. Len(urls) \in Nat \ {0} /\ DOMAIN urls = 1..Len(urls)
      BY <2>1, <2>2
    <2>4. url \in Range(urls)
      BY <2>3 DEF Range
    <2>5. url \in Objects \ stored
      BY <2>1, <2>2, <2>4
    <2> QED
      BY <1>1, <2>4, <2>5 DEF AssetsIInv, RowsFit
  <1>2. ASSUME AssetsIInv
        PROVE  NothingIsLeftBehind
    <2> SUFFICES ASSUME NEW o \in stored \ strays
                 PROVE  \/ IsReferenced(o)
                        \/ \E p \in Callers : \/ task[p].name = o[2]
                                              \/ o \in Range(task[p].todo) \cup task[p].targets
      BY DEF NothingIsLeftBehind
    <2>1. o \in Objects
      BY <1>2 DEF AssetsIInv, AssetsTypeOK
    <2>2. CASE o[2] \in Names
      BY <1>2, <2>2 DEF AssetsIInv, ImagesHeld, HoldsFile, Names
    <2>3. CASE o[2] \notin Names
      <3>1. PICK u \in Users : o = Avatar(u)
        BY <2>1, <2>3, Buckets
      <3>2. o[2] = u
        BY <3>1, NamedObjects
      <3> QED
        BY <1>2, <3>1, <3>2 DEF AssetsIInv, AvatarsFit, IsReferenced
    <2> QED
      BY <2>2, <2>3
  <1>3. AssetsIInv => FilesMatchRows
    BY <1>1, <1>2 DEF FilesMatchRows
  <1> QED
    BY <1>3, AssetsIInvAlways, PTL

(* An avatar of an account there is is what its profile says, and no step takes
   it away: a request checks the bucket of what it removes, a script the
   account, and one that is gone does not come back. *)
THEOREM AvatarsAlwaysStay == AssetsSpec => AvatarsStay
  <1> DEFINE Stay == \A u \in Users :
                 /\ AvatarDelivery(u)' # "unavailable"
                 /\ profile[u] # "gone" /\ Avatar(u) \in stored => Avatar(u) \in stored'
  <1>1. ASSUME AssetsIInv, AssetsIInv', AssetsNext, NEW u \in Users
        PROVE  AvatarDelivery(u)' # "unavailable"
    <2>1. PICK now : now = profile'[u]
      OBVIOUS
    <2>2. now \in {"none", "provider", "ours", "gone"}
      BY <1>1, <2>1 DEF AssetsIInv, AssetsTypeOK
    <2>3. now = "ours" => Avatar(u) \in stored'
      BY <1>1, <2>1 DEF AssetsIInv, AvatarsFit
    <2> QED
      BY <2>1, <2>2, <2>3 DEF AvatarDelivery
  <1>2. ASSUME AssetsFit, AssetsNext, NEW u \in Users, profile[u] # "gone", Avatar(u) \in stored
        PROVE  Avatar(u) \in stored'
    <2>1. ASSUME NEW p \in Workers, NEW O \in SUBSET task[p].targets, Removed(p, O)
          PROVE  Avatar(u) \in stored'
      <3>1. TaskFits(p, task[p], known, Gone)
        BY <1>2, FitsOf DEF AssetsFit
      <3>2. Avatar(u) \notin task[p].targets
        BY <1>2, <3>1, Buckets DEF TaskFits, Workers, Gone
      <3> QED
        BY <1>2, <2>1, <3>2 DEF Removed, Erase
    <2>2. ASSUME NEW p \in Callers, RemoveTargets(p)
          PROVE  Avatar(u) \in stored'
      BY <2>1, <2>2 DEF RemoveTargets, Workers
    <2>3. ASSUME NEW k \in Scripts, RemoveBatch(k)
          PROVE  Avatar(u) \in stored'
      BY <1>2, <2>1, <2>3 DEF RemoveBatch, Workers
    <2>4. ASSUME NEW n \in Covers, DeleteUpload(n)
          PROVE  Avatar(u) \in stored'
      BY <1>2, <2>4, NamedObjects DEF DeleteUpload, Erase, Names
    <2>5. stored \subseteq stored' \/ \/ \E p \in Callers : RemoveTargets(p)
                                      \/ \E k \in Scripts : RemoveBatch(k)
                                      \/ \E n \in Covers : DeleteUpload(n)
      BY <1>2 DEF AssetsNext, StoreOriginal, StoreThumbnail, ThumbnailFails, RequestFails, AddCreation,
         DeleteRow, CheckTarget, ErasureFails, StoreAvatar, SetAvatarUrl, MigrateCreation, SaveStyle,
         List, Classify, ClassifyOwner, ScriptFails, DeleteAccount, AgeAll, Crash, Rest, assetVars, Store
    <2> QED
      BY <1>2, <2>2, <2>3, <2>4, <2>5
  <1>3. AssetsIInv /\ AssetsIInv' /\ [AssetsNext]_assetVars => [Stay]_assetVars
    BY <1>1, <1>2, AssetsParts
  <1>4. AssetsSpec => [][Stay]_assetVars
    BY <1>3, AssetsIInvAlways, PTL DEF AssetsSpec
  <1> QED
    BY <1>4 DEF AvatarsStay

-----------------------------------------------------------------------------
(***************************************************************************)
(* The catalog: its types and foreign keys, that nothing is held after a   *)
(* transaction, that curation and reorderings stand, and that the cached   *)
(* candidates are the enabled styles, for every set of styles, tags, jobs  *)
(* and saves.                                                              *)
(***************************************************************************)

(* What every job keeps to, whatever the others do: which kind takes which
   steps, whose style it is at, and that only a transaction holds anything. *)
Shape(r) ==
    /\ r.at = "next" => r.kind = "backfill"
    /\ r.at \in {"vocabulary", "primary", "fallback", "newTag", "drop", "add"} =>
        r.kind \in {"create", "update", "backfill"}
    /\ r.at \in {"row", "commit"} => r.kind # None
    /\ r.at \in {"newTag", "drop", "add"} => r.tags # None
    /\ r.at = "row" /\ r.kind = "backfill" => r.tags # None
    /\ r.kind \in {"create", "update"} => r.id \in Styles
    /\ r.kind = "backfill" /\ r.at # "next" => r.list # <<>> /\ r.id = r.list[1]
    /\ r.kind = "create" /\ r.at \in {"row", "drop", "add", "commit"} =>
        r.tags # None /\ r.auto \in BOOLEAN
    /\ r.kind = "create" /\ r.at \in {"drop", "add", "commit"} => r.locks = {r.id}
    /\ r.at \notin {"row", "drop", "add", "commit"} =>
        r.locks = {} /\ r.dropped = {} /\ r.added = {}
    /\ IF r.kind = "reorder" THEN /\ r.at \in {"row", "commit"}
                                  /\ r.list \in Lists /\ r.locks \subseteq ToSet(r.list)
                                  /\ r.dropped = {} /\ r.added = {}
       ELSE r.locks \subseteq {r.id} /\ r.dropped \cup r.added \subseteq {r.id} \X Tags

(* What a job holds is there: the rows it locked, but the one a creation will
   make, and the keys it inserted. *)
Holds(r) ==
    /\ r.kind # "create" => \A s \in r.locks : Present(s)
    /\ \A p \in r.added : tag[p[2]] # "absent" /\ (r.kind # "create" => Present(p[1]))

(* Only the operator's script backfills, and what it has selected was not
   curated since, unless that is on record. *)
BackfillsApart ==
    /\ \A j \in Jobs : job[j].kind = "backfill" <=> j \in Backfills /\ ~At(j, "idle")
    /\ \A b \in Backfills : \A s \in ToSet(job[b].list) : s \in raced \/ curated[s] = None

JobsFit == \A j \in Jobs : Shape(job[j]) /\ Holds(job[j])

(* The positions that reorderings gave are of styles there are. *)
OrderFits == \A s \in DOMAIN order : Present(s) /\ style[s].sort = order[s]

IInv == TypeOK /\ JobsFit /\ BackfillsApart /\ OrderFits /\ CurationHolds

USE NoneAssumption, JobsAssumption, VocabularyAssumption, SavesAssumption, ListsAssumption,
    ClassifierAssumption, CatalogBounds

-----------------------------------------------------------------------------
(* A set of numbers up to some number has a last one. *)
LEMMA LastOf ==
    ASSUME NEW N \in Nat, NEW S \in SUBSET (0..N), S # {}
    PROVE  \E n \in S : \A m \in S : m <= n
  <1> DEFINE Above(n) == {m \in S : m > n}
             T == {Above(n) : n \in S}
  <1>1. IsFiniteSet(S)
    <2>1. IsFiniteSet(0..N)
      BY FS_Interval
    <2> QED
      BY <2>1, FS_Subset
  <1>2. T \subseteq FiniteSubsetsOf(S) /\ T # {}
    <2>1. Above(CHOOSE n \in S : TRUE) \in T
      OBVIOUS
    <2>2. \A n \in S : Above(n) \in SUBSET S
      OBVIOUS
    <2>3. T \subseteq SUBSET S
      BY <2>2
    <2>4. FiniteSubsetsOf(S) = SUBSET S
      BY <1>1, FS_FiniteSubsetsOfFinite
    <2> QED
      BY <2>1, <2>3, <2>4, Zenon
  <1>3. IsWellFoundedOn(StrictSubsetOrdering(S), FiniteSubsetsOf(S))
    BY FS_StrictSubsetOrderingWellFounded
  <1> HIDE DEF T
  <1>4. PICK x \in T : \A y \in T : <<y, x>> \notin StrictSubsetOrdering(S)
    BY <1>2, <1>3, WFMin
  <1>5. PICK n \in S : x = Above(n)
    BY DEF T
  <1>6. ASSUME NEW m \in S, m > n PROVE FALSE
    <2>1. Above(m) \subseteq Above(n) /\ m \in Above(n) /\ m \notin Above(m)
      <3>1. n \in Nat /\ m \in Nat /\ \A k \in S : k \in Nat
        OBVIOUS
      <3>2. \A k \in S : k > m => k > n
        BY <1>6, <3>1
      <3>3. ~(m > m)
        BY <3>1
      <3> QED
        BY <1>6, <3>2, <3>3
    <2>2. <<Above(m), x>> \in StrictSubsetOrdering(S)
      BY <1>5, <2>1 DEF StrictSubsetOrdering
    <2> QED
      BY <1>4, <2>2 DEF T
  <1> QED
    BY <1>6

LEMMA NextPositionType == ASSUME TypeOK PROVE NextPosition \in Positions
  <1> DEFINE taken == {style[s].sort : s \in {s \in Styles : Present(s)}}
  <1>1. taken \subseteq Positions
    BY DEF TypeOK, Present, Style
  <1>2. CASE taken = {}
    BY <1>2 DEF NextPosition, Positions
  <1>3. CASE taken # {}
    <2> DEFINE last == CHOOSE n \in taken : \A m \in taken : m <= n
    <2>1. last \in taken
      BY <1>1, <1>3, LastOf DEF Positions
    <2>2. NextPosition = Least(1 + last, MaxPosition)
      BY <1>3 DEF NextPosition
    <2> HIDE DEF last, taken
    <2>3. last \in Positions
      BY <1>1, <2>1
    <2> QED
      BY <2>2, <2>3 DEF Positions, Least
  <1> QED
    BY <1>2, <1>3

LEMMA PlaceInType ==
    ASSUME NEW list \in Lists, NEW s \in ToSet(list)
    PROVE  PlaceIn(list, s) \in Positions
  <1> DEFINE named == {i \in DOMAIN list : list[i] = s}
             last == CHOOSE i \in DOMAIN list :
                         list[i] = s /\ \A k \in DOMAIN list : list[k] = s => k <= i
  <1>1. list \in Seq(Styles) /\ Len(list) \in Nat /\ DOMAIN list = 1..Len(list)
    OBVIOUS
  <1>2. named \in SUBSET (0..Len(list)) /\ named # {}
    BY <1>1 DEF ToSet
  <1>3. PICK n \in named : \A m \in named : m <= n
    BY <1>1, <1>2, LastOf
  <1>4. \E i \in DOMAIN list : list[i] = s /\ \A k \in DOMAIN list : list[k] = s => k <= i
    BY <1>3
  <1>5. last \in DOMAIN list
    BY <1>4
  <1>6. PlaceIn(list, s) = SortOrder(list, last)
    BY DEF PlaceIn
  <1> HIDE DEF last
  <1> QED
    BY <1>5, <1>6

-----------------------------------------------------------------------------
(* A record a job may have, by itself and with what is in the tables. *)
Fits(r) ==
    /\ r \in Job /\ Shape(r) /\ Holds(r)
    /\ r.kind = "reorder" /\ r.at = "row" => r.next \in DOMAIN r.list

(* ... and one that is job j's. *)
FitsFor(j, r) ==
    /\ r.kind = "backfill" <=> j \in Backfills /\ r.at # "idle"
    /\ j \in Backfills => \A s \in ToSet(r.list) : s \in raced \/ curated[s] = None

(* The parts of the state that have nothing to do with jobs. *)
TablesOK ==
    /\ style \in [Styles -> Style \cup {None}]
    /\ tagged \subseteq {p \in Pairs : style[p[1]] # None /\ tag[p[2]] # "absent"}
    /\ tag \in [Tags -> {"on", "off", "absent"}]
    /\ curated \in [Styles -> Choice] /\ raced \subseteq Styles
    /\ DOMAIN order \subseteq Styles /\ \A s \in DOMAIN order : order[s] \in Positions

ReadingOK ==
    /\ reader \in [Readers -> [at : {"idle", "load", "keep"}, found : SUBSET Styles]]
    /\ cache \in (SUBSET Styles) \cup {None}
    /\ outrun \subseteq Readers /\ stale \in BOOLEAN

BoundsOK == changes \in 0..MaxChanges /\ faults \in 0..MaxFaults

AllFits ==
    /\ DOMAIN job = Jobs /\ job = [j \in Jobs |-> job[j]]
    /\ \A j \in Jobs : Fits(job[j]) /\ FitsFor(j, job[j])

Parts == TablesOK /\ ReadingOK /\ BoundsOK /\ AllFits /\ OrderFits /\ CurationHolds

LEMMA IInvParts == IInv <=> Parts
  <1>1. (DOMAIN job = Jobs /\ job = [j \in Jobs |-> job[j]] /\ \A j \in Jobs : job[j] \in Job)
            <=> job \in [Jobs -> Job]
    OBVIOUS
  <1>2. ASSUME NEW j \in Jobs
        PROVE  /\ FitsFor(j, job[j]) <=>
                    /\ job[j].kind = "backfill" <=> j \in Backfills /\ ~At(j, "idle")
                    /\ j \in Backfills => \A s \in ToSet(job[j].list) : s \in raced \/ curated[s] = None
    BY DEF FitsFor, At
  <1>3. BackfillsApart <=> \A j \in Jobs : FitsFor(j, job[j])
    BY <1>2 DEF BackfillsApart, Jobs
  <1> QED
    BY <1>1, <1>3 DEF IInv, TypeOK, JobsFit, Fits, TablesOK, ReadingOK, BoundsOK, AllFits, Parts

LEMMA IInvPartsNext == IInv' <=> Parts'
  BY IInvParts, PTL

LEMMA IdleFits ==
    /\ Idle \in Job
    /\ Fits(Idle)
    /\ \A j \in Jobs : FitsFor(j, Idle)
  <1>1. Idle \in Job
    <2>1. "idle" \in Steps /\ None \in Choice /\ <<>> \in Seq(Styles)
      BY DEF Steps, Choice
    <2>2. 0 \in Positions /\ 1 \in Nat \ {0} /\ 0 \in 0..MaxAttempts
      BY DEF Positions
    <2> QED
      BY <2>1, <2>2 DEF Idle, Job
  <1>2. Shape(Idle) /\ Holds(Idle) /\ Idle.kind # "reorder"
    BY DEF Idle, Shape, Holds
  <1>3. \A j \in Jobs : FitsFor(j, Idle)
    BY DEF Idle, FitsFor, ToSet
  <1> QED
    BY <1>1, <1>2, <1>3 DEF Fits

LEMMA InitIInv == Init => IInv
  <1> SUFFICES ASSUME Init PROVE IInv
    OBVIOUS
  <1> USE DEF Init
  <1>1. TablesOK
    <2>1. [enabled |-> TRUE, auto |-> TRUE, sort |-> 0] \in Style
      BY DEF Style, Positions
    <2>2. style \in [Styles -> Style \cup {None}]
      BY <2>1
    <2>3. tag \in [Tags -> {"on", "off", "absent"}] /\ tagged = {}
      OBVIOUS
    <2>4. curated \in [Styles -> Choice]
      BY Zenon DEF Choice
    <2>5. raced = {} /\ DOMAIN order = {}
      OBVIOUS
    <2> QED
      BY <2>2, <2>3, <2>4, <2>5 DEF TablesOK
  <1>2. ReadingOK /\ BoundsOK
    <2>1. ReadingOK
      <3>1. reader \in [Readers -> [at : {"idle", "load", "keep"}, found : SUBSET Styles]]
        BY DEF NoReader
      <3> QED
        BY <3>1, Zenon DEF ReadingOK
    <2> QED
      BY <2>1 DEF BoundsOK
  <1>3. OrderFits /\ CurationHolds
    BY DEF OrderFits, CurationHolds, AsCurated
  <1> QED
    BY <1>1, <1>2, <1>3, IdleFits, IInvParts DEF Parts, AllFits

(* Steps that leave styles, their tags and the record of what was curated as
   they are, and delete no tag. *)
Kept ==
    /\ UNCHANGED <<style, tagged, history>>
    /\ tag' \in [Tags -> {"on", "off", "absent"}]
    /\ \A t \in Tags : tag[t] # "absent" => tag'[t] # "absent"

(* ... in which only the job of j becomes another, r. *)
LEMMA Turns ==
    ASSUME IInv, NEW j \in Jobs, NEW r,
           job' = [job EXCEPT ![j] = r], Fits(r), FitsFor(j, r),
           Kept, ReadingOK', BoundsOK'
    PROVE  IInv'
  <1> USE IInvParts DEF Parts
  <1>1. UNCHANGED <<style, tagged, curated, raced, order>>
    BY DEF Kept, history
  <1>2. TablesOK' /\ OrderFits' /\ CurationHolds'
    <2>1. TablesOK'
      BY <1>1 DEF TablesOK, Kept, Pairs
    <2> QED
      BY <1>1, <2>1 DEF OrderFits, CurationHolds, AsCurated, Present, TagsOf
  <1>3. DOMAIN job' = Jobs /\ job' = [k \in Jobs |-> job'[k]]
    BY DEF AllFits
  <1>4. ASSUME NEW k \in Jobs PROVE Fits(job[k])' /\ FitsFor(k, job[k])'
    <2>1. PICK now : now = job'[k]
      OBVIOUS
    <2>2. Fits(now) /\ FitsFor(k, now)
      BY <2>1 DEF AllFits
    <2> QED
      <3>1. \A p \in now.added : p[2] \in Tags
        BY <2>2 DEF Fits, Job, Pairs
      <3>2. Holds(now)'
        BY <1>1, <2>2, <3>1 DEF Fits, Holds, Present, Kept
      <3>3. Fits(now)' /\ FitsFor(k, now)'
        BY <1>1, <2>2, <3>2 DEF Fits, FitsFor, Shape
      <3> QED
        BY <2>1, <3>3
  <1> QED
    BY <1>2, <1>3, <1>4, IInvPartsNext DEF AllFits

-----------------------------------------------------------------------------
(* Where a transaction or a suggestion ends, its job fits again. *)
LEMMA OnwardsFits ==
    ASSUME IInv, NEW j \in Jobs, NEW r, Fits(r), FitsFor(j, r), r.at \notin {"idle", "next"}
    PROVE  Fits(Onwards(r)) /\ FitsFor(j, Onwards(r))
  <1>1. CASE r.kind # "backfill"
    BY <1>1, IdleFits DEF Onwards
  <1>2. CASE r.kind = "backfill"
    <2> DEFINE n == [Idle EXCEPT !.at = "next", !.kind = "backfill", !.dry = r.dry,
                                 !.list = Tail(r.list)]
    <2>1. Onwards(r) = n
      BY <1>2 DEF Onwards
    <2>2. r.list \in Seq(Styles) /\ r.list # <<>> /\ r.dry \in BOOLEAN /\ j \in Backfills
      BY <1>2 DEF Fits, FitsFor, Shape, Job
    <2>3. Tail(r.list) \in Seq(Styles) /\ ToSet(Tail(r.list)) \subseteq ToSet(r.list)
      BY <2>2 DEF ToSet
    <2>4. Idle \in Job /\ "next" \in Steps /\ "backfill" \in {None, "create", "update", "reorder", "backfill"}
      BY IdleFits DEF Steps
    <2>5. n \in Job
      BY <2>2, <2>3, <2>4 DEF Job
    <2>6. /\ n.at = "next" /\ n.kind = "backfill" /\ n.list = Tail(r.list)
          /\ n.locks = {} /\ n.dropped = {} /\ n.added = {}
      BY <2>4 DEF Job, Idle
    <2> HIDE DEF n
    <2>7. Shape(n) /\ Holds(n) /\ n.kind # "reorder"
      BY <2>6 DEF Shape, Holds
    <2>8. FitsFor(j, n)
      BY <2>2, <2>3, <2>6 DEF FitsFor
    <2> QED
      BY <2>1, <2>5, <2>7, <2>8 DEF Fits
  <1> QED
    BY <1>1, <1>2

(* What a statement of job j says of the state it finds. *)
LEMMA JobOf ==
    ASSUME IInv, NEW j \in Jobs
    PROVE  Fits(job[j]) /\ FitsFor(j, job[j]) /\ job[j] \in Job
  BY IInvParts DEF Parts, AllFits, Fits

LEMMA StaysOK ==
    ASSUME IInv
    PROVE  /\ UNCHANGED <<catalog, history>> => Kept
           /\ UNCHANGED reading => ReadingOK'
           /\ UNCHANGED <<changes, faults>> => BoundsOK'
           /\ changes < MaxChanges /\ changes' = changes + 1 /\ faults' = faults => BoundsOK'
           /\ faults < MaxFaults /\ faults' = faults + 1 /\ changes' = changes => BoundsOK'
  <1> USE IInvParts DEF Parts
  <1>1. UNCHANGED reading => ReadingOK'
    BY DEF ReadingOK, reading
  <1>2. UNCHANGED <<changes, faults>> => BoundsOK'
    BY DEF BoundsOK
  <1>3. /\ changes < MaxChanges /\ changes' = changes + 1 /\ faults' = faults => BoundsOK'
        /\ faults < MaxFaults /\ faults' = faults + 1 /\ changes' = changes => BoundsOK'
    BY DEF BoundsOK
  <1>4. UNCHANGED <<catalog, history>> => Kept
    BY DEF Kept, TablesOK, catalog
  <1> QED
    BY <1>1, <1>2, <1>3, <1>4

LEMMA RollbackStep ==
    ASSUME IInv, NEW j \in Jobs, ~At(j, "idle"), ~At(j, "next"), Rollback(j),
           Kept, ReadingOK', BoundsOK'
    PROVE  IInv'
  <1>1. Fits(Onwards(job[j])) /\ FitsFor(j, Onwards(job[j]))
    BY JobOf, OnwardsFits DEF At
  <1>2. job' = [job EXCEPT ![j] = Onwards(job[j])]
    BY DEF Rollback
  <1> QED
    BY <1>1, <1>2, Turns

LEMMA DeadlockStep == ASSUME IInv, NEW j \in Jobs, Deadlock(j) PROVE IInv'
  <1>1. ~At(j, "idle") /\ ~At(j, "next")
    <2>1. PICK k \in Jobs \ {j} : k \in Blockers(j)
      BY DEF Deadlock, Blockers
    <2> QED
      BY <2>1 DEF Blockers, At
  <1>2. Rollback(j) /\ UNCHANGED <<catalog, reading, history, changes, faults>>
    BY DEF Deadlock
  <1> QED
    BY <1>1, <1>2, RollbackStep, StaysOK

LEMMA StatementFailsStep == ASSUME IInv, NEW j \in Jobs, StatementFails(j) PROVE IInv'
  <1>1. ~At(j, "idle") /\ ~At(j, "next")
    BY DEF StatementFails, InTransaction, At
  <1> QED
    BY <1>1, RollbackStep, StaysOK DEF StatementFails

-----------------------------------------------------------------------------
(* A request begins with a record of its own. *)
LEMMA BeginStep ==
    ASSUME IInv, NEW j \in Jobs, NEW r, Begin(j, r), Fits(r), FitsFor(j, r)
    PROVE  IInv'
  BY Turns, StaysOK DEF Begin

LEMMA SaveOfFits ==
    ASSUME NEW q \in Requests, NEW kind \in {"create", "update"}, NEW s \in Styles, NEW save \in Saves
    PROVE  Fits(SaveOf(kind, s, save)) /\ FitsFor(q, SaveOf(kind, s, save))
  <1> DEFINE at == IF save.auto = TRUE \/ (kind = "create" /\ save.auto = None)
                   THEN "vocabulary" ELSE "row"
             tags == IF kind = "create" /\ save.tags = None THEN {} ELSE save.tags
             auto == IF save.auto = FALSE THEN FALSE ELSE None
  <1>1. /\ save.tags \in Choice /\ save.auto \in BOOLEAN \cup {None}
        /\ save.enabled \in BOOLEAN /\ save.sort \in Positions
    OBVIOUS
  <1>2. at \in {"vocabulary", "row"} /\ at \in Steps
    BY DEF Steps
  <1>3. tags \in Choice /\ auto \in BOOLEAN \cup {None}
    BY <1>1 DEF Choice
  <1>4. kind = "create" /\ at = "row" => auto \in BOOLEAN
    BY <1>1
  <1>5. kind = "create" => tags # None
    OBVIOUS
  <1> HIDE DEF at, tags, auto
  <1>6. PICK r : r = [Idle EXCEPT !.kind = kind, !.id = s, !.enabled = save.enabled,
                                  !.sort = save.sort, !.at = at, !.tags = tags, !.auto = auto]
    OBVIOUS
  <1>7. r \in Job
    BY <1>1, <1>2, <1>3, <1>6, IdleFits DEF Job
  <1>8. /\ r.at = at /\ r.kind = kind /\ r.id = s /\ r.tags = tags /\ r.auto = auto
        /\ r.list = <<>> /\ r.locks = {} /\ r.dropped = {} /\ r.added = {}
    BY <1>6, IdleFits DEF Job, Idle
  <1>9. Shape(r) /\ Holds(r)
    BY <1>2, <1>4, <1>5, <1>8 DEF Shape, Holds
  <1>10. FitsFor(q, r)
    BY <1>8 DEF FitsFor
  <1>11. SaveOf(kind, s, save) = r
    BY <1>6 DEF SaveOf, at, tags, auto
  <1> QED
    BY <1>7, <1>8, <1>9, <1>10, <1>11 DEF Fits

LEMMA SavesStep ==
    ASSUME IInv, NEW q \in Requests, NEW s \in Styles, NEW save \in Saves,
           CreateStyle(q, s, save) \/ UpdateStyle(q, s, save)
    PROVE  IInv'
  <1>1. q \in Jobs
    BY DEF Jobs
  <1> QED
    BY <1>1, SaveOfFits, BeginStep DEF CreateStyle, UpdateStyle

LEMMA ReorderStylesStep ==
    ASSUME IInv, NEW q \in Requests, NEW list \in Lists, ReorderStyles(q, list)
    PROVE  IInv'
  <1>1. PICK r : r = [Idle EXCEPT !.kind = "reorder", !.list = list,
                                  !.at = IF list = <<>> THEN "commit" ELSE "row"]
    OBVIOUS
  <1>2. list \in Seq(Styles) /\ q \in Jobs
    BY DEF Jobs
  <1>3. r \in Job
    BY <1>1, <1>2, IdleFits, ZenonT(40) DEF Job, Steps
  <1>4. /\ r.at \in {"row", "commit"} /\ (r.at = "row" => list # <<>>) /\ r.kind = "reorder"
        /\ r.list = list /\ r.next = 1 /\ r.locks = {} /\ r.dropped = {} /\ r.added = {}
    BY <1>1, <1>2, IdleFits DEF Job, Idle
  <1>5. r.at = "row" => r.next \in DOMAIN r.list
    BY <1>2, <1>4
  <1>6. Shape(r) /\ Holds(r)
    BY <1>4 DEF Shape, Holds
  <1>7. FitsFor(q, r)
    BY <1>4 DEF FitsFor
  <1> QED
    BY <1>1, <1>2, <1>3, <1>5, <1>6, <1>7, BeginStep DEF ReorderStyles, Fits

(* A backfill selects styles that nobody has curated, or that are on record. *)
LEMMA SelectedFits ==
    ASSUME IInv, NEW list \in SetToAllKPermutations(NeedingAutoTag)
    PROVE  list \in Seq(Styles) /\ \A s \in ToSet(list) : s \in raced \/ curated[s] = None
  <1>1. PICK S \in SUBSET NeedingAutoTag : list \in SetToSeqs(S)
    BY DEF SetToAllKPermutations
  <1>2. Cardinality(S) \in Nat
    <2>1. S \subseteq Styles
      BY DEF NeedingAutoTag
    <2> QED
      BY <2>1, FS_Subset, FS_CardinalityType
  <1>3. list \in [1..Cardinality(S) -> S]
    BY <1>1 DEF SetToSeqs
  <1>4. list \in Seq(Styles) /\ ToSet(list) \subseteq NeedingAutoTag
    BY <1>2, <1>3 DEF NeedingAutoTag, ToSet
  <1>5. \A s \in NeedingAutoTag : s \in raced \/ curated[s] = None
    BY DEF NeedingAutoTag, IInv, CurationHolds, AsCurated
  <1> QED
    BY <1>4, <1>5

LEMMA BackfillStep == ASSUME IInv, NEW b \in Backfills, Backfill(b) PROVE IInv'
  <1>1. PICK list \in SetToAllKPermutations(NeedingAutoTag), dry \in BOOLEAN :
            Begin(b, [Idle EXCEPT !.at = "next", !.kind = "backfill", !.list = list, !.dry = dry])
    BY DEF Backfill
  <1>2. PICK r : r = [Idle EXCEPT !.at = "next", !.kind = "backfill", !.list = list, !.dry = dry]
    OBVIOUS
  <1>3. list \in Seq(Styles) /\ b \in Jobs
    BY SelectedFits DEF Jobs
  <1>4. r \in Job
    BY <1>2, <1>3, IdleFits DEF Job, Steps
  <1>5. /\ r.at = "next" /\ r.kind = "backfill" /\ r.list = list
        /\ r.locks = {} /\ r.dropped = {} /\ r.added = {}
    BY <1>2, IdleFits DEF Job, Idle
  <1>6. Shape(r) /\ Holds(r)
    BY <1>5 DEF Shape, Holds
  <1>7. FitsFor(b, r)
    BY <1>5, SelectedFits DEF FitsFor
  <1> QED
    BY <1>1, <1>2, <1>3, <1>4, <1>5, <1>6, <1>7, BeginStep DEF Fits

LEMMA NextTargetStep == ASSUME IInv, NEW b \in Backfills, NextTarget(b) PROVE IInv'
  <1>1. b \in Jobs /\ job[b].at = "next"
    BY DEF NextTarget, At, Jobs
  <1>2. Fits(job[b]) /\ FitsFor(b, job[b]) /\ job[b] \in Job
    BY <1>1, JobOf
  <1>3. CASE job[b].list = <<>>
    BY <1>1, <1>3, IdleFits, Turns, StaysOK DEF NextTarget
  <1>4. CASE job[b].list # <<>>
    <2>1. PICK r : r = [job[b] EXCEPT !.at = "vocabulary", !.id = Head(job[b].list)]
      OBVIOUS
    <2>2. /\ job[b].list \in Seq(Styles) /\ Head(job[b].list) \in Styles
          /\ Head(job[b].list) = job[b].list[1]
      BY <1>2, <1>4 DEF Job
    <2>3. r \in Job
      BY <1>2, <2>1, <2>2 DEF Job, Steps
    <2>4. /\ r.at = "vocabulary" /\ r.kind = job[b].kind /\ r.list = job[b].list
          /\ r.id = r.list[1] /\ r.locks = job[b].locks
          /\ r.dropped = job[b].dropped /\ r.added = job[b].added
      BY <1>2, <2>1, <2>2 DEF Job
    <2>5. Shape(r) /\ Holds(r) /\ r.kind = "backfill"
      BY <1>1, <1>2, <1>4, <2>4 DEF Fits, Shape, Holds
    <2>6. FitsFor(b, r)
      BY <1>1, <1>2, <2>4, <2>5 DEF FitsFor
    <2>7. job' = [job EXCEPT ![b] = r]
      BY <1>4, <2>1 DEF NextTarget
    <2> QED
      BY <1>1, <2>3, <2>5, <2>6, <2>7, Turns, StaysOK DEF NextTarget, Fits
  <1> QED
    BY <1>3, <1>4

-----------------------------------------------------------------------------
(* A job that goes on: the record is as it was, but for the place it is at,
   the tags it is to give and the attempts of its classifier. *)
LEMMA Suggests ==
    ASSUME IInv, NEW j \in Jobs, NEW tags \in Choice, Suggested(j, tags),
           job[j].at \in {"vocabulary", "primary", "fallback", "newTag"},
           Kept, ReadingOK', BoundsOK'
    PROVE  IInv'
  <1>1. Fits(job[j]) /\ FitsFor(j, job[j]) /\ job[j] \in Job
    BY JobOf
  <1>2. PICK plain : plain = [job[j] EXCEPT !.vocabulary = {}, !.attempt = 0, !.overloaded = FALSE]
    OBVIOUS
  <1>3. plain \in Job
    <2>1. 0 \in 0..MaxAttempts
      OBVIOUS
    <2> QED
      BY <1>1, <1>2, <2>1 DEF Job
  <1>4. /\ plain.at = job[j].at /\ plain.kind = job[j].kind /\ plain.list = job[j].list
        /\ plain.id = job[j].id /\ plain.tags = job[j].tags /\ plain.auto = job[j].auto
        /\ plain.locks = job[j].locks /\ plain.dropped = job[j].dropped /\ plain.added = job[j].added
    BY <1>1, <1>2 DEF Job
  <1>5. Shape(plain) /\ Holds(plain) /\ FitsFor(j, plain) /\ plain.kind # "reorder"
    BY <1>1, <1>4 DEF Fits, Shape, Holds, FitsFor
  <1>6. plain.kind \in {"create", "update", "backfill"} /\ plain.at \notin {"idle", "next"}
    BY <1>1, <1>4 DEF Fits, Shape
  <1>7. ASSUME NEW at \in {"row", "drop"}, NEW auto \in BOOLEAN \cup {None}, NEW tt \in Choice,
               at = "drop" => plain.kind = "backfill" /\ tt # None,
               at = "row" => plain.kind # "backfill",
               plain.kind = "create" => tt # None /\ auto \in BOOLEAN,
               NEW r, r = [plain EXCEPT !.at = at, !.tags = tt, !.auto = auto],
               job' = [job EXCEPT ![j] = r]
        PROVE  IInv'
    <2>1. r \in Job
      BY <1>3, <1>7 DEF Job, Steps
    <2>2. /\ r.at = at /\ r.tags = tt /\ r.auto = auto /\ r.kind = plain.kind
          /\ r.list = plain.list /\ r.id = plain.id /\ r.locks = plain.locks
          /\ r.dropped = plain.dropped /\ r.added = plain.added
      BY <1>3, <1>7 DEF Job
    <2>3. Shape(r) /\ Holds(r)
      BY <1>4, <1>5, <1>6, <1>7, <2>2 DEF Shape, Holds
    <2>4. FitsFor(j, r)
      BY <1>5, <1>6, <1>7, <2>2 DEF FitsFor
    <2> QED
      BY <1>5, <1>7, <2>1, <2>2, <2>3, <2>4, Turns DEF Fits
  <1>8. CASE plain.kind = "backfill"
    <2>1. job' = [job EXCEPT ![j] = IF tags = None \/ plain.dry THEN Onwards(plain)
                                    ELSE [plain EXCEPT !.at = "drop", !.tags = tags]]
      BY <1>2, <1>8 DEF Suggested
    <2>2. CASE tags = None \/ plain.dry
      <3>1. Fits(Onwards(plain)) /\ FitsFor(j, Onwards(plain))
        BY <1>3, <1>5, <1>6, OnwardsFits DEF Fits
      <3> QED
        BY <2>1, <2>2, <3>1, Turns
    <2>3. CASE ~(tags = None \/ plain.dry)
      <3>1. plain.auto \in BOOLEAN \cup {None}
        BY <1>3 DEF Job
      <3>2. [plain EXCEPT !.at = "drop", !.tags = tags] =
                [plain EXCEPT !.at = "drop", !.tags = tags, !.auto = plain.auto]
        BY <1>3 DEF Job
      <3> QED
        BY <1>7, <1>8, <2>1, <2>3, <3>1, <3>2
    <2> QED
      BY <2>2, <2>3
  <1>9. CASE plain.kind = "create"
    <2>1. PICK tt : tt = IF tags = None THEN {} ELSE tags
      OBVIOUS
    <2>2. job' = [job EXCEPT ![j] = [plain EXCEPT !.at = "row", !.tags = tt, !.auto = TRUE]]
      <3>1. job' = [job EXCEPT ![j] = [plain EXCEPT !.at = "row", !.auto = TRUE, !.tags = tt]]
        BY <1>2, <1>9, <2>1 DEF Suggested
      <3>2. [plain EXCEPT !.at = "row", !.auto = TRUE, !.tags = tt] =
                [plain EXCEPT !.at = "row", !.tags = tt, !.auto = TRUE]
        BY <1>3 DEF Job
      <3> QED
        BY <3>1, <3>2
    <2>3. tt \in Choice /\ tt # None
      BY <2>1 DEF Choice
    <2> QED
      BY <1>7, <1>9, <2>2, <2>3
  <1>10. CASE plain.kind = "update"
    <2>1. PICK auto : auto = IF tags = None THEN None ELSE TRUE
      OBVIOUS
    <2>2. job' = [job EXCEPT ![j] = [plain EXCEPT !.at = "row", !.tags = tags, !.auto = auto]]
      BY <1>2, <1>10, <2>1 DEF Suggested
    <2> QED
      BY <1>7, <1>10, <2>1, <2>2
  <1> QED
    BY <1>6, <1>8, <1>9, <1>10

LEMMA Asks ==
    ASSUME IInv, NEW j \in Jobs, NEW r \in Job, job' = [job EXCEPT ![j] = r],
           job[j].at \in {"vocabulary", "primary", "fallback"},
           r.at \in {"primary", "fallback", "newTag"}, r.at = "newTag" => r.tags # None,
           r.kind = job[j].kind, r.id = job[j].id, r.list = job[j].list,
           r.locks = job[j].locks, r.dropped = job[j].dropped, r.added = job[j].added,
           Kept, ReadingOK', BoundsOK'
    PROVE  IInv'
  <1>1. Fits(job[j]) /\ FitsFor(j, job[j])
    BY JobOf
  <1>2. Shape(r) /\ Holds(r) /\ r.kind # "reorder"
    BY <1>1 DEF Fits, Shape, Holds
  <1>3. FitsFor(j, r)
    BY <1>1 DEF FitsFor
  <1> QED
    BY <1>2, <1>3, Turns DEF Fits

LEMMA ExhaustedStep ==
    ASSUME IInv, NEW j \in Jobs, Exhausted(j), Asking(j),
           Kept, ReadingOK', BoundsOK'
    PROVE  IInv'
  <1>1. job[j] \in Job /\ job[j].at \in {"primary", "fallback"} /\ None \in Choice
    BY JobOf DEF Asking, Choice
  <1>2. CASE Suggested(j, None)
    BY <1>1, <1>2, Suggests
  <1>3. CASE job' = [job EXCEPT ![j] = [@ EXCEPT !.at = "fallback", !.attempt = 0, !.overloaded = FALSE]]
    <2>1. PICK r : r = [job[j] EXCEPT !.at = "fallback", !.attempt = 0, !.overloaded = FALSE]
      OBVIOUS
    <2>2. 0 \in 0..MaxAttempts /\ "fallback" \in Steps
      BY DEF Steps
    <2>3. r \in Job
      BY <1>1, <2>1, <2>2 DEF Job
    <2>4. /\ r.at = "fallback" /\ r.kind = job[j].kind /\ r.id = job[j].id /\ r.list = job[j].list
          /\ r.locks = job[j].locks /\ r.dropped = job[j].dropped /\ r.added = job[j].added
      BY <1>1, <2>1 DEF Job
    <2> QED
      BY <1>1, <1>3, <2>1, <2>3, <2>4, Asks
  <1> QED
    BY <1>2, <1>3 DEF Exhausted

LEMMA RetryStep ==
    ASSUME IInv, NEW j \in Jobs, Asking(j), job[j].attempt # MaxAttempts,
           NEW overloaded \in BOOLEAN,
           job' = [job EXCEPT ![j] = [job[j] EXCEPT !.attempt = @ + 1, !.overloaded = overloaded]],
           Kept, ReadingOK', BoundsOK'
    PROVE  IInv'
  <1>1. job[j] \in Job /\ job[j].at \in {"primary", "fallback"}
    BY JobOf DEF Asking
  <1>2. PICK r : r = [job[j] EXCEPT !.attempt = @ + 1, !.overloaded = overloaded]
    OBVIOUS
  <1>3. job[j].attempt + 1 \in 0..MaxAttempts
    BY <1>1 DEF Job
  <1>4. r \in Job
    BY <1>1, <1>2, <1>3 DEF Job
  <1>5. /\ r.at = job[j].at /\ r.kind = job[j].kind /\ r.id = job[j].id /\ r.list = job[j].list
        /\ r.locks = job[j].locks /\ r.dropped = job[j].dropped /\ r.added = job[j].added
    BY <1>1, <1>2 DEF Job
  <1> QED
    BY <1>1, <1>2, <1>4, <1>5, Asks

LEMMA ClassificationStep == ASSUME IInv, NEW j \in Jobs, Classification(j) PROVE IInv'
  <1>1. /\ Fits(job[j]) /\ FitsFor(j, job[j]) /\ job[j] \in Job
        /\ None \in Choice /\ \A tags \in SUBSET Tags : tags \in Choice
    BY JobOf DEF Choice
  <1>2. CASE ReadVocabulary(j)
    <2> DEFINE on == {t \in Tags : tag[t] = "on"}
    <2>1. job[j].at = "vocabulary" /\ UNCHANGED <<catalog, reading, history, changes, faults>>
      BY <1>2 DEF ReadVocabulary, At
    <2>2. CASE Suggested(j, {})
      BY <1>1, <2>1, <2>2, Suggests, StaysOK
    <2>3. CASE job' = [job EXCEPT ![j] = [@ EXCEPT !.at = "primary", !.vocabulary = on]]
      <3>1. PICK r : r = [job[j] EXCEPT !.at = "primary", !.vocabulary = on]
        OBVIOUS
      <3>2. r \in Job
        BY <1>1, <3>1 DEF Job, Steps
      <3>3. /\ r.at = "primary" /\ r.kind = job[j].kind /\ r.id = job[j].id /\ r.list = job[j].list
            /\ r.locks = job[j].locks /\ r.dropped = job[j].dropped /\ r.added = job[j].added
        BY <1>1, <3>1 DEF Job
      <3> QED
        BY <2>1, <2>3, <3>1, <3>2, <3>3, Asks, StaysOK
    <2> QED
      BY <1>2, <2>2, <2>3 DEF ReadVocabulary
  <1>3. CASE RateLimited(j)
    <2>1. Asking(j) /\ UNCHANGED <<catalog, reading, history, changes, faults>>
      BY <1>3 DEF RateLimited
    <2>2. CASE job[j].attempt = MaxAttempts
      BY <1>3, <2>1, <2>2, ExhaustedStep, StaysOK DEF RateLimited
    <2>3. CASE job[j].attempt # MaxAttempts
      <3>1. job' = [job EXCEPT ![j] = [job[j] EXCEPT !.attempt = @ + 1]]
        BY <1>3, <2>3 DEF RateLimited
      <3>2. /\ job[j].overloaded \in BOOLEAN
            /\ [job[j] EXCEPT !.attempt = @ + 1] =
                    [job[j] EXCEPT !.attempt = @ + 1, !.overloaded = job[j].overloaded]
        BY <1>1 DEF Job
      <3> QED
        BY <2>1, <2>3, <3>1, <3>2, RetryStep, StaysOK
    <2> QED
      BY <2>2, <2>3
  <1>4. CASE Overloaded(j)
    <2>1. Asking(j) /\ UNCHANGED <<catalog, reading, history, changes, faults>>
      BY <1>4 DEF Overloaded
    <2>2. CASE Exhausted(j)
      BY <2>1, <2>2, ExhaustedStep, StaysOK
    <2>3. CASE /\ job[j].attempt < MaxAttempts
               /\ job' = [job EXCEPT ![j] = [job[j] EXCEPT !.attempt = @ + 1, !.overloaded = TRUE]]
      <3>1. job[j].attempt # MaxAttempts
        BY <1>1, <2>3 DEF Job
      <3>2. PICK overloaded \in BOOLEAN : overloaded = TRUE
        OBVIOUS
      <3>3. job' = [job EXCEPT ![j] = [job[j] EXCEPT !.attempt = @ + 1, !.overloaded = overloaded]]
        BY <2>3, <3>2
      <3> QED
        BY <2>1, <3>1, <3>3, RetryStep, StaysOK
    <2>4. CASE Suggested(j, None)
      BY <1>1, <2>1, <2>4, Suggests, StaysOK DEF Asking
    <2> QED
      BY <1>4, <2>2, <2>3, <2>4 DEF Overloaded
  <1>5. CASE ClassifierFails(j)
    BY <1>1, <1>5, Suggests, StaysOK DEF ClassifierFails
  <1>6. CASE Classified(j)
    <2>1. PICK tags \in SUBSET job[j].vocabulary : Suggested(j, tags)
      BY <1>6 DEF Classified
    <2>2. tags \in Choice
      BY <1>1 DEF Job
    <2> QED
      BY <1>6, <2>1, <2>2, Suggests, StaysOK DEF Classified, Asking
  <1>7. CASE SuggestNewTag(j)
    <2>1. PICK t \in Tags :
              job' = [job EXCEPT ![j] = [@ EXCEPT !.at = "newTag", !.tags = {t}]]
      BY <1>7 DEF SuggestNewTag
    <2>2. PICK r : r = [job[j] EXCEPT !.at = "newTag", !.tags = {t}]
      OBVIOUS
    <2>3. {t} \in Choice /\ {t} # None
      BY DEF Choice
    <2>4. r \in Job
      BY <1>1, <2>2, <2>3 DEF Job, Steps
    <2>5. /\ r.at = "newTag" /\ r.tags = {t} /\ r.kind = job[j].kind /\ r.id = job[j].id
          /\ r.list = job[j].list /\ r.locks = job[j].locks
          /\ r.dropped = job[j].dropped /\ r.added = job[j].added
      BY <1>1, <2>2 DEF Job
    <2> QED
      BY <1>7, <2>1, <2>2, <2>3, <2>4, <2>5, Asks, StaysOK DEF SuggestNewTag, Asking
  <1>8. CASE CreateSuggestedTag(j)
    <2>1. job[j].at = "newTag" /\ job[j].tags \in Choice
      BY <1>1, <1>8 DEF CreateSuggestedTag, At, Job
    <2>2. Kept
      BY <1>8, IInvParts DEF CreateSuggestedTag, Parts, TablesOK, Kept
    <2> QED
      BY <1>8, <2>1, <2>2, Suggests, StaysOK DEF CreateSuggestedTag
  <1> QED
    BY <1>2, <1>3, <1>4, <1>5, <1>6, <1>7, <1>8 DEF Classification

-----------------------------------------------------------------------------
(* The statements of transactions: what they hold afterwards. *)
LEMMA InsertRowStep == ASSUME IInv, NEW j \in Jobs, InsertRow(j) PROVE IInv'
  <1>1. /\ job[j].at = "row" /\ job[j].kind = "create" /\ Kept
        /\ ReadingOK' /\ BoundsOK'
    BY StaysOK DEF InsertRow, Statement, At
  <1>2. Fits(job[j]) /\ FitsFor(j, job[j]) /\ job[j] \in Job
    BY JobOf
  <1>3. CASE Rollback(j)
    BY <1>1, <1>3, RollbackStep DEF At
  <1>4. CASE job' = [job EXCEPT ![j] = [@ EXCEPT !.at = "drop", !.locks = {job[j].id},
                                                 !.sort = NextPosition]]
    <2>1. PICK r : r = [job[j] EXCEPT !.at = "drop", !.locks = {job[j].id}, !.sort = NextPosition]
      OBVIOUS
    <2>2. NextPosition \in Positions /\ job[j].id \in Styles
      BY <1>1, <1>2, NextPositionType DEF IInv, Fits, Shape
    <2>3. r \in Job
      BY <1>2, <2>1, <2>2 DEF Job, Steps
    <2>4. /\ r.at = "drop" /\ r.kind = "create" /\ r.id = job[j].id /\ r.list = job[j].list
          /\ r.tags = job[j].tags /\ r.auto = job[j].auto /\ r.locks = {r.id}
          /\ r.dropped = job[j].dropped /\ r.added = job[j].added
      BY <1>1, <1>2, <2>1 DEF Job
    <2>5. Shape(r) /\ Holds(r)
      BY <1>1, <1>2, <2>2, <2>4 DEF Fits, Shape, Holds
    <2>6. FitsFor(j, r)
      BY <1>1, <1>2, <2>4 DEF FitsFor
    <2> QED
      BY <1>1, <1>4, <2>1, <2>3, <2>4, <2>5, <2>6, Turns DEF Fits
  <1> QED
    BY <1>3, <1>4 DEF InsertRow

LEMMA UpdateRowStep == ASSUME IInv, NEW j \in Jobs, UpdateRow(j) PROVE IInv'
  <1>1. /\ job[j].at = "row" /\ job[j].kind = "update" /\ Kept
        /\ ReadingOK' /\ BoundsOK'
    BY StaysOK DEF UpdateRow, Statement, At
  <1>2. Fits(job[j]) /\ FitsFor(j, job[j]) /\ job[j] \in Job
    BY JobOf
  <1>3. CASE ~Present(job[j].id)
    BY <1>1, <1>3, RollbackStep DEF At, UpdateRow
  <1>4. CASE Present(job[j].id)
    <2>1. PICK r : r = [job[j] EXCEPT !.at = IF job[j].tags = None THEN "commit" ELSE "drop",
                                      !.locks = {job[j].id}]
      OBVIOUS
    <2>2. job[j].id \in Styles
      BY <1>1, <1>2 DEF Fits, Shape
    <2>3. r \in Job
      BY <1>2, <2>1, <2>2 DEF Job, Steps
    <2>4. /\ r.at \in {"commit", "drop"} /\ (r.at = "drop" => r.tags # None)
          /\ r.kind = "update" /\ r.id = job[j].id /\ r.list = job[j].list
          /\ r.locks = {r.id} /\ r.dropped = job[j].dropped /\ r.added = job[j].added
      BY <1>1, <1>2, <2>1 DEF Job
    <2>5. Shape(r) /\ Holds(r)
      BY <1>1, <1>2, <1>4, <2>2, <2>4 DEF Fits, Shape, Holds
    <2>6. FitsFor(j, r)
      BY <1>1, <1>2, <2>4 DEF FitsFor
    <2>7. job' = [job EXCEPT ![j] = r]
      BY <1>4, <2>1 DEF UpdateRow
    <2> QED
      BY <1>1, <2>3, <2>4, <2>5, <2>6, <2>7, Turns DEF Fits
  <1> QED
    BY <1>3, <1>4

LEMMA MarkAutoAssignedStep == ASSUME IInv, NEW j \in Jobs, MarkAutoAssigned(j) PROVE IInv'
  <1>1. /\ job[j].at = "row" /\ job[j].kind = "backfill" /\ Kept
        /\ ReadingOK' /\ BoundsOK'
    BY StaysOK DEF MarkAutoAssigned, Statement, At
  <1>2. Fits(job[j]) /\ FitsFor(j, job[j]) /\ job[j] \in Job
    BY JobOf
  <1>3. PICK r : r = [job[j] EXCEPT !.at = "commit", !.locks = {s \in {job[j].id} : Present(s)}]
    OBVIOUS
  <1>4. job[j].id \in Styles
    BY <1>1, <1>2 DEF Fits, Shape, Job
  <1>5. r \in Job
    BY <1>2, <1>3, <1>4 DEF Job, Steps
  <1>6. /\ r.at = "commit" /\ r.kind = "backfill" /\ r.id = job[j].id /\ r.list = job[j].list
        /\ r.locks = {s \in {r.id} : Present(s)}
        /\ r.dropped = job[j].dropped /\ r.added = job[j].added
    BY <1>1, <1>2, <1>3 DEF Job
  <1>7. Shape(r) /\ Holds(r)
    BY <1>1, <1>2, <1>6 DEF Fits, Shape, Holds
  <1>8. FitsFor(j, r)
    BY <1>1, <1>2, <1>6 DEF FitsFor
  <1>9. job' = [job EXCEPT ![j] = r]
    BY <1>3 DEF MarkAutoAssigned
  <1> QED
    BY <1>1, <1>5, <1>6, <1>7, <1>8, <1>9, Turns DEF Fits

LEMMA PlaceRowStep == ASSUME IInv, NEW j \in Jobs, PlaceRow(j) PROVE IInv'
  <1>1. /\ job[j].at = "row" /\ job[j].kind = "reorder" /\ Kept
        /\ ReadingOK' /\ BoundsOK'
    BY StaysOK DEF PlaceRow, Statement, At
  <1>2. Fits(job[j]) /\ FitsFor(j, job[j]) /\ job[j] \in Job
    BY JobOf
  <1>3. PICK r : r = [job[j] EXCEPT
                        !.at = IF job[j].next = Len(job[j].list) THEN "commit" ELSE "row",
                        !.next = @ + 1,
                        !.locks = @ \cup {s \in {Target(j)} : Present(s)}]
    OBVIOUS
  <1>4. /\ job[j].list \in Seq(Styles) /\ job[j].next \in 1..Len(job[j].list)
        /\ Target(j) = job[j].list[job[j].next]
    BY <1>1, <1>2 DEF Fits, Job, Target
  <1>5. Target(j) \in Styles /\ Target(j) \in ToSet(job[j].list)
    BY <1>4 DEF ToSet
  <1>6. job[j].next + 1 \in Nat \ {0}
    BY <1>4
  <1>7. r \in Job
    BY <1>2, <1>3, <1>5, <1>6 DEF Job, Steps
  <1>8. /\ r.at = IF job[j].next = Len(job[j].list) THEN "commit" ELSE "row"
        /\ r.kind = "reorder" /\ r.list = job[j].list /\ r.next = job[j].next + 1
        /\ r.locks = job[j].locks \cup {s \in {Target(j)} : Present(s)}
        /\ r.dropped = job[j].dropped /\ r.added = job[j].added
    BY <1>1, <1>2, <1>3 DEF Job
  <1>9. r.at = "row" => r.next \in DOMAIN r.list
    BY <1>4, <1>8
  <1>10. Shape(r) /\ Holds(r)
    BY <1>1, <1>2, <1>5, <1>8 DEF Fits, Shape, Holds
  <1>11. FitsFor(j, r)
    BY <1>1, <1>2, <1>8 DEF FitsFor
  <1>12. job' = [job EXCEPT ![j] = r]
    BY <1>3 DEF PlaceRow
  <1> QED
    BY <1>1, <1>7, <1>9, <1>10, <1>11, <1>12, Turns DEF Fits

LEMMA DropTagsStep == ASSUME IInv, NEW j \in Jobs, DropTags(j) PROVE IInv'
  <1>1. job[j].at = "drop" /\ Kept /\ ReadingOK' /\ BoundsOK'
    BY StaysOK DEF DropTags, Statement, At
  <1>2. Fits(job[j]) /\ FitsFor(j, job[j]) /\ job[j] \in Job
    BY JobOf
  <1>3. PICK r : r = [job[j] EXCEPT !.at = "add", !.dropped = RowsOf(job[j].id)]
    OBVIOUS
  <1>4. RowsOf(job[j].id) \subseteq Pairs /\ RowsOf(job[j].id) \subseteq {job[j].id} \X Tags
    BY DEF RowsOf, IInv, TypeOK, Pairs
  <1>5. r \in Job
    BY <1>2, <1>3, <1>4 DEF Job, Steps
  <1>6. /\ r.at = "add" /\ r.kind = job[j].kind /\ r.id = job[j].id /\ r.list = job[j].list
        /\ r.tags = job[j].tags /\ r.auto = job[j].auto /\ r.locks = job[j].locks
        /\ r.dropped = RowsOf(r.id) /\ r.added = job[j].added
    BY <1>2, <1>3 DEF Job
  <1>7. Shape(r) /\ Holds(r) /\ r.kind # "reorder"
    BY <1>1, <1>2, <1>4, <1>6 DEF Fits, Shape, Holds
  <1>8. FitsFor(j, r)
    BY <1>1, <1>2, <1>6 DEF FitsFor
  <1>9. job' = [job EXCEPT ![j] = r]
    BY <1>3 DEF DropTags
  <1> QED
    BY <1>1, <1>5, <1>7, <1>8, <1>9, Turns DEF Fits

LEMMA AddTagsStep == ASSUME IInv, NEW j \in Jobs, AddTags(j) PROVE IInv'
  <1>1. job[j].at = "add" /\ Kept /\ ReadingOK' /\ BoundsOK'
    BY StaysOK DEF AddTags, Statement, At
  <1>2. Fits(job[j]) /\ FitsFor(j, job[j]) /\ job[j] \in Job
    BY JobOf
  <1>3. CASE Rollback(j)
    BY <1>1, <1>3, RollbackStep DEF At
  <1>4. CASE /\ \A t \in job[j].tags : tag[t] # "absent"
             /\ job[j].tags = {} \/ job[j].kind = "create" \/ Present(job[j].id)
             /\ job' = [job EXCEPT ![j] =
                    [@ EXCEPT !.at = IF job[j].kind = "backfill" THEN "row" ELSE "commit",
                              !.added = Wanted(j)]]
    <2>1. PICK r : r = [job[j] EXCEPT !.at = IF job[j].kind = "backfill" THEN "row" ELSE "commit",
                                      !.added = Wanted(j)]
      OBVIOUS
    <2>2. job[j].tags \in SUBSET Tags /\ job[j].id \in Styles
      BY <1>1, <1>2 DEF Fits, Shape, Job, Choice
    <2>3. Wanted(j) \subseteq {job[j].id} \X Tags /\ Wanted(j) \subseteq Pairs
      BY <2>2 DEF Wanted, Pairs
    <2>4. r \in Job
      <3>1. (IF job[j].kind = "backfill" THEN "row" ELSE "commit") \in Steps
        BY DEF Steps
      <3> QED
        BY <1>2, <2>1, <2>3, <3>1 DEF Job
    <2>5. /\ r.at = IF job[j].kind = "backfill" THEN "row" ELSE "commit"
          /\ r.kind = job[j].kind /\ r.id = job[j].id /\ r.list = job[j].list
          /\ r.tags = job[j].tags /\ r.auto = job[j].auto /\ r.locks = job[j].locks
          /\ r.dropped = job[j].dropped /\ r.added = Wanted(j)
      BY <1>2, <2>1 DEF Job
    <2>6. Shape(r) /\ r.kind # "reorder"
      BY <1>1, <1>2, <2>3, <2>5 DEF Fits, Shape
    <2>7. \A p \in Wanted(j) : p[1] = job[j].id /\ p[2] \in job[j].tags
      BY DEF Wanted
    <2>8. Holds(r)
      BY <1>2, <1>4, <2>5, <2>7 DEF Fits, Holds
    <2>9. FitsFor(j, r)
      BY <1>1, <1>2, <2>5 DEF FitsFor
    <2> QED
      BY <1>1, <1>4, <2>1, <2>4, <2>6, <2>8, <2>9, Turns DEF Fits
  <1> QED
    BY <1>3, <1>4 DEF AddTags

-----------------------------------------------------------------------------
(* The rows a COMMIT writes are rows, and nobody's style goes with it. *)
LEMMA CommitWrites ==
    ASSUME IInv, NEW j \in Jobs, Commit(j)
    PROVE  /\ style' \in [Styles -> Style \cup {None}]
           /\ \A s \in Styles : Present(s) \/ s \in job[j].locks => style'[s] # None
           /\ \A s \in Styles \ job[j].locks : style'[s] = style[s]
           /\ \A s \in job[j].locks : s \in Styles /\ style'[s] = Written(job[j], s)
  <1>1. Fits(job[j]) /\ job[j] \in Job /\ job[j].at = "commit"
    BY JobOf DEF Commit, At
  <1>2. style' = [s \in Styles |-> IF s \in job[j].locks THEN Written(job[j], s) ELSE style[s]]
    BY DEF Commit
  <1>3. job[j].kind \in {"create", "update", "backfill", "reorder"} /\ job[j].locks \subseteq Styles
    BY <1>1 DEF Fits, Shape, Job
  <1>4. style \in [Styles -> Style \cup {None}]
    BY IInvParts DEF Parts, TablesOK
  <1>5. ASSUME NEW s \in job[j].locks PROVE Written(job[j], s) \in Style
    <2>1. job[j].enabled \in BOOLEAN /\ job[j].sort \in Positions
      BY <1>1 DEF Job
    <2>2. CASE job[j].kind = "create"
      <3>1. job[j].auto \in BOOLEAN
        BY <1>1, <2>2 DEF Fits, Shape
      <3> QED
        BY <2>1, <2>2, <3>1 DEF Written, Style
    <2>3. job[j].kind # "create" => style[s] \in Style
      BY <1>1, <1>3, <1>4, <1>5 DEF Fits, Holds, Present
    <2>4. CASE job[j].kind = "update"
      <3>1. (IF job[j].auto = None THEN style[s].auto ELSE job[j].auto) \in BOOLEAN
        BY <1>1, <2>3, <2>4 DEF Job, Style
      <3> QED
        BY <2>1, <2>4, <3>1 DEF Written, Style
    <2>5. CASE job[j].kind = "backfill"
      BY <2>3, <2>5 DEF Written, Style
    <2>6. CASE job[j].kind = "reorder"
      <3>1. PlaceIn(job[j].list, s) \in Positions
        BY <1>1, <1>5, <2>6, PlaceInType DEF Fits, Shape, Job
      <3> QED
        BY <2>3, <2>6, <3>1 DEF Written, Style
    <2> QED
      BY <1>3, <2>2, <2>4, <2>5, <2>6
  <1> QED
    BY <1>2, <1>3, <1>4, <1>5 DEF Present

LEMMA CommitTables ==
    ASSUME IInv, NEW j \in Jobs, Commit(j)
    PROVE  TablesOK'
  <1>1. Fits(job[j]) /\ job[j] \in Job /\ TablesOK /\ job[j].at = "commit"
    BY JobOf, IInvParts DEF Parts, Commit, At
  <1>2. \A s \in Styles : Present(s) \/ s \in job[j].locks => style'[s] # None
    BY CommitWrites
  <1>3. tagged' = (tagged \ job[j].dropped) \cup job[j].added /\ tag' = tag
    BY DEF Commit
  <1>4. ASSUME NEW p \in tagged' PROVE p \in Pairs /\ style'[p[1]] # None /\ tag'[p[2]] # "absent"
    <2>1. CASE p \in tagged
      BY <1>1, <1>2, <1>3, <2>1 DEF TablesOK, Present, Pairs
    <2>2. CASE p \in job[j].added
      <3>1. p \in Pairs /\ tag[p[2]] # "absent"
        BY <1>1, <2>2 DEF Fits, Holds, Job
      <3>2. CASE job[j].kind = "create"
        <4>1. p[1] = job[j].id /\ job[j].locks = {job[j].id}
          BY <1>1, <2>2, <3>2 DEF Fits, Shape
        <4> QED
          BY <1>2, <1>3, <3>1, <4>1 DEF Pairs
      <3>3. CASE job[j].kind # "create"
        <4>1. Present(p[1])
          BY <1>1, <2>2, <3>3 DEF Fits, Holds
        <4> QED
          BY <1>2, <1>3, <3>1, <4>1 DEF Pairs
      <3> QED
        BY <3>2, <3>3
    <2> QED
      BY <1>3, <2>1, <2>2
  <1>5. curated' \in [Styles -> Choice]
    <2>1. \A s \in Styles : TagsOf(s, tagged') \in Choice /\ None \in Choice
      BY DEF TagsOf, Choice
    <2>2. \A s \in Styles : curated[s] \in Choice
      BY <1>1 DEF TablesOK
    <2> QED
      BY <2>1, <2>2 DEF Commit
  <1>6. raced' \subseteq Styles
    BY <1>1 DEF Commit, TablesOK, Fits, Shape
  <1>7. DOMAIN order' \subseteq Styles /\ \A s \in DOMAIN order' : order'[s] \in Positions
    <2>1. CASE job[j].kind = "reorder"
      <3>1. order' = [s \in DOMAIN order \cup job[j].locks |->
                        IF s \in job[j].locks THEN PlaceIn(job[j].list, s) ELSE order[s]]
        BY <2>1 DEF Commit
      <3>2. \A s \in job[j].locks : s \in Styles /\ PlaceIn(job[j].list, s) \in Positions
        BY <1>1, <2>1, PlaceInType DEF Fits, Shape, Job
      <3> QED
        BY <1>1, <3>1, <3>2 DEF TablesOK
    <2>2. CASE job[j].kind \in {"create", "update"}
      <3>1. order' = Restrict(order, DOMAIN order \ {job[j].id})
        BY <2>2 DEF Commit
      <3> QED
        BY <1>1, <3>1 DEF Restrict, TablesOK
    <2>3. CASE job[j].kind \notin {"create", "update", "reorder"}
      <3>1. order' = order
        BY <2>3 DEF Commit
      <3> QED
        BY <1>1, <3>1 DEF TablesOK
    <2> QED
      BY <2>1, <2>2, <2>3
  <1> QED
    BY <1>1, <1>3, <1>4, <1>5, <1>6, <1>7, CommitWrites DEF TablesOK

LEMMA CommitOrder ==
    ASSUME IInv, NEW j \in Jobs, Commit(j)
    PROVE  OrderFits'
  <1>1. Fits(job[j]) /\ job[j] \in Job /\ TablesOK /\ OrderFits /\ job[j].at = "commit"
    BY JobOf, IInvParts DEF Parts, Commit, At
  <1> USE CommitWrites
  <1>2. CASE job[j].kind = "reorder"
    <2>1. order' = [s \in DOMAIN order \cup job[j].locks |->
                      IF s \in job[j].locks THEN PlaceIn(job[j].list, s) ELSE order[s]]
      BY <1>2 DEF Commit
    <2>2. ASSUME NEW s \in job[j].locks PROVE style'[s] # None /\ style'[s].sort = order'[s]
      <3>1. style[s] \in Style
        BY <1>1, <1>2, <2>2 DEF Fits, Holds, Present, TablesOK
      <3>2. style'[s] = [style[s] EXCEPT !.sort = PlaceIn(job[j].list, s)]
        BY <1>2, <2>2 DEF Written
      <3> QED
        BY <2>1, <2>2, <3>1, <3>2 DEF Style
    <2>3. ASSUME NEW s \in DOMAIN order \ job[j].locks
          PROVE  style'[s] # None /\ style'[s].sort = order'[s]
      BY <1>1, <2>1, <2>3 DEF TablesOK, OrderFits, Present
    <2> QED
      BY <2>1, <2>2, <2>3 DEF OrderFits, Present
  <1>3. CASE job[j].kind \in {"create", "update"}
    <2>1. order' = Restrict(order, DOMAIN order \ {job[j].id})
      BY <1>3 DEF Commit
    <2>2. job[j].locks \subseteq {job[j].id}
      BY <1>1, <1>3 DEF Fits, Shape
    <2>3. ASSUME NEW s \in DOMAIN order \ {job[j].id}
          PROVE  order'[s] = order[s] /\ style'[s] # None /\ style'[s].sort = order[s]
      BY <1>1, <2>1, <2>2, <2>3 DEF Restrict, TablesOK, OrderFits, Present
    <2>4. DOMAIN order' = DOMAIN order \ {job[j].id}
      BY <2>1 DEF Restrict
    <2> QED
      BY <2>3, <2>4 DEF OrderFits, Present
  <1>4. CASE job[j].kind = "backfill"
    <2>1. order' = order
      BY <1>4 DEF Commit
    <2>2. ASSUME NEW s \in DOMAIN order
          PROVE  style'[s] # None /\ style'[s].sort = order[s]
      <3>1. s \in Styles /\ style[s] \in Style /\ style[s].sort = order[s]
        BY <1>1, <2>2 DEF TablesOK, OrderFits, Present
      <3>2. style'[s] = style[s] \/ style'[s] = [style[s] EXCEPT !.auto = TRUE]
        BY <1>4, <3>1 DEF Written
      <3>3. style'[s].sort = style[s].sort /\ style'[s] \in Style
        BY <3>1, <3>2 DEF Style
      <3> QED
        BY <3>1, <3>3
    <2> QED
      BY <2>1, <2>2 DEF OrderFits, Present
  <1> QED
    BY <1>1, <1>2, <1>3, <1>4 DEF Fits, Shape, Job

(* A style that is not the job's keeps its tags and its flag. *)
LEMMA CommitElsewhere ==
    ASSUME IInv, NEW j \in Jobs, Commit(j), NEW s \in Styles,
           job[j].kind = "reorder" \/ s # job[j].id
    PROVE  /\ TagsOf(s, tagged') = TagsOf(s, tagged)
           /\ Present(s)' => Present(s) /\ style'[s].auto = style[s].auto
  <1>1. Fits(job[j]) /\ job[j] \in Job /\ TablesOK /\ job[j].at = "commit"
    BY JobOf, IInvParts DEF Parts, Commit, At
  <1>2. \A t \in Tags : <<s, t>> \notin job[j].dropped \cup job[j].added
    BY <1>1 DEF Fits, Shape
  <1>3. TagsOf(s, tagged') = TagsOf(s, tagged)
    BY <1>2 DEF Commit, TagsOf
  <1>4. CASE s \notin job[j].locks
    BY <1>3, <1>4, CommitWrites DEF Present
  <1>5. CASE s \in job[j].locks
    <2>1. job[j].kind = "reorder" /\ Present(s) /\ style[s] \in Style
      BY <1>1, <1>5 DEF Fits, Shape, Holds, TablesOK, Present
    <2>2. style'[s] = [style[s] EXCEPT !.sort = PlaceIn(job[j].list, s)]
      BY <1>5, <2>1, CommitWrites DEF Written
    <2> QED
      BY <1>3, <2>1, <2>2 DEF Style
  <1> QED
    BY <1>4, <1>5

LEMMA CommitCurates ==
    ASSUME IInv, NEW j \in Jobs, Commit(j)
    PROVE  CurationHolds'
  <1> SUFFICES ASSUME NEW s \in Styles, s \notin raced', Present(s)', curated'[s] # None
               PROVE  ~style'[s].auto /\ TagsOf(s, tagged') = curated'[s]
    BY DEF CurationHolds, AsCurated
  <1>1. /\ Fits(job[j]) /\ FitsFor(j, job[j]) /\ job[j] \in Job
        /\ TablesOK /\ CurationHolds /\ job[j].at = "commit"
    BY JobOf, IInvParts DEF Parts, Commit, At
  <1>2. CASE job[j].kind \in {"create", "update"} /\ s = job[j].id
    <2>1. curated'[s] = IF style'[s].auto THEN None ELSE TagsOf(s, tagged')
      BY <1>2 DEF Commit
    <2> QED
      BY <2>1
  <1>3. CASE job[j].kind \in {"create", "update"} /\ s # job[j].id
    <2>1. curated'[s] = curated[s] /\ s \notin raced
      BY <1>3 DEF Commit
    <2> QED
      BY <1>1, <1>3, <2>1, CommitElsewhere DEF CurationHolds, AsCurated
  <1>4. CASE job[j].kind \notin {"create", "update"}
    <2>1. curated'[s] = curated[s] /\ s \notin raced
      BY <1>4 DEF Commit
    <2>2. job[j].kind = "backfill" => s # job[j].id
      <3> SUFFICES ASSUME job[j].kind = "backfill", s = job[j].id PROVE FALSE
        OBVIOUS
      <3>1. s \in ToSet(job[j].list) /\ j \in Backfills
        BY <1>1 DEF Fits, FitsFor, Shape, Job, ToSet
      <3> QED
        BY <1>1, <2>1, <3>1 DEF FitsFor
    <2>3. job[j].kind = "reorder" \/ s # job[j].id
      BY <1>1, <1>4, <2>2 DEF Fits, Shape, Job
    <2> QED
      BY <1>1, <2>1, <2>3, CommitElsewhere DEF CurationHolds, AsCurated
  <1> QED
    BY <1>2, <1>3, <1>4

LEMMA CommitJobs ==
    ASSUME IInv, NEW j \in Jobs, Commit(j)
    PROVE  AllFits'
  <1>1. /\ Fits(job[j]) /\ FitsFor(j, job[j]) /\ job[j] \in Job
        /\ AllFits /\ TablesOK /\ job[j].at = "commit" /\ tag' = tag
    BY JobOf, IInvParts DEF Parts, Commit, At
  <1> DEFINE saved == job[j].kind \in {"create", "update"}
  <1>2. PICK r : r = IF saved THEN [Idle EXCEPT !.at = "invalidate"] ELSE Onwards(job[j])
    OBVIOUS
  <1>3. job' = [job EXCEPT ![j] = r]
    BY <1>2 DEF Commit
  <1>4. Fits(r) /\ FitsFor(j, r)
    <2>1. CASE ~saved
      BY <1>1, <1>2, <2>1, OnwardsFits
    <2>2. CASE saved
      <3>1. r \in Job /\ r.at = "invalidate" /\ r.kind = None /\ r.list = <<>>
            /\ r.locks = {} /\ r.dropped = {} /\ r.added = {}
        BY <1>2, <2>2, IdleFits DEF Idle, Job, Steps
      <3>2. j \notin Backfills
        BY <1>1, <2>2 DEF FitsFor
      <3> QED
        BY <3>1, <3>2 DEF Fits, FitsFor, Shape, Holds
    <2> QED
      BY <2>1, <2>2
  <1>5. DOMAIN job' = Jobs /\ job' = [k \in Jobs |-> job'[k]]
    BY <1>1, <1>3 DEF AllFits
  <1>6. ASSUME NEW k \in Jobs PROVE Fits(job[k])' /\ FitsFor(k, job[k])'
    <2>1. PICK now : now = job'[k]
      OBVIOUS
    <2>2. Fits(now) /\ FitsFor(k, now)
      BY <1>1, <1>3, <1>4, <2>1 DEF AllFits
    <2>3. \A s \in Styles : Present(s) => Present(s)'
      BY CommitWrites DEF Present
    <2>4. \A s \in now.locks : s \in Styles
      BY <2>2 DEF Fits, Job
    <2>5. \A p \in now.added : p[1] \in Styles
      BY <2>2 DEF Fits, Job, Pairs
    <2>6. Holds(now)'
      BY <1>1, <2>2, <2>3, <2>4, <2>5 DEF Fits, Holds
    <2>7. ASSUME k \in Backfills, NEW s \in ToSet(now.list) PROVE s \in raced' \/ curated'[s] = None
      <3>1. s \in raced \/ curated[s] = None
        BY <2>2, <2>7 DEF FitsFor
      <3>2. s \in Styles
        BY <2>2, <2>7 DEF Fits, Job, ToSet
      <3>3. CASE saved /\ s = job[j].id
        <4>1. k # j /\ now = job[k]
          BY <1>1, <1>3, <2>1, <2>7, <3>3 DEF FitsFor, AllFits
        <4> QED
          BY <2>7, <3>3, <4>1 DEF Commit
      <3>4. CASE saved /\ s # job[j].id
        BY <3>1, <3>2, <3>4 DEF Commit
      <3>5. CASE ~saved
        BY <3>1, <3>2, <3>5 DEF Commit
      <3> QED
        BY <3>3, <3>4, <3>5
    <2>8. Fits(now)' /\ FitsFor(k, now)'
      BY <2>2, <2>6, <2>7 DEF Fits, FitsFor, Shape
    <2> QED
      BY <2>1, <2>8
  <1> QED
    BY <1>5, <1>6 DEF AllFits

LEMMA CommitStep == ASSUME IInv, NEW j \in Jobs, Commit(j) PROVE IInv'
  BY CommitTables, CommitOrder, CommitCurates, CommitJobs, StaysOK, IInvPartsNext
     DEF Parts, Commit

-----------------------------------------------------------------------------
(* Statements that commit by themselves: they wait for what others hold. *)
LEMMA Autocommits ==
    ASSUME IInv, NEW q \in Requests, At(q, "idle"), job' = [job EXCEPT ![q].at = "invalidate"],
           \A k \in Jobs : \A s \in job[k].locks : Present(s) => Present(s)',
           \A k \in Jobs : \A p \in job[k].added :
               /\ Present(p[1]) => Present(p[1])'
               /\ tag[p[2]] # "absent" => tag'[p[2]] # "absent",
           raced' = raced, \A s \in Styles : curated[s] = None => curated'[s] = None
    PROVE  AllFits'
  <1>1. AllFits /\ q \in Jobs
    BY IInvParts DEF Parts, Jobs
  <1>2. DOMAIN job' = Jobs /\ job' = [k \in Jobs |-> job'[k]]
    BY <1>1 DEF AllFits
  <1>3. ASSUME NEW k \in Jobs PROVE Fits(job[k])' /\ FitsFor(k, job[k])'
    <2>1. PICK now : now = job'[k]
      OBVIOUS
    <2>2. Fits(job[k]) /\ FitsFor(k, job[k]) /\ job[k] \in Job
      BY JobOf
    <2>3. now \in Job /\ (now = job[k] \/ (k = q /\ now = [job[k] EXCEPT !.at = "invalidate"]))
      BY <1>1, <2>1, <2>2, ZenonT(40) DEF AllFits, Job, Steps
    <2>4. /\ now.kind = job[k].kind /\ now.id = job[k].id /\ now.list = job[k].list
          /\ now.locks = job[k].locks /\ now.dropped = job[k].dropped /\ now.added = job[k].added
          /\ now = job[k] \/ (k = q /\ now.at = "invalidate" /\ job[k].at = "idle")
      BY <2>2, <2>3, SMTT(30) DEF Job, At
    <2>5. Shape(now) /\ FitsFor(k, now) /\ (now.kind = "reorder" => now = job[k])
      BY <2>2, <2>4 DEF Fits, FitsFor, Shape
    <2>6. Holds(now)'
      BY <2>2, <2>4 DEF Fits, Holds
    <2>7. ToSet(now.list) \subseteq Styles
      BY <2>3 DEF Job, ToSet
    <2>8. FitsFor(k, now)'
      BY <2>5, <2>7 DEF FitsFor
    <2>9. Fits(now)'
      BY <2>2, <2>3, <2>5, <2>6 DEF Fits, Shape
    <2> QED
      BY <2>1, <2>8, <2>9
  <1> QED
    BY <1>2, <1>3 DEF AllFits

LEMMA PatchStyleFlagsStep ==
    ASSUME IInv, NEW q \in Requests, NEW s \in Styles, PatchStyleFlags(q, s)
    PROVE  IInv'
  <1> USE IInvParts DEF Parts
  <1>1. PICK enabled \in BOOLEAN : style' = [style EXCEPT ![s].enabled = enabled]
    BY DEF PatchStyleFlags
  <1>2. style[s] \in Style /\ UNCHANGED <<tagged, tag, curated, raced, order>>
    BY DEF PatchStyleFlags, Present, TablesOK, history
  <1>3. /\ style' \in [Styles -> Style \cup {None}]
        /\ \A f \in Styles : /\ Present(f)' <=> Present(f)
                             /\ Present(f) => /\ style'[f].auto = style[f].auto
                                              /\ style'[f].sort = style[f].sort
    <2>1. PICK entry : entry = [style[s] EXCEPT !.enabled = enabled]
      OBVIOUS
    <2>2. entry \in Style /\ entry.auto = style[s].auto /\ entry.sort = style[s].sort
      BY <1>2, <2>1 DEF Style
    <2>3. style' = [style EXCEPT ![s] = entry] /\ style \in [Styles -> Style \cup {None}]
      BY <1>1, <2>1 DEF TablesOK
    <2>4. Present(s)
      BY DEF PatchStyleFlags
    <2> QED
      BY <2>2, <2>3, <2>4 DEF Present
  <1>4. TablesOK'
    BY <1>2, <1>3 DEF TablesOK, Present, Pairs
  <1>5. OrderFits'
    BY <1>2, <1>3 DEF OrderFits, TablesOK
  <1>6. CurationHolds'
    BY <1>2, <1>3 DEF CurationHolds, AsCurated, TagsOf
  <1>7. AllFits'
    <2>1. /\ \A k \in Jobs : \A f \in job[k].locks : f \in Styles
          /\ \A k \in Jobs : \A p \in job[k].added : p[1] \in Styles
      BY JobOf DEF Job, Pairs
    <2> QED
      BY <1>2, <1>3, <2>1, Autocommits DEF PatchStyleFlags
  <1> QED
    BY <1>4, <1>5, <1>6, <1>7, StaysOK, IInvPartsNext DEF PatchStyleFlags

LEMMA DeleteStyleStep ==
    ASSUME IInv, NEW q \in Requests, NEW s \in Styles, DeleteStyle(q, s)
    PROVE  IInv'
  <1> USE IInvParts DEF Parts
  <1>1. /\ style' = [style EXCEPT ![s] = None] /\ tagged' = tagged \ RowsOf(s)
        /\ curated' = [curated EXCEPT ![s] = None] /\ order' = Restrict(order, DOMAIN order \ {s})
        /\ tag' = tag /\ raced' = raced
    BY DEF DeleteStyle
  <1>2. TablesOK'
    <2>1. style' \in [Styles -> Style \cup {None}] /\ curated' \in [Styles -> Choice]
      BY <1>1 DEF TablesOK, Choice
    <2>2. DOMAIN order' \subseteq Styles /\ \A f \in DOMAIN order' : order'[f] \in Positions
      BY <1>1 DEF TablesOK, Restrict
    <2>3. tagged' \subseteq {p \in Pairs : style'[p[1]] # None /\ tag'[p[2]] # "absent"}
      BY <1>1 DEF TablesOK, RowsOf, Pairs
    <2> QED
      BY <1>1, <2>1, <2>2, <2>3 DEF TablesOK
  <1>3. OrderFits'
    BY <1>1 DEF OrderFits, TablesOK, Restrict, Present
  <1>4. CurationHolds'
    <2>1. ASSUME NEW f \in Styles \ {s} PROVE TagsOf(f, tagged') = TagsOf(f, tagged)
      BY <1>1 DEF TagsOf, RowsOf
    <2>2. ASSUME NEW f \in Styles \ {s} PROVE style'[f] = style[f] /\ curated'[f] = curated[f]
      BY <1>1 DEF TablesOK
    <2>3. ~Present(s)'
      BY <1>1 DEF TablesOK, Present
    <2> QED
      BY <1>1, <2>1, <2>2, <2>3 DEF CurationHolds, AsCurated, Present
  <1>5. AllFits'
    <2>1. \A k \in Jobs : s \notin job[k].locks
      BY DEF DeleteStyle
    <2>2. ASSUME NEW k \in Jobs, NEW p \in job[k].added PROVE p \in Pairs /\ p[1] # s
      BY <2>2, JobOf DEF DeleteStyle, Untouched, Job, Pairs
    <2>3. \A f \in Styles \ {s} : Present(f) => Present(f)'
      BY <1>1 DEF TablesOK, Present
    <2>4. /\ \A k \in Jobs : \A f \in job[k].locks : Present(f) => Present(f)'
          /\ \A k \in Jobs : \A p \in job[k].added :
                Present(p[1]) => Present(p[1])'
      <3>1. \A k \in Jobs : \A f \in job[k].locks : f \in Styles
        BY JobOf DEF Job
      <3> QED
        BY <2>1, <2>2, <2>3, <3>1 DEF Pairs
    <2>5. \A f \in Styles : curated[f] = None => curated'[f] = None
      BY <1>1 DEF TablesOK
    <2> QED
      BY <1>1, <2>4, <2>5, Autocommits DEF DeleteStyle
  <1> QED
    BY <1>2, <1>3, <1>4, <1>5, StaysOK, IInvPartsNext DEF DeleteStyle

LEMMA SaveTagStep ==
    ASSUME IInv, NEW q \in Requests, NEW t \in Tags, SaveTag(q, t)
    PROVE  IInv'
  <1> USE IInvParts DEF Parts
  <1>1. /\ UNCHANGED <<style, tagged, curated, raced, order>>
        /\ tag' \in [Tags -> {"on", "off", "absent"}]
        /\ \A u \in Tags : tag[u] # "absent" => tag'[u] # "absent"
    BY DEF SaveTag, TablesOK, history
  <1>2. TablesOK' /\ OrderFits' /\ CurationHolds'
    <2>1. TablesOK'
      BY <1>1 DEF TablesOK, Pairs
    <2> QED
      BY <1>1, <2>1 DEF OrderFits, CurationHolds, AsCurated, Present, TagsOf
  <1>3. \A k \in Jobs : \A p \in job[k].added : p[2] \in Tags
    BY JobOf DEF Job, Pairs
  <1>4. AllFits'
    BY <1>1, <1>3, Autocommits DEF SaveTag, Present
  <1> QED
    BY <1>2, <1>4, StaysOK, IInvPartsNext DEF SaveTag

LEMMA DeleteTagStep ==
    ASSUME IInv, NEW q \in Requests, NEW t \in Tags, DeleteTag(q, t)
    PROVE  IInv'
  <1> USE IInvParts DEF Parts
  <1>1. /\ tag' = [tag EXCEPT ![t] = "absent"] /\ tagged' = {p \in tagged : p[2] # t}
        /\ curated' = [s \in Styles |-> IF curated[s] = None THEN None ELSE curated[s] \ {t}]
        /\ UNCHANGED <<style, raced, order>>
    BY DEF DeleteTag
  <1>2. TablesOK'
    <2>1. curated' \in [Styles -> Choice]
      BY <1>1 DEF TablesOK, Choice
    <2>2. tag' \in [Tags -> {"on", "off", "absent"}]
      BY <1>1 DEF TablesOK
    <2>3. tagged' \subseteq {p \in Pairs : style'[p[1]] # None /\ tag'[p[2]] # "absent"}
      BY <1>1 DEF TablesOK, Pairs
    <2> QED
      BY <1>1, <2>1, <2>2, <2>3 DEF TablesOK
  <1>3. OrderFits'
    BY <1>1 DEF OrderFits, Present
  <1>4. CurationHolds'
    <2> SUFFICES ASSUME NEW s \in Styles, s \notin raced', Present(s)', curated'[s] # None
                 PROVE  ~style'[s].auto /\ TagsOf(s, tagged') = curated'[s]
      BY DEF CurationHolds, AsCurated
    <2>1. curated[s] # None /\ curated'[s] = curated[s] \ {t}
      BY <1>1
    <2>2. ~style[s].auto /\ TagsOf(s, tagged) = curated[s]
      BY <1>1, <2>1 DEF CurationHolds, AsCurated, Present
    <2>3. TagsOf(s, tagged') = TagsOf(s, tagged) \ {t}
      BY <1>1 DEF TagsOf
    <2> QED
      BY <1>1, <2>1, <2>2, <2>3
  <1>5. AllFits'
    <2>1. ASSUME NEW k \in Jobs, NEW p \in job[k].added PROVE p \in Pairs /\ p[2] # t
      BY <2>1, JobOf DEF DeleteTag, Untouched, Job, Pairs
    <2>2. \A k \in Jobs : \A p \in job[k].added : tag[p[2]] # "absent" => tag'[p[2]] # "absent"
      BY <1>1, <2>1 DEF TablesOK, Pairs
    <2> QED
      BY <1>1, <2>2, Autocommits DEF DeleteTag, Present
  <1> QED
    BY <1>2, <1>3, <1>4, <1>5, StaysOK, IInvPartsNext DEF DeleteTag

LEMMA InvalidateStep ==
    ASSUME IInv, NEW q \in Requests, Invalidate(q) \/ AnswerFails(q)
    PROVE  IInv'
  <1>1. q \in Jobs /\ Kept /\ BoundsOK'
    BY StaysOK DEF Invalidate, AnswerFails, Jobs, Kept, catalog, IInv, TypeOK
  <1>2. ReadingOK'
    BY IInvParts, Zenon DEF Invalidate, AnswerFails, Overtake, Parts, ReadingOK
  <1> QED
    BY <1>1, <1>2, IdleFits, Turns DEF Invalidate, AnswerFails

(* Steps of readers, and those that end jobs. *)
LEMMA JobsEnd ==
    ASSUME IInv, UNCHANGED <<catalog, history>>, ReadingOK', BoundsOK',
           NEW ended \in SUBSET Jobs,
           job' = [j \in Jobs |-> IF j \in ended THEN Idle ELSE job[j]]
    PROVE  IInv'
  <1> USE IInvParts DEF Parts
  <1>1. UNCHANGED <<style, tagged, tag, curated, raced, order>>
    BY DEF catalog, history
  <1>2. TablesOK' /\ OrderFits' /\ CurationHolds'
    BY <1>1 DEF TablesOK, OrderFits, CurationHolds, AsCurated, Present, TagsOf
  <1>3. ASSUME NEW k \in Jobs PROVE Fits(job[k])' /\ FitsFor(k, job[k])'
    <2>1. PICK now : now = job'[k]
      OBVIOUS
    <2>2. Fits(now) /\ FitsFor(k, now)
      BY <2>1, IdleFits, JobOf
    <2> QED
      BY <1>1, <2>1, <2>2 DEF Fits, FitsFor, Shape, Holds, Present
  <1> QED
    BY <1>2, <1>3, IInvPartsNext DEF AllFits

LEMMA ReadersStep ==
    ASSUME IInv, (\E r \in Readers : Recommendation(r)) \/ Expire \/ UNCHANGED vars
    PROVE  IInv'
  <1>1. UNCHANGED <<catalog, history, job>> /\ BoundsOK'
    BY StaysOK DEF Recommendation, GetCandidates, LoadCandidates, KeepCandidates, LoadFails, Expire,
                   vars
  <1>2. ReadingOK'
    <2> USE IInvParts DEF Parts, ReadingOK
    <2>1. ASSUME NEW r \in Readers, NEW at \in {"idle", "load", "keep"},
                 NEW found \in SUBSET Styles, Move(r, at, found)
          PROVE  reader' \in [Readers -> [at : {"idle", "load", "keep"}, found : SUBSET Styles]]
      BY <2>1 DEF Move
    <2>2. CASE \E r \in Readers : Recommendation(r)
      <3>1. PICK r \in Readers : Recommendation(r)
        BY <2>2
      <3>2. CASE GetCandidates(r) \/ LoadFails(r)
        BY <2>1, <3>2 DEF GetCandidates, LoadFails
      <3>3. CASE LoadCandidates(r)
        BY <2>1, <3>3 DEF LoadCandidates, Candidates
      <3>4. CASE KeepCandidates(r)
        <4>1. PICK overtaken \in BOOLEAN : overtaken <=> r \in outrun
          OBVIOUS
        <4>2. stale' = overtaken
          BY <3>4, <4>1 DEF KeepCandidates
        <4> QED
          BY <2>1, <3>4, <4>2 DEF KeepCandidates
      <3> QED
        BY <3>1, <3>2, <3>3, <3>4 DEF Recommendation
    <2>3. CASE Expire \/ UNCHANGED vars
      BY <2>3 DEF Expire, vars, reading
    <2> QED
      BY <2>2, <2>3
  <1>3. job' = [j \in Jobs |-> IF j \in {} THEN Idle ELSE job[j]]
    BY <1>1, IInvParts DEF Parts, AllFits
  <1> QED
    BY <1>1, <1>2, <1>3, JobsEnd

LEMMA RestartStep == ASSUME IInv, Restart PROVE IInv'
  <1>1. ReadingOK' /\ BoundsOK'
    <2>1. reader' \in [Readers -> [at : {"idle", "load", "keep"}, found : SUBSET Styles]]
      BY DEF Restart, NoReader
    <2> QED
      BY <2>1, StaysOK DEF Restart, ReadingOK
  <1>2. PICK ended \in SUBSET Jobs : ended = Requests
    BY DEF Jobs
  <1> QED
    BY <1>1, <1>2, JobsEnd DEF Restart

LEMMA KillBackfillStep == ASSUME IInv, NEW b \in Backfills, KillBackfill(b) PROVE IInv'
  <1>1. b \in Jobs /\ Kept /\ ReadingOK' /\ BoundsOK'
    BY StaysOK DEF KillBackfill, Jobs
  <1> QED
    BY <1>1, IdleFits, Turns DEF KillBackfill

LEMMA NextIInv == IInv /\ [Next]_vars => IInv'
  <1> SUFFICES ASSUME IInv, [Next]_vars PROVE IInv'
    OBVIOUS
  <1>1. ASSUME NEW q \in Requests, Request(q) PROVE IInv'
    BY <1>1, SavesStep, ReorderStylesStep, PatchStyleFlagsStep, DeleteStyleStep, SaveTagStep,
       DeleteTagStep, InvalidateStep DEF Request
  <1>2. ASSUME NEW b \in Backfills, Backfill(b) \/ NextTarget(b) \/ KillBackfill(b) PROVE IInv'
    BY <1>2, BackfillStep, NextTargetStep, KillBackfillStep
  <1>3. ASSUME NEW j \in Jobs, Transaction(j) PROVE IInv'
    BY <1>3, InsertRowStep, UpdateRowStep, MarkAutoAssignedStep, PlaceRowStep, DropTagsStep,
       AddTagsStep, CommitStep, StatementFailsStep, DeadlockStep DEF Transaction
  <1> QED
    BY <1>1, <1>2, <1>3, ClassificationStep, ReadersStep, RestartStep DEF Next

LEMMA IInvAlways == Spec => []IInv
  BY InitIInv, NextIInv, PTL DEF Spec

-----------------------------------------------------------------------------
(* Types and foreign keys hold whatever saves, deletions, reorderings and
   backfills overlap, and whoever waits, waits for a transaction under way:
   every end of one frees its rows and keys (styleModel, backfillTags). *)
THEOREM CatalogIsSound == Spec => []StateOK
  <1>1. IInv => StateOK
    <2> SUFFICES ASSUME IInv, NEW j \in Jobs, NEW k \in Jobs, k \in Blockers(j)
                 PROVE  InTransaction(k)
      BY DEF StateOK, IInv, NobodyHoldsOnAfterwards
    <2>1. job[k].locks # {} \/ job[k].dropped # {} \/ job[k].added # {}
      BY DEF Blockers
    <2> QED
      BY <2>1, JobOf DEF Fits, Shape, InTransaction
  <1> QED
    BY IInvAlways, <1>1, PTL

(* A style's tags stay as an administrator gave them: only a backfill that had
   selected the style before takes them (setStyleTags,
   getStylesNeedingAutoTag). *)
THEOREM CurationAlwaysHolds == Spec => []CurationHolds
  <1>1. IInv => CurationHolds
    BY DEF IInv
  <1> QED
    BY IInvAlways, <1>1, PTL

(* Whatever reorderings overlap, each one's positions are all there together
   until a later one or a save (reorderStyles). *)
THEOREM ReordersAlwaysWhole == Spec => []ReordersAreWhole
  <1>1. IInv => ReordersAreWhole
    BY DEF IInv, OrderFits, ReordersAreWhole
  <1> QED
    BY IInvAlways, <1>1, PTL

-----------------------------------------------------------------------------
(* The cached candidates, and those about to be cached, are as the styles are:
   every change of what is enabled leaves a request that will invalidate, and
   what that one cannot reach is on record. *)
CacheFits ==
    /\ CandidatesCurrent
    /\ \A r \in Readers : reader[r].at = "keep" /\ r \notin outrun => AsTheyAre(reader[r].found)

LEMMA InitCacheFits == Init => CacheFits
  BY DEF Init, CacheFits, CandidatesCurrent, NoReader

(* A change leaves a request that will invalidate. *)
LEMMA ChangePends ==
    ASSUME NEW q \in Requests, job'[q].at = "invalidate"
    PROVE  CacheFits'
  BY DEF CacheFits, CandidatesCurrent, AsTheyAre, At

(* A step that changes nothing that is enabled and answers no request that is
   to invalidate. *)
LEMMA CacheKept ==
    ASSUME CacheFits, UNCHANGED reading, Candidates' = Candidates,
           \A q \in Requests : At(q, "invalidate") => At(q, "invalidate")'
    PROVE  CacheFits'
  BY DEF CacheFits, CandidatesCurrent, AsTheyAre, reading

(* One job moves on, which had nothing to invalidate. *)
LEMMA OthersPend ==
    ASSUME IInv, NEW j \in Jobs, NEW r, job' = [job EXCEPT ![j] = r], ~At(j, "invalidate")
    PROVE  \A q \in Requests : At(q, "invalidate") => At(q, "invalidate")'
  BY DEF IInv, TypeOK, At, Jobs

LEMMA SuggestsPend ==
    ASSUME IInv, NEW j \in Jobs, NEW tags, Suggested(j, tags), ~At(j, "invalidate")
    PROVE  \A q \in Requests : At(q, "invalidate") => At(q, "invalidate")'
  <1>1. \E r : job' = [job EXCEPT ![j] = r]
    BY DEF Suggested
  <1> QED
    BY <1>1, OthersPend

LEMMA CandidatesStay == UNCHANGED catalog => Candidates' = Candidates
  BY DEF catalog, Candidates, Enabled, Present

LEMMA ClassificationCache ==
    ASSUME IInv, CacheFits, NEW j \in Jobs, Classification(j)
    PROVE  CacheFits'
  <1>1. UNCHANGED <<style, reading>>
    BY DEF Classification, ReadVocabulary, RateLimited, Overloaded, ClassifierFails, Classified,
           SuggestNewTag, CreateSuggestedTag, catalog
  <1>2. ~At(j, "invalidate")
    BY DEF Classification, ReadVocabulary, RateLimited, Overloaded, ClassifierFails, Classified,
           SuggestNewTag, CreateSuggestedTag, Asking, At
  <1>3. (\E tags : Suggested(j, tags)) \/ (\E r : job' = [job EXCEPT ![j] = r])
    BY DEF Classification, ReadVocabulary, RateLimited, Overloaded, ClassifierFails, Classified,
           SuggestNewTag, CreateSuggestedTag, Exhausted
  <1>4. \A q \in Requests : At(q, "invalidate") => At(q, "invalidate")'
    BY <1>2, <1>3, SuggestsPend, OthersPend
  <1>5. Candidates' = Candidates
    BY <1>1 DEF Candidates, Enabled, Present
  <1> QED
    BY <1>1, <1>4, <1>5, CacheKept

(* A COMMIT writes what is enabled only where it is a save's. *)
LEMMA CommitCache ==
    ASSUME IInv, CacheFits, NEW j \in Jobs, Commit(j)
    PROVE  CacheFits'
  <1>1. Fits(job[j]) /\ FitsFor(j, job[j]) /\ job[j] \in Job /\ job[j].at = "commit"
    BY JobOf DEF Commit, At
  <1>2. job \in [Jobs -> Job]
    BY DEF IInv, TypeOK
  <1>3. CASE job[j].kind \in {"create", "update"}
    <2>1. j \in Requests
      BY <1>1, <1>3 DEF FitsFor, Jobs
    <2>2. job'[j].at = "invalidate"
      BY <1>2, <1>3, IdleFits DEF Commit, Job
    <2> QED
      BY <2>1, <2>2, ChangePends
  <1>4. CASE job[j].kind \in {"backfill", "reorder"}
    <2>1. ASSUME NEW s \in job[j].locks
          PROVE  s \in Styles /\ Enabled(s)' = Enabled(s)
      <3>1. s \in Styles /\ Present(s) /\ style[s] \in Style
        BY <1>1, <1>4, <2>1 DEF Fits, Holds, Job, IInv, TypeOK, Present
      <3>2. \/ style'[s] = [style[s] EXCEPT !.auto = TRUE]
            \/ style'[s] = [style[s] EXCEPT !.sort = PlaceIn(job[j].list, s)]
        BY <1>4, <2>1, CommitWrites DEF Written
      <3>3. style'[s].enabled = style[s].enabled
        BY <3>1, <3>2 DEF Style
      <3>4. Present(s)'
        BY <2>1, <3>1, CommitWrites DEF Present
      <3> QED
        BY <3>1, <3>3, <3>4 DEF Enabled
    <2>2. Candidates' = Candidates
      <3>1. \A s \in Styles \ job[j].locks : style'[s] = style[s]
        BY CommitWrites
      <3> QED
        BY <2>1, <3>1 DEF Candidates, Enabled, Present
    <2>3. \E r : job' = [job EXCEPT ![j] = r]
      BY DEF Commit
    <2>4. ~At(j, "invalidate") /\ UNCHANGED reading
      BY DEF Commit, At
    <2> QED
      BY <2>2, <2>3, <2>4, OthersPend, CacheKept
  <1> QED
    BY <1>1, <1>3, <1>4 DEF Fits, Shape, Job

LEMMA TransactionCache ==
    ASSUME IInv, CacheFits, NEW j \in Jobs, Transaction(j)
    PROVE  CacheFits'
  <1>1. CASE Commit(j)
    BY <1>1, CommitCache
  <1>2. CASE ~Commit(j)
    <2>1. UNCHANGED <<catalog, reading>>
      BY <1>2 DEF Transaction, InsertRow, UpdateRow, MarkAutoAssigned, PlaceRow, DropTags, AddTags,
         StatementFails, Deadlock
    <2>2. \E r : job' = [job EXCEPT ![j] = r]
      BY <1>2 DEF Transaction, InsertRow, UpdateRow, MarkAutoAssigned, PlaceRow, DropTags, AddTags,
         StatementFails, Deadlock, Rollback
    <2>3. ~At(j, "invalidate")
      BY <1>2 DEF Transaction, InsertRow, UpdateRow, MarkAutoAssigned, PlaceRow, DropTags, AddTags,
         StatementFails, Deadlock, Statement, InTransaction, Blockers, At
    <2> QED
      BY <2>1, <2>2, <2>3, OthersPend, CandidatesStay, CacheKept
  <1> QED
    BY <1>1, <1>2

LEMMA RequestCache ==
    ASSUME IInv, CacheFits, NEW q \in Requests, Request(q)
    PROVE  CacheFits'
  <1>1. job \in [Jobs -> Job] /\ q \in Jobs
    BY DEF IInv, TypeOK, Jobs
  <1>2. CASE \/ \E s \in Styles, save \in Saves : CreateStyle(q, s, save) \/ UpdateStyle(q, s, save)
             \/ \E list \in Lists : ReorderStyles(q, list)
    <2>1. PICK r : Begin(q, r)
      BY <1>2 DEF CreateStyle, UpdateStyle, ReorderStyles
    <2>2. ~At(q, "invalidate") /\ UNCHANGED <<catalog, reading>> /\ job' = [job EXCEPT ![q] = r]
      BY <2>1 DEF Begin, At
    <2> QED
      BY <1>1, <2>2, OthersPend, CandidatesStay, CacheKept
  <1>3. CASE \/ \E s \in Styles : PatchStyleFlags(q, s) \/ DeleteStyle(q, s)
             \/ \E t \in Tags : SaveTag(q, t) \/ DeleteTag(q, t)
    <2>1. job' = [job EXCEPT ![q].at = "invalidate"]
      BY <1>3 DEF PatchStyleFlags, DeleteStyle, SaveTag, DeleteTag
    <2> QED
      BY <1>1, <2>1, ChangePends DEF Job
  <1>4. CASE Invalidate(q) \/ AnswerFails(q)
    <2>1. /\ cache' = None \/ stale'
          /\ reader' = reader
          /\ \A r \in Readers : reader[r].at = "keep" => r \in outrun'
      <3>1. cache' = None \/ stale'
        BY <1>4, Zenon DEF Invalidate, AnswerFails
      <3> QED
        BY <1>4, <3>1 DEF Invalidate, AnswerFails, Overtake
    <2> QED
      BY <2>1 DEF CacheFits, CandidatesCurrent
  <1> QED
    BY <1>2, <1>3, <1>4 DEF Request

LEMMA ReadersCache ==
    ASSUME IInv, CacheFits, (\E r \in Readers : Recommendation(r)) \/ Expire
    PROVE  CacheFits'
  <1>1. UNCHANGED <<catalog, job>>
    BY DEF Recommendation, GetCandidates, LoadCandidates, KeepCandidates, LoadFails, Expire
  <1>2. \A found : AsTheyAre(found)' <=> AsTheyAre(found)
    BY <1>1 DEF AsTheyAre, Candidates, Enabled, Present, At, catalog
  <1>3. reader \in [Readers -> [at : {"idle", "load", "keep"}, found : SUBSET Styles]]
    BY DEF IInv, TypeOK
  <1>4. CASE Expire
    BY <1>2, <1>4 DEF Expire, CacheFits, CandidatesCurrent
  <1>5. ASSUME NEW r \in Readers, Recommendation(r) PROVE CacheFits'
    <2>1. ASSUME NEW at, NEW found, Move(r, at, found)
          PROVE  /\ \A p \in Readers \ {r} : reader'[p] = reader[p]
                 /\ reader'[r].at = at /\ reader'[r].found = found
      BY <1>3, <2>1 DEF Move
    <2>2. CASE GetCandidates(r) \/ LoadFails(r)
      BY <1>2, <2>1, <2>2 DEF GetCandidates, LoadFails, CacheFits, CandidatesCurrent
    <2>3. CASE LoadCandidates(r)
      <3>1. AsTheyAre(Candidates)
        BY DEF AsTheyAre
      <3> QED
        BY <1>2, <2>1, <2>3, <3>1 DEF LoadCandidates, CacheFits, CandidatesCurrent
    <2>4. CASE KeepCandidates(r)
      <3>1. /\ reader'[r].at = "idle" /\ \A p \in Readers \ {r} : reader'[p] = reader[p]
            /\ reader[r].at = "keep" /\ cache' = reader[r].found /\ outrun' = outrun \ {r}
            /\ ~stale' => r \notin outrun
        BY <2>1, <2>4 DEF KeepCandidates
      <3>2. \A p \in Readers : reader'[p].at = "keep" /\ p \notin outrun' =>
                p # r /\ reader'[p] = reader[p] /\ p \notin outrun
        BY <3>1
      <3> QED
        BY <1>2, <3>1, <3>2 DEF CacheFits, CandidatesCurrent
    <2> QED
      BY <1>5, <2>2, <2>3, <2>4 DEF Recommendation
  <1> QED
    BY <1>4, <1>5

LEMMA CacheStep == IInv /\ CacheFits /\ [Next]_vars => CacheFits'
  <1> SUFFICES ASSUME IInv, CacheFits, [Next]_vars PROVE CacheFits'
    OBVIOUS
  <1>1. ASSUME NEW b \in Backfills, Backfill(b) \/ NextTarget(b) \/ KillBackfill(b)
        PROVE  CacheFits'
    <2>1. UNCHANGED <<catalog, reading>> /\ b \in Jobs
      BY <1>1 DEF Backfill, Begin, NextTarget, KillBackfill, Jobs
    <2>2. \E r : job' = [job EXCEPT ![b] = r]
      BY <1>1 DEF Backfill, Begin, NextTarget, KillBackfill
    <2>3. \A q \in Requests : q # b
      BY DEF Jobs
    <2>4. \A q \in Requests : At(q, "invalidate") => At(q, "invalidate")'
      BY <2>2, <2>3 DEF At, IInv, TypeOK, Jobs
    <2> QED
      BY <2>1, <2>4, CandidatesStay, CacheKept
  <1>2. CASE Restart
    BY <1>2 DEF Restart, CacheFits, CandidatesCurrent, NoReader
  <1>3. CASE UNCHANGED vars
    <2>1. UNCHANGED <<catalog, reading, job>>
      BY <1>3 DEF vars
    <2> QED
      BY <2>1, CandidatesStay, CacheKept DEF At
  <1> QED
    BY <1>1, <1>2, <1>3, RequestCache, ClassificationCache, TransactionCache, ReadersCache DEF Next

(* However saves, toggles, deletions, loads and expiries overlap, the cached
   candidates are the enabled styles, or an answer is still due that will drop
   them, but where a load was overtaken or an invalidation lost (getCandidates,
   invalidateCandidateCache and its callers). *)
THEOREM CandidatesAlwaysCurrent == Spec => []CandidatesCurrent
  <1>1. CacheFits => CandidatesCurrent
    BY DEF CacheFits
  <1> QED
    BY IInvAlways, InitCacheFits, CacheStep, <1>1, PTL DEF Spec

=============================================================================
