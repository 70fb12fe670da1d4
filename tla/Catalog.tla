------------------------------- MODULE Catalog -------------------------------
(***************************************************************************)
(* The catalogue of styles: the administrators' saves, toggles, deletions  *)
(* and reorderings (styleController, styleModel), the tags and the         *)
(* classifier that assigns them (tagController, autoTagService), the       *)
(* operator's backfill of tags (utils/backfillTags), and the cached        *)
(* candidates that recommendations are made from (recommendationService).  *)
(*                                                                         *)
(* Saves, reorderings and the backfill's writes are transactions of        *)
(* several statements on READ COMMITTED: what they write shows when they   *)
(* commit, and until then other writers of the same rows wait.  A style    *)
(* stands for its name in its category, which is unique, a tag for its     *)
(* slug.                                                                   *)
(***************************************************************************)
EXTENDS Naturals, Sequences, FiniteSets, SequencesExt, Relation

CONSTANTS
    Styles, Tags,
    Vocabulary,      \* the tags there are at first
    Requests,        \* requests of administrators
    Backfills,       \* runs of backfillTags
    Readers,         \* requests for recommendations
    Saves,           \* what saves ask for: [tags, auto, enabled, sort]
    Lists,           \* what reorderings ask for: sequences of styles, ...
    SortOrder(_, _), \* ... and the sortOrder that goes with each item
    MaxAttempts,     \* MAX_RATE_LIMIT_RETRIES
    FallbackModel,   \* GEMINI_TAGGING_FALLBACK_MODEL is set
    None,
    MaxPosition,     \* bound: sort_order saturates here
    MaxChanges,      \* bound: requests and backfills begun
    MaxFaults        \* bound: statements that fail, processes that die

Jobs == Requests \cup Backfills
Positions == 0..MaxPosition
Pairs == Styles \X Tags
Style == [enabled : BOOLEAN, auto : BOOLEAN, sort : Positions]
Choice == (SUBSET Tags) \cup {None}

(* tagIds and autoAssignTags may be absent from the body of a request. *)
ASSUME NoneAssumption ==
    /\ None \notin Style \cup {"create", "update", "reorder", "backfill"}
    /\ \A tags \in SUBSET Tags : tags # None
ASSUME JobsAssumption == IsFiniteSet(Styles) /\ Requests \cap Backfills = {}
ASSUME VocabularyAssumption == Vocabulary \subseteq Tags
ASSUME SavesAssumption ==
    Saves \subseteq [tags : Choice, auto : BOOLEAN \cup {None}, enabled : BOOLEAN, sort : Positions]
ASSUME ListsAssumption ==
    \A list \in Lists :
        list \in Seq(Styles) /\ \A i \in DOMAIN list : SortOrder(list, i) \in Positions
ASSUME ClassifierAssumption == MaxAttempts \in Nat /\ FallbackModel \in BOOLEAN
ASSUME CatalogBounds == MaxPosition \in Nat /\ MaxChanges \in Nat /\ MaxFaults \in Nat

VARIABLES
    style,    \* public.styles: [enabled, auto, sort], or None
    tagged,   \* public.style_tags
    tag,      \* public.tags: "on", "off" or "absent"
    job,      \* what each request and each backfill is doing
    reader,   \* what each request for recommendations is doing
    cache,    \* candidateCache of the process, or None
    curated,  \* the tags each style was last given by hand, or None
    raced,    \* styles curated after a backfill had selected them
    order,    \* the positions that reorderings gave, while they stand
    outrun,   \* readers whose candidates are from before an invalidation, or a lost one
    stale,    \* ... and so are those in the cache
    changes,
    faults

catalog == <<style, tagged, tag>>
history == <<curated, raced, order>>
reading == <<reader, cache, outrun, stale>>
vars == <<catalog, job, reading, history, changes, faults>>

Steps == {"idle", "next", "vocabulary", "primary", "fallback", "newTag",
          "row", "drop", "add", "commit", "invalidate"}

Idle == [at |-> "idle", kind |-> None, id |-> None, tags |-> None, auto |-> None,
         enabled |-> TRUE, sort |-> 0, list |-> <<>>, next |-> 1, vocabulary |-> {},
         attempt |-> 0, overloaded |-> FALSE, dry |-> FALSE,
         locks |-> {}, dropped |-> {}, added |-> {}]

Job == [at : Steps, kind : {None, "create", "update", "reorder", "backfill"},
        id : Styles \cup {None}, tags : Choice, auto : BOOLEAN \cup {None},
        enabled : BOOLEAN, sort : Positions, list : Seq(Styles), next : Nat \ {0},
        vocabulary : SUBSET Tags, attempt : 0..MaxAttempts, overloaded : BOOLEAN, dry : BOOLEAN,
        locks : SUBSET Styles, dropped : SUBSET Pairs, added : SUBSET Pairs]

NoReader == [at |-> "idle", found |-> {}]

(* Types, and the foreign keys of style_tags. *)
TypeOK ==
    /\ style \in [Styles -> Style \cup {None}]
    /\ tagged \subseteq {p \in Pairs : style[p[1]] # None /\ tag[p[2]] # "absent"}
    /\ tag \in [Tags -> {"on", "off", "absent"}]
    /\ job \in [Jobs -> Job]
    /\ \A j \in Jobs :
        job[j].kind = "reorder" /\ job[j].at = "row" => job[j].next \in DOMAIN job[j].list
    /\ reader \in [Readers -> [at : {"idle", "load", "keep"}, found : SUBSET Styles]]
    /\ cache \in (SUBSET Styles) \cup {None}
    /\ outrun \subseteq Readers /\ stale \in BOOLEAN
    /\ curated \in [Styles -> Choice] /\ raced \subseteq Styles
    /\ DOMAIN order \subseteq Styles /\ \A s \in DOMAIN order : order[s] \in Positions
    /\ changes \in 0..MaxChanges /\ faults \in 0..MaxFaults

(* Any styles, all awaiting their tags. *)
Init ==
    /\ style \in [Styles -> {[enabled |-> TRUE, auto |-> TRUE, sort |-> 0], None}]
    /\ tagged = {}
    /\ tag = [t \in Tags |-> IF t \in Vocabulary THEN "on" ELSE "absent"]
    /\ job = [j \in Jobs |-> Idle]
    /\ reader = [r \in Readers |-> NoReader]
    /\ cache = None /\ outrun = {} /\ stale = FALSE
    /\ curated = [s \in Styles |-> None] /\ raced = {} /\ order = <<>>
    /\ changes = 0 /\ faults = 0

-----------------------------------------------------------------------------
(* Rows and locks.                                                         *)

At(j, step) == job[j].at = step
Present(s) == style[s] # None
TagsOf(s, pairs) == {t \in Tags : <<s, t>> \in pairs}
RowsOf(s) == {p \in tagged : p[1] = s}
Wanted(j) == {job[j].id} \X job[j].tags
Least(a, b) == IF a < b THEN a ELSE b

(* The row of styles a statement updates: the reordering's next, or the job's. *)
Target(j) == IF job[j].kind = "reorder" THEN job[j].list[job[j].next] ELSE job[j].id

(* The transactions that the next statement of j waits for: those that
   locked the row it updates or the name it inserts, deleted rows it
   deletes, or wrote the keys it inserts. *)
Blockers(j) ==
    {k \in Jobs \ {j} :
        \/ /\ At(j, "row") /\ Target(j) \in job[k].locks
           /\ Present(Target(j)) \/ job[j].kind = "create"
        \/ At(j, "drop") /\ RowsOf(job[j].id) \cap job[k].dropped # {}
        \/ At(j, "add") /\ Wanted(j) \cap (job[k].added \cup job[k].dropped) # {}}

(* No open transaction wrote one of these rows of style_tags. *)
Untouched(S) == \A k \in Jobs : S \cap (job[k].added \cup job[k].dropped) = {}

InTransaction(j) == job[j].at \in {"row", "drop", "add", "commit"}

(* What a job does when it is through with a style: a request is over, a
   backfill takes its next target. *)
Onwards(record) ==
    IF record.kind = "backfill"
    THEN [Idle EXCEPT !.at = "next", !.kind = "backfill", !.dry = record.dry,
                       !.list = Tail(record.list)]
    ELSE Idle

(* A regression: the client goes back to the pool inside its transaction. *)
RollbackForgotten(j) ==
    job' = [job EXCEPT ![j] = [Onwards(job[j]) EXCEPT !.locks = job[j].locks]]

(* ROLLBACK: the locks and the uncommitted rows are gone. *)
Rollback(j) == job' = [job EXCEPT ![j] = Onwards(@)]

(* PostgreSQL aborts one transaction of each circle of waiting ones. *)
WaitsForItself(j) ==
    TransitiveClosure([a, b \in Jobs |-> b \in Blockers(a)], Jobs)[j, j]

Deadlock(j) ==
    /\ Blockers(j) # {} /\ WaitsForItself(j)
    /\ Rollback(j)
    /\ UNCHANGED <<catalog, reading, history, changes, faults>>

(* A statement of the transaction fails. *)
StatementFails(j) ==
    /\ faults < MaxFaults
    /\ InTransaction(j) /\ Blockers(j) = {}
    /\ faults' = faults + 1
    /\ Rollback(j)
    /\ UNCHANGED <<catalog, reading, history, changes>>

-----------------------------------------------------------------------------
(* Requests and the backfill begin.                                        *)

Begin(j, record) ==
    /\ At(j, "idle")
    /\ changes < MaxChanges
    /\ changes' = changes + 1
    /\ job' = [job EXCEPT ![j] = record]
    /\ UNCHANGED <<catalog, reading, history, faults>>

(* Tags are classified only when the request says so; createStyle takes
   an absent autoAssignTags for true, absent tags for none, and says
   itself whose the tags are. *)
SaveOf(kind, s, save) ==
    [Idle EXCEPT
        !.kind = kind, !.id = s, !.enabled = save.enabled, !.sort = save.sort,
        !.at = IF save.auto = TRUE \/ (kind = "create" /\ save.auto = None)
               THEN "vocabulary" ELSE "row",
        !.tags = IF kind = "create" /\ save.tags = None THEN {} ELSE save.tags,
        !.auto = IF save.auto = FALSE THEN FALSE ELSE None]

CreateStyle(q, s, save) == Begin(q, SaveOf("create", s, save))
UpdateStyle(q, s, save) == Begin(q, SaveOf("update", s, save))

ReorderStyles(q, list) ==
    Begin(q, [Idle EXCEPT !.kind = "reorder", !.list = list,
                          !.at = IF list = <<>> THEN "commit" ELSE "row"])

(* getStylesNeedingAutoTag. *)
NeedingAutoTag == {s \in Styles : Present(s) /\ style[s].auto /\ RowsOf(s) = {}}

(* The targets are selected once, and cut by --limit; a dry run writes
   nothing of its own. *)
Backfill(b) ==
    \E list \in SetToAllKPermutations(NeedingAutoTag), dry \in BOOLEAN :
        Begin(b, [Idle EXCEPT !.at = "next", !.kind = "backfill", !.list = list, !.dry = dry])

NextTarget(b) ==
    /\ At(b, "next")
    /\ job' = [job EXCEPT ![b] =
                  IF @.list = <<>> THEN Idle
                  ELSE [@ EXCEPT !.at = "vocabulary", !.id = Head(job[b].list)]]
    /\ UNCHANGED <<catalog, reading, history, changes, faults>>

-----------------------------------------------------------------------------
(* suggestTagsForStyle.  No transaction is open.                           *)

(* What each caller makes of the suggestion; None is status 'error'. *)
Suggested(j, tags) ==
    LET plain == [job[j] EXCEPT !.vocabulary = {}, !.attempt = 0, !.overloaded = FALSE]
    IN  job' = [job EXCEPT ![j] =
            CASE plain.kind = "backfill" ->
                    IF tags = None \/ plain.dry THEN Onwards(plain)
                    ELSE [plain EXCEPT !.at = "drop", !.tags = tags]
              [] plain.kind = "create" ->
                    [plain EXCEPT !.at = "row", !.auto = TRUE,
                                  !.tags = IF tags = None THEN {} ELSE tags]
              [] plain.kind = "update" ->
                    [plain EXCEPT !.at = "row", !.tags = tags,
                                  !.auto = IF tags = None THEN None ELSE TRUE]]

(* Only tags that are enabled are matched. *)
ReadVocabulary(j) ==
    /\ At(j, "vocabulary")
    /\ LET on == {t \in Tags : tag[t] = "on"}
       IN  IF on = {} THEN Suggested(j, {})
           ELSE job' = [job EXCEPT ![j] = [@ EXCEPT !.at = "primary", !.vocabulary = on]]
    /\ UNCHANGED <<catalog, reading, history, changes, faults>>

Asking(j) == job[j].at \in {"primary", "fallback"}

(* A model that is exhausted gives way to the other, if there is one. *)
Exhausted(j) ==
    IF At(j, "primary") /\ FallbackModel
    THEN job' = [job EXCEPT ![j] = [@ EXCEPT !.at = "fallback", !.attempt = 0,
                                             !.overloaded = FALSE]]
    ELSE Suggested(j, None)

(* 429: retried while attempts are left. *)
RateLimited(j) ==
    /\ Asking(j)
    /\ IF job[j].attempt = MaxAttempts THEN Exhausted(j)
       ELSE job' = [job EXCEPT ![j].attempt = @ + 1]
    /\ UNCHANGED <<catalog, reading, history, changes, faults>>

(* 503: retried once, on the attempts of the 429s; a first 503 on the last
   of them runs out of the loop, to an error that is nobody's 503. *)
Overloaded(j) ==
    /\ Asking(j)
    /\ CASE job[j].overloaded -> Exhausted(j)
         [] ~job[j].overloaded /\ job[j].attempt < MaxAttempts ->
                job' = [job EXCEPT ![j] = [job[j] EXCEPT !.attempt = @ + 1, !.overloaded = TRUE]]
         [] OTHER -> Suggested(j, None)
    /\ UNCHANGED <<catalog, reading, history, changes, faults>>

(* A timeout, an answer that does not parse, or any other error. *)
ClassifierFails(j) ==
    /\ job[j].at \in {"vocabulary", "primary", "fallback", "newTag"}
    /\ faults < MaxFaults
    /\ faults' = faults + 1
    /\ Suggested(j, None)
    /\ UNCHANGED <<catalog, reading, history, changes>>

(* The names that are in the vocabulary, or nothing that fits. *)
Classified(j) ==
    /\ Asking(j)
    /\ \E tags \in SUBSET job[j].vocabulary : Suggested(j, tags)
    /\ UNCHANGED <<catalog, reading, history, changes, faults>>

(* Nothing in the vocabulary fits and the model suggests a new tag. *)
SuggestNewTag(j) ==
    /\ Asking(j)
    /\ \E t \in Tags \ job[j].vocabulary :
          job' = [job EXCEPT ![j] = [@ EXCEPT !.at = "newTag", !.tags = {t}]]
    /\ UNCHANGED <<catalog, reading, history, changes, faults>>

(* The new tag is made, or the tag that has its slug is taken, enabled or
   not: a statement of its own, whatever becomes of the style. *)
CreateSuggestedTag(j) ==
    /\ At(j, "newTag")
    /\ tag' = [t \in Tags |-> IF t \in job[j].tags /\ tag[t] = "absent" THEN "on" ELSE tag[t]]
    /\ Suggested(j, job[j].tags)
    /\ UNCHANGED <<style, tagged, reading, history, changes, faults>>

-----------------------------------------------------------------------------
(* The statements of a transaction.                                        *)

Statement(j, step) == At(j, step) /\ Blockers(j) = {}

(* COALESCE($11, MAX(sort_order) + 1). *)
NextPosition ==
    LET taken == {style[s].sort : s \in {s \in Styles : Present(s)}}
    IN  IF taken = {} THEN 0 ELSE Least(1 + CHOOSE n \in taken : \A m \in taken : m <= n, MaxPosition)

(* The INSERT of createStyle; a name that is taken is 409. *)
InsertRow(j) ==
    /\ Statement(j, "row") /\ job[j].kind = "create"
    /\ IF Present(job[j].id) THEN Rollback(j)
       ELSE job' = [job EXCEPT ![j] = [@ EXCEPT !.at = "drop", !.locks = {job[j].id},
                                                !.sort = NextPosition]]
    /\ UNCHANGED <<catalog, reading, history, changes, faults>>

(* The UPDATE of updateStyle; a style that is gone is 404.  Tags that are
   undefined are left alone. *)
UpdateRow(j) ==
    /\ Statement(j, "row") /\ job[j].kind = "update"
    /\ IF ~Present(job[j].id) THEN Rollback(j)
       ELSE job' = [job EXCEPT ![j] =
               [@ EXCEPT !.at = IF job[j].tags = None THEN "commit" ELSE "drop", !.locks = {job[j].id}]]
    /\ UNCHANGED <<catalog, reading, history, changes, faults>>

(* The UPDATE of setStyleTagsAutoAssigned, which comes last. *)
MarkAutoAssigned(j) ==
    /\ Statement(j, "row") /\ job[j].kind = "backfill"
    /\ job' = [job EXCEPT ![j] = [@ EXCEPT !.at = "commit",
                                         !.locks = {s \in {job[j].id} : Present(s)}]]
    /\ UNCHANGED <<catalog, reading, history, changes, faults>>

(* The sortOrder of a style: a list may name it twice, and the last UPDATE
   stands. *)
PlaceIn(list, s) ==
    SortOrder(list, CHOOSE i \in DOMAIN list :
                        list[i] = s /\ \A k \in DOMAIN list : list[k] = s => k <= i)

(* A regression: each UPDATE commits by itself. *)
PlaceRowAtOnce(j) ==
    /\ Statement(j, "row") /\ job[j].kind = "reorder"
    /\ style' = [style EXCEPT ![Target(j)] =
                    IF @ = None THEN None ELSE [@ EXCEPT !.sort = SortOrder(job[j].list, job[j].next)]]
    /\ IF job[j].next < Len(job[j].list)
       THEN job' = [job EXCEPT ![j].next = @ + 1] /\ order' = order
       ELSE /\ job' = [job EXCEPT ![j] = Idle]
            /\ order' = [s \in {s \in ToSet(job[j].list) : Present(s)} |->
                            PlaceIn(job[j].list, s)] @@ order
    /\ UNCHANGED <<tagged, tag, reading, curated, raced, changes, faults>>

(* One UPDATE of reorderStyles, in the order of the list. *)
PlaceRow(j) ==
    /\ Statement(j, "row") /\ job[j].kind = "reorder"
    /\ job' = [job EXCEPT ![j] =
                  [job[j] EXCEPT !.at = IF job[j].next = Len(job[j].list) THEN "commit" ELSE "row",
                            !.next = @ + 1,
                            !.locks = @ \cup {s \in {Target(j)} : Present(s)}]]
    /\ UNCHANGED <<catalog, reading, history, changes, faults>>

(* setStyleTags: the committed rows of the style are deleted, ... *)
DropTags(j) ==
    /\ Statement(j, "drop")
    /\ job' = [job EXCEPT ![j] = [@ EXCEPT !.at = "add", !.dropped = RowsOf(job[j].id)]]
    /\ UNCHANGED <<catalog, reading, history, changes, faults>>

(* ... and its tags inserted; a style or a tag that is gone by then breaks
   a foreign key.  A row that is there already is left as it is. *)
AddTags(j) ==
    /\ Statement(j, "add")
    /\ IF \/ \E t \in job[j].tags : tag[t] = "absent"
          \/ job[j].tags # {} /\ job[j].kind # "create" /\ ~Present(job[j].id)
       THEN Rollback(j)
       ELSE job' = [job EXCEPT ![j] =
               [@ EXCEPT !.at = IF job[j].kind = "backfill" THEN "row" ELSE "commit",
                         !.added = Wanted(j)]]
    /\ UNCHANGED <<catalog, reading, history, changes, faults>>

(* The row of a style as the transaction leaves it. *)
Written(record, s) ==
    CASE record.kind = "create" ->
            [enabled |-> record.enabled, auto |-> record.auto, sort |-> record.sort]
      [] record.kind = "update" ->
            [enabled |-> record.enabled, sort |-> record.sort,
             auto |-> IF record.auto = None THEN style[s].auto ELSE record.auto]
      [] record.kind = "backfill" -> [style[s] EXCEPT !.auto = TRUE]
      [] record.kind = "reorder" ->
            [style[s] EXCEPT !.sort = PlaceIn(record.list, s)]

(* COMMIT.  Only saves invalidate the cache afterwards; the backfill is
   another process, and reorderings do not. *)
Commit(j) ==
    LET record == job[j]
        saved == record.kind \in {"create", "update"}
    IN  /\ At(j, "commit")
        /\ style' = [s \in Styles |->
                        IF s \in record.locks THEN Written(record, s) ELSE style[s]]
        /\ tagged' = (tagged \ record.dropped) \cup record.added
        /\ job' = [job EXCEPT ![j] = IF saved THEN [Idle EXCEPT !.at = "invalidate"]
                                     ELSE Onwards(record)]
        /\ curated' = [s \in Styles |->
                IF ~saved \/ s # record.id THEN curated[s]
                ELSE IF style'[s].auto THEN None ELSE TagsOf(s, tagged')]
        /\ raced' = IF saved
                    THEN (raced \ {record.id}) \cup
                         {s \in {record.id} : \E b \in Backfills : s \in ToSet(job[b].list)}
                    ELSE raced
        /\ order' = CASE record.kind = "reorder" ->
                            [s \in DOMAIN order \cup record.locks |->
                                IF s \in record.locks THEN PlaceIn(record.list, s) ELSE order[s]]
                      [] saved -> Restrict(order, DOMAIN order \ {record.id})
                      [] OTHER -> order
        /\ UNCHANGED <<tag, reading, changes, faults>>

(* Candidates that were selected and not yet cached are overtaken. *)
Overtake == outrun' = outrun \cup {r \in Readers : reader[r].at = "keep"}

(* invalidateCandidateCache, and the request is over. *)
Invalidate(q) ==
    /\ At(q, "invalidate")
    /\ cache' = None /\ stale' = FALSE
    /\ Overtake
    /\ job' = [job EXCEPT ![q] = Idle]
    /\ UNCHANGED <<catalog, reader, history, changes, faults>>

(* What the request wrote stands, but its answer is lost or the row cannot be
   read back: a 500, and nothing is invalidated. *)
AnswerFails(q) ==
    /\ At(q, "invalidate")
    /\ faults < MaxFaults
    /\ faults' = faults + 1
    /\ stale' = (cache # None)
    /\ Overtake
    /\ job' = [job EXCEPT ![q] = Idle]
    /\ UNCHANGED <<catalog, reader, cache, history, changes>>

-----------------------------------------------------------------------------
(* Statements that are transactions of their own.                          *)

(* A regression: a toggle replaces the row, absent flags by their defaults. *)
PatchStyleFlagsReplaced(q, s) ==
    /\ At(q, "idle") /\ changes < MaxChanges
    /\ Present(s) /\ \A k \in Jobs : s \notin job[k].locks
    /\ \E enabled \in BOOLEAN :
          style' = [style EXCEPT ![s] = [@ EXCEPT !.enabled = enabled, !.auto = TRUE]]
    /\ job' = [job EXCEPT ![q].at = "invalidate"]
    /\ changes' = changes + 1
    /\ UNCHANGED <<tagged, tag, reading, history, faults>>

(* A regression: a toggle is answered without an invalidation. *)
PatchStyleFlagsQuietly(q, s) ==
    /\ At(q, "idle") /\ changes < MaxChanges
    /\ Present(s) /\ \A k \in Jobs : s \notin job[k].locks
    /\ \E enabled \in BOOLEAN : style' = [style EXCEPT ![s].enabled = enabled]
    /\ changes' = changes + 1
    /\ UNCHANGED <<tagged, tag, job, reading, history, faults>>

(* patchStyleFlags: only the flags that are given. *)
PatchStyleFlags(q, s) ==
    /\ At(q, "idle") /\ changes < MaxChanges
    /\ Present(s) /\ \A k \in Jobs : s \notin job[k].locks
    /\ \E enabled \in BOOLEAN : style' = [style EXCEPT ![s].enabled = enabled]
    /\ job' = [job EXCEPT ![q].at = "invalidate"]
    /\ changes' = changes + 1
    /\ UNCHANGED <<tagged, tag, reading, history, faults>>

(* deleteStyle, and its rows of style_tags with it; the covers are Assets'. *)
DeleteStyle(q, s) ==
    /\ At(q, "idle") /\ changes < MaxChanges
    /\ Present(s) /\ \A k \in Jobs : s \notin job[k].locks
    /\ Untouched({s} \X Tags)
    /\ style' = [style EXCEPT ![s] = None]
    /\ tagged' = tagged \ RowsOf(s)
    /\ curated' = [curated EXCEPT ![s] = None]
    /\ order' = Restrict(order, DOMAIN order \ {s})
    /\ job' = [job EXCEPT ![q].at = "invalidate"]
    /\ changes' = changes + 1
    /\ UNCHANGED <<tag, raced, reading, faults>>

(* createTag of an absent slug, and updateTag of is_enabled. *)
SaveTag(q, t) ==
    /\ At(q, "idle") /\ changes < MaxChanges
    /\ \E state \in {"on", "off"} : tag' = [tag EXCEPT ![t] = state]
    /\ job' = [job EXCEPT ![q].at = "invalidate"]
    /\ changes' = changes + 1
    /\ UNCHANGED <<style, tagged, reading, history, faults>>

(* deleteTag, and the rows of style_tags with it. *)
DeleteTag(q, t) ==
    /\ At(q, "idle") /\ changes < MaxChanges
    /\ tag[t] # "absent"
    /\ Untouched(Styles \X {t})
    /\ tag' = [tag EXCEPT ![t] = "absent"]
    /\ tagged' = {p \in tagged : p[2] # t}
    /\ curated' = [s \in Styles |-> IF curated[s] = None THEN None ELSE curated[s] \ {t}]
    /\ job' = [job EXCEPT ![q].at = "invalidate"]
    /\ changes' = changes + 1
    /\ UNCHANGED <<style, raced, order, reading, faults>>

-----------------------------------------------------------------------------
(* Recommendations.                                                        *)

Enabled(s) == Present(s) /\ style[s].enabled
Candidates == {s \in Styles : Enabled(s)}
Move(r, at, found) == reader' = [reader EXCEPT ![r] = [at |-> at, found |-> found]]

(* getCandidates where nothing is cached.  What is recommended from the
   candidates, cached or loaded, changes nothing here. *)
GetCandidates(r) ==
    /\ reader[r].at = "idle" /\ cache = None
    /\ Move(r, "load", {})
    /\ UNCHANGED <<catalog, job, cache, outrun, stale, history, changes, faults>>

(* getEnabledStylesWithTags. *)
LoadCandidates(r) ==
    /\ reader[r].at = "load"
    /\ Move(r, "keep", Candidates)
    /\ UNCHANGED <<catalog, job, cache, outrun, stale, history, changes, faults>>

(* What was loaded is cached, however old it is by then. *)
KeepCandidates(r) ==
    /\ reader[r].at = "keep"
    /\ cache' = reader[r].found /\ stale' = (r \in outrun)
    /\ outrun' = outrun \ {r}
    /\ Move(r, "idle", {})
    /\ UNCHANGED <<catalog, job, history, changes, faults>>

(* The query fails, and the request with it. *)
LoadFails(r) ==
    /\ reader[r].at = "load"
    /\ faults < MaxFaults
    /\ faults' = faults + 1
    /\ Move(r, "idle", {})
    /\ UNCHANGED <<catalog, job, cache, outrun, stale, history, changes>>

(* CANDIDATE_CACHE_TTL_MS has passed. *)
Expire ==
    /\ cache # None
    /\ cache' = None /\ stale' = FALSE
    /\ UNCHANGED <<catalog, job, reader, outrun, history, changes, faults>>

-----------------------------------------------------------------------------
(* The backend dies with its requests, a backfill is killed: what was not
   committed is rolled back. *)

Restart ==
    /\ faults < MaxFaults
    /\ faults' = faults + 1
    /\ job' = [j \in Jobs |-> IF j \in Requests THEN Idle ELSE job[j]]
    /\ reader' = [r \in Readers |-> NoReader]
    /\ cache' = None /\ outrun' = {} /\ stale' = FALSE
    /\ UNCHANGED <<catalog, history, changes>>

KillBackfill(b) ==
    /\ faults < MaxFaults
    /\ ~At(b, "idle")
    /\ faults' = faults + 1
    /\ job' = [job EXCEPT ![b] = Idle]
    /\ UNCHANGED <<catalog, reading, history, changes>>

Request(q) ==
    \/ \E s \in Styles, save \in Saves : CreateStyle(q, s, save) \/ UpdateStyle(q, s, save)
    \/ \E list \in Lists : ReorderStyles(q, list)
    \/ \E s \in Styles : PatchStyleFlags(q, s) \/ DeleteStyle(q, s)
    \/ \E t \in Tags : SaveTag(q, t) \/ DeleteTag(q, t)
    \/ Invalidate(q) \/ AnswerFails(q)

Classification(j) ==
    \/ ReadVocabulary(j) \/ RateLimited(j) \/ Overloaded(j) \/ ClassifierFails(j)
    \/ Classified(j) \/ SuggestNewTag(j) \/ CreateSuggestedTag(j)

Transaction(j) ==
    \/ InsertRow(j) \/ UpdateRow(j) \/ MarkAutoAssigned(j) \/ PlaceRow(j)
    \/ DropTags(j) \/ AddTags(j) \/ Commit(j) \/ StatementFails(j) \/ Deadlock(j)

Recommendation(r) ==
    GetCandidates(r) \/ LoadCandidates(r) \/ KeepCandidates(r) \/ LoadFails(r)

Next ==
    \/ \E q \in Requests : Request(q)
    \/ \E b \in Backfills : Backfill(b) \/ NextTarget(b) \/ KillBackfill(b)
    \/ \E j \in Jobs : Classification(j) \/ Transaction(j)
    \/ \E r \in Readers : Recommendation(r)
    \/ Expire \/ Restart

Spec == Init /\ [][Next]_vars

-----------------------------------------------------------------------------
(* Properties.                                                             *)

AsCurated(s) ==
    Present(s) /\ curated[s] # None => ~style[s].auto /\ TagsOf(s, tagged) = curated[s]

(* The tags a style was last given by hand stand, less those deleted from
   the vocabulary: no backfill that selected its targets afterwards, no
   reordering, toggle or failed transaction touches them
   (getStylesNeedingAutoTag, setStyleTags). *)
CurationHolds == \A s \in Styles \ raced : AsCurated(s)

(* styleModel.js:271 has them stand whatever a backfill had selected. *)
CuratedTagsStand == \A s \in Styles : AsCurated(s)

(* Reorderings do not mix: each style that one named last stands where
   that one put it, unless it was saved since (reorderStyles). *)
ReordersAreWhole ==
    \A s \in DOMAIN order : style[s].sort = order[s]

(* Nothing is waited for that is not a transaction under way: whatever
   ends one, its rows and keys are free (the ROLLBACK and COMMIT of every
   writer of styles). *)
NobodyHoldsOnAfterwards ==
    \A j, k \in Jobs : k \in Blockers(j) => InTransaction(k)

(* The types, and no lock that outlives its transaction. *)
StateOK == TypeOK /\ NobodyHoldsOnAfterwards

(* What the process makes its recommendations from, past what requests that
   are not yet answered have changed, and past the two ways in which nothing
   invalidates: a load that a save overtook, and a save that was answered
   with an error though it was done. *)
AsTheyAre(found) ==
    found = Candidates \/ \E q \in Requests : At(q, "invalidate")

(* "A curation change is reflected well before the 60s TTL would expire": the
   cached candidates are the enabled styles, whatever saves, toggles,
   deletions, loads and expiries overlap, unless they were selected before
   an invalidation or the invalidation was lost (getCandidates,
   invalidateCandidateCache). *)
CandidatesCurrent == cache # None /\ ~stale => AsTheyAre(cache)

(* recommendationService.js:46 has it of every change that was answered, the
   loads that are under way notwithstanding. *)
ChangesReflected == cache # None => AsTheyAre(cache)
=============================================================================
