----------------------------- MODULE StorageUsage -----------------------------
(* The storage figure of the admin dashboard (src/services/storageUsageService.js):
   a walk over a bucket, cached, and shared by the callers that arrive while it
   is under way. One process, so the steps between two awaits are one action: when
   a walk ends, its owner and then everyone who joined it are resumed in one turn
   of the event loop.

   External: how many pages the bucket has, and the storage service that answers
   or fails. *)
EXTENDS Naturals, FiniteSets

CONSTANTS
    Callers,
    Pages,          \* full pages of the bucket: the next one is short
    PageCap,        \* MAX_PAGES
    Nobody,
    MaxOutages      \* bound: listings that fail

ASSUME StorageUsageAssumption ==
    /\ Pages \in Nat /\ PageCap \in Nat \ {0}
    /\ IsFiniteSet(Callers) /\ Nobody \notin Callers
    /\ MaxOutages \in Nat

VARIABLES
    caller,     \* [Callers -> where a call of getStorageUsage is]
    joined,     \* [Callers -> the caller whose walk it awaits, its own included]
    walked,     \* [Callers -> pages its walk has listed]
    inFlight,   \* the owner of the walk that callers join
    cache,      \* "none", "stale", or a figure: "exact", "truncated"
    forked,     \* for the property: one failure started several walks, and some go on
    outages

uvars == <<caller, joined, walked, inFlight, cache, forked, outages>>

UsageInit ==
    /\ caller = [c \in Callers |-> "idle"]
    /\ joined = [c \in Callers |-> Nobody]
    /\ walked = [c \in Callers |-> 0]
    /\ inFlight = Nobody /\ cache = "none" /\ forked = FALSE /\ outages = 0

Walking == {c \in Callers : joined[c] = c}
Waiting(o) == {c \in Callers \ {o} : joined[c] = o}

\* Those in S are answered; those in W start a walk of their own.
Resume(S, W) ==
    /\ caller' = [c \in Callers |-> IF c \in S THEN "answered" ELSE caller[c]]
    /\ joined' = [c \in Callers |-> IF c \in W THEN c ELSE IF c \in S THEN Nobody ELSE joined[c]]
    /\ walked' = [c \in Callers |-> IF c \in S \cup W THEN 0 ELSE walked[c]]

Ask(c) ==
    /\ caller[c] = "idle"
    /\ \/ /\ cache \in {"exact", "truncated"}           \* fresh: cached
          /\ caller' = [caller EXCEPT ![c] = "answered"]
          /\ UNCHANGED <<joined, inFlight>>
       \/ /\ cache \in {"none", "stale"} /\ inFlight # Nobody      \* single-flight
          /\ caller' = [caller EXCEPT ![c] = "asked"]
          /\ joined' = [joined EXCEPT ![c] = inFlight]
          /\ UNCHANGED inFlight
       \/ /\ cache \in {"none", "stale"} /\ inFlight = Nobody
          /\ caller' = [caller EXCEPT ![c] = "asked"]
          /\ joined' = [joined EXCEPT ![c] = c]
          /\ inFlight' = c
    /\ UNCHANGED <<walked, cache, forked, outages>>

\* The dashboard is opened again.
Again(c) ==
    /\ caller[c] = "answered"
    /\ caller' = [caller EXCEPT ![c] = "idle"]
    /\ UNCHANGED <<joined, walked, inFlight, cache, forked, outages>>

\* The page in hand is full and the last that the cap allows.
CapReached(c) == walked[c] < Pages /\ walked[c] + 1 = PageCap

WalkPage(c) ==
    /\ c \in Walking /\ walked[c] < Pages /\ ~CapReached(c)
    /\ walked' = [walked EXCEPT ![c] = @ + 1]
    /\ UNCHANGED <<caller, joined, inFlight, cache, forked, outages>>

(* The short page, the cap, or the deadline before another page: owner and waiters have the figure.
   The owner's finally block drops the latch, whoever has it by now. *)
EndWalkLatched(c) ==    \* a regression: the latch is not dropped
    /\ c \in Walking
    /\ \/ walked[c] = Pages /\ cache' = "exact"
       \/ (walked[c] > 0 \/ CapReached(c)) /\ cache' = "truncated"
    /\ Resume({c} \cup Waiting(c), {})
    /\ forked' = (forked /\ Walking # {c})
    /\ UNCHANGED <<inFlight, outages>>
EndWalk(c) ==
    /\ c \in Walking
    /\ \/ walked[c] = Pages /\ cache' = "exact"
       \/ (walked[c] > 0 \/ CapReached(c)) /\ cache' = "truncated"
    /\ Resume({c} \cup Waiting(c), {})
    /\ forked' = (forked /\ Walking # {c})
    /\ inFlight' = Nobody
    /\ UNCHANGED outages

(* The listing fails. The owner answers with the old figure or none and drops the
   latch; everyone who waited falls through to a walk of its own without looking
   at the latch again, and the last of them to do so has it. *)
WalkFails(c) ==
    /\ c \in Walking /\ outages < MaxOutages
    /\ Resume({c}, Waiting(c))
    /\ IF Waiting(c) = {} THEN inFlight' = Nobody ELSE inFlight' \in Waiting(c)
    /\ forked' = ((forked /\ Walking # {c}) \/ Cardinality(Waiting(c)) > 1)
    /\ outages' = outages + 1
    /\ UNCHANGED cache

Expire ==       \* TTL_MS
    /\ cache \in {"exact", "truncated"}
    /\ cache' = "stale"
    /\ UNCHANGED <<caller, joined, walked, inFlight, forked, outages>>

UsageNext ==
    \/ Expire
    \/ \E c \in Callers : Ask(c) \/ Again(c) \/ WalkPage(c) \/ EndWalk(c) \/ WalkFails(c)

-----------------------------------------------------------------------------
UsageTypeOK ==
    /\ caller \in [Callers -> {"idle", "asked", "answered"}]
    /\ joined \in [Callers -> Callers \cup {Nobody}]
    /\ walked \in [Callers -> 0..Pages]
    /\ inFlight \in Callers \cup {Nobody}
    /\ cache \in {"none", "stale", "exact", "truncated"}
    /\ forked \in BOOLEAN
    /\ outages \in 0..MaxOutages

(* Callers share a walk: there is one at most, unless a listing failed under two
   who waited for it and the walks they began are not over. Whoever waits, waits
   for a walk that is under way, and so does whoever comes next. *)
WalksAreShared ==
    /\ forked \/ Cardinality(Walking) <= 1
    /\ \A c \in Callers : caller[c] = "asked" => joined[c] \in Walking
    /\ inFlight # Nobody => inFlight \in Walking

(* What storageUsageService.js says of getStorageUsage: it refreshes the figure
   "at most once per TTL and at most once concurrently". *)
OneWalk == Cardinality(Walking) <= 1
=============================================================================
