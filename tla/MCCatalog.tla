----------------------------- MODULE MCCatalog -----------------------------
(* Catalog on a small instance: two styles and two tags, two requests of
   administrators and one backfill at a time. *)
EXTENDS Catalog

CONSTANTS s1, s2, t1, t2

(* A plain save, saves with tags by hand, one with automatic tags and one
   that leaves its tags to an absent autoAssignTags. *)
MCSaves ==
    {[tags |-> None, auto |-> None, enabled |-> FALSE, sort |-> 0],
     [tags |-> {t1}, auto |-> FALSE, enabled |-> TRUE, sort |-> 1],
     [tags |-> {}, auto |-> FALSE, enabled |-> TRUE, sort |-> 0],
     [tags |-> None, auto |-> TRUE, enabled |-> TRUE, sort |-> 1]}

(* Both orders, and lists that name a style twice; numbered as they come. *)
MCLists == {<<s1, s2>>, <<s2, s1>>, <<s1, s1>>, <<s2, s2>>}
MCSortOrder(list, i) == i - 1

MCSymmetry == Permutations(Requests) \cup Permutations(Readers) \cup Permutations(Styles)
=============================================================================
