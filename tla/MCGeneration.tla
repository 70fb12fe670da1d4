---------------------------- MODULE MCGeneration ----------------------------
(* Generation on small instances: one user with two credits. *)
EXTENDS Generation, TLC

MCOpening == [u \in Users |-> 2]

Kind(key, endpoint) ==
    [user |-> CHOOSE u \in Users : TRUE, key |-> key, endpoint |-> endpoint, body |-> "b1"]
AKey == CHOOSE k \in Keys : TRUE

\* A retry with the same key, and the same key sent to the other endpoint.
SameKey == {Kind(AKey, "/api/generate"), Kind(AKey, "/api/ai/generate")}
\* The same, and a client that sends no key.
AnyKey == SameKey \cup {Kind(NoKey, "/api/generate")}
\* A retry with the same key, and a client that sends no key.
KeyOrNone == {Kind(AKey, "/api/generate"), Kind(NoKey, "/api/generate")}
\* Nothing but retries of one request.
Retries == {Kind(AKey, "/api/generate")}

\* Retries of one request, some at the other endpoint, or one without a key.
KeylessIn(mix) == {r \in Requests : mix[r].key = NoKey}
ToGenerate(mix) == {r \in Requests : mix[r].endpoint = "/api/generate"}
AnyMix == {mix \in [Requests -> AnyKey] :
              /\ Cardinality(KeylessIn(mix)) <= 1 /\ ToGenerate(mix) # {}
              /\ KeylessIn(mix) # {} => ToGenerate(mix) = Requests}
\* Every mix of the kinds there are.
AllMixes == [Requests -> Kinds]

Symmetric == Permutations(Requests)
=============================================================================
