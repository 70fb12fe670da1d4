----------------------------- MODULE MCIntegrity ----------------------------
(* Integrity on small instances: tokens minted for h1 by clean phones. *)
EXTENDS Integrity, TLC

CONSTANTS u1, h1, h2

MCBound == [t \in Tokens |-> h1]
MCPhone == [t \in Tokens |->
               [ourPackage |-> TRUE, app |-> "PLAY_RECOGNIZED",
                labels |-> {"MEETS_DEVICE_INTEGRITY", "MEETS_BASIC_INTEGRITY"},
                ourCertificate |-> TRUE]]

Kind(p, t, h) ==
    [process |-> p, token |-> t, hash |-> h, user |-> u1, endpoint |-> "POST /api/generate"]

\* A token presented in any process, for its own request or for another.
AnyRequest == {Kind(p, t, h) : p \in Processes, t \in Tokens, h \in {h1, h2}}
\* Nothing but retries of the request the token was minted for.
Retries == {Kind(p, t, h1) : p \in Processes, t \in Tokens}

Symmetric == Permutations(Requests) \cup Permutations(Processes)
=============================================================================
