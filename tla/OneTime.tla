------------------------------- MODULE OneTime -------------------------------
(***************************************************************************)
(* What codes that are good for one use promise, the second factors of an  *)
(* administrator and the links mailed to a new account: of the codes that  *)
(* are good at a time, one that is used is good for nothing after that,    *)
(* whatever becomes of the others.                                         *)
(***************************************************************************)
EXTENDS Naturals

CONSTANT Codes

VARIABLES
    good,  \* the codes that would be accepted
    uses   \* how many times each code was accepted

vars == <<good, uses>>

TypeOK == good \subseteq Codes /\ uses \in [Codes -> Nat]

Init == good = {} /\ uses = [c \in Codes |-> 0]

(* A code is accepted, and may take others with it. *)
Use(c) ==
    /\ c \in good
    /\ good' \subseteq good \ {c}
    /\ uses' = [uses EXCEPT ![c] = @ + 1]

(* Codes are issued that were never accepted, others withdrawn. *)
Issue ==
    /\ good' \subseteq {c \in Codes : uses[c] = 0}
    /\ UNCHANGED uses

Next == Issue \/ \E c \in Codes : Use(c)

Spec == Init /\ [][Next]_vars
=============================================================================
