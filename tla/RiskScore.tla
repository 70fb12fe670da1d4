------------------------------ MODULE RiskScore ------------------------------
(***************************************************************************)
(* riskScore.js: what each signal of an account adds to its risk score.    *)
(* Ages are whole days; Math.round is the nearest integer, halves up.      *)
(***************************************************************************)
EXTENDS Integers

Signals == [originSiblings : Nat, emailVerified : BOOLEAN, ageDays : Nat,
            generations : Nat, rewards : Nat, active : BOOLEAN]

AtMost(n, max) == IF n <= max THEN n ELSE max

(* Math.round(30 * log2(n) / log2(24)) for n = 1..24. *)
Ramp == <<0, 7, 10, 13, 15, 17, 18, 20, 21, 22, 23, 23,
          24, 25, 26, 26, 27, 27, 28, 28, 29, 29, 30, 30>>

SiblingPoints(s) ==
    IF s.originSiblings = 0 THEN 0 ELSE Ramp[AtMost(s.originSiblings, 24)]

UnverifiedPoints(s) == IF s.emailVerified THEN 0 ELSE 15

(* Math.round((7 - ageDays) / 7 * 15). *)
AgePoints(s) == IF s.ageDays < 7 THEN (30 * (7 - s.ageDays) + 7) \div 14 ELSE 0

(* Math.round(min(1, excess / 50) * 20). *)
RatioPoints(s) ==
    LET excess == s.generations - s.rewards * 3 IN
    IF s.generations > 5 /\ excess > 0
    THEN (4 * AtMost(excess, 50) + 5) \div 10 ELSE 0

NeverGeneratedPoints(s) == IF s.rewards >= 3 /\ s.generations = 0 THEN 10 ELSE 0

StatusPoints(s) == IF s.active THEN 0 ELSE 10

(* The sum of the factors, before it is clamped to 0..100. *)
Total(s) == SiblingPoints(s) + UnverifiedPoints(s) + AgePoints(s)
            + RatioPoints(s) + NeverGeneratedPoints(s) + StatusPoints(s)

ScoreAccount(s) == IF Total(s) < 0 THEN 0 ELSE AtMost(Total(s), 100)
=============================================================================
