-------------------------- MODULE IntegrityPolicy ---------------------------
(***************************************************************************)
(* What a Play Integrity annotation means (integrityAssessment over the    *)
(* tables of integrityVerdictMap) and what is done about it                *)
(* (enforceIntegrity over the tables of integrityPolicy).                  *)
(***************************************************************************)
EXTENDS FiniteSets, Naturals

CONSTANTS
    Enforcement,          \* PLAY_INTEGRITY_ENFORCEMENT
    CertificatesListed    \* PLAY_INTEGRITY_CERT_SHA256 is not empty

ASSUME EnforcementAssumption == Enforcement \in {"off", "log", "enforce"}
ASSUME CertificatesAssumption == CertificatesListed \in BOOLEAN

(* A decoded payload: is appIntegrity.packageName ours, the raw recognition
   verdict, the raw device labels, and is its certificate one of ours.  Labels
   the tables do not know are "other". *)
Labels == {"MEETS_STRONG_INTEGRITY", "MEETS_DEVICE_INTEGRITY", "MEETS_BASIC_INTEGRITY",
           "MEETS_VIRTUAL_INTEGRITY", "other"}
Payload == [ourPackage : BOOLEAN,
            app : {"PLAY_RECOGNIZED", "UNRECOGNIZED_VERSION", "UNEVALUATED", "other"},
            labels : SUBSET Labels,
            ourCertificate : BOOLEAN]

States == {"TRUSTED", "MODIFIED_APP", "UNTRUSTED_DEVICE", "TAMPERED_REQUEST", "REPLAYED",
           "MISSING", "UNEVALUATED", "INDETERMINATE"}

-----------------------------------------------------------------------------
(* DEVICE_LABELS and DEVICE_RANK: the strongest label wins, and no label at
   all is an affirmative verdict. *)
Rank == [MEETS_STRONG_INTEGRITY |-> 5, MEETS_DEVICE_INTEGRITY |-> 4,
         MEETS_BASIC_INTEGRITY |-> 3, MEETS_VIRTUAL_INTEGRITY |-> 2, other |-> 1]
Device == [MEETS_STRONG_INTEGRITY |-> "STRONG", MEETS_DEVICE_INTEGRITY |-> "CERTIFIED",
           MEETS_BASIC_INTEGRITY |-> "BASIC", MEETS_VIRTUAL_INTEGRITY |-> "VIRTUAL",
           other |-> "UNKNOWN"]

DeviceState(labels) ==
    IF labels = {} THEN "COMPROMISED"
    ELSE Device[CHOOSE l \in labels : \A o \in labels : Rank[o] <= Rank[l]]

AppState == [PLAY_RECOGNIZED |-> "RECOGNIZED", UNRECOGNIZED_VERSION |-> "MODIFIED",
             UNEVALUATED |-> "UNEVALUATED", other |-> "UNKNOWN"]

(* The binary decides before the device does. *)
Combine(app, device) ==
    CASE app = "MODIFIED" -> "MODIFIED_APP"
      [] app = "UNEVALUATED" -> "UNEVALUATED"
      [] app = "UNKNOWN" -> "INDETERMINATE"
      [] app = "RECOGNIZED" /\ device = "UNKNOWN" -> "INDETERMINATE"
      [] app = "RECOGNIZED" /\ device \in {"BASIC", "VIRTUAL", "COMPROMISED"} ->
            "UNTRUSTED_DEVICE"
      [] app = "RECOGNIZED" /\ device \in {"STRONG", "CERTIFIED"} -> "TRUSTED"

(* STATUS_TO_STATE: what the codes of verifyIntegrity mean by themselves. *)
StatusState ==
    [ABSENT |-> "MISSING", MALFORMED |-> "TAMPERED_REQUEST", STALE |-> "TAMPERED_REQUEST",
     REQUEST_MISMATCH |-> "TAMPERED_REQUEST", PACKAGE_MISMATCH |-> "MODIFIED_APP",
     REPLAYED |-> "REPLAYED", DECODE_FAILED |-> "TAMPERED_REQUEST",
     DECODE_UNAVAILABLE |-> "INDETERMINATE"]

Statuses == DOMAIN StatusState \cup {"OK"}

(* ATTRIBUTABLE_TO_CALLER: the states that point at the sender. *)
Attributable == {"MODIFIED_APP", "UNTRUSTED_DEVICE", "TAMPERED_REQUEST", "REPLAYED"}

(* assessIntegrity: only OK is decided by the payload. *)
Assess(status, payload) ==
    IF status = "OK" THEN Combine(AppState[payload.app], DeviceState(payload.labels))
    ELSE StatusState[status]

(* checkCertificate can only make a clean state worse. *)
Effective(status, payload) ==
    IF CertificatesListed /\ Assess(status, payload) = "TRUSTED" /\ ~payload.ourCertificate
    THEN "MODIFIED_APP"
    ELSE Assess(status, payload)

-----------------------------------------------------------------------------
Severity == [log |-> 0, warn |-> 1, soft_fail |-> 2, hard_fail |-> 3]
Actions == DOMAIN Severity

(* STATE_ACTIONS: what a state deserves. *)
Deserved(state) ==
    CASE state \in {"MODIFIED_APP", "TAMPERED_REQUEST", "REPLAYED"} -> "hard_fail"
      [] state = "UNTRUSTED_DEVICE" -> "soft_fail"
      [] state \in {"TRUSTED", "MISSING", "UNEVALUATED", "INDETERMINATE"} -> "log"

(* ENDPOINT_CEILINGS, without overrides, and DEFAULT_CEILING. *)
EndpointCeiling(endpoint) ==
    IF endpoint \in {"POST /api/generate", "POST /api/ai/generate", "POST /api/wallet/reward"}
    THEN "hard_fail" ELSE "log"

(* GLOBAL_CEILINGS: the kill switch. *)
GlobalCeiling == IF Enforcement = "enforce" THEN "hard_fail" ELSE "log"

Weakest(S) == CHOOSE a \in S : \A b \in S : Severity[a] <= Severity[b]

ResolveAction(state, endpoint) ==
    Weakest({Deserved(state), EndpointCeiling(endpoint), GlobalCeiling})
=============================================================================
