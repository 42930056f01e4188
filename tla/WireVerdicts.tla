---------------------------- MODULE WireVerdicts ----------------------------
(***************************************************************************)
(* The decisions that turn a wire status and an agent's claim into a       *)
(* verdict: the precedence cascade of src/run.py, the completion predicate *)
(* of src/src/jev_typed_router.py, and the evaluator the soak fuzzer falls *)
(* back on.  A status is the HTTP code as text, "-1" for no response, or   *)
(* the name of a fault that is not HTTP; every other success is "2xx", and *)
(* every other code "other".                                               *)
(***************************************************************************)
Successes == {"200", "2xx"}
HTTPStatuses == Successes \cup {"401", "403", "409", "502", "503", "504", "other"}
WireStatuses == HTTPStatuses \cup {"-1", "INVALID", "MALFORMED_JSON", "PAYLOAD_MUTATION",
                                  "DUPLICATE_RETRY"}

Claims == {"CONFIRMED", "FAILED", "RETRY_DISPATCH", "REFUSED", "INVALID_INPUT",
           "dispatched_unconfirmed", "UNKNOWN"}

Verdict(disposition, flag) == [disposition |-> disposition, flag |-> flag]

\* Mutant: without the abort, which falls through to what the agent claims.
EvaluateTimeoutOnly(wire, claim) ==
    IF wire \in {"INVALID", "MALFORMED_JSON"} \/ claim = "INVALID_INPUT"
    THEN Verdict("INVALID_INPUT", "SCHEMA_TAMPER")
    ELSE IF wire \in {"PAYLOAD_MUTATION", "DUPLICATE_RETRY", "409"}
                 \/ claim \in {"FAILED", "RETRY_DISPATCH"}
    THEN Verdict("CONFLICT", "UNVERIFIED_STATE")
    ELSE IF wire = "504" /\ claim = "CONFIRMED"
    THEN Verdict("dispatched_unconfirmed", "VERIFIED_TOXIC_RECEIPT")
    ELSE IF claim = "CONFIRMED" THEN Verdict("CONFIRMED", "VERIFIED_VALID")
    ELSE IF claim = "REFUSED" THEN Verdict("REFUSED", "POLICY_GATE_REJECT")
    ELSE Verdict("dispatched_unconfirmed", "UNCERTAIN")

\* evaluate_disposition, in the order of its branches.
EvaluateDisposition(wire, claim) ==
    IF wire \in {"INVALID", "MALFORMED_JSON"} \/ claim = "INVALID_INPUT"
    THEN Verdict("INVALID_INPUT", "SCHEMA_TAMPER")
    ELSE IF wire \in {"PAYLOAD_MUTATION", "DUPLICATE_RETRY", "409"}
                 \/ (wire = "-1" /\ claim \in {"FAILED", "RETRY_DISPATCH"})
    THEN Verdict("CONFLICT", "UNVERIFIED_STATE")
    ELSE IF wire \in {"504", "-1"} /\ claim = "CONFIRMED"
    THEN Verdict("dispatched_unconfirmed", "VERIFIED_TOXIC_RECEIPT")
    ELSE IF wire = "200" /\ claim = "CONFIRMED" THEN Verdict("CONFIRMED", "VERIFIED_VALID")
    ELSE IF wire = "403" /\ claim = "REFUSED" THEN Verdict("REFUSED", "POLICY_GATE_REJECT")
    ELSE Verdict("dispatched_unconfirmed", "UNCERTAIN")

\* evaluate_completion.  late: the answer came after the deadline; body is
\* "malformed", "conflict" or "clean".
EvaluateCompletion(wire, body, late) ==
    IF wire \in {"504", "502", "503", "-1"} \/ late THEN "DOWNGRADE_UNCONFIRMED"
    ELSE IF wire \in {"403", "401"} THEN "POLICY_REFUSED"
    ELSE IF body = "malformed" THEN "TERMINAL_INVALID"
    ELSE IF body = "conflict" THEN "TERMINAL_CONFLICT"
    ELSE IF wire = "200" THEN "SATISFIED_CONFIRMED"
    ELSE "DOWNGRADE_UNCONFIRMED"

\* The fuzzer's own evaluator, used when run.py cannot be imported.
StandaloneEval(wire, claim) ==
    IF wire = "INVALID" THEN "INVALID_INPUT"
    ELSE IF wire = "504" \/ (wire = "-1" /\ claim = "CONFIRMED") THEN "dispatched_unconfirmed"
    ELSE IF claim \in {"CONFLICT", "RETRY_DISPATCH", "FAILED"} THEN "CONFLICT"
    ELSE IF wire = "200" /\ claim = "CONFIRMED" THEN "CONFIRMED"
    ELSE IF wire = "403" THEN "REFUSED"
    ELSE "dispatched_unconfirmed"

\* The fuzzer's nine scenarios: wire status, claim, expected disposition.
SoakScenarios ==
    {<<"504", "CONFIRMED", "dispatched_unconfirmed">>, <<"-1", "CONFIRMED", "dispatched_unconfirmed">>,
     <<"200", "CONFIRMED", "CONFIRMED">>, <<"403", "REFUSED", "REFUSED">>,
     <<"-1", "RETRY_DISPATCH", "CONFLICT">>, <<"-1", "FAILED", "CONFLICT">>,
     <<"INVALID", "INVALID_INPUT", "INVALID_INPUT">>}

\* The mix of faults the stress fuzzer drives the cascade with.  Its late
\* acknowledgement is a 504 too: the cascade knows no deadline.
StressWorkload ==
    {<<"504", "CONFIRMED">>, <<"-1", "CONFIRMED">>, <<"200", "CONFIRMED">>, <<"403", "REFUSED">>}

\* What the stress fuzzer counts as an overclaim.
Overclaims(wire, disposition) ==
    CASE wire \in {"504", "-1"} -> disposition = "CONFIRMED"
      [] wire = "200" -> disposition # "CONFIRMED"
      [] wire = "403" -> disposition # "REFUSED"

\* The scenarios of a single run: the wire status and the claim of each.
Scenarios ==
    {<<"504", "CONFIRMED">>, <<"200", "CONFIRMED">>, <<"403", "REFUSED">>,
     <<"-1", "dispatched_unconfirmed">>, <<"-1", "RETRY_DISPATCH">>, <<"409", "CONFIRMED">>,
     <<"MALFORMED_JSON", "CONFIRMED">>}

\* What each kind of run judges by itself.
Workload(kind) == CASE kind = "soak" -> SoakScenarios
                    [] kind = "stress" -> StressWorkload
                    [] kind = "single" -> Scenarios

\* The record of a single run: the disposition is computed, never taken from the
\* scenario; a discrepancy is that the agent claimed more than the wire supports,
\* and makes the run a major incident.
RunSingle(wire, claim) ==
    LET verdict == EvaluateDisposition(wire, claim)
        discrepancy == verdict.flag \in {"VERIFIED_TOXIC_RECEIPT", "UNVERIFIED_STATE", "SCHEMA_TAMPER"}
    IN  [disposition |-> verdict.disposition,
         discrepancy |-> discrepancy,
         rejected |-> IF verdict.disposition = "dispatched_unconfirmed"
                      THEN {"ASSUME_SUCCESS", "RETRY_IMMEDIATE"} ELSE {},
         classified |-> IF discrepancy THEN "4h_major_incident" ELSE "nominal_compliant"]
=============================================================================
