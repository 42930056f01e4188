----------------------- MODULE EvidenceBundleProperties -----------------------
(***************************************************************************)
(* What the evidence of src/run.py may be relied on for.                   *)
(***************************************************************************)
EXTENDS EvidenceBundle

\* What each fault of a run's own proxy is recorded and judged as.
Dictated(id) ==
    CASE id = "timeout" -> <<"504", "dispatched_unconfirmed">>
      [] id = "reset" -> <<"-1", "CONFLICT">>
      [] id = "drift" -> <<"INVALID", "INVALID_INPUT">>
      [] id = "nominal" -> <<"200", "CONFIRMED">>

\* A verdict of an interactive run (run.py:1025-1151) never rests on more than the
\* wire showed, whichever run's proxy answered on the fixed ports: the mutating
\* settlement is CONFIRMED only if a 200 came back, and the aborted capture never.  What
\* is recorded as a 200 was one, but in the nominal scenario, which takes any exception
\* for a 200 (run.py:1111-1112).
\* A run is classified as nominal only if the settlement got an answer that was neither
\* a timeout nor a conflict, and the capture a success.  With the run's own proxy, whose
\* mode no other run can change, every scenario meets the fault it injected.
VerdictsAreWitnessed ==
    \A r \in Runs : \A i \in DOMAIN results[r] :
        LET result == results[r][i]
        IN  /\ result.verdict.disposition = "CONFIRMED" =>
                  result.id = "nominal" \/ (result.id = "timeout" /\ result.heard = "200")
            /\ result.wire = "200" => result.id = "nominal" \/ result.heard = "200"
            /\ Classified(r) = "nominal_compliant" =>
                  /\ result.id = "timeout" => result.heard \notin {"-1", "504", "409"}
                  /\ result.id = "reset" => result.heard \in Successes
            /\ result.own => <<result.wire, result.verdict.disposition>> = Dictated(result.id)

----------------------------------------------------------------------------
Unbound0(passport) == [passport EXCEPT !.bound = Unbound]

\* Every file r made is r's, and the files made from the passport say the same of
\* it: the envelopes and the action receipt carry it as it was before the
\* attestation, the attestation is of the envelope beside it.
Coherent(r) ==
    LET passport == File(r, "passport")
        made == {Target(Steps(r)[k]) : k \in DOMAIN Steps(r)}
    IN  /\ \A name \in made \cap {"report", "gap", "score", "md", "page", "redacted", "proof"} :
              File(r, name) = r
        /\ "passport" \in made =>
              /\ Readable(passport) /\ passport.by = r /\ passport.bound = File(r, "envelope")
              /\ File(r, "quote") = File(r, "envelope")
              /\ \A name \in {"envelope", "cose", "receipt"} :
                    Readable(File(r, name)) /\ File(r, name).payload = Unbound0(passport)
              /\ LET receipt == files["audit_out"]["rekor"]
                 IN  Readable(receipt) /\ receipt.signedBy[1] = r =>
                        /\ receipt.entry = File(r, "cose")
                        /\ VerifyReceipt(receipt.signedBy, receipt)

\* A run that ended with no exception swallowed (run.py:778-806, 941-975) and after
\* whose first write nobody else wrote to its directory leaves one coherent bundle,
\* whatever ran before it, or at the same time in another directory.
FinishedRunIsCoherent ==
    \A r \in Runs :
        (Done(r) /\ r \notin dead \cup lost /\ \A q \in Runs : <<r, q>> \notin after) => Coherent(r)

\* Two runs of which each wrote after the other.
Overlapped(r) == \E q \in Runs : <<q, r>> \in after /\ <<r, q>> \in after

\* Through swallowed exceptions and crashes, and whoever wrote before: a passport
\* that carries an attestation has the quote of that attestation beside it
\* (enclave_cvm.py:181-215), and the envelope it is bound to holds this passport,
\* unless its run lost an exception: then the envelope may be an earlier run's.
\* Of runs that overlapped nothing of the sort holds.
BindingIsConsistent ==
    \A r \in Runs :
        LET passport == File(r, "passport")
        IN  (Readable(passport) /\ passport.bound # Unbound /\ ~Overlapped(passport.by)) =>
                /\ File(r, "quote") = passport.bound
                /\ passport.by \in lost \/ passport.bound.payload = Unbound0(passport)

----------------------------------------------------------------------------
\* The Merkle tree of scitt_anchor.py:48-101, after any number of entries, is the
\* one of RFC 6962, the levels where an odd node moves up included; an audit path
\* proves the leaf at its index and none that differs from it; and the receipt of
\* the last entry verifies under the service's key and under no other.
InclusionProofsAreSound ==
    \A r \in Runs : log[r] # <<>> =>
        LET leaves == log[r]
            receipt == Anchored(r, Front(leaves), Last(leaves))
        IN  /\ Root(leaves) = MTH(leaves)
            /\ \A i \in DOMAIN leaves : \A leaf \in Entries \cup {"genesis"} :
                  VerifyInclusion(leaf, Root(leaves), AuditPath(leaves, i - 1)) <=> leaf = leaves[i]
            /\ \A key \in Runs : VerifyReceipt(key, receipt) <=> key = r

\* The deciders agree on every case a run or a fuzzer judges.  The cascade and the
\* soak fuzzer's own fallback give what that fuzzer expects; the stress mix never
\* overclaims; whatever the claim, the fallback, and the typed router on an answer
\* in time, confirm only what the cascade confirms; and a single run is a major
\* incident exactly when the agent claimed what the cascade does not grant.
NoVerdictOverclaims ==
    \A r \in Runs : judged[r] # NoFile /\ kind[r] # "gate" =>
        LET case == judged[r].case
            wire == case[1]
            record == judged[r].record
        IN  /\ kind[r] = "soak" =>
                  record.disposition = case[3] /\ StandaloneEval(wire, case[2]) = case[3]
            /\ kind[r] = "stress" => ~Overclaims(wire, record.disposition)
            /\ kind[r] = "single" =>
                  /\ record.classified = "nominal_compliant" <=>
                        case[2] \in {record.disposition, "dispatched_unconfirmed"}
                  /\ wire \in {"504", "-1"} /\ case[2] = "CONFIRMED" => "ASSUME_SUCCESS" \in record.rejected
            /\ \A claim \in Claims : StandaloneEval(wire, claim) = "CONFIRMED" =>
                  EvaluateDisposition(wire, claim).disposition = "CONFIRMED"
            /\ \A body \in {"malformed", "conflict", "clean"}, late \in BOOLEAN :
                  EvaluateCompletion(wire, body, late) = "SATISFIED_CONFIRMED" =>
                      ~late /\ EvaluateDisposition(wire, "CONFIRMED").disposition = "CONFIRMED"

\* The gate reads amount_minor first and the router amount first
\* (admissibility_gate.py:43-48, jev_typed_router.py:131-136), so each can be passed
\* with the other's figure too large, but not both: whatever passport the gate has
\* found, what both allow is within both limits, needs no frontier model, moves
\* money only with the egress filter among its tools, and is not blocked by the
\* jury.
ChecksTogetherBound ==
    \A r \in Runs : judged[r] # NoFile /\ kind[r] = "gate" =>
        LET p == judged[r].payload
        IN  judged[r].gate = "ALLOW" /\ judged[r].router = "ALLOW" =>
                /\ Get(p.amount, 0) <= Ceiling
                /\ Get(p.minor, 0) <= Limit
                /\ SelectModelTier(p, FALSE) # "FRONTIER_REASONING_405B"
                /\ p.verb \in {"transfer", "wire"} => "ebpf_xdp" \in SelectTools(p.verb)
                /\ Consensus(p) # "BLOCK"
=============================================================================
