--------------------------- MODULE MCEvidenceBundle ---------------------------
(***************************************************************************)
(* Two runs: all scenarios and the demo in one directory, two interactive  *)
(* runs that share the ports and the receipt but no directory, two single  *)
(* scenarios in one directory, the two fuzzers, an anchor service that     *)
(* is kept while a fuzzer runs, and an admissibility gate that reads the   *)
(* passport while a run writes it.                                         *)
(***************************************************************************)
EXTENDS EvidenceBundleProperties

CONSTANTS r1, r2

Start2(first, second) ==
    LET how(s) == [kind |-> s[1], dir |-> s[2], failures |-> s[3]]
    IN  {(r1 :> how(first)) @@ (r2 :> how(second)), (r1 :> how(second)) @@ (r2 :> how(first))}

MCStarts ==
    UNION {Start2(<<"all", "audit_out", {"raises", "raises again", "dies"}>>,
                  <<"demo", "audit_out", {"dies"}>>),
           Start2(<<"all", "other", {"dies"}>>, <<"concise", "audit_out", {}>>),
           Start2(<<"single", "audit_out", {"raises", "dies"}>>,
                  <<"single", "audit_out", {}>>),
           Start2(<<"soak", "audit_out", {"dies"}>>, <<"stress", "audit_out", {"dies"}>>),
           Start2(<<"gate", "audit_out", {}>>, <<"single", "audit_out", {"dies"}>>),
           Start2(<<"gate", "audit_out", {}>>, <<"concise", "audit_out", {}>>),
           Start2(<<"service", "audit_out", {}>>, <<"soak", "audit_out", {}>>)}

\* Amounts at the limits and just over them, and what is cut off to nothing.
MCPayloads ==
    [amount : {Absent, 0, 1, 6, 7, 8}, minor : {Absent, 0, 3, 4},
     verb : {"transfer", "exfiltrate", "sudo", Absent}, lei : {Absent, "invalid"}]

Symmetry == Permutations({r1, r2})
=============================================================================
