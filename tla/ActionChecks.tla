----------------------------- MODULE ActionChecks -----------------------------
(***************************************************************************)
(* The decisions on one action's payload, each made by itself: the         *)
(* admissibility gate, the typed router and the jury of rivals.            *)
(*                                                                         *)
(* A payload is [amount, minor, verb, lei].  amount, in euros, is counted  *)
(* in half cents, so that what int() cuts off can be seen; minor is in     *)
(* cents; either may be Absent.  verb is the class of words the action's   *)
(* name contains, "fragment" that it is itself part of a tool's name, as    *)
(* the empty name is; lei is how the LEI fares.                            *)
(***************************************************************************)
EXTENDS Integers, FiniteSets

CONSTANTS Absent,
          Ceiling,   \* ceiling_eur and the jury's 50000.0, in half cents
          Limit      \* the passport's limit, max_limit_minor, in cents

ASSUME CeilingIsNat == Ceiling \in Nat
ASSUME LimitIsNat == Limit \in Nat
ASSUME CeilingCoversLimit == Ceiling >= 2 * Limit

Words == {"transfer", "fragment", "balance_check", "wire", "log", "exfiltrate", "drop_table",
          "bypass_gate", "sudo", "dispute", "other"}
Verbs == Words \cup {Absent}

ASSUME AbsentIsNoWord == Absent \notin Words

Get(field, default) == IF field = Absent THEN default ELSE field

\* Mutant: the gate looks at the euro amount first, as the router does.
GateEvaluateAmountFirst(api, scope, p) ==
    LET amount == IF p.amount # Absent THEN p.amount \div 2 ELSE Get(p.minor, 0)
    IN  IF api \notin scope THEN "BLOCK"
        ELSE IF amount > Limit THEN "ESCALATE"
        ELSE "ALLOW"

\* AdmissibilityGate.evaluate: amount_minor unless it is 0 or absent, else the
\* amount, cut to whole cents.
GateEvaluate(api, scope, p) ==
    LET minor == Get(p.minor, 0)
        amount == IF minor = 0 /\ p.amount # Absent THEN p.amount \div 2 ELSE minor
    IN  IF api \notin scope THEN "BLOCK"
        ELSE IF amount > Limit THEN "ESCALATE"
        ELSE "ALLOW"

\* JevTypedRouter.evaluate_admissibility: the amount unless it is 0 or absent,
\* else amount_minor.
Prohibited == {"exfiltrate", "drop_table", "bypass_gate"}

RouterEvaluate(p) ==
    LET amount == IF Get(p.amount, 0) = 0 /\ p.minor # Absent THEN 2 * p.minor
                  ELSE Get(p.amount, 0)
    IN  IF p.verb \in Prohibited THEN "BLOCK"
        ELSE IF amount > Ceiling THEN "ESCALATE"
        ELSE IF p.lei = "invalid" THEN "BLOCK"
        ELSE "ALLOW"

\* select_model_tier: an amount that is present counts even when it is 0.
SelectModelTier(p, ambiguous) ==
    LET amount == Get(p.amount, 2 * Get(p.minor, 0))
    IN  IF ambiguous \/ amount > Ceiling THEN "FRONTIER_REASONING_405B"
        ELSE IF p.verb = "dispute" THEN "INTERMEDIATE_70B"
        ELSE "LOCAL_SLM_4B"

\* select_files_and_tools: the first tool whose name contains the action's, or is
\* contained in it.
SelectTools(verb) ==
    CASE verb \in {"transfer", "fragment"} -> {"ledger_db", "pci_scrubber", "ebpf_xdp"}
      [] verb = "balance_check" -> {"ledger_db"}
      [] verb = "wire" -> {"wire_observer", "scitt_signer", "ebpf_xdp"}
      [] verb = "log" -> {"audit_trail", "merkle_dag"}
      [] OTHER -> {"wire_observer"}

----------------------------------------------------------------------------
\* The jury.  Each rival looks at one thing.
Jurors == {"alpha", "beta", "gamma"}

Vote(rival, p) ==
    CASE rival = "alpha" -> IF Get(p.amount, 0) > Ceiling THEN "BLOCK" ELSE "ALLOW"
      [] rival = "beta" -> IF p.verb \in {"exfiltrate", "drop_table", "sudo"} THEN "BLOCK" ELSE "ALLOW"
      [] rival = "gamma" -> IF p.verb # Absent THEN "ALLOW"
                            ELSE IF <<p.amount, p.minor, p.lei>> = <<Absent, Absent, Absent>> THEN "BLOCK"
                            ELSE "ESCALATE"

Votes(v, p) == Cardinality({rival \in Jurors : Vote(rival, p) = v})

\* evaluate_consensus: more than half, or it is escalated.
Consensus(p) ==
    IF 2 * Votes("ALLOW", p) > Cardinality(Jurors) THEN "ALLOW"
    ELSE IF 2 * Votes("BLOCK", p) > Cardinality(Jurors) THEN "BLOCK"
    ELSE "ESCALATE"
=============================================================================
