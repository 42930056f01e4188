------------------------- MODULE EvidenceBundleProofs -------------------------
(***************************************************************************)
(* Proofs about what a run records, judges and leaves on disk, for every   *)
(* set of runs, of ways to start them, and of actions put to a gate.       *)
(*                                                                         *)
(* The runs share the ports, so the answer to a scenario depends on what   *)
(* the others do; what a run sets itself it sets in the step before.  They *)
(* share directories too, and each file is made from one the run wrote     *)
(* before, unless another has written since.  Both rest on the order of    *)
(* the scripts, stated of all of them first.                               *)
(***************************************************************************)
EXTENDS EvidenceBundleProperties, TransparencyLogProofs

DerivedNames == {"envelope", "anchor", "cose", "anchor2", "redacted", "proof", "receipt",
                 "quote", "attach"}

\* A script that ends with what is made from the passport.
LEMMA ThenDerived ==
    ASSUME NEW S, DerivedNames \subseteq S, NEW first \in Seq(S)
    PROVE  /\ Len(first \o Derived) = Len(first) + 9
           /\ DOMAIN (first \o Derived) = 1..Len(first) + 9
           /\ \A i \in 1..Len(first) : (first \o Derived)[i] = first[i]
           /\ \A i \in Len(first) + 1..Len(first) + 9 : /\ (first \o Derived)[i] \in DerivedNames
                                                        /\ (first \o Derived)[i] = Derived[i - Len(first)]
<1>1. Derived \in Seq(S)
    BY DEF Derived, DerivedNames
<1>2. Len(Derived) = 9 /\ \A i \in 1..9 : Derived[i] \in DerivedNames
    BY DEF Derived, DerivedNames
<1>3. Len(first) \in Nat
    OBVIOUS
<1>4. first \o Derived \in Seq(S) /\ Len(first \o Derived) = Len(first) + Len(Derived)
    BY <1>1, ConcatProperties
<1>5. \A i \in 1..Len(first) + Len(Derived) :
          (first \o Derived)[i] = IF i <= Len(first) THEN first[i] ELSE Derived[i - Len(first)]
    BY <1>1, ConcatProperties
<1>6. DOMAIN (first \o Derived) = 1..Len(first) + 9
    BY <1>2, <1>4
<1>7. \A i \in Len(first) + 1..Len(first) + 9 : i - Len(first) \in 1..9 /\ ~(i <= Len(first))
    BY <1>3
<1>8. \A i \in Len(first) + 1..Len(first) + 9 : (first \o Derived)[i] = Derived[i - Len(first)]
  <2> SUFFICES ASSUME NEW i \in Len(first) + 1..Len(first) + 9
               PROVE  (first \o Derived)[i] = Derived[i - Len(first)]
      OBVIOUS
  <2>1. i \in 1..Len(first) + Len(Derived)
      BY <1>2, <1>3
  <2>. QED
      BY <1>5, <1>7, <2>1
<1>9. \A i \in 1..Len(first) : (first \o Derived)[i] = first[i]
  <2> SUFFICES ASSUME NEW i \in 1..Len(first) PROVE (first \o Derived)[i] = first[i]
      OBVIOUS
  <2>1. i \in 1..Len(first) + Len(Derived) /\ i <= Len(first)
      BY <1>2, <1>3
  <2>. QED
      BY <1>5, <2>1
<1>. QED
    BY <1>2, <1>4, <1>6, <1>7, <1>8, <1>9

\* What the scripts are relied on for: that they do without some steps, that a mode is
\* set right before the request that needs it, and that nothing of the testbed comes
\* after a try block has begun.
ScriptFacts(steps, without) ==
    /\ Len(steps) \in Nat /\ DOMAIN steps = 1..Len(steps)
    /\ \A k \in 1..Len(steps) :
          /\ steps[k] \notin without
          /\ steps[k] = "timeout" => k > 1 /\ steps[k - 1] = "504"
          /\ steps[k] = "reset" => k > 1 /\ steps[k - 1] = "rst"
    /\ \A i, k \in 1..Len(steps) :
          i < k /\ steps[i] \in DerivedNames => steps[k] \notin {"timeout", "reset"}

\* Every try block is of steps that make something from the passport.
LEMMA BlockSteps == \A b \in 1..Len(Blocks) : Blocks[b] \subseteq DerivedNames
BY DEF Blocks, DerivedNames

\* A script that sets its modes right before what is made from the passport does so still.
LEMMA ScriptThenDerived ==
    ASSUME NEW S, DerivedNames \subseteq S, NEW first \in Seq(S), NEW without,
           without \cap DerivedNames = {},
           \A k \in 1..Len(first) :
              /\ first[k] \notin DerivedNames /\ first[k] \notin without
              /\ first[k] = "timeout" => k > 1 /\ first[k - 1] = "504"
              /\ first[k] = "reset" => k > 1 /\ first[k - 1] = "rst"
    PROVE  ScriptFacts(first \o Derived, without)
<1>. DEFINE steps == first \o Derived
            n == Len(first)
<1>1. /\ n \in Nat /\ Len(steps) = n + 9 /\ DOMAIN steps = 1..n + 9
      /\ \A i \in 1..n : steps[i] = first[i]
      /\ \A i \in n + 1..n + 9 : steps[i] \in DerivedNames
    BY ThenDerived
<1>2. DerivedNames \cap {"timeout", "reset"} = {}
    BY DEF DerivedNames
<1>3. \A i \in 1..n + 9 : i \in 1..n \/ i \in n + 1..n + 9
    BY <1>1
<1>. HIDE DEF steps, n
<1>4. ASSUME NEW k \in 1..n + 9
      PROVE  /\ steps[k] \notin without
             /\ steps[k] = "timeout" => k > 1 /\ steps[k - 1] = "504"
             /\ steps[k] = "reset" => k > 1 /\ steps[k - 1] = "rst"
  <2>1. CASE k \in n + 1..n + 9
      BY <1>1, <1>2, <2>1
  <2>2. CASE k \in 1..n
    <3>1. steps[k] = first[k] /\ (k > 1 => steps[k - 1] = first[k - 1])
        BY <1>1, <2>2
    <3>. QED
        BY <2>2, <3>1 DEF n
  <2>. QED
      BY <1>3, <2>1, <2>2
<1>5. ASSUME NEW i \in 1..n + 9, NEW k \in 1..n + 9, i < k, steps[i] \in DerivedNames
      PROVE  steps[k] \notin {"timeout", "reset"}
  <2>1. i \in n + 1..n + 9
      BY <1>1, <1>3, <1>5 DEF n
  <2>2. k \in n + 1..n + 9
      BY <1>1, <1>5, <2>1
  <2>. QED
      BY <1>1, <1>2, <2>2
<1>6. ScriptFacts(steps, without)
    BY <1>1, <1>4, <1>5 DEF ScriptFacts
<1>. QED
    BY <1>6 DEF steps

\* The script of a single scenario asks its own proxy nothing.
LEMMA SingleScript == ScriptFacts(SingleSteps, {"evaluate"})
<1>. DEFINE first == <<"judge", "report", "gap", "passport", "md">>
            S == {"judge", "report", "gap", "passport", "md"} \cup DerivedNames
<1>1. first \in Seq(S) /\ Len(first) = 5
    OBVIOUS
<1>2. \A k \in 1..5 :
          /\ first[k] \notin DerivedNames /\ first[k] \notin {"evaluate"}
          /\ first[k] = "timeout" => k > 1 /\ first[k - 1] = "504"
          /\ first[k] = "reset" => k > 1 /\ first[k - 1] = "rst"
    BY DEF DerivedNames
<1>3. {"evaluate"} \cap DerivedNames = {} /\ DerivedNames \subseteq S
    BY DEF DerivedNames
<1>4. ScriptFacts(first \o Derived, {"evaluate"})
  <2>. HIDE DEF first, S
  <2>. QED
      BY <1>1, <1>2, <1>3, ScriptThenDerived
<1>. QED
    BY <1>4 DEF SingleSteps

\* The concise script sets 504 before it asks.
LEMMA ConciseScript == ScriptFacts(ConciseSteps, {"judge", "evaluate"})
<1>. DEFINE first == <<"serve", "504", "timeout", "normal", "nominal", "gap", "score",
                       "passport">>
            S == {"serve", "504", "timeout", "normal", "nominal", "gap", "score",
                  "passport"} \cup DerivedNames
<1>1. first \in Seq(S) /\ Len(first) = 8
    OBVIOUS
<1>2. \A k \in 1..8 :
          /\ first[k] \notin DerivedNames /\ first[k] \notin {"judge", "evaluate"}
          /\ first[k] = "timeout" => k > 1 /\ first[k - 1] = "504"
          /\ first[k] = "reset" => k > 1 /\ first[k - 1] = "rst"
    BY DEF DerivedNames
<1>3. {"judge", "evaluate"} \cap DerivedNames = {} /\ DerivedNames \subseteq S
    BY DEF DerivedNames
<1>4. ScriptFacts(first \o Derived, {"judge", "evaluate"})
  <2>. HIDE DEF first, S
  <2>. QED
      BY <1>1, <1>2, <1>3, ScriptThenDerived
<1>. QED
    BY <1>4 DEF ConciseSteps

\* The script of all scenarios sets each mode before it asks.
LEMMA AllScript == ScriptFacts(AllSteps, {"judge", "evaluate"})
<1>. DEFINE first == <<"serve", "504", "timeout", "rst", "reset", "drift", "normal",
                       "nominal", "gap", "score", "passport">>
            S == {"serve", "504", "timeout", "rst", "reset", "drift", "normal", "nominal",
                  "gap", "score", "passport"} \cup DerivedNames
<1>1. first \in Seq(S) /\ Len(first) = 11
    OBVIOUS
<1>2. \A k \in 1..11 :
          /\ first[k] \notin DerivedNames /\ first[k] \notin {"judge", "evaluate"}
          /\ first[k] = "timeout" => k > 1 /\ first[k - 1] = "504"
          /\ first[k] = "reset" => k > 1 /\ first[k - 1] = "rst"
    BY DEF DerivedNames
<1>3. {"judge", "evaluate"} \cap DerivedNames = {} /\ DerivedNames \subseteq S
    BY DEF DerivedNames
<1>4. ScriptFacts(first \o Derived, {"judge", "evaluate"})
  <2>. HIDE DEF first, S
  <2>. QED
      BY <1>1, <1>2, <1>3, ScriptThenDerived
<1>. QED
    BY <1>4 DEF AllSteps

\* The scripts that make nothing from a passport.
LEMMA ShortScripts ==
    /\ ScriptFacts(DemoSteps, {"judge", "evaluate"})
    /\ ScriptFacts(SoakSteps, {"evaluate"}) /\ ScriptFacts(StressSteps, {"evaluate"})
    /\ ScriptFacts(GateSteps, {"judge"}) /\ ScriptFacts(ServiceSteps, {"judge", "evaluate"})
<1>. DEFINE Short(steps, names) ==
               /\ Len(steps) \in Nat /\ DOMAIN steps = 1..Len(steps)
               /\ \A k \in 1..Len(steps) : steps[k] \in names
<1>1. ASSUME NEW steps, NEW names, NEW without, Short(steps, names), without \cap names = {},
             names \cap {"timeout", "reset"} = {}
      PROVE  ScriptFacts(steps, without)
    BY <1>1 DEF ScriptFacts
<1>2. /\ Short(DemoSteps, {"gap", "page"})
      /\ Short(SoakSteps, {"judge", "soak"}) /\ Short(StressSteps, {"judge", "stress"})
      /\ Short(GateSteps, {"open", "evaluate"})
    BY DEF DemoSteps, SoakSteps, StressSteps, GateSteps
<1>3. Short(ServiceSteps, {"append"})
  <2>1. /\ Len(ServiceSteps) = 6 /\ DOMAIN ServiceSteps = 1..6
        /\ \A k \in 1..6 : ServiceSteps[k] = "append"
      BY DEF ServiceSteps
  <2>. QED
      BY <2>1
<1>. HIDE DEF Short
<1>4. ScriptFacts(DemoSteps, {"judge", "evaluate"})
    BY <1>1, <1>2
<1>5. ScriptFacts(SoakSteps, {"evaluate"}) /\ ScriptFacts(StressSteps, {"evaluate"})
    BY <1>1, <1>2
<1>6. ScriptFacts(GateSteps, {"judge"})
    BY <1>1, <1>2
<1>7. ScriptFacts(ServiceSteps, {"judge", "evaluate"})
    BY <1>1, <1>3
<1>. QED
    BY <1>4, <1>5, <1>6, <1>7

Judging == {"single", "soak", "stress"}

\* The facts above, for whatever kind a run is of.
LEMMA Scripts ==
    ASSUME NEW r \in Runs, kind[r] \in Kinds
    PROVE  \E without : /\ ScriptFacts(Steps(r), without)
                        /\ kind[r] \notin Judging => "judge" \in without
                        /\ kind[r] # "gate" => "evaluate" \in without
<1>. USE SingleScript, ConciseScript, AllScript, ShortScripts DEF Steps, Judging
<1>1. CASE kind[r] = "single"
    BY <1>1
<1>2. CASE kind[r] = "concise"
    BY <1>2
<1>3. CASE kind[r] = "all"
    BY <1>3
<1>4. CASE kind[r] = "demo"
    BY <1>4
<1>5. CASE kind[r] = "soak"
    BY <1>5
<1>6. CASE kind[r] = "stress"
    BY <1>6
<1>7. CASE kind[r] = "gate"
    BY <1>7
<1>8. CASE kind[r] = "service"
    BY <1>8
<1>. QED
    BY <1>1, <1>2, <1>3, <1>4, <1>5, <1>6, <1>7, <1>8 DEF Kinds

\* What holds of a run's script, whichever it is.
LEMMA ScriptOf ==
    ASSUME NEW r \in Runs, kind[r] \in Kinds
    PROVE  /\ Len(Steps(r)) \in Nat /\ DOMAIN Steps(r) = 1..Len(Steps(r))
           /\ \A k \in 1..Len(Steps(r)) :
                 /\ Steps(r)[k] = "judge" => kind[r] \in Judging
                 /\ Steps(r)[k] = "evaluate" => kind[r] = "gate"
                 /\ Steps(r)[k] = "timeout" => k > 1 /\ Steps(r)[k - 1] = "504"
                 /\ Steps(r)[k] = "reset" => k > 1 /\ Steps(r)[k - 1] = "rst"
           /\ \A i, k \in 1..Len(Steps(r)) :
                 i < k /\ Steps(r)[i] \in DerivedNames => Steps(r)[k] \notin {"timeout", "reset"}
<1>1. PICK without : /\ ScriptFacts(Steps(r), without)
                     /\ kind[r] \notin Judging => "judge" \in without
                     /\ kind[r] # "gate" => "evaluate" \in without
    BY Scripts
<1>. QED
    BY <1>1 DEF ScriptFacts

----------------------------------------------------------------------------
(***************************************************************************)
(* The testbed.  A result is Witnessed for good: what can go wrong is the  *)
(* state in which it is taken.  When a run asks through its own proxy, the *)
(* proxy is in the mode the run set a step before (ModeInv).               *)
(***************************************************************************)

Modes == {"NORMAL", "INJECT_504", "INJECT_RST"}
Ids == {"timeout", "reset", "drift", "nominal"}
Verdicts == {EvaluateDisposition(wire, claim) : wire \in WireStatuses, claim \in Claims}

Witnessed(result) ==
    /\ result.verdict.disposition = "CONFIRMED" =>
          result.id = "nominal" \/ (result.id = "timeout" /\ result.heard = "200")
    /\ result.wire = "200" => result.id = "nominal" \/ result.heard = "200"
    /\ result.id = "timeout" /\ result.heard \in {"-1", "504", "409"} => Toxic(result)
    /\ result.id = "reset" /\ result.heard \notin Successes => Toxic(result)
    /\ result.own => <<result.wire, result.verdict.disposition>> = Dictated(result.id)

WitnessedResults ==
    {result \in [id : Ids, wire : WireStatuses, heard : WireStatuses, own : BOOLEAN,
                 verdict : Verdicts] : Witnessed(result)}

TestbedTypes ==
    /\ owner \in Runs \cup {Nobody}
    /\ mode \in [Runs -> Modes]
    /\ kind \in [Runs -> Kinds]
    /\ pc \in [Runs -> Nat]

ModeInv ==
    \A r \in Runs : /\ At(r, "timeout") => mode[r] = "INJECT_504"
                    /\ At(r, "reset") => mode[r] = "INJECT_RST"

ResultsInv == results \in [Runs -> Seq(WitnessedResults)]

TestbedInv == TestbedTypes /\ ModeInv /\ ResultsInv

\* A run is at one step at a time.
LEMMA OneStepAtATime ==
    ASSUME NEW r, NEW a, NEW b, At(r, a), At(r, b) PROVE a = b
BY DEF At

\* What is heard in a scenario.
HeardIn(id) == IF id = "drift" THEN {"INVALID"} ELSE Answers

\* The verdict on one request.
LEMMA AskIsWitnessed ==
    ASSUME TestbedTypes, ModeInv, NEW r \in Runs, NEW id \in Ids, At(r, id),
           NEW heard \in HeardIn(id)
    PROVE  Result(r, id, heard) \in WitnessedResults
<1>. DEFINE wire == Recorded(id, heard)
            verdict == EvaluateDisposition(wire, ClaimIn(id))
            result == [id |-> id, wire |-> wire, heard |-> heard, own |-> owner = r,
                       verdict |-> verdict]
<1>1. Answers \subseteq HTTPStatuses \cup {"-1"}
    BY ForeignIsHTTP DEF Answers, Forwarded, HTTPStatuses, Successes, TestbedTypes, Modes
<1>2. heard \in WireStatuses /\ (id # "drift" => heard \in HTTPStatuses \cup {"-1"})
    BY <1>1 DEF HeardIn, WireStatuses
<1>3. wire \in WireStatuses /\ ClaimIn(id) \in Claims
    BY <1>2 DEF Recorded, Ids, ClaimIn, WireStatuses, HTTPStatuses, Successes, Claims
<1>4. verdict \in Verdicts
    BY <1>3 DEF Verdicts
<1>5. verdict.disposition = "CONFIRMED" => id = "nominal" \/ (id = "timeout" /\ heard = "200")
    BY <1>2 DEF Recorded, Ids, ClaimIn, EvaluateDisposition, Verdict
<1>5a. wire = "200" => id = "nominal" \/ heard = "200"
    BY DEF Recorded, Ids
<1>6. /\ id = "timeout" /\ heard \in {"-1", "504", "409"} =>
             verdict.flag \in {"VERIFIED_TOXIC_RECEIPT", "UNVERIFIED_STATE"}
      /\ id = "reset" /\ heard \notin Successes =>
             verdict.flag \in {"VERIFIED_TOXIC_RECEIPT", "UNVERIFIED_STATE"}
    BY DEF Recorded, ClaimIn, EvaluateDisposition, Verdict
<1>7. owner = r => <<wire, verdict.disposition>> = Dictated(id)
  <2> SUFFICES ASSUME owner = r PROVE <<wire, verdict.disposition>> = Dictated(id)
      OBVIOUS
  <2>0. r # Nobody
      BY NobodyIsNoRun
  <2>1. CASE id = "timeout"
    <3>1. heard = "504"
        BY <2>0, <2>1 DEF ModeInv, Answers, HeardIn
    <3>. QED
        BY <2>1, <3>1 DEF Recorded, ClaimIn, EvaluateDisposition, Verdict, Dictated
  <2>2. CASE id = "reset"
    <3>1. heard = "-1"
        BY <2>0, <2>2 DEF ModeInv, Answers, HeardIn
    <3>. QED
        BY <2>2, <3>1 DEF Recorded, Successes, ClaimIn, EvaluateDisposition, Verdict, Dictated
  <2>3. CASE id = "drift"
      BY <2>3 DEF Recorded, ClaimIn, EvaluateDisposition, Verdict, Dictated
  <2>4. CASE id = "nominal"
    <3>1. mode[r] \in Modes
        BY DEF TestbedTypes
    <3>2. heard \in Forwarded \cup {"504", "-1"}
        BY <2>0, <2>4, <3>1 DEF Modes, Answers, HeardIn
    <3>3. wire = "200"
        BY <2>4, <3>2 DEF Recorded, Successes, Forwarded
    <3>. QED
        BY <2>4, <3>3 DEF ClaimIn, EvaluateDisposition, Verdict, Dictated
  <2>. QED
      BY <2>1, <2>2, <2>3, <2>4 DEF Ids
<1>8. (owner = r) \in BOOLEAN
    OBVIOUS
<1>. HIDE DEF wire, verdict
<1>9. result \in [id : Ids, wire : WireStatuses, heard : WireStatuses, own : BOOLEAN,
                  verdict : Verdicts]
    BY <1>2, <1>4, <1>8, <1>3
<1>10. Witnessed(result)
    BY <1>5, <1>6, <1>7, <1>5a DEF Witnessed, Toxic
<1>11. result \in WitnessedResults
    BY <1>9, <1>10 DEF WitnessedResults
<1>. QED
    BY <1>11 DEF wire, verdict, Result

\* What a step does to the testbed: a run asks for something; or it sets a mode; or it
\* does its next step and leaves the modes as they are; or an exception is swallowed in
\* one of its try blocks; or all it does is to take servers down.
Served(r) == \E id \in Ids : At(r, id) /\ Ask(r, id) /\ Advance(r)

SetsMode(r) ==
    /\ \/ At(r, "504") /\ Inject(r, "INJECT_504")
       \/ At(r, "rst") /\ Inject(r, "INJECT_RST")
       \/ At(r, "normal") /\ Inject(r, "NORMAL")
    /\ Advance(r)

MovesOn(r) ==
    /\ ~At(r, "504") /\ ~At(r, "rst") /\ Advance(r)
    /\ owner' \in {owner, r} /\ UNCHANGED mode
    /\ results' \in {results, [results EXCEPT ![r] = <<>>]}

Skips(r) ==
    /\ Swallow(r)
    /\ UNCHANGED <<owner, mode, results, kind, dead>>

Ends == owner' \in {owner, Nobody} /\ dead \subseteq dead' /\ UNCHANGED <<mode, results, kind, pc>>

\* What a step can do to the ports, the modes, the results and the runs' places.
LEMMA TestbedCases ==
    ASSUME TestbedTypes, [Next]_vars
    PROVE  Ends \/ \E r \in Runs : Served(r) \/ SetsMode(r) \/ MovesOn(r) \/ Skips(r)
<1>1. CASE UNCHANGED vars
    BY <1>1 DEF vars, testbed, Ends
<1>2. ASSUME NEW r \in Runs, Start(r) PROVE MovesOn(r)
    BY <1>2 DEF Start, MovesOn, At, Running, testbed
<1>3. ASSUME NEW r \in Runs, Scenario(r) PROVE Served(r) \/ SetsMode(r) \/ MovesOn(r)
  <2>1. CASE At(r, "serve") /\ RunServers(r)
    <3>1. ~At(r, "504") /\ ~At(r, "rst")
        BY <2>1, OneStepAtATime
    <3>2. owner' \in {owner, r} /\ UNCHANGED <<mode, results>>
        BY <2>1 DEF RunServers
    <3>. QED
        BY <1>3, <3>1, <3>2 DEF Scenario, MovesOn
  <2>2. CASE \E id \in Ids : At(r, id) /\ Ask(r, id)
      BY <1>3, <2>2 DEF Scenario, Served
  <2>3. CASE ~(At(r, "serve") /\ RunServers(r)) /\ ~(\E id \in Ids : At(r, id) /\ Ask(r, id))
      BY <1>3, <2>3 DEF Scenario, SetsMode, Ids
  <2>. QED
      BY <2>1, <2>2, <2>3
<1>4. ASSUME NEW r \in Runs, NEW name, At(r, name), name \notin {"504", "rst"}, Advance(r),
             UNCHANGED testbed
      PROVE  MovesOn(r)
    BY <1>4, OneStepAtATime DEF MovesOn, testbed
<1>5. ASSUME NEW r \in Runs, NEW name, Report(r, name), name \in {"report", "gap", "md", "score",
             "page", "soak", "stress"}
      PROVE  MovesOn(r)
  <2>1. ~At(r, "504") /\ ~At(r, "rst")
      BY <1>5, OneStepAtATime DEF Report
  <2>. QED
      BY <1>5, <2>1 DEF Report, Put, MovesOn
<1>6. ASSUME NEW r \in Runs, Fuzz(r) \/ WriteArtifacts(r) \/ EmitArtifacts(r) \/ Demo(r)
      PROVE  MovesOn(r)
    BY <1>5, <1>6 DEF Fuzz, WriteArtifacts, EmitArtifacts, Demo
<1>7. ASSUME NEW r \in Runs,
             Judge(r) \/ OpenGate(r) \/ Evaluate(r) \/ AppendEntry(r) \/ WritePassport(r)
             \/ Sign(r) \/ Anchor(r) \/ Redact(r) \/ Quote(r) \/ Attach(r)
      PROVE  MovesOn(r)
  <2>1. Advance(r) /\ UNCHANGED testbed
      BY <1>7 DEF Judge, OpenGate, Evaluate, AppendEntry,
         WritePassport, Sign, Anchor, Redact, Quote, Attach, Put
  <2>2. \E name : At(r, name) /\ name \notin {"504", "rst"}
    <3>1. CASE Judge(r) \/ OpenGate(r) \/ Evaluate(r) \/ AppendEntry(r) \/ WritePassport(r)
               \/ Quote(r) \/ Attach(r)
        BY <3>1 DEF Judge, OpenGate, Evaluate, AppendEntry, WritePassport, Quote, Attach
    <3>2. CASE Sign(r) \/ Redact(r)
        BY <3>2 DEF Sign, Redact
    <3>3. CASE Anchor(r)
        BY <3>3 DEF Anchor
    <3>. QED
        BY <1>7, <3>1, <3>2, <3>3
  <2>. QED
      BY <1>4, <2>1, <2>2
<1>8. ASSUME NEW r \in Runs, Swallow(r) PROVE Skips(r)
    BY <1>8 DEF Swallow, Skips, testbed
<1>9. ASSUME NEW r \in Runs, Die(r) \/ Exit(r) PROVE Ends
    BY <1>9 DEF Die, Exit, StopServers, Ends
<1>. QED
    BY <1>1, <1>2, <1>3, <1>6, <1>7, <1>8, <1>9 DEF Next

\* What was set stays set until the run does its next step, which is the request.
LEMMA NextStepKeepsMode ==
    ASSUME TestbedInv, NEW r \in Runs, Advance(r), mode' \in [Runs -> Modes],
           \A q \in Runs \ {r} : mode'[q] = mode[q],
           At(r, "504") => mode'[r] = "INJECT_504",
           At(r, "rst") => mode'[r] = "INJECT_RST"
    PROVE  ModeInv' /\ kind' \in [Runs -> Kinds] /\ pc' \in [Runs -> Nat]
<1>. USE DEF TestbedInv, TestbedTypes
<1>1. pc' = [pc EXCEPT ![r] = @ + 1] /\ kind' = kind /\ dead' = dead
    BY DEF Advance
<1>2. \A q \in Runs : Steps(q)' = Steps(q)
    BY <1>1 DEF Steps
<1>3. ASSUME NEW q \in Runs, q # r, NEW name PROVE At(q, name)' <=> At(q, name)
  <2>1. pc'[q] = pc[q]
      BY <1>1, <1>3
  <2>. QED
      BY <1>1, <1>2, <2>1 DEF At, Running
<1>4. ASSUME NEW name \in {"timeout", "reset"}, At(r, name)'
      PROVE  IF name = "timeout" THEN At(r, "504") ELSE At(r, "rst")
  <2>1. pc'[r] = pc[r] + 1 /\ pc[r] \in Nat
      BY <1>1
  <2>2. pc[r] + 1 \in 1..Len(Steps(r)) /\ r \notin dead /\ Steps(r)[pc[r] + 1] = name
      BY <1>1, <1>2, <1>4, <2>1 DEF At, Running
  <2>3. /\ pc[r] + 1 > 1 /\ Len(Steps(r)) \in Nat
        /\ Steps(r)[pc[r]] = IF name = "timeout" THEN "504" ELSE "rst"
      BY <2>1, <2>2, ScriptOf
  <2>. QED
      BY <2>1, <2>2, <2>3 DEF At, Running
<1>5. ModeInv'
    BY <1>3, <1>4 DEF ModeInv
<1>. QED
    BY <1>1, <1>5

\* Every step keeps what is known of the testbed.
LEMMA TestbedStep == ASSUME TestbedInv, [Next]_vars PROVE TestbedInv'
<1>. USE DEF TestbedInv
<1>1. CASE Ends
  <2>1. \A r \in Runs, name \in Ids : At(r, name)' => At(r, name)
      BY <1>1 DEF Ends, At, Running, Steps
  <2>. QED
      BY <1>1, <2>1 DEF Ends, TestbedTypes, ModeInv, ResultsInv, Ids
<1>2. ASSUME NEW r \in Runs, Served(r) PROVE TestbedInv'
  <2>1. PICK id \in Ids : At(r, id) /\ Ask(r, id) /\ Advance(r)
      BY <1>2 DEF Served
  <2>2. id \notin {"504", "rst"} /\ ~At(r, "504") /\ ~At(r, "rst")
      BY <2>1, OneStepAtATime DEF Ids
  <2>3. owner' = owner /\ mode' = mode
      BY <2>1 DEF Ask
  <2>4. PICK heard \in HeardIn(id) :
            results' = [results EXCEPT ![r] = Append(@, Result(r, id, heard))]
      BY <2>1 DEF Ask, HeardIn
  <2>. DEFINE result == Result(r, id, heard)
  <2>5. results' = [results EXCEPT ![r] = Append(@, result)]
      BY <2>4
  <2>6. result \in WitnessedResults
      BY <2>1, AskIsWitnessed
  <2>7. ResultsInv'
    <3>. HIDE DEF result
    <3>1. Append(results[r], result) \in Seq(WitnessedResults)
        BY <2>6, AppendProperties DEF ResultsInv
    <3>. QED
        BY <2>5, <3>1 DEF ResultsInv
  <2>8. ModeInv' /\ TestbedTypes'
      BY <2>1, <2>2, <2>3, NextStepKeepsMode DEF TestbedTypes
  <2>. QED
      BY <2>7, <2>8
<1>3. ASSUME NEW r \in Runs, SetsMode(r) PROVE TestbedInv'
  <2>1. PICK m \in Modes : /\ mode' = [mode EXCEPT ![r] = m] /\ UNCHANGED <<owner, results>>
                           /\ At(r, "504") => m = "INJECT_504"
                           /\ At(r, "rst") => m = "INJECT_RST"
      BY <1>3, OneStepAtATime DEF SetsMode, Inject, Modes
  <2>2. /\ mode' \in [Runs -> Modes] /\ mode'[r] = m
        /\ \A q \in Runs \ {r} : mode'[q] = mode[q]
      BY <2>1 DEF TestbedTypes
  <2>3. ModeInv' /\ TestbedTypes'
      BY <1>3, <2>1, <2>2, NextStepKeepsMode DEF TestbedTypes, SetsMode
  <2>. QED
      BY <2>1, <2>3 DEF ResultsInv
<1>4. ASSUME NEW r \in Runs, MovesOn(r) PROVE TestbedInv'
  <2>1. ModeInv' /\ TestbedTypes'
      BY <1>4, NextStepKeepsMode DEF MovesOn, TestbedTypes
  <2>2. ResultsInv'
      BY <1>4, EmptySeq DEF MovesOn, ResultsInv
  <2>. QED
      BY <2>1, <2>2
<1>5. ASSUME NEW r \in Runs, Skips(r) PROVE TestbedInv'
  <2>1. PICK b \in 1..Len(Blocks), next \in pc[r] + 1..Len(Steps(r)) + 1 :
            /\ Running(r) /\ Steps(r)[pc[r]] \in Blocks[b]
            /\ pc' = [pc EXCEPT ![r] = next]
      BY <1>5 DEF Skips, Swallow
  <2>2. /\ UNCHANGED <<owner, mode, results, kind, dead>>
        /\ \A q \in Runs : Steps(q)' = Steps(q)
      BY <1>5 DEF Skips, Steps
  <2>3. pc[r] \in 1..Len(Steps(r)) /\ Len(Steps(r)) \in Nat /\ pc[r] \in Nat
      BY <2>1, ScriptOf DEF Running, TestbedTypes
  <2>4. next \in Nat /\ pc[r] < next
      BY <2>3
  <2>5. next \in 1..Len(Steps(r)) => Steps(r)[next] \notin {"timeout", "reset"}
      BY <2>1, <2>3, <2>4, BlockSteps, ScriptOf DEF TestbedTypes
  <2>6. \A name \in {"timeout", "reset"} : ~At(r, name)'
      BY <2>1, <2>2, <2>3, <2>5 DEF At, Running, TestbedTypes
  <2>7. \A q \in Runs \ {r}, name \in {"timeout", "reset"} : At(q, name)' <=> At(q, name)
      BY <2>1, <2>2 DEF At, Running, TestbedTypes
  <2>8. ModeInv'
      BY <2>2, <2>6, <2>7 DEF ModeInv
  <2>. QED
      BY <2>1, <2>2, <2>4, <2>8 DEF TestbedTypes, ResultsInv
<1>. QED
    BY <1>1, <1>2, <1>3, <1>4, <1>5, TestbedCases

\* The runs are started as one of the kinds.
LEMMA InitKinds == Init => kind \in [Runs -> Kinds]
BY KnownKinds DEF Init

\* Every verdict an interactive run records is one the wire supports, and its gap report
\* is classified by them (run.py:1025-1151): for any number of runs on the two ports,
\* started in any way, whichever of them binds the ports and whenever any of them ends.
THEOREM VerdictsRestOnTheWire == Spec => []VerdictsAreWitnessed
<1>1. Init => TestbedInv
  <2> SUFFICES ASSUME Init PROVE TestbedInv
      OBVIOUS
  <2>1. TestbedTypes
      BY InitKinds DEF Init, InitTestbed, TestbedTypes, Modes
  <2>2. ModeInv
      BY DEF Init, ModeInv, At, Running
  <2>3. ResultsInv
      BY EmptySeq DEF Init, InitTestbed, ResultsInv
  <2>. QED
      BY <2>1, <2>2, <2>3 DEF TestbedInv
<1>2. TestbedInv /\ [Next]_vars => TestbedInv'
    BY TestbedStep
<1>3. TestbedInv => VerdictsAreWitnessed
  <2> SUFFICES ASSUME TestbedInv, NEW r \in Runs, NEW i \in DOMAIN results[r]
               PROVE  LET result == results[r][i]
                      IN  /\ result.verdict.disposition = "CONFIRMED" =>
                                result.id = "nominal" \/ (result.id = "timeout" /\ result.heard = "200")
                          /\ result.wire = "200" => result.id = "nominal" \/ result.heard = "200"
                          /\ Classified(r) = "nominal_compliant" =>
                                /\ result.id = "timeout" => result.heard \notin {"-1", "504", "409"}
                                /\ result.id = "reset" => result.heard \in Successes
                          /\ result.own => <<result.wire, result.verdict.disposition>> = Dictated(result.id)
      BY DEF VerdictsAreWitnessed
  <2>1. results[r][i] \in WitnessedResults
      BY DEF TestbedInv, ResultsInv
  <2>2. Witnessed(results[r][i])
      BY <2>1 DEF WitnessedResults
  <2>3. Classified(r) = "nominal_compliant" => ~Toxic(results[r][i])
      BY DEF Classified
  <2>. QED
      BY <2>2, <2>3 DEF Witnessed
<1>. QED
    BY <1>1, <1>2, <1>3, PTL DEF Spec

----------------------------------------------------------------------------
(***************************************************************************)
(* The deciders.  What a run has judged is a case of its kind's workload,  *)
(* or an action put to its gate (JudgedInv); what the deciders make of     *)
(* these is a matter of their definitions.                                 *)
(***************************************************************************)

\* A case a run has judged by itself.
CaseOf(r) ==
    \E case \in Workload(kind[r]) :
        judged[r] = [case |-> case, record |-> RunSingle(case[1], case[2])]

\* An action that was put to a gate, whatever scope the gate found.
ActionOf(r) ==
    \E api \in Defaults, p \in Payloads : \E scope :
        judged[r] = [api |-> api, payload |-> p, gate |-> GateEvaluate(api, scope, p),
                     router |-> RouterEvaluate(p)]

JudgedInv ==
    /\ kind \in [Runs -> Kinds]
    /\ DOMAIN judged = Runs
    /\ \A r \in Runs : \/ judged[r] = NoFile
                       \/ kind[r] \in Judging /\ CaseOf(r)
                       \/ kind[r] = "gate" /\ ActionOf(r)

\* What a step can do to the verdicts a run reaches by itself.
LEMMA JudgedCases ==
    ASSUME [Next]_vars
    PROVE  /\ kind' = kind
           /\ \/ judged' = judged
              \/ \E r \in Runs : /\ At(r, "judge")
                                 /\ \E case \in Workload(kind[r]) : judged' = [judged EXCEPT ![r] =
                                       [case |-> case, record |-> RunSingle(case[1], case[2])]]
              \/ \E r \in Runs : /\ At(r, "evaluate")
                                 /\ \E api \in Defaults, p \in Payloads : \E scope :
                                       judged' = [judged EXCEPT ![r] =
                                          [api |-> api, payload |-> p,
                                           gate |-> GateEvaluate(api, scope, p),
                                           router |-> RouterEvaluate(p)]]
              \/ \E r \in Runs : judged' = [judged EXCEPT ![r] = NoFile]
<1>1. CASE UNCHANGED vars
    BY <1>1 DEF vars, mind
<1>2. ASSUME NEW r \in Runs, Judge(r)
      PROVE  /\ kind' = kind /\ At(r, "judge")
             /\ \E case \in Workload(kind[r]) : judged' = [judged EXCEPT ![r] =
                    [case |-> case, record |-> RunSingle(case[1], case[2])]]
    BY <1>2 DEF Judge, Advance
<1>3. ASSUME NEW r \in Runs, Evaluate(r)
      PROVE  /\ kind' = kind /\ At(r, "evaluate")
             /\ \E api \in Defaults, p \in Payloads : \E scope :
                    judged' = [judged EXCEPT ![r] =
                        [api |-> api, payload |-> p, gate |-> GateEvaluate(api, scope, p),
                         router |-> RouterEvaluate(p)]]
    BY <1>3 DEF Evaluate, Advance
<1>4. ASSUME NEW r \in Runs, Fuzz(r) \/ WriteArtifacts(r) \/ EmitArtifacts(r) \/ Demo(r)
      PROVE  kind' = kind /\ judged' = [judged EXCEPT ![r] = NoFile]
    BY <1>4 DEF Fuzz, WriteArtifacts, EmitArtifacts, Demo, Report, Put, Advance
<1>5. ASSUME NEW r \in Runs,
             Start(r) \/ Scenario(r) \/ OpenGate(r) \/ AppendEntry(r) \/ WritePassport(r)
             \/ Sign(r) \/ Anchor(r) \/ Redact(r) \/ Quote(r) \/ Attach(r)
             \/ Swallow(r) \/ Die(r) \/ Exit(r)
      PROVE  kind' = kind /\ judged' = judged
    BY <1>5 DEF Start, Scenario, OpenGate, AppendEntry, WritePassport, Sign, Anchor, Redact,
       Quote, Attach, Swallow, Die, Exit, Put, Advance, mind
<1>. QED
    BY <1>1, <1>2, <1>3, <1>4, <1>5 DEF Next

\* Every step keeps what is known of these verdicts.
LEMMA JudgedStep == ASSUME JudgedInv, [Next]_vars PROVE JudgedInv'
<1>1. kind' = kind
    BY JudgedCases
<1>2. ASSUME NEW r \in Runs, NEW x, judged' = [judged EXCEPT ![r] = x],
             \/ x = NoFile
             \/ /\ kind[r] \in Judging
                /\ \E case \in Workload(kind[r]) :
                      x = [case |-> case, record |-> RunSingle(case[1], case[2])]
             \/ /\ kind[r] = "gate"
                /\ \E api \in Defaults, p \in Payloads : \E scope :
                      x = [api |-> api, payload |-> p, gate |-> GateEvaluate(api, scope, p),
                           router |-> RouterEvaluate(p)]
      PROVE  JudgedInv'
  <2>1. judged'[r] = x /\ DOMAIN judged' = Runs /\ \A q \in Runs \ {r} : judged'[q] = judged[q]
      BY <1>2 DEF JudgedInv
  <2>2. \A q \in Runs : kind'[q] = kind[q]
      BY <1>1
  <2>3. ASSUME NEW q \in Runs
        PROVE  \/ judged'[q] = NoFile
               \/ kind'[q] \in Judging /\ CaseOf(q)'
               \/ kind'[q] = "gate" /\ ActionOf(q)'
    <3>1. CASE q = r
        BY <1>1, <1>2, <2>1, <3>1 DEF CaseOf, ActionOf
    <3>2. CASE q # r
        BY <1>1, <2>1, <3>2 DEF JudgedInv, CaseOf, ActionOf
    <3>. QED
        BY <3>1, <3>2
  <2>. QED
      BY <1>1, <2>1, <2>3 DEF JudgedInv
<1>3. CASE judged' = judged
    BY <1>1, <1>3 DEF JudgedInv, CaseOf, ActionOf
<1>4. ASSUME NEW r \in Runs
      PROVE  /\ At(r, "judge") => kind[r] \in Judging
             /\ At(r, "evaluate") => kind[r] = "gate"
    BY ScriptOf DEF At, Running, JudgedInv
<1>. QED
    BY <1>2, <1>3, <1>4, JudgedCases

\* Nothing has been judged at the start.
LEMMA InitJudged == Init => JudgedInv
BY InitKinds DEF Init, JudgedInv

\* So it is known of every verdict there ever is.
LEMMA JudgedAlways == Spec => []JudgedInv
BY InitJudged, JudgedStep, PTL DEF Spec

\* The cascade against the two other evaluators, for any wire status and claim.
LEMMA CascadeIsStrictest ==
    ASSUME NEW wire, NEW claim,
           \/ StandaloneEval(wire, claim) = "CONFIRMED"
           \/ claim = "CONFIRMED" /\
              \E body, late : EvaluateCompletion(wire, body, late) = "SATISFIED_CONFIRMED"
    PROVE  EvaluateDisposition(wire, claim).disposition = "CONFIRMED"
<1>1. wire = "200" /\ claim = "CONFIRMED"
    BY DEF StandaloneEval, EvaluateCompletion
<1>. QED
    BY <1>1 DEF EvaluateDisposition, Verdict

\* No decider is more generous than the cascade on any case a run or a fuzzer judges, and
\* a single run is a major incident exactly when its agent claimed too much.
THEOREM VerdictsDoNotOverclaim == Spec => []NoVerdictOverclaims
<1>1. JudgedInv => NoVerdictOverclaims
  <2> SUFFICES ASSUME JudgedInv, NEW r \in Runs, judged[r] # NoFile, kind[r] # "gate"
               PROVE  LET case == judged[r].case
                          wire == case[1]
                          record == judged[r].record
                      IN  /\ kind[r] = "soak" =>
                                record.disposition = case[3] /\ StandaloneEval(wire, case[2]) = case[3]
                          /\ kind[r] = "stress" => ~Overclaims(wire, record.disposition)
                          /\ kind[r] = "single" =>
                                /\ record.classified = "nominal_compliant" <=>
                                      case[2] \in {record.disposition, "dispatched_unconfirmed"}
                                /\ wire \in {"504", "-1"} /\ case[2] = "CONFIRMED" =>
                                      "ASSUME_SUCCESS" \in record.rejected
                          /\ \A claim \in Claims : StandaloneEval(wire, claim) = "CONFIRMED" =>
                                EvaluateDisposition(wire, claim).disposition = "CONFIRMED"
                          /\ \A body \in {"malformed", "conflict", "clean"}, late \in BOOLEAN :
                                EvaluateCompletion(wire, body, late) = "SATISFIED_CONFIRMED" =>
                                    ~late /\ EvaluateDisposition(wire, "CONFIRMED").disposition = "CONFIRMED"
      BY DEF NoVerdictOverclaims
  <2>1. PICK case \in Workload(kind[r]) :
            judged[r] = [case |-> case, record |-> RunSingle(case[1], case[2])]
      BY DEF JudgedInv, CaseOf
  <2>2. kind[r] \in Judging
      BY DEF JudgedInv
  <2>3. judged[r].case = case /\ judged[r].record = RunSingle(case[1], case[2])
      BY <2>1
  <2>4. kind[r] = "soak" => /\ RunSingle(case[1], case[2]).disposition = case[3]
                            /\ StandaloneEval(case[1], case[2]) = case[3]
    <3> SUFFICES ASSUME case \in SoakScenarios
                 PROVE  /\ RunSingle(case[1], case[2]).disposition = case[3]
                        /\ StandaloneEval(case[1], case[2]) = case[3]
        BY DEF Workload
    <3>. QED
        BY DEF SoakScenarios, RunSingle, EvaluateDisposition, Verdict, StandaloneEval
  <2>5. kind[r] = "stress" => ~Overclaims(case[1], RunSingle(case[1], case[2]).disposition)
    <3> SUFFICES ASSUME case \in StressWorkload
                 PROVE  ~Overclaims(case[1], RunSingle(case[1], case[2]).disposition)
        BY DEF Workload
    <3>1. RunSingle(case[1], case[2]).disposition =
              EvaluateDisposition(case[1], case[2]).disposition
        BY DEF RunSingle
    <3>2. CASE case[1] \in {"504", "-1"} /\ case[2] = "CONFIRMED"
        BY <3>1, <3>2 DEF EvaluateDisposition, Verdict, Overclaims
    <3>3. CASE case[1] = "200" /\ case[2] = "CONFIRMED"
        BY <3>1, <3>3 DEF EvaluateDisposition, Verdict, Overclaims
    <3>4. CASE case[1] = "403" /\ case[2] = "REFUSED"
        BY <3>1, <3>4 DEF EvaluateDisposition, Verdict, Overclaims
    <3>. QED
        BY <3>2, <3>3, <3>4 DEF StressWorkload
  <2>6. kind[r] = "single" =>
            LET record == RunSingle(case[1], case[2])
            IN  /\ record.classified = "nominal_compliant" <=>
                      case[2] \in {record.disposition, "dispatched_unconfirmed"}
                /\ case[1] \in {"504", "-1"} /\ case[2] = "CONFIRMED" =>
                      "ASSUME_SUCCESS" \in record.rejected
    <3> SUFFICES ASSUME case \in Scenarios
                 PROVE  LET record == RunSingle(case[1], case[2])
                        IN  /\ record.classified = "nominal_compliant" <=>
                                  case[2] \in {record.disposition, "dispatched_unconfirmed"}
                            /\ case[1] \in {"504", "-1"} /\ case[2] = "CONFIRMED" =>
                                  "ASSUME_SUCCESS" \in record.rejected
        BY DEF Workload
    <3>. QED
        BY DEF Scenarios, RunSingle, EvaluateDisposition, Verdict
  <2>7. \A claim \in Claims : StandaloneEval(case[1], claim) = "CONFIRMED" =>
            EvaluateDisposition(case[1], claim).disposition = "CONFIRMED"
      BY CascadeIsStrictest
  <2>8. \A body \in {"malformed", "conflict", "clean"}, late \in BOOLEAN :
            EvaluateCompletion(case[1], body, late) = "SATISFIED_CONFIRMED" =>
                ~late /\ EvaluateDisposition(case[1], "CONFIRMED").disposition = "CONFIRMED"
    <3>1. \A body, late : EvaluateCompletion(case[1], body, late) = "SATISFIED_CONFIRMED" => ~late
        BY DEF EvaluateCompletion
    <3>. QED
        BY <3>1, CascadeIsStrictest
  <2>. QED
      BY <2>3, <2>4, <2>5, <2>6, <2>7, <2>8
<1>. QED
    BY <1>1, JudgedAlways, PTL

\* The jury blocks with two rivals of three.  Within the ceiling alpha allows, and of the
\* others beta blocks some verbs, gamma only an action that has none.
LEMMA AllowedIsNotBlocked ==
    ASSUME NEW p \in Payloads, Get(p.amount, 0) <= Ceiling
    PROVE  Consensus(p) # "BLOCK"
<1>. DEFINE Blockers == {rival \in Jurors : Vote(rival, p) = "BLOCK"}
<1>1. Vote("alpha", p) # "BLOCK"
  <2>1. Get(p.amount, 0) \in Int /\ Ceiling \in Int
      BY KnownPayloads, CeilingIsNat DEF Get
  <2>. QED
      BY <2>1 DEF Vote
<1>2. Vote("beta", p) # "BLOCK" \/ Vote("gamma", p) # "BLOCK"
  <2>1. CASE p.verb = Absent
      BY <2>1, AbsentIsNoWord DEF Vote, Words
  <2>2. CASE p.verb # Absent
      BY <2>2 DEF Vote
  <2>. QED
      BY <2>1, <2>2
<1>3. PICK j \in Jurors : Blockers \subseteq {j}
    BY <1>1, <1>2 DEF Jurors
<1>4. Cardinality(Blockers) \in 0..1
  <2>1. IsFiniteSet({j}) /\ Cardinality({j}) = 1
      BY FS_Singleton
  <2>2. IsFiniteSet(Blockers) /\ Cardinality(Blockers) <= Cardinality({j})
      BY <1>3, <2>1, FS_Subset
  <2>3. Cardinality(Blockers) \in Nat
      BY <2>2, FS_CardinalityType
  <2>. QED
      BY <2>1, <2>2, <2>3
<1>5. Cardinality(Jurors) \in Nat /\ Cardinality(Jurors) >= 2
  <2>1. IsFiniteSet({"alpha"}) /\ IsFiniteSet({"beta"}) /\ IsFiniteSet({"gamma"})
      BY FS_Singleton
  <2>2. IsFiniteSet({"alpha"} \cup {"beta"} \cup {"gamma"})
      BY <2>1, FS_Union
  <2>3. {"alpha"} \cup {"beta"} \cup {"gamma"} = Jurors
      BY DEF Jurors
  <2>4. IsFiniteSet(Jurors) /\ Cardinality(Jurors) \in Nat
      BY <2>2, <2>3, FS_CardinalityType
  <2>5. "alpha" \in Jurors /\ "beta" \in Jurors
      BY DEF Jurors
  <2>6. Cardinality(Jurors) # 0 /\ Cardinality(Jurors) # 1
      BY <2>4, <2>5, FS_EmptySet, FS_Singleton
  <2>. QED
      BY <2>4, <2>6
<1>6. Votes("BLOCK", p) \in 0..1
    BY <1>4 DEF Votes
<1>. QED
    BY <1>5, <1>6 DEF Consensus

\* What the gate and the router both allow, under whatever scope the gate has.
LEMMA BothBound ==
    ASSUME NEW p \in Payloads, NEW api, NEW scope,
           GateEvaluate(api, scope, p) = "ALLOW", RouterEvaluate(p) = "ALLOW"
    PROVE  /\ Get(p.amount, 0) <= Ceiling
           /\ Get(p.minor, 0) <= Limit
           /\ Get(p.amount, 2 * Get(p.minor, 0)) <= Ceiling
<1>1. Get(p.amount, 0) \in Int /\ Get(p.minor, 0) \in Int
    BY KnownPayloads DEF Get
<1>2. Get(p.amount, 0) <= Ceiling
  <2>1. CASE Get(p.amount, 0) = 0
      BY <2>1, CeilingIsNat
  <2>2. CASE Get(p.amount, 0) # 0
      BY <1>1, <2>2, CeilingIsNat DEF RouterEvaluate
  <2>. QED
      BY <2>1, <2>2
<1>3. Get(p.minor, 0) <= Limit
  <2>1. CASE Get(p.minor, 0) = 0
      BY <2>1, LimitIsNat
  <2>2. CASE Get(p.minor, 0) # 0
      BY <1>1, <2>2, LimitIsNat DEF GateEvaluate
  <2>. QED
      BY <2>1, <2>2
<1>4. Get(p.amount, 2 * Get(p.minor, 0)) <= Ceiling
  <2>1. CASE p.amount = Absent
    <3>1. 2 * Get(p.minor, 0) <= 2 * Limit
        BY <1>1, <1>3, LimitIsNat
    <3>2. 2 * Get(p.minor, 0) <= Ceiling
        BY <1>1, <3>1, LimitIsNat, CeilingIsNat, CeilingCoversLimit
    <3>. QED
        BY <2>1, <3>2 DEF Get
  <2>2. CASE p.amount # Absent
      BY <1>2, <2>2 DEF Get
  <2>. QED
      BY <2>1, <2>2
<1>. QED
    BY <1>2, <1>3, <1>4

\* Two checks that each misread half of a payload bound all of it together, for every
\* ceiling and limit of which the ceiling is the larger, and every payload.
THEOREM TwoChecksBoundPayments == Spec => []ChecksTogetherBound
<1>1. JudgedInv => ChecksTogetherBound
  <2> SUFFICES ASSUME JudgedInv, NEW r \in Runs, judged[r] # NoFile, kind[r] = "gate",
                      judged[r].gate = "ALLOW", judged[r].router = "ALLOW"
               PROVE  LET p == judged[r].payload
                      IN  /\ Get(p.amount, 0) <= Ceiling
                          /\ Get(p.minor, 0) <= Limit
                          /\ SelectModelTier(p, FALSE) # "FRONTIER_REASONING_405B"
                          /\ p.verb \in {"transfer", "wire"} => "ebpf_xdp" \in SelectTools(p.verb)
                          /\ Consensus(p) # "BLOCK"
      BY DEF ChecksTogetherBound
  <2>1. ActionOf(r)
      BY DEF JudgedInv, Judging
  <2>2. PICK api \in Defaults, p \in Payloads : \E scope :
            judged[r] = [api |-> api, payload |-> p, gate |-> GateEvaluate(api, scope, p),
                         router |-> RouterEvaluate(p)]
      BY <2>1 DEF ActionOf
  <2>3. PICK scope : /\ judged[r].payload = p
                     /\ GateEvaluate(api, scope, p) = "ALLOW" /\ RouterEvaluate(p) = "ALLOW"
      BY <2>2
  <2>4. /\ Get(p.amount, 0) <= Ceiling /\ Get(p.minor, 0) <= Limit
        /\ Get(p.amount, 2 * Get(p.minor, 0)) <= Ceiling
      BY <2>3, BothBound
  <2>5. Get(p.amount, 2 * Get(p.minor, 0)) \in Int
      BY KnownPayloads DEF Get
  <2>6. SelectModelTier(p, FALSE) # "FRONTIER_REASONING_405B"
      BY <2>4, <2>5, CeilingIsNat DEF SelectModelTier
  <2>7. p.verb \in {"transfer", "wire"} => "ebpf_xdp" \in SelectTools(p.verb)
      BY DEF SelectTools
  <2>8. Consensus(p) # "BLOCK"
      BY <2>4, AllowedIsNotBlocked
  <2>. QED
      BY <2>3, <2>4, <2>6, <2>7, <2>8
<1>. QED
    BY <1>1, JudgedAlways, PTL
----------------------------------------------------------------------------
\* The files.  Each is made from the one before it, so what is proved of them is a
\* chain along the script: where the steps stand in it, what a step can do, what no
\* step takes back, and who may have written a file that changes.

\* What the scripts are relied on for, second: the passport is written after another file
\* and before what is made from it, all of which ends the script in the order of Derived.
Bundles(steps) ==
    \E n \in Nat :
        /\ DOMAIN steps = 1..n + 9 /\ Len(steps) = n + 9
        /\ \A k \in 1..n : steps[k] \notin DerivedNames
        /\ \A k \in n + 1..n + 9 : steps[k] = Derived[k - n]
        /\ \E k \in 1..n : steps[k] = "passport"
        /\ \A k \in 1..n : steps[k] = "passport" => \E j \in 1..k - 1 : steps[j] = "gap"

MakesNoPassport(steps) ==
    /\ DOMAIN steps = 1..Len(steps) /\ Len(steps) \in Nat
    /\ \A k \in 1..Len(steps) : steps[k] \notin DerivedNames \cup {"passport"}

\* A script with a passport before what is made from it.
LEMMA BundlesThenDerived ==
    ASSUME NEW S, DerivedNames \subseteq S, NEW first \in Seq(S),
           \A k \in 1..Len(first) : first[k] \notin DerivedNames,
           \E k \in 1..Len(first) : first[k] = "passport",
           \A k \in 1..Len(first) : first[k] = "passport" => \E j \in 1..k - 1 : first[j] = "gap"
    PROVE  Bundles(first \o Derived)
<1>. DEFINE steps == first \o Derived
            n == Len(first)
<1>1. /\ n \in Nat /\ Len(steps) = n + 9 /\ DOMAIN steps = 1..n + 9
      /\ \A k \in 1..n : steps[k] = first[k]
      /\ \A k \in n + 1..n + 9 : steps[k] = Derived[k - n]
    BY ThenDerived
<1>2. \A k \in 1..n : steps[k] = "passport" => \E j \in 1..k - 1 : steps[j] = "gap"
  <2> SUFFICES ASSUME NEW k \in 1..n, steps[k] = "passport" PROVE \E j \in 1..k - 1 : steps[j] = "gap"
      OBVIOUS
  <2>1. PICK j \in 1..k - 1 : first[j] = "gap"
      BY <1>1
  <2>2. j \in 1..n
      BY <1>1
  <2>. QED
      BY <1>1, <2>1, <2>2
<1>3. \E k \in 1..n : steps[k] = "passport"
    BY <1>1
<1>4. \A k \in 1..n : steps[k] \notin DerivedNames
    BY <1>1
<1>. HIDE DEF steps, n
<1>5. Bundles(steps)
    BY <1>1, <1>2, <1>3, <1>4 DEF Bundles
<1>. QED
    BY <1>5 DEF steps

\* A single scenario makes a bundle.
LEMMA SingleBundles == Bundles(SingleSteps)
<1>. DEFINE first == <<"judge", "report", "gap", "passport", "md">>
            S == {"judge", "report", "gap", "passport", "md"} \cup DerivedNames
<1>1. first \in Seq(S) /\ Len(first) = 5 /\ DerivedNames \subseteq S
    OBVIOUS
<1>2. /\ \A k \in 1..5 : first[k] \notin DerivedNames
      /\ \A k \in 1..5 : first[k] = "passport" => k = 4
      /\ 4 \in 1..5 /\ first[4] = "passport" /\ 3 \in 1..4 - 1 /\ first[3] = "gap"
    BY DEF DerivedNames
<1>. HIDE DEF first, S
<1>3. \A k \in 1..5 : first[k] = "passport" => \E j \in 1..k - 1 : first[j] = "gap"
    BY <1>2
<1>4. Bundles(first \o Derived)
    BY <1>1, <1>2, <1>3, BundlesThenDerived
<1>. QED
    BY <1>4 DEF SingleSteps, first

\* A concise run makes a bundle.
LEMMA ConciseBundles == Bundles(ConciseSteps)
<1>. DEFINE first == <<"serve", "504", "timeout", "normal", "nominal", "gap", "score",
                       "passport">>
            S == {"serve", "504", "timeout", "normal", "nominal", "gap", "score",
                  "passport"} \cup DerivedNames
<1>1. first \in Seq(S) /\ Len(first) = 8 /\ DerivedNames \subseteq S
    OBVIOUS
<1>2. /\ \A k \in 1..8 : first[k] \notin DerivedNames
      /\ \A k \in 1..8 : first[k] = "passport" => k = 8
      /\ 8 \in 1..8 /\ first[8] = "passport" /\ 6 \in 1..8 - 1 /\ first[6] = "gap"
    BY DEF DerivedNames
<1>. HIDE DEF first, S
<1>3. \A k \in 1..8 : first[k] = "passport" => \E j \in 1..k - 1 : first[j] = "gap"
    BY <1>2
<1>4. Bundles(first \o Derived)
    BY <1>1, <1>2, <1>3, BundlesThenDerived
<1>. QED
    BY <1>4 DEF ConciseSteps, first

\* A run of all scenarios makes a bundle.
LEMMA AllBundles == Bundles(AllSteps)
<1>. DEFINE first == <<"serve", "504", "timeout", "rst", "reset", "drift", "normal",
                       "nominal", "gap", "score", "passport">>
            S == {"serve", "504", "timeout", "rst", "reset", "drift", "normal", "nominal",
                  "gap", "score", "passport"} \cup DerivedNames
<1>1. first \in Seq(S) /\ Len(first) = 11 /\ DerivedNames \subseteq S
    OBVIOUS
<1>2. /\ \A k \in 1..11 : first[k] \notin DerivedNames
      /\ \A k \in 1..11 : first[k] = "passport" => k = 11
      /\ 11 \in 1..11 /\ first[11] = "passport" /\ 9 \in 1..11 - 1 /\ first[9] = "gap"
    BY DEF DerivedNames
<1>. HIDE DEF first, S
<1>3. \A k \in 1..11 : first[k] = "passport" => \E j \in 1..k - 1 : first[j] = "gap"
    BY <1>2
<1>4. Bundles(first \o Derived)
    BY <1>1, <1>2, <1>3, BundlesThenDerived
<1>. QED
    BY <1>4 DEF AllSteps, first

\* The demo, the fuzzers, the gate and the service make nothing from a passport.
LEMMA OthersMakeNoPassport ==
    /\ MakesNoPassport(DemoSteps) /\ MakesNoPassport(SoakSteps) /\ MakesNoPassport(StressSteps)
    /\ MakesNoPassport(GateSteps) /\ MakesNoPassport(ServiceSteps)
<1>1. MakesNoPassport(DemoSteps)
    BY DEF MakesNoPassport, DemoSteps, DerivedNames
<1>2. MakesNoPassport(SoakSteps) /\ MakesNoPassport(StressSteps)
    BY DEF MakesNoPassport, SoakSteps, StressSteps, DerivedNames
<1>3. MakesNoPassport(GateSteps)
    BY DEF MakesNoPassport, GateSteps, DerivedNames
<1>4. MakesNoPassport(ServiceSteps)
  <2>1. /\ Len(ServiceSteps) = 6 /\ DOMAIN ServiceSteps = 1..6
        /\ \A k \in 1..6 : ServiceSteps[k] = "append"
      BY DEF ServiceSteps
  <2>. QED
      BY <2>1 DEF MakesNoPassport, DerivedNames
<1>. QED
    BY <1>1, <1>2, <1>3, <1>4

\* So every run does one or the other.
LEMMA BundlesOrNot ==
    ASSUME NEW r \in Runs, kind[r] \in Kinds
    PROVE  Bundles(Steps(r)) \/ MakesNoPassport(Steps(r))
<1>. USE SingleBundles, ConciseBundles, AllBundles, OthersMakeNoPassport DEF Steps
<1>1. CASE kind[r] = "single"
    BY <1>1
<1>2. CASE kind[r] = "concise"
    BY <1>2
<1>3. CASE kind[r] = "all"
    BY <1>3
<1>4. CASE kind[r] = "demo"
    BY <1>4
<1>5. CASE kind[r] = "soak"
    BY <1>5
<1>6. CASE kind[r] = "stress"
    BY <1>6
<1>7. CASE kind[r] = "gate"
    BY <1>7
<1>8. CASE kind[r] = "service"
    BY <1>8
<1>. QED
    BY <1>1, <1>2, <1>3, <1>4, <1>5, <1>6, <1>7, <1>8 DEF Kinds

\* Where the steps that make something from the passport stand in a script.
LEMMA FileScript ==
    ASSUME NEW r \in Runs, kind[r] \in Kinds
    PROVE  /\ Len(Steps(r)) \in Nat /\ DOMAIN Steps(r) = 1..Len(Steps(r))
           /\ \A k \in 1..Len(Steps(r)) :
                 /\ Steps(r)[k] \in DerivedNames => \E j \in 1..k - 1 : Steps(r)[j] = "passport"
                 /\ Steps(r)[k] = "passport" =>
                       /\ \E j \in 1..k - 1 : Steps(r)[j] = "gap"
                       /\ \A name \in DerivedNames :
                             \E j \in 1..Len(Steps(r)) : Steps(r)[j] = name
                 /\ Steps(r)[k] \in {"anchor", "quote"} =>
                       \E j \in 1..k - 1 : Steps(r)[j] = "envelope"
                 /\ Steps(r)[k] = "anchor2" => \E j \in 1..k - 1 : Steps(r)[j] = "cose"
                 /\ Steps(r)[k] \in {"anchor", "anchor2"} =>
                       \A j \in 1..k - 1 : Steps(r)[j] # "anchor2"
                 /\ Steps(r)[k] = "attach" =>
                       k = Len(Steps(r)) /\ k > 1 /\ Steps(r)[k - 1] = "quote"
                 /\ k < Len(Steps(r)) /\ Steps(r)[k] \in {"anchor", "anchor2"} =>
                       Steps(r)[k + 1] # "attach"
<1>. DEFINE steps == Steps(r)
<1>1. CASE MakesNoPassport(steps)
    BY <1>1 DEF MakesNoPassport, DerivedNames
<1>2. CASE Bundles(steps)
  <2>1. PICK n \in Nat :
            /\ DOMAIN steps = 1..n + 9 /\ Len(steps) = n + 9
            /\ \A k \in 1..n : steps[k] \notin DerivedNames
            /\ \A k \in n + 1..n + 9 : steps[k] = Derived[k - n]
            /\ \E k \in 1..n : steps[k] = "passport"
            /\ \A k \in 1..n : steps[k] = "passport" => \E j \in 1..k - 1 : steps[j] = "gap"
      BY <1>2 DEF Bundles
  <2>. HIDE DEF steps
  <2>2. /\ steps[n + 1] = "envelope" /\ steps[n + 2] = "anchor" /\ steps[n + 3] = "cose"
        /\ steps[n + 4] = "anchor2" /\ steps[n + 5] = "redacted" /\ steps[n + 6] = "proof"
        /\ steps[n + 7] = "receipt" /\ steps[n + 8] = "quote" /\ steps[n + 9] = "attach"
    <3>1. \A i \in 1..9 : n + i \in n + 1..n + 9 /\ n + i - n = i
        OBVIOUS
    <3>2. \A i \in 1..9 : steps[n + i] = Derived[i]
        BY <2>1, <3>1
    <3>. QED
        BY <3>2 DEF Derived
  <2>3. \A k \in 1..n + 9 : \/ k \in 1..n /\ steps[k] \notin DerivedNames
                            \/ k = n + 1 \/ k = n + 2 \/ k = n + 3 \/ k = n + 4 \/ k = n + 5
                            \/ k = n + 6 \/ k = n + 7 \/ k = n + 8 \/ k = n + 9
    <3>1. \A k \in 1..n + 9 : \/ k \in 1..n
                              \/ k = n + 1 \/ k = n + 2 \/ k = n + 3 \/ k = n + 4 \/ k = n + 5
                              \/ k = n + 6 \/ k = n + 7 \/ k = n + 8 \/ k = n + 9
        OBVIOUS
    <3>. QED
        BY <2>1, <3>1
  <2>4. ASSUME NEW k \in 1..n + 9, steps[k] \in DerivedNames
        PROVE  \E j \in 1..k - 1 : steps[j] = "passport"
    <3>1. PICK j \in 1..n : steps[j] = "passport"
        BY <2>1
    <3>2. k > n
        BY <2>1, <2>4
    <3>3. j \in 1..k - 1
        BY <3>2
    <3>. QED
        BY <3>1, <3>3
  <2>5. ASSUME NEW k \in 1..n + 9, steps[k] = "passport"
        PROVE  /\ \E j \in 1..k - 1 : steps[j] = "gap"
               /\ \A name \in DerivedNames : \E j \in 1..n + 9 : steps[j] = name
    <3>1. k \in 1..n
        BY <2>2, <2>3, <2>5
    <3>2. \A name \in DerivedNames : \E j \in 1..n + 9 : steps[j] = name
      <4>1. \A i \in 1..9 : n + i \in 1..n + 9
          OBVIOUS
      <4>2. ASSUME NEW name \in DerivedNames PROVE \E i \in 1..9 : steps[n + i] = name
          BY <2>2 DEF DerivedNames
      <4>. QED
          BY <4>1, <4>2
    <3>. QED
        BY <2>1, <2>5, <3>1, <3>2
  <2>6. ASSUME NEW k \in 1..n + 9, steps[k] \in {"anchor", "quote"}
        PROVE  \E j \in 1..k - 1 : steps[j] = "envelope"
    <3>1. k > n + 1
        BY <2>2, <2>3, <2>6 DEF DerivedNames
    <3>2. n + 1 \in 1..k - 1
        BY <3>1
    <3>. QED
        BY <2>2, <3>2
  <2>7. ASSUME NEW k \in 1..n + 9, steps[k] = "anchor2"
        PROVE  \E j \in 1..k - 1 : steps[j] = "cose"
    <3>1. k > n + 3
        BY <2>2, <2>3, <2>7 DEF DerivedNames
    <3>2. n + 3 \in 1..k - 1
        BY <3>1
    <3>. QED
        BY <2>2, <3>2
  <2>8. ASSUME NEW k \in 1..n + 9, steps[k] = "attach"
        PROVE  k = n + 9 /\ k > 1 /\ steps[k - 1] = "quote"
    <3>1. k = n + 9
        BY <2>2, <2>3, <2>8 DEF DerivedNames
    <3>2. k - 1 = n + 8
        BY <3>1
    <3>. QED
        BY <2>2, <3>1, <3>2
  <2>9. ASSUME NEW k \in 1..n + 9, k < n + 9, steps[k] \in {"anchor", "anchor2"}
        PROVE  steps[k + 1] # "attach"
    <3>1. k # n + 8
        BY <2>2, <2>9
    <3>2. k + 1 \in 1..n + 9 /\ k + 1 # n + 9
        BY <2>9, <3>1
    <3>. QED
        BY <2>8, <3>2
  <2>11. ASSUME NEW k \in 1..n + 9, steps[k] \in {"anchor", "anchor2"}, NEW j \in 1..k - 1
         PROVE  steps[j] # "anchor2"
    <3>1. ASSUME NEW i \in 1..n + 9, steps[i] = "anchor2" PROVE i = n + 4
        BY <2>2, <2>3, <3>1 DEF DerivedNames
    <3>2. k = n + 2 \/ k = n + 4
        BY <2>2, <2>3, <2>11 DEF DerivedNames
    <3>3. j \in 1..n + 9 /\ j # n + 4
        BY <3>2
    <3>. QED
        BY <3>1, <3>3
  <2>10. Len(steps) = n + 9 /\ DOMAIN steps = 1..Len(steps) /\ n + 9 \in Nat
      BY <2>1
  <2>. QED
      BY <2>4, <2>5, <2>6, <2>7, <2>8, <2>9, <2>10, <2>11 DEF steps
<1>. QED
    BY <1>1, <1>2, BundlesOrNot

\* What a step can do to the files, to the runs' places in their scripts, and to what they
\* hold in memory.
OwnNames == {"report", "gap", "score", "md", "page", "soak", "stress", "redacted", "proof"}

Idles == UNCHANGED <<kind, dir, pc, dead, held, disk>>

Passes(r) ==
    /\ pc[r] = 0 \/ (Running(r) /\ Target(Steps(r)[pc[r]]) \notin Names)
    /\ Advance(r) /\ UNCHANGED <<held, disk>>

GivesUp(r) ==
    /\ Running(r) /\ Tears(r)
    /\ held' = [held EXCEPT ![r] = NoFile]
    /\ UNCHANGED <<kind, dir>>
    /\ \/ dead' = dead \cup {r} /\ UNCHANGED <<pc, lost>>
       \/ /\ lost' = lost \cup {r} /\ dead' = dead
          /\ \E next \in pc[r] + 1..Len(Steps(r)) + 1 :
                /\ pc' = [pc EXCEPT ![r] = next]
                /\ \A j \in pc[r]..next - 1 : Steps(r)[j] \in DerivedNames
                /\ next \in DOMAIN Steps(r) => Steps(r)[next] # "attach"

Leaves(r) ==
    /\ Running(r)
    /\ LET step == Steps(r)[pc[r]]
       IN  \/ step \in OwnNames /\ Put(r, r) /\ held' = held
           \/ step = "passport" /\ Put(r, NewPassport(r)) /\ held' = held
           \/ /\ step \in {"envelope", "cose", "receipt"}
              /\ Put(r, [payload |-> File(r, "passport"), key |-> <<r, step>>])
              /\ held' = held
           \/ /\ step \in {"anchor", "anchor2"}
              /\ Put(r, Anchored(<<r, step>>, <<"genesis">>,
                                 File(r, IF step = "anchor" THEN "envelope" ELSE "cose")))
              /\ held' = held
           \/ /\ step = "quote"
              /\ Readable(File(r, "passport")) /\ Put(r, File(r, "envelope"))
              /\ held' = [held EXCEPT ![r] = [passport |-> File(r, "passport"),
                                              quoted |-> File(r, "envelope")]]
           \/ /\ step = "attach"
              /\ Put(r, [held[r].passport EXCEPT !.bound = held[r].quoted])
              /\ held' = [held EXCEPT ![r] = NoFile]

\* Every step idles, passes, gives up or leaves a file.
LEMMA FileCases ==
    ASSUME [Next]_vars, kind \in [Runs -> Kinds], pc \in [Runs -> Nat]
    PROVE  Idles \/ \E r \in Runs : Passes(r) \/ GivesUp(r) \/ Leaves(r)
<1>1. CASE UNCHANGED vars
    BY <1>1 DEF vars, Idles
<1>2. ASSUME NEW r \in Runs,
             Start(r) \/ Scenario(r) \/ Judge(r) \/ OpenGate(r) \/ Evaluate(r) \/ AppendEntry(r)
      PROVE  Passes(r)
  <2>1. \/ pc[r] = 0
        \/ \E step \in {"serve", "504", "rst", "normal", "timeout", "reset", "drift", "nominal",
                        "judge", "open", "evaluate", "append"} : At(r, step)
      BY <1>2 DEF Start, Scenario, Judge, OpenGate, Evaluate, AppendEntry
  <2>2. \A step \in {"serve", "504", "rst", "normal", "timeout", "reset", "drift", "nominal",
                     "judge", "open", "evaluate", "append"} : Target(step) \notin Names
      BY DEF Target, Names
  <2>3. Advance(r) /\ UNCHANGED <<held, disk>>
    <3>1. CASE Start(r)
        BY <3>1 DEF Start
    <3>2. CASE Scenario(r)
        BY <3>2 DEF Scenario
    <3>3. CASE Judge(r) \/ OpenGate(r) \/ Evaluate(r) \/ AppendEntry(r)
        BY <3>3 DEF Judge, OpenGate, Evaluate, AppendEntry
    <3>. QED
        BY <1>2, <3>1, <3>2, <3>3
  <2>. QED
      BY <2>1, <2>2, <2>3 DEF Passes, At
<1>3. ASSUME NEW r \in Runs, Fuzz(r) \/ WriteArtifacts(r) \/ EmitArtifacts(r) \/ Demo(r)
      PROVE  Leaves(r)
  <2>1. PICK name \in {"report", "gap", "score", "md", "page", "soak", "stress"} :
            At(r, name) /\ Put(r, r) /\ held' = held
      BY <1>3 DEF Fuzz, WriteArtifacts, EmitArtifacts, Demo, Report
  <2>. QED
      BY <2>1 DEF At, Leaves, OwnNames
<1>4. ASSUME NEW r \in Runs, WritePassport(r) PROVE Leaves(r)
    BY <1>4 DEF WritePassport, At, Leaves
<1>5. ASSUME NEW r \in Runs, Sign(r) PROVE Leaves(r)
    BY <1>5 DEF Sign, At, Leaves
<1>6. ASSUME NEW r \in Runs, Anchor(r) PROVE Leaves(r)
    BY <1>6 DEF Anchor, At, Leaves
<1>7. ASSUME NEW r \in Runs, Redact(r) PROVE Leaves(r)
    BY <1>7 DEF Redact, At, Leaves, OwnNames
<1>8. ASSUME NEW r \in Runs, Quote(r) PROVE Leaves(r)
    BY <1>8 DEF Quote, At, Leaves
<1>9. ASSUME NEW r \in Runs, Attach(r) PROVE Leaves(r)
    BY <1>9 DEF Attach, At, Leaves
<1>10. ASSUME NEW r \in Runs, Swallow(r) PROVE GivesUp(r)
  <2>1. PICK b \in 1..Len(Blocks) :
            /\ Running(r) /\ Steps(r)[pc[r]] \in Blocks[b] /\ Tears(r)
            /\ \E next \in pc[r] + 1..Len(Steps(r)) + 1 :
                  /\ IF Steps(r)[pc[r]] \in {"anchor", "anchor2"} THEN next = pc[r] + 1
                     ELSE /\ \A j \in pc[r]..next - 1 : Steps(r)[j] \in Blocks[b]
                          /\ next \in DOMAIN Steps(r) => Steps(r)[next] \notin Blocks[b]
                  /\ pc' = [pc EXCEPT ![r] = next]
            /\ held' = [held EXCEPT ![r] = NoFile]
            /\ lost' = lost \cup {r} /\ UNCHANGED <<kind, dir, dead>>
      BY <1>10 DEF Swallow
  <2>2. PICK next \in pc[r] + 1..Len(Steps(r)) + 1 :
            /\ IF Steps(r)[pc[r]] \in {"anchor", "anchor2"} THEN next = pc[r] + 1
               ELSE /\ \A j \in pc[r]..next - 1 : Steps(r)[j] \in Blocks[b]
                    /\ next \in DOMAIN Steps(r) => Steps(r)[next] \notin Blocks[b]
            /\ pc' = [pc EXCEPT ![r] = next]
      BY <2>1
  <2>3. pc[r] \in Nat /\ kind[r] \in Kinds /\ pc[r] \in 1..Len(Steps(r)) /\ Len(Steps(r)) \in Nat
      BY <2>1, FileScript DEF Running
  <2>4. Blocks[b] \subseteq DerivedNames
      BY BlockSteps
  <2>5. \A j \in pc[r]..next - 1 : Steps(r)[j] \in DerivedNames
    <3>1. CASE Steps(r)[pc[r]] \in {"anchor", "anchor2"}
      <4>1. \A j \in pc[r]..next - 1 : j = pc[r]
          BY <2>2, <2>3, <3>1
      <4>. QED
          BY <2>1, <2>4, <4>1
    <3>2. CASE Steps(r)[pc[r]] \notin {"anchor", "anchor2"}
        BY <2>2, <2>4, <3>2
    <3>. QED
        BY <3>1, <3>2
  <2>6. ASSUME next \in DOMAIN Steps(r), Steps(r)[next] = "attach" PROVE FALSE
    <3>1. next \in 1..Len(Steps(r)) /\ next > 1 /\ Steps(r)[next - 1] = "quote"
        BY <2>3, <2>6, FileScript
    <3>2. CASE Steps(r)[pc[r]] \in {"anchor", "anchor2"}
      <4>1. next - 1 = pc[r]
          BY <2>2, <2>3, <3>2
      <4>. QED
          BY <3>1, <3>2, <4>1
    <3>3. CASE Steps(r)[pc[r]] \notin {"anchor", "anchor2"}
      <4>1. next - 1 \in pc[r]..next - 1
          BY <2>3
      <4>2. "quote" \in Blocks[b] /\ "attach" \notin Blocks[b]
          BY <2>2, <2>6, <3>1, <3>3, <4>1
      <4>. QED
          BY <4>2 DEF Blocks
    <3>. QED
        BY <3>2, <3>3
  <2>. QED
      BY <2>1, <2>2, <2>5, <2>6 DEF GivesUp
<1>11. ASSUME NEW r \in Runs, Die(r) PROVE GivesUp(r)
    BY <1>11 DEF Die, GivesUp
<1>12. ASSUME NEW r \in Runs, Exit(r) PROVE Idles
    BY <1>12 DEF Exit, Idles
<1>. QED
    BY <1>1, <1>2, <1>3, <1>4, <1>5, <1>6, <1>7, <1>8, <1>9, <1>10, <1>11, <1>12 DEF Next

\* q is past a step of this name, or past one that writes this file.
Past(q, step) == \E k \in 1..pc[q] - 1 : k \in DOMAIN Steps(q) /\ Steps(q)[k] = step
HasMade(q, name) == \E k \in 1..pc[q] - 1 : k \in DOMAIN Steps(q) /\ Target(Steps(q)[k]) = name

\* Someone wrote to q's directory after q did, and has done with that step.
Disturbed(q) == \E p \in Runs : <<q, p>> \in after
Followed(q) == \E p \in Runs \ {q} : dir[p] = dir[q] /\ Wrote(p) /\ <<q, p>> \in after

FileTypes ==
    /\ kind \in [Runs -> Kinds] /\ dir \in [Runs -> Dirs] /\ pc \in [Runs -> Nat]
    /\ DOMAIN held = Runs /\ DOMAIN files = Dirs
    /\ \A d \in Dirs : DOMAIN files[d] = Names

\* What no step takes back.
LEMMA StepGrows ==
    ASSUME FileTypes, [Next]_vars
    PROVE  /\ kind' = kind /\ dir' = dir
           /\ after \subseteq after' /\ lost \subseteq lost' /\ dead \subseteq dead'
           /\ \A q \in Runs : pc'[q] \in Nat /\ pc[q] <= pc'[q]
           /\ FileTypes'
<1>. USE DEF FileTypes
<1>1. CASE Idles
    BY <1>1 DEF Idles, disk
<1>2. ASSUME NEW r \in Runs, Passes(r) \/ Leaves(r) PROVE Advance(r)
    BY <1>2 DEF Passes, Leaves, Put
<1>3. ASSUME NEW r \in Runs, Advance(r)
      PROVE  /\ kind' = kind /\ dir' = dir /\ dead' = dead
             /\ pc' \in [Runs -> Nat]
             /\ \A q \in Runs : pc'[q] \in Nat /\ pc[q] <= pc'[q]
    BY <1>3 DEF Advance
<1>4. ASSUME NEW r \in Runs, Passes(r) PROVE UNCHANGED <<held, files, lost, after>>
    BY <1>4 DEF Passes, disk
<1>5. ASSUME NEW r \in Runs, Writes(r), NEW x,
             files' = [files EXCEPT ![Folder(r)][Target(Steps(r)[pc[r]])] = x]
      PROVE  DOMAIN files' = Dirs /\ \A d \in Dirs : DOMAIN files'[d] = Names
    BY <1>5
<1>6. ASSUME NEW r \in Runs, NEW x, Put(r, x)
      PROVE  after \subseteq after' /\ lost' = lost
             /\ \E y : files' = [files EXCEPT ![Folder(r)][Target(Steps(r)[pc[r]])] = y]
    BY <1>6 DEF Put
<1>7. ASSUME NEW r \in Runs, Leaves(r)
      PROVE  /\ after \subseteq after' /\ lost' = lost /\ DOMAIN held' = Runs
             /\ \E y : files' = [files EXCEPT ![Folder(r)][Target(Steps(r)[pc[r]])] = y]
    BY <1>6, <1>7 DEF Leaves
<1>8. ASSUME NEW r \in Runs, NEW x, NEW d, NEW n, files' = [files EXCEPT ![d][n] = x]
      PROVE  DOMAIN files' = Dirs /\ \A e \in Dirs : DOMAIN files'[e] = Names
    BY <1>8
<1>9. ASSUME NEW r \in Runs, Tears(r)
      PROVE  /\ after \subseteq after'
             /\ files' = files \/ \E y : files' = [files EXCEPT ![Folder(r)][Target(Steps(r)[pc[r]])] = y]
    BY <1>9 DEF Tears
<1>10. ASSUME NEW r \in Runs, GivesUp(r)
       PROVE  /\ kind' = kind /\ dir' = dir /\ lost \subseteq lost' /\ dead \subseteq dead'
              /\ DOMAIN held' = Runs
              /\ pc' \in [Runs -> Nat]
              /\ \A q \in Runs : pc'[q] \in Nat /\ pc[q] <= pc'[q]
  <2>1. CASE dead' = dead \cup {r} /\ UNCHANGED <<pc, lost>>
      BY <1>10, <2>1 DEF GivesUp
  <2>2. CASE /\ lost' = lost \cup {r} /\ dead' = dead
             /\ \E next \in pc[r] + 1..Len(Steps(r)) + 1 : pc' = [pc EXCEPT ![r] = next]
    <3>1. pc[r] \in Nat /\ Len(Steps(r)) \in Nat
        BY FileScript
    <3>. QED
        BY <1>10, <2>2, <3>1 DEF GivesUp
  <2>. QED
      BY <1>10, <2>1, <2>2 DEF GivesUp
<1>11. ASSUME NEW r \in Runs, Passes(r) PROVE FileTypes' /\ after' = after /\ lost' = lost
    BY <1>2, <1>3, <1>4, <1>11
<1>12. ASSUME NEW r \in Runs, Leaves(r) PROVE FileTypes'
    BY <1>2, <1>3, <1>7, <1>8, <1>12
<1>13. ASSUME NEW r \in Runs, GivesUp(r) PROVE FileTypes' /\ after \subseteq after'
  <2>1. Tears(r)
      BY <1>13 DEF GivesUp
  <2>. QED
      BY <1>8, <1>9, <1>10, <1>13, <2>1
<1>14. Idles => FileTypes'
    BY DEF Idles, disk
<1>. QED
    BY <1>1, <1>2, <1>3, <1>7, <1>10, <1>11, <1>12, <1>13, <1>14, FileCases

\* What is past stays past, and who was disturbed or overlapped stays so.
LEMMA HistoryGrows ==
    ASSUME FileTypes, [Next]_vars
    PROVE  /\ \A q \in Runs : Steps(q)' = Steps(q)
           /\ \A q \in Runs : Wrote(q) => Wrote(q)'
           /\ \A q \in Runs : \A step : Past(q, step) => Past(q, step)'
           /\ \A q \in Runs : Disturbed(q) => Disturbed(q)'
           /\ \A q \in Runs : Followed(q) => Followed(q)'
           /\ \A q \in Runs : Overlapped(q) => Overlapped(q)'
<1>1. \A q \in Runs : Steps(q)' = Steps(q)
    BY StepGrows DEF Steps
<1>2. \A q \in Runs : 1..pc[q] - 1 \subseteq 1..pc'[q] - 1
    BY StepGrows DEF FileTypes
<1>3. \A q \in Runs : Wrote(q) => Wrote(q)'
    BY <1>1, <1>2 DEF Wrote
<1>4. ASSUME NEW q \in Runs, NEW step, Past(q, step) PROVE Past(q, step)'
    BY <1>1, <1>2, <1>4 DEF Past
<1>5. \A q \in Runs : Disturbed(q) => Disturbed(q)'
    BY StepGrows DEF Disturbed
<1>6. \A q \in Runs : Followed(q) => Followed(q)'
  <2> SUFFICES ASSUME NEW q \in Runs, Followed(q) PROVE Followed(q)'
      OBVIOUS
  <2>1. PICK p \in Runs \ {q} : dir[p] = dir[q] /\ Wrote(p) /\ <<q, p>> \in after
      BY DEF Followed
  <2>2. dir'[p] = dir'[q] /\ Wrote(p)' /\ <<q, p>> \in after'
      BY <1>3, <2>1, StepGrows
  <2>. QED
      BY <2>2 DEF Followed
<1>7. \A q \in Runs : Overlapped(q) => Overlapped(q)'
    BY StepGrows DEF Overlapped
<1>. QED
    BY <1>1, <1>3, <1>4, <1>5, <1>6, <1>7

\* The files an attestation is made from and of.
Core == {"passport", "envelope", "quote"}

\* What is known of a run from the step it is at.
LEMMA PlaceInScript ==
    ASSUME FileTypes, NEW r \in Runs, Running(r)
    PROVE  LET step == Steps(r)[pc[r]]
           IN  /\ Len(Steps(r)) \in Nat /\ pc[r] \in 1..Len(Steps(r))
               /\ DOMAIN Steps(r) = 1..Len(Steps(r))
               /\ step \in DerivedNames => Past(r, "passport")
               /\ step = "passport" => Past(r, "gap")
               /\ step \in {"anchor", "quote"} => Past(r, "envelope")
               /\ step = "anchor2" => Past(r, "cose")
               /\ step \in {"anchor", "anchor2"} => ~Past(r, "anchor2")
               /\ step = "attach" => pc[r] = Len(Steps(r)) /\ Past(r, "quote")
               /\ ~Past(r, "attach")
<1>. DEFINE step == Steps(r)[pc[r]]
<1>1. kind[r] \in Kinds /\ pc[r] \in Nat
    BY DEF FileTypes
<1>2. /\ Len(Steps(r)) \in Nat /\ pc[r] \in 1..Len(Steps(r))
      /\ DOMAIN Steps(r) = 1..Len(Steps(r))
    BY <1>1, FileScript DEF Running
<1>3. 1..pc[r] - 1 \subseteq DOMAIN Steps(r)
    BY <1>2
<1>4. step \in DerivedNames => Past(r, "passport")
    BY <1>1, <1>2, <1>3, FileScript DEF Past
<1>5. step = "passport" => Past(r, "gap")
    BY <1>1, <1>2, <1>3, FileScript DEF Past
<1>6. step \in {"anchor", "quote"} => Past(r, "envelope")
    BY <1>1, <1>2, <1>3, FileScript DEF Past
<1>7. step = "anchor2" => Past(r, "cose")
    BY <1>1, <1>2, <1>3, FileScript DEF Past
<1>8. step = "attach" => pc[r] = Len(Steps(r)) /\ Past(r, "quote")
  <2> SUFFICES ASSUME step = "attach" PROVE pc[r] = Len(Steps(r)) /\ Past(r, "quote")
      OBVIOUS
  <2>1. pc[r] = Len(Steps(r)) /\ pc[r] > 1 /\ Steps(r)[pc[r] - 1] = "quote"
      BY <1>1, <1>2, FileScript
  <2>2. pc[r] - 1 \in 1..pc[r] - 1
      BY <1>2, <2>1
  <2>. QED
      BY <1>3, <2>1, <2>2 DEF Past
<1>10. step \in {"anchor", "anchor2"} => ~Past(r, "anchor2")
    BY <1>1, <1>2, FileScript DEF Past
<1>9. ~Past(r, "attach")
  <2> SUFFICES ASSUME NEW k \in 1..pc[r] - 1, k \in DOMAIN Steps(r), Steps(r)[k] = "attach"
               PROVE  FALSE
      BY DEF Past
  <2>1. k = Len(Steps(r))
      BY <1>1, <1>2, FileScript
  <2>. QED
      BY <1>2, <2>1
<1>. QED
    BY <1>2, <1>4, <1>5, <1>6, <1>7, <1>8, <1>9, <1>10

\* Who is past a step that writes has written.
LEMMA PastIsMade ==
    ASSUME NEW q \in Runs, NEW step, Past(q, step), Target(step) \in Names
    PROVE  Wrote(q) /\ HasMade(q, Target(step))
BY DEF Past, Wrote, HasMade

\* Who writes the passport, the envelope or the quote has written before.
LEMMA CoreWritersWrote ==
    ASSUME FileTypes, NEW r \in Runs, Running(r), Target(Steps(r)[pc[r]]) \in Core
    PROVE  /\ Wrote(r)
           /\ Target(Steps(r)[pc[r]]) # "passport" => Past(r, "passport")
<1>1. Steps(r)[pc[r]] \in {"passport", "envelope", "quote", "attach"}
    BY DEF Target, Core
<1>2. Target("gap") = "gap" /\ Target("passport") = "passport" /\ {"gap", "passport"} \subseteq Names
    BY DEF Target, Names
<1>3. Past(r, "gap") \/ Past(r, "passport")
    BY <1>1, PlaceInScript DEF DerivedNames
<1>4. Target(Steps(r)[pc[r]]) # "passport" => Past(r, "passport")
    BY <1>1, PlaceInScript DEF DerivedNames, Target
<1>. QED
    BY <1>2, <1>3, <1>4, PastIsMade

\* What a write leaves: what was meant, or a mixture with what a rival writes.
LEMMA PutLeaves ==
    ASSUME FileTypes, NEW r \in Runs, Writes(r), NEW x, Put(r, x)
    PROVE  LET name == Target(Steps(r)[pc[r]])
           IN  /\ Advance(r) /\ lost' = lost /\ WritesAfter(r) \subseteq after'
               /\ \A d \in Dirs, n \in Names :
                     ~(d = Folder(r) /\ n = name) => files'[d][n] = files[d][n]
               /\ \/ files'[Folder(r)][name] = x
                  \/ /\ files'[Folder(r)][name] = Torn
                     /\ name # "rekor" => \E p \in Runs \ {r} :
                           /\ Running(p) /\ dir[p] = dir[r] /\ <<r, p>> \in after'
                           /\ Target(Steps(p)[pc[p]]) = name
<1>. DEFINE name == Target(Steps(r)[pc[r]])
<1>1. name \in Names /\ Folder(r) \in Dirs
    BY DEF Writes, Folder, Dirs, FileTypes
<1>2. /\ Advance(r) /\ lost' = lost /\ WritesAfter(r) \subseteq after'
      /\ \E y : files' = [files EXCEPT ![Folder(r)][name] = y]
    BY DEF Put
<1>3. \A d \in Dirs, n \in Names :
          ~(d = Folder(r) /\ n = name) => files'[d][n] = files[d][n]
    BY <1>1, <1>2 DEF FileTypes
<1>4. CASE files' = [files EXCEPT ![Folder(r)][name] = x]
    BY <1>1, <1>2, <1>3, <1>4 DEF FileTypes
<1>5. CASE /\ Rivals(r) # {}
           /\ files' = [files EXCEPT ![Folder(r)][name] = Torn]
           /\ after' = after \cup WritesAfter(r)
                            \cup {<<r, q>> : q \in {p \in Rivals(r) : dir[p] = dir[r]}}
  <2>1. files'[Folder(r)][name] = Torn
      BY <1>1, <1>5 DEF FileTypes
  <2>2. PICK p \in Runs \ {r} : /\ Writes(p) /\ Folder(p) = Folder(r)
                                /\ Target(Steps(p)[pc[p]]) = name
      BY <1>5 DEF Rivals
  <2>3. p \in Rivals(r)
      BY <2>2 DEF Rivals
  <2>4. name # "rekor" => dir[p] = dir[r]
      BY <2>2 DEF Folder
  <2>5. name # "rekor" => <<r, p>> \in after'
      BY <1>5, <2>3, <2>4
  <2>. QED
      BY <1>2, <1>3, <2>1, <2>2, <2>4, <2>5 DEF Writes
<1>. QED
    BY <1>4, <1>5 DEF Put

\* What a failed step leaves.
LEMMA TearsLeave ==
    ASSUME FileTypes, NEW r \in Runs, Running(r), Tears(r)
    PROVE  \/ files' = files
           \/ /\ Writes(r) /\ WritesAfter(r) \subseteq after'
              /\ files'[Folder(r)][Target(Steps(r)[pc[r]])] = Torn
              /\ \A d \in Dirs, n \in Names :
                    ~(d = Folder(r) /\ n = Target(Steps(r)[pc[r]])) => files'[d][n] = files[d][n]
<1>1. CASE files' = files
    BY <1>1
<1>2. CASE /\ Writes(r)
           /\ files' = [files EXCEPT ![Folder(r)][Target(Steps(r)[pc[r]])] = Torn]
           /\ after' = after \cup WritesAfter(r)
  <2>1. Target(Steps(r)[pc[r]]) \in Names /\ Folder(r) \in Dirs
      BY <1>2 DEF Writes, Folder, Dirs, FileTypes
  <2>. QED
      BY <1>2, <2>1 DEF FileTypes
<1>. QED
    BY <1>1, <1>2 DEF Tears

\* What a run leaves is what its step writes.
LEMMA LeavesWrites == ASSUME NEW r \in Runs, Leaves(r) PROVE Writes(r)
BY DEF Leaves, Writes, OwnNames, Target, Names

\* A file that is not what it was has been written, by one who now writes after all who
\* wrote to its directory before.
LEMMA ChangedIsWritten ==
    ASSUME FileTypes, [Next]_vars, NEW d \in Dirs, NEW n \in Names,
           files'[d][n] # files[d][n]
    PROVE  \E r \in Runs : /\ Running(r) /\ Target(Steps(r)[pc[r]]) = n /\ Folder(r) = d
                           /\ WritesAfter(r) \subseteq after'
                           /\ Leaves(r) \/ (GivesUp(r) /\ files'[d][n] = Torn)
<1>1. ~Idles /\ \A r \in Runs : ~Passes(r)
    BY DEF Idles, Passes, disk
<1>2. ASSUME NEW r \in Runs, Leaves(r)
      PROVE  /\ Running(r) /\ Target(Steps(r)[pc[r]]) = n /\ Folder(r) = d
             /\ WritesAfter(r) \subseteq after'
  <2>1. Writes(r) /\ \E x : Put(r, x)
      BY <1>2, LeavesWrites DEF Leaves
  <2>. QED
      BY <2>1, PutLeaves DEF Writes
<1>3. ASSUME NEW r \in Runs, GivesUp(r)
      PROVE  /\ Running(r) /\ Target(Steps(r)[pc[r]]) = n /\ Folder(r) = d
             /\ WritesAfter(r) \subseteq after' /\ files'[d][n] = Torn
    BY <1>3, TearsLeave DEF GivesUp
<1>. QED
    BY <1>1, <1>2, <1>3, FileCases DEF FileTypes

\* A run that is where it was, and alive, has done nothing.
LEMMA StaysPut ==
    ASSUME FileTypes, NEW q \in Runs, pc'[q] = pc[q], q \notin dead'
    PROVE  ~Leaves(q) /\ ~GivesUp(q)
<1>1. pc[q] \in Nat
    BY DEF FileTypes
<1>2. ~Leaves(q)
    BY <1>1 DEF Leaves, Put, Advance, FileTypes
<1>3. ~GivesUp(q)
    BY <1>1 DEF GivesUp, FileTypes
<1>. QED
    BY <1>2, <1>3

\* Another's write to a file of q's directory counts as one after q, and if it is to the
\* passport, the envelope or the quote, as one by a run that has written before.
LEMMA OthersDisturb ==
    ASSUME FileTypes, [Next]_vars, NEW q \in Runs, Wrote(q),
           NEW n \in Names \ {"rekor"}, files'[dir[q]][n] # files[dir[q]][n],
           ~Leaves(q), ~GivesUp(q)
    PROVE  Disturbed(q)' /\ (n \in Core => Followed(q)')
<1>1. PICK r \in Runs : /\ Running(r) /\ Target(Steps(r)[pc[r]]) = n /\ Folder(r) = dir[q]
                        /\ WritesAfter(r) \subseteq after' /\ (Leaves(r) \/ GivesUp(r))
    BY ChangedIsWritten DEF FileTypes
<1>2. r # q /\ dir[r] = dir[q]
    BY <1>1 DEF Folder
<1>3. <<q, r>> \in after'
    BY <1>1, <1>2 DEF WritesAfter
<1>4. n \in Core => Wrote(r)'
    BY <1>1, CoreWritersWrote, HistoryGrows
<1>. QED
    BY <1>2, <1>3, <1>4, StepGrows DEF Disturbed, Followed

----------------------------------------------------------------------------
\* The chain of one run.

\* When the file may be another's.
Excused(q, name) == IF name \in Core THEN Followed(q) ELSE Disturbed(q)

\* What q leaves in each file, if nothing fails.
Signed(q, name) == [payload |-> NewPassport(q), key |-> <<q, name>>]
Attested(q) == [by |-> q, bound |-> Signed(q, "envelope")]
Made(q, name) ==
    CASE name = "passport" -> IF Past(q, "attach") THEN Attested(q) ELSE NewPassport(q)
      [] name \in {"envelope", "cose", "receipt"} -> Signed(q, name)
      [] name = "quote" -> Signed(q, "envelope")
      [] OTHER -> q

\* The chain of q's files: each is what q made of the one before it, or someone wrote
\* after q; the same of what an attestation holds.
ChainOf(q) ==
    /\ \A name \in Names \ {"rekor"} : HasMade(q, name) =>
          Excused(q, name) \/ File(q, name) = Made(q, name)
    /\ At(q, "attach") =>
          Followed(q) \/ held[q] = [passport |-> NewPassport(q), quoted |-> Signed(q, "envelope")]
ChainInv == \A q \in Runs \ (lost \cup dead) : ChainOf(q)

\* A run that another one moves past.
LEMMA OthersChain ==
    ASSUME FileTypes, [Next]_vars, NEW q \in Runs, ChainOf(q),
           pc'[q] = pc[q], held'[q] = held[q],
           \A n \in Names \ {"rekor"} : Wrote(q) =>
               files'[dir[q]][n] = files[dir[q]][n] \/ (Disturbed(q)' /\ (n \in Core => Followed(q)'))
    PROVE  ChainOf(q)'
<1>1. Steps(q)' = Steps(q) /\ dir'[q] = dir[q]
    BY StepGrows, HistoryGrows
<1>2. \A n : HasMade(q, n)' <=> HasMade(q, n)
    BY <1>1 DEF HasMade
<1>3. \A step : Past(q, step)' <=> Past(q, step)
    BY <1>1 DEF Past
<1>4. ASSUME NEW n \in Names \ {"rekor"}, HasMade(q, n)'
      PROVE  Excused(q, n)' \/ File(q, n)' = Made(q, n)'
  <2>1. HasMade(q, n) /\ Wrote(q)
      BY <1>2, <1>4 DEF HasMade, Wrote
  <2>2. Excused(q, n) \/ File(q, n) = Made(q, n)
      BY <2>1 DEF ChainOf
  <2>3. Excused(q, n) => Excused(q, n)'
      BY HistoryGrows DEF Excused
  <2>4. Made(q, n)' = Made(q, n)
      BY <1>3 DEF Made, Attested, Signed, NewPassport
  <2>5. File(q, n)' = File(q, n) \/ Excused(q, n)'
      BY <1>1, <2>1 DEF File, Excused
  <2>. QED
      BY <2>2, <2>3, <2>4, <2>5
<1>5. ASSUME At(q, "attach")'
      PROVE  \/ Followed(q)'
             \/ held'[q] = [passport |-> NewPassport(q)', quoted |-> Signed(q, "envelope")']
  <2>1. At(q, "attach")
      BY <1>1, <1>5, StepGrows DEF At, Running
  <2>. QED
      BY <2>1, HistoryGrows DEF ChainOf, Signed, NewPassport
<1>. QED
    BY <1>4, <1>5 DEF ChainOf

\* What a run of which everything is in order leaves.
LEMMA OwnContent ==
    ASSUME FileTypes, NEW q \in Runs, ChainOf(q), Leaves(q),
           Target(Steps(q)[pc[q]]) # "rekor"
    PROVE  LET step == Steps(q)[pc[q]]
               name == Target(step)
           IN  \E x : /\ Put(q, x)
                      /\ \/ Followed(q) /\ (name \in {"cose", "receipt"} \cup Core)
                         \/ x = IF step = "attach" THEN Attested(q)
                                ELSE IF step = "passport" THEN NewPassport(q)
                                ELSE Made(q, name)
<1>. DEFINE step == Steps(q)[pc[q]]
            name == Target(step)
<1>0. Running(q)
    BY DEF Leaves
<1>1. Past(q, "passport") => Followed(q) \/ File(q, "passport") = NewPassport(q)
  <2>1. Past(q, "passport") => HasMade(q, "passport")
      BY DEF Past, HasMade, Target
  <2>2. Excused(q, "passport") = Followed(q) /\ Made(q, "passport") = NewPassport(q)
      BY <1>0, PlaceInScript DEF Excused, Core, Made
  <2>. QED
      BY <2>1, <2>2 DEF ChainOf, Names
<1>2. Past(q, "envelope") => Followed(q) \/ File(q, "envelope") = Signed(q, "envelope")
  <2>1. Past(q, "envelope") => HasMade(q, "envelope")
      BY DEF Past, HasMade, Target
  <2>2. Excused(q, "envelope") = Followed(q) /\ Made(q, "envelope") = Signed(q, "envelope")
      BY DEF Excused, Core, Made
  <2>. QED
      BY <2>1, <2>2 DEF ChainOf, Names
<1>3. CASE step \in OwnNames
  <2>1. Put(q, q) /\ name = step /\ step \notin {"attach", "passport"}
      BY <1>3 DEF Leaves, OwnNames, Target
  <2>2. Made(q, name) = q
      BY <1>3, <2>1 DEF OwnNames, Made
  <2>. QED
      BY <2>1, <2>2
<1>4. CASE step = "passport"
  <2>1. Put(q, NewPassport(q))
      BY <1>4 DEF Leaves, OwnNames
  <2>. QED
      BY <1>4, <2>1
<1>5. CASE step \in {"envelope", "cose", "receipt"}
  <2>1. Put(q, [payload |-> File(q, "passport"), key |-> <<q, step>>])
      BY <1>5 DEF Leaves, OwnNames
  <2>2. name = step /\ Made(q, name) = Signed(q, step)
      BY <1>5 DEF Target, Made
  <2>3. Past(q, "passport")
      BY <1>0, <1>5, PlaceInScript DEF DerivedNames
  <2>4. CASE Followed(q)
      BY <1>5, <2>1, <2>2, <2>4 DEF Core
  <2>5. CASE File(q, "passport") = NewPassport(q)
      BY <1>5, <2>1, <2>2, <2>5 DEF Signed
  <2>. QED
      BY <1>1, <2>3, <2>4, <2>5
<1>6. CASE step \in {"anchor", "anchor2"}
    BY <1>6 DEF Target
<1>7. CASE step = "quote"
  <2>1. Put(q, File(q, "envelope"))
      BY <1>7 DEF Leaves, OwnNames
  <2>2. name = step /\ Made(q, name) = Signed(q, "envelope")
      BY <1>7 DEF Target, Made
  <2>3. Past(q, "envelope")
      BY <1>0, <1>7, PlaceInScript
  <2>. QED
      BY <1>2, <1>7, <2>1, <2>2, <2>3 DEF Core
<1>8. CASE step = "attach"
  <2>1. Put(q, [held[q].passport EXCEPT !.bound = held[q].quoted])
      BY <1>8 DEF Leaves, OwnNames
  <2>2. \/ Followed(q)
        \/ held[q] = [passport |-> NewPassport(q), quoted |-> Signed(q, "envelope")]
      BY <1>0, <1>8 DEF ChainOf, At
  <2>3. ASSUME held[q] = [passport |-> NewPassport(q), quoted |-> Signed(q, "envelope")]
        PROVE  [held[q].passport EXCEPT !.bound = held[q].quoted] = Attested(q)
      BY <2>3 DEF NewPassport, Attested
  <2>. QED
      BY <1>8, <2>1, <2>2, <2>3 DEF Core, Target
<1>. QED
    BY <1>3, <1>4, <1>5, <1>6, <1>7, <1>8 DEF Leaves

\* A run that moves on without writing.
LEMMA PassesChain ==
    ASSUME FileTypes, [Next]_vars, NEW q \in Runs, ChainOf(q), Passes(q)
    PROVE  ChainOf(q)'
<1>1. /\ Steps(q)' = Steps(q) /\ dir' = dir /\ pc'[q] = pc[q] + 1 /\ files' = files
      /\ pc[q] \in Nat /\ kind[q] \in Kinds /\ dead' = dead
    BY HistoryGrows DEF Passes, Advance, disk, FileTypes
<1>2. \A k \in 1..pc'[q] - 1 : k \in 1..pc[q] - 1 \/ k = pc[q]
    BY <1>1
<1>3. pc[q] = 0 \/ (Running(q) /\ Target(Steps(q)[pc[q]]) \notin Names)
    BY DEF Passes
<1>4. pc[q] = 0 => 1..pc'[q] - 1 = {}
    BY <1>1
<1>5. ASSUME NEW n \in Names, HasMade(q, n)' PROVE HasMade(q, n)
  <2>1. PICK k \in 1..pc'[q] - 1 : k \in DOMAIN Steps(q) /\ Target(Steps(q)[k]) = n
      BY <1>1, <1>5 DEF HasMade
  <2>2. k # pc[q]
      BY <1>3, <1>4, <2>1
  <2>. QED
      BY <1>2, <2>1, <2>2 DEF HasMade
<1>6. Past(q, "attach")' <=> Past(q, "attach")
  <2>1. ASSUME Past(q, "attach")' PROVE Past(q, "attach")
    <3>1. PICK k \in 1..pc'[q] - 1 : k \in DOMAIN Steps(q) /\ Steps(q)[k] = "attach"
        BY <1>1, <2>1 DEF Past
    <3>2. Target("attach") \in Names
        BY DEF Target, Names
    <3>3. k # pc[q]
        BY <1>3, <1>4, <3>1, <3>2
    <3>. QED
        BY <1>2, <3>1, <3>3 DEF Past
  <2>. QED
      BY <2>1, HistoryGrows
<1>7. ~At(q, "attach")'
  <2> SUFFICES ASSUME At(q, "attach")' PROVE FALSE
      OBVIOUS
  <2>1. pc'[q] \in 1..Len(Steps(q)) /\ Steps(q)[pc'[q]] = "attach"
      BY <1>1 DEF At, Running
  <2>2. pc'[q] > 1 /\ Steps(q)[pc'[q] - 1] = "quote"
      BY <1>1, <2>1, FileScript
  <2>3. pc'[q] - 1 = pc[q] /\ pc[q] # 0
      BY <1>1, <2>2
  <2>. QED
      BY <1>3, <2>2, <2>3 DEF Target, Names
<1>8. ASSUME NEW n \in Names \ {"rekor"}, HasMade(q, n)'
      PROVE  Excused(q, n)' \/ File(q, n)' = Made(q, n)'
  <2>1. Excused(q, n) \/ File(q, n) = Made(q, n)
      BY <1>5, <1>8 DEF ChainOf
  <2>2. Excused(q, n) => Excused(q, n)'
      BY HistoryGrows DEF Excused
  <2>3. Made(q, n)' = Made(q, n)
      BY <1>6 DEF Made, Attested, Signed, NewPassport
  <2>4. File(q, n)' = File(q, n)
      BY <1>1 DEF File
  <2>. QED
      BY <2>1, <2>2, <2>3, <2>4
<1>. QED
    BY <1>7, <1>8 DEF ChainOf

\* A run that leaves a file.
LEMMA LeavesChain ==
    ASSUME FileTypes, [Next]_vars, NEW q \in Runs, ChainOf(q), Leaves(q)
    PROVE  ChainOf(q)'
<1>. DEFINE step == Steps(q)[pc[q]]
            name == Target(step)
<1>0. Running(q) /\ Writes(q) /\ \E x : Put(q, x)
    BY LeavesWrites DEF Leaves
<1>1. /\ Steps(q)' = Steps(q) /\ dir' = dir /\ pc'[q] = pc[q] + 1
      /\ pc[q] \in Nat /\ kind[q] \in Kinds /\ dir[q] \in Dirs /\ DOMAIN held = Runs
    BY <1>0, HistoryGrows DEF Put, Advance, FileTypes
<1>2. /\ Len(Steps(q)) \in Nat /\ pc[q] \in 1..Len(Steps(q)) /\ DOMAIN Steps(q) = 1..Len(Steps(q))
      /\ ~Past(q, "attach")
    BY <1>0, PlaceInScript
<1>3. \A k \in 1..pc'[q] - 1 : k \in 1..pc[q] - 1 \/ k = pc[q]
    BY <1>1
<1>4. pc[q] \in 1..pc'[q] - 1
    BY <1>1, <1>2
<1>5. ASSUME NEW n, HasMade(q, n)' PROVE HasMade(q, n) \/ n = name
    BY <1>1, <1>3, <1>5 DEF HasMade
<1>6. Past(q, "attach")' <=> step = "attach"
  <2>1. ASSUME Past(q, "attach")' PROVE step = "attach"
      BY <1>1, <1>2, <1>3, <2>1 DEF Past
  <2>2. ASSUME step = "attach" PROVE Past(q, "attach")'
      BY <1>1, <1>2, <1>4, <2>2 DEF Past
  <2>. QED
      BY <2>1, <2>2
<1>7. ASSUME NEW n \in Names \ {"rekor"}, n = name
      PROVE  Excused(q, n)' \/ File(q, n)' = Made(q, n)'
  <2>1. PICK x : /\ Put(q, x)
                 /\ \/ Followed(q) /\ (n \in {"cose", "receipt"} \cup Core)
                    \/ x = IF step = "attach" THEN Attested(q)
                           ELSE IF step = "passport" THEN NewPassport(q)
                           ELSE Made(q, n)
      BY <1>7, OwnContent
  <2>2. Folder(q) = dir[q]
      BY <1>7 DEF Folder
  <2>3. \/ File(q, n)' = x
        \/ \E p \in Runs \ {q} : /\ Running(p) /\ dir[p] = dir[q] /\ <<q, p>> \in after'
                                 /\ Target(Steps(p)[pc[p]]) = n
      BY <1>0, <1>1, <1>7, <2>1, <2>2, PutLeaves DEF File
  <2>4. ASSUME NEW p \in Runs \ {q}, Running(p), dir[p] = dir[q], <<q, p>> \in after',
               Target(Steps(p)[pc[p]]) = n
        PROVE  Excused(q, n)'
    <3>1. n \in Core => Wrote(p)'
        BY <2>4, CoreWritersWrote, HistoryGrows
    <3>. QED
        BY <1>1, <2>4, <3>1 DEF Excused, Followed, Disturbed
  <2>5. Followed(q) => Excused(q, n)'
      BY HistoryGrows DEF Excused, Followed, Disturbed
  <2>6. Made(q, n)' = IF step = "attach" THEN Attested(q)
                         ELSE IF step = "passport" THEN NewPassport(q)
                         ELSE Made(q, n)
    <3>1. CASE n = "passport"
      <4>1. step \in {"attach", "passport"}
          BY <1>7, <3>1 DEF Target
      <4>. QED
          BY <1>6, <3>1, <4>1 DEF Made, Attested, Signed, NewPassport
    <3>2. CASE n # "passport"
      <4>1. step \notin {"attach", "passport"}
          BY <1>7, <3>2 DEF Target
      <4>. QED
          BY <3>2, <4>1 DEF Made, Signed, NewPassport
    <3>. QED
        BY <3>1, <3>2
  <2>. QED
      BY <2>1, <2>3, <2>4, <2>5, <2>6
<1>8. ASSUME NEW n \in Names \ {"rekor"}, n # name, HasMade(q, n)'
      PROVE  Excused(q, n)' \/ File(q, n)' = Made(q, n)'
  <2>1. Excused(q, n) \/ File(q, n) = Made(q, n)
      BY <1>5, <1>8 DEF ChainOf
  <2>2. Excused(q, n) => Excused(q, n)'
      BY HistoryGrows DEF Excused
  <2>3. n = "passport" => step # "attach"
      BY <1>8 DEF Target
  <2>4. Made(q, n)' = Made(q, n)
      BY <1>2, <1>6, <2>3 DEF Made, Attested, Signed, NewPassport
  <2>5. File(q, n)' = File(q, n)
      BY <1>0, <1>1, <1>8, PutLeaves DEF File
  <2>. QED
      BY <2>1, <2>2, <2>4, <2>5
<1>9. ASSUME At(q, "attach")'
      PROVE  \/ Followed(q)'
             \/ held'[q] = [passport |-> NewPassport(q)', quoted |-> Signed(q, "envelope")']
  <2>1. pc'[q] \in 1..Len(Steps(q)) /\ Steps(q)[pc'[q]] = "attach"
      BY <1>1, <1>9 DEF At, Running
  <2>2. step = "quote"
    <3>1. pc'[q] > 1 /\ Steps(q)[pc'[q] - 1] = "quote"
        BY <1>1, <2>1, FileScript
    <3>. QED
        BY <1>1, <3>1
  <2>3. held'[q] = [passport |-> File(q, "passport"), quoted |-> File(q, "envelope")]
      BY <1>1, <2>2 DEF Leaves, OwnNames
  <2>4. Past(q, "passport") /\ Past(q, "envelope")
      BY <1>0, <2>2, PlaceInScript DEF DerivedNames
  <2>5. HasMade(q, "passport") /\ HasMade(q, "envelope")
      BY <2>4 DEF Past, HasMade, Target
  <2>6. \/ Followed(q)
        \/ File(q, "passport") = Made(q, "passport") /\ File(q, "envelope") = Made(q, "envelope")
      BY <2>5 DEF ChainOf, Excused, Core, Names
  <2>7. Made(q, "passport") = NewPassport(q) /\ Made(q, "envelope") = Signed(q, "envelope")
      BY <1>2 DEF Made
  <2>8. NewPassport(q)' = NewPassport(q) /\ Signed(q, "envelope")' = Signed(q, "envelope")
      BY DEF Signed, NewPassport
  <2>. QED
      BY <2>3, <2>6, <2>7, <2>8, HistoryGrows
<1>10. ASSUME NEW n \in Names \ {"rekor"}, HasMade(q, n)'
       PROVE  Excused(q, n)' \/ File(q, n)' = Made(q, n)'
    BY <1>7, <1>8, <1>10
<1>. QED
    BY <1>9, <1>10 DEF ChainOf

\* The runs that stay where they are.
LEMMA OthersStay ==
    ASSUME FileTypes, NEW q \in Runs
    PROVE  /\ Idles => pc'[q] = pc[q] /\ held'[q] = held[q]
           /\ \A r \in Runs \ {q} : Passes(r) \/ Leaves(r) \/ GivesUp(r) =>
                 pc'[q] = pc[q] /\ held'[q] = held[q]
<1>1. Idles => pc'[q] = pc[q] /\ held'[q] = held[q]
    BY DEF Idles
<1>2. ASSUME NEW r \in Runs \ {q}, Passes(r) \/ Leaves(r) PROVE Advance(r)
    BY <1>2 DEF Passes, Leaves, Put
<1>3. ASSUME NEW r \in Runs \ {q}, Advance(r) PROVE pc'[q] = pc[q]
    BY <1>3 DEF Advance, FileTypes
<1>4. ASSUME NEW r \in Runs \ {q}, Passes(r) \/ Leaves(r) \/ GivesUp(r)
      PROVE  held' = held \/ \E x : held' = [held EXCEPT ![r] = x]
    BY <1>4 DEF Passes, Leaves, GivesUp
<1>5. ASSUME NEW r \in Runs \ {q}, GivesUp(r) PROVE pc'[q] = pc[q]
    BY <1>5 DEF GivesUp, FileTypes
<1>. QED
    BY <1>1, <1>2, <1>3, <1>4, <1>5 DEF FileTypes

\* Every step keeps the chain of every run of which nothing has failed.
LEMMA ChainStep == ASSUME FileTypes, ChainInv, [Next]_vars PROVE ChainInv'
<1> SUFFICES ASSUME NEW q \in Runs, q \notin lost' \cup dead' PROVE ChainOf(q)'
    BY DEF ChainInv
<1>1. q \notin lost \cup dead /\ ChainOf(q)
    BY StepGrows DEF ChainInv
<1>2. ~GivesUp(q)
    BY DEF GivesUp
<1>3. CASE Passes(q)
    BY <1>1, <1>3, PassesChain
<1>4. CASE Leaves(q)
    BY <1>1, <1>4, LeavesChain
<1>5. CASE Idles \/ \E r \in Runs \ {q} : Passes(r) \/ Leaves(r) \/ GivesUp(r)
  <2>1. pc'[q] = pc[q] /\ held'[q] = held[q]
      BY <1>5, OthersStay
  <2>2. ASSUME NEW n \in Names \ {"rekor"}, Wrote(q), files'[dir[q]][n] # files[dir[q]][n]
        PROVE  Disturbed(q)' /\ (n \in Core => Followed(q)')
      BY <2>1, <2>2, StaysPut, OthersDisturb
  <2>. QED
      BY <1>1, <2>1, <2>2, OthersChain
<1>. QED
    BY <1>2, <1>3, <1>4, <1>5, FileCases DEF FileTypes

----------------------------------------------------------------------------
\* Whose passport there is, and what it is bound to.

\* Whose passport is in a directory: one that the others there wrote after, and that if it
\* is attested, is at the end of its run.
PassportOf(d, b, x) ==
    /\ files[d]["passport"] = [by |-> b, bound |-> x]
    /\ dir[b] = d /\ Past(b, "passport")
    /\ \/ Overlapped(b)
       \/ /\ \A p \in Runs \ {b} : dir[p] = d /\ Past(p, "passport") => <<p, b>> \in after
          /\ x # Unbound => /\ Done(b) /\ files[d]["quote"] = x
                            /\ b \in lost \/ x.payload = NewPassport(b)
PassportInv ==
    \A d \in Dirs : Readable(files[d]["passport"]) => \E b \in Runs : \E x : PassportOf(d, b, x)

\* What an attestation holds: another's passport, or its own and the envelope quoted.
HeldOf(q, c, x, y) ==
    /\ held[q] = [passport |-> [by |-> c, bound |-> x], quoted |-> y]
    /\ dir[c] = dir[q] /\ Past(c, "passport")
    /\ c # q => Overlapped(c) \/ <<q, c>> \in after
    /\ c = q => \/ Overlapped(q) \/ Followed(q)
                \/ /\ File(q, "quote") = y
                   /\ q \in lost \/ y.payload = NewPassport(q)
HeldInv == \A q \in Runs : At(q, "attach") => \E c \in Runs : \E x, y : HeldOf(q, c, x, y)

\* What is held is taken from the files one step before it is used.
LEMMA HeldStep ==
    ASSUME FileTypes, ChainInv, PassportInv, HeldInv, [Next]_vars PROVE HeldInv'
<1> SUFFICES ASSUME NEW q \in Runs, At(q, "attach")'
             PROVE  \E c \in Runs : \E x, y : HeldOf(q, c, x, y)'
    BY DEF HeldInv
<1>1. /\ Steps(q)' = Steps(q) /\ dir' = dir /\ kind[q] \in Kinds /\ pc[q] \in Nat
      /\ dir[q] \in Dirs /\ DOMAIN held = Runs
    BY StepGrows, HistoryGrows DEF FileTypes
<1>2. pc'[q] \in 1..Len(Steps(q)) /\ Steps(q)[pc'[q]] = "attach" /\ q \notin dead'
    BY <1>1 DEF At, Running
<1>3. pc'[q] > 1 /\ Steps(q)[pc'[q] - 1] = "quote"
    BY <1>1, <1>2, FileScript
<1>4. Target("quote") = "quote" /\ Target("passport") = "passport" /\ Target("envelope") = "envelope"
      /\ {"quote", "passport", "envelope"} \subseteq Names \ {"rekor"}
    BY DEF Target, Names
<1>5. CASE pc'[q] = pc[q] /\ held'[q] = held[q]
  <2>1. At(q, "attach")
      BY <1>1, <1>2, <1>5, StepGrows DEF At, Running
  <2>2. PICK c \in Runs : \E x, y : HeldOf(q, c, x, y)
      BY <2>1 DEF HeldInv
  <2>3. PICK x, y : HeldOf(q, c, x, y)
      BY <2>2
  <2>4. held'[q] = [passport |-> [by |-> c, bound |-> x], quoted |-> y]
        /\ dir'[c] = dir'[q] /\ Past(c, "passport")'
      BY <1>1, <1>5, <2>3, HistoryGrows DEF HeldOf
  <2>5. c # q => Overlapped(c)' \/ <<q, c>> \in after'
      BY <2>3, StepGrows, HistoryGrows DEF HeldOf
  <2>6. c = q => \/ Overlapped(q)' \/ Followed(q)'
                 \/ /\ File(q, "quote")' = y
                    /\ q \in lost' \/ y.payload = NewPassport(q)
    <3>1. Wrote(q)
        BY <1>4, <2>1, PlaceInScript, PastIsMade DEF At
    <3>2. files'[dir[q]]["quote"] = files[dir[q]]["quote"] \/ Followed(q)'
        BY <1>2, <1>4, <1>5, <3>1, StaysPut, OthersDisturb DEF Core
    <3>3. File(q, "quote")' = File(q, "quote") \/ Followed(q)'
        BY <1>1, <3>2 DEF File
    <3>. QED
        BY <2>3, <3>3, StepGrows, HistoryGrows DEF HeldOf
  <2>7. HeldOf(q, c, x, y)'
      BY <2>4, <2>5, <2>6 DEF HeldOf, NewPassport
  <2>. QED
      BY <2>7
<1>6. CASE Leaves(q)
  <2>1. Running(q) /\ Writes(q) /\ pc'[q] = pc[q] + 1
      BY <1>1, <1>6, LeavesWrites DEF Leaves, Put, Advance, FileTypes
  <2>2. Steps(q)[pc[q]] = "quote"
      BY <1>1, <1>3, <2>1
  <2>3. /\ Readable(File(q, "passport")) /\ Put(q, File(q, "envelope"))
        /\ held'[q] = [passport |-> File(q, "passport"), quoted |-> File(q, "envelope")]
      BY <1>1, <1>6, <2>2 DEF Leaves, OwnNames
  <2>4. Past(q, "passport") /\ Past(q, "envelope")
      BY <2>1, <2>2, PlaceInScript DEF DerivedNames
  <2>5. PICK c \in Runs : \E x : PassportOf(dir[q], c, x)
      BY <1>1, <2>3 DEF PassportInv, File
  <2>6. PICK x : PassportOf(dir[q], c, x)
      BY <2>5
  <2>7. PICK y : y = File(q, "envelope")
      OBVIOUS
  <2>8. held'[q] = [passport |-> [by |-> c, bound |-> x], quoted |-> y]
        /\ dir'[c] = dir'[q] /\ Past(c, "passport")'
      BY <1>1, <2>3, <2>6, <2>7, HistoryGrows DEF PassportOf, File
  <2>9. c # q => Overlapped(c)' \/ <<q, c>> \in after'
      BY <2>4, <2>6, StepGrows, HistoryGrows DEF PassportOf
  <2>10. File(q, "quote")' = y \/ Followed(q)'
    <3>0. Target(Steps(q)[pc[q]]) = "quote" /\ Folder(q) = dir[q] /\ Put(q, y)
        BY <1>4, <2>2, <2>3, <2>7 DEF Folder
    <3>1. \/ files'[dir[q]]["quote"] = y
          \/ \E p \in Runs \ {q} : /\ Running(p) /\ dir[p] = dir[q] /\ <<q, p>> \in after'
                                   /\ Target(Steps(p)[pc[p]]) = "quote"
        BY <2>1, <3>0, PutLeaves
    <3>2. ASSUME NEW p \in Runs \ {q}, Running(p), dir[p] = dir[q], <<q, p>> \in after',
                 Target(Steps(p)[pc[p]]) = "quote"
          PROVE  Followed(q)'
      <4>1. Wrote(p)'
          BY <3>2, CoreWritersWrote, HistoryGrows DEF Core
      <4>. QED
          BY <1>1, <3>2, <4>1 DEF Followed
    <3>. QED
        BY <1>1, <3>1, <3>2 DEF File
  <2>11. Followed(q)' \/ q \in lost' \/ y.payload = NewPassport(q)
    <3>1. CASE q \in lost
        BY <3>1, StepGrows
    <3>2. CASE q \notin lost
      <4>1. ChainOf(q)
          BY <2>1, <3>2 DEF ChainInv, Running
      <4>2. HasMade(q, "envelope")
          BY <1>4, <2>4, PastIsMade
      <4>3. Followed(q) \/ y = Signed(q, "envelope")
          BY <1>4, <2>7, <4>1, <4>2 DEF ChainOf, Excused, Core, Made
      <4>. QED
          BY <4>3, HistoryGrows DEF Signed
    <3>. QED
        BY <3>1, <3>2
  <2>12. HeldOf(q, c, x, y)'
      BY <2>8, <2>9, <2>10, <2>11 DEF HeldOf, NewPassport
  <2>. QED
      BY <2>12
<1>7. ~Passes(q)
  <2> SUFFICES ASSUME Passes(q) PROVE FALSE
      OBVIOUS
  <2>1. pc'[q] = pc[q] + 1 /\ (pc[q] = 0 \/ Target(Steps(q)[pc[q]]) \notin Names)
      BY DEF Passes, Advance, FileTypes
  <2>2. pc[q] = pc'[q] - 1 /\ pc[q] # 0
      BY <1>1, <1>3, <2>1
  <2>. QED
      BY <1>3, <1>4, <2>1, <2>2
<1>8. ~GivesUp(q)
  <2> SUFFICES ASSUME GivesUp(q) PROVE FALSE
      OBVIOUS
  <2>1. PICK next \in pc[q] + 1..Len(Steps(q)) + 1 :
            /\ pc' = [pc EXCEPT ![q] = next]
            /\ next \in DOMAIN Steps(q) => Steps(q)[next] # "attach"
      BY <1>2 DEF GivesUp
  <2>2. pc'[q] = next
      BY <2>1 DEF FileTypes
  <2>. QED
      BY <1>1, <1>2, <2>1, <2>2, FileScript
<1>. QED
    BY <1>5, <1>6, <1>7, <1>8, FileCases, OthersStay DEF FileTypes

\* A run gets past a step that writes by leaving its file, unless it gives up a block.
LEMMA PastByLeaving ==
    ASSUME FileTypes, [Next]_vars, NEW q \in Runs, NEW step, Target(step) \in Names,
           step \notin DerivedNames \/ q \notin lost' \cup dead',
           Past(q, step)', ~Past(q, step)
    PROVE  Leaves(q) /\ Steps(q)[pc[q]] = step
<1>1. Steps(q)' = Steps(q) /\ pc[q] \in Nat /\ pc'[q] \in Nat
    BY StepGrows, HistoryGrows DEF FileTypes
<1>2. PICK k \in 1..pc'[q] - 1 : k \in DOMAIN Steps(q) /\ Steps(q)[k] = step
    BY <1>1 DEF Past
<1>3. k \notin 1..pc[q] - 1
    BY <1>2 DEF Past
<1>4. k \in pc[q]..pc'[q] - 1 /\ pc'[q] # pc[q]
    BY <1>1, <1>2, <1>3
<1>5. ~GivesUp(q)
  <2> SUFFICES ASSUME GivesUp(q) PROVE FALSE
      OBVIOUS
  <2>1. PICK next \in pc[q] + 1..Len(Steps(q)) + 1 :
            /\ pc' = [pc EXCEPT ![q] = next]
            /\ \A j \in pc[q]..next - 1 : Steps(q)[j] \in DerivedNames
      BY <1>4 DEF GivesUp
  <2>2. pc'[q] = next
      BY <2>1 DEF FileTypes
  <2>3. step \in DerivedNames
      BY <1>2, <1>4, <2>1, <2>2
  <2>. QED
      BY <2>3 DEF GivesUp
<1>6. ~Passes(q)
  <2> SUFFICES ASSUME Passes(q) PROVE FALSE
      OBVIOUS
  <2>1. pc'[q] = pc[q] + 1 /\ (pc[q] = 0 \/ Target(Steps(q)[pc[q]]) \notin Names)
      BY DEF Passes, Advance, FileTypes
  <2>2. k = pc[q] /\ pc[q] # 0
      BY <1>1, <1>2, <1>4, <2>1
  <2>. QED
      BY <1>2, <2>1, <2>2
<1>7. Leaves(q)
    BY <1>4, <1>5, <1>6, FileCases, OthersStay DEF FileTypes
<1>8. k = pc[q]
  <2>1. pc'[q] = pc[q] + 1
      BY <1>7 DEF Leaves, Put, Advance, FileTypes
  <2>. QED
      BY <1>1, <1>4, <2>1
<1>. QED
    BY <1>2, <1>7, <1>8

\* The steps that write the passport.
LEMMA PassportWriters ==
    ASSUME FileTypes, [Next]_vars, NEW r \in Runs, Leaves(r),
           Target(Steps(r)[pc[r]]) = "passport", Readable(files'[dir[r]]["passport"])
    PROVE  /\ Writes(r) /\ Folder(r) = dir[r] /\ pc'[r] = pc[r] + 1 /\ WritesAfter(r) \subseteq after'
           /\ \A n \in Names \ {"passport"} : files'[dir[r]][n] = files[dir[r]][n]
           /\ \/ /\ Steps(r)[pc[r]] = "passport"
                 /\ files'[dir[r]]["passport"] = NewPassport(r)
              \/ /\ Steps(r)[pc[r]] = "attach"
                 /\ files'[dir[r]]["passport"] = [held[r].passport EXCEPT !.bound = held[r].quoted]
<1>1. Writes(r) /\ Running(r)
    BY LeavesWrites DEF Leaves
<1>2. Steps(r)[pc[r]] \in {"passport", "attach"}
    BY DEF Target
<1>3. Folder(r) = dir[r] /\ dir[r] \in Dirs
    BY DEF Folder, FileTypes
<1>4. files'[dir[r]]["passport"] # Torn
    BY DEF Readable
<1>5. CASE Steps(r)[pc[r]] = "passport"
  <2>1. Put(r, NewPassport(r))
      BY <1>5 DEF Leaves, OwnNames
  <2>2. files'[dir[r]]["passport"] = NewPassport(r)
      BY <1>1, <1>3, <1>4, <2>1, PutLeaves
  <2>3. /\ WritesAfter(r) \subseteq after' /\ Advance(r)
        /\ \A n \in Names \ {"passport"} : files'[dir[r]][n] = files[dir[r]][n]
      BY <1>1, <1>3, <2>1, PutLeaves
  <2>. QED
      BY <1>1, <1>3, <1>5, <2>2, <2>3 DEF Advance, FileTypes
<1>6. CASE Steps(r)[pc[r]] = "attach"
  <2>1. PICK x : x = [held[r].passport EXCEPT !.bound = held[r].quoted]
      OBVIOUS
  <2>2. Put(r, x)
      BY <1>6, <2>1 DEF Leaves, OwnNames
  <2>3. files'[dir[r]]["passport"] = x
      BY <1>1, <1>3, <1>4, <2>2, PutLeaves
  <2>4. /\ WritesAfter(r) \subseteq after' /\ Advance(r)
        /\ \A n \in Names \ {"passport"} : files'[dir[r]][n] = files[dir[r]][n]
      BY <1>1, <1>3, <2>2, PutLeaves
  <2>. QED
      BY <1>1, <1>3, <1>6, <2>1, <2>3, <2>4 DEF Advance, FileTypes
<1>. QED
    BY <1>2, <1>5, <1>6

\* All that have a passport in r's directory are written after when r writes.
LEMMA WritesAfterAll ==
    ASSUME FileTypes, [Next]_vars, NEW r \in Runs, WritesAfter(r) \subseteq after',
           Leaves(r)
    PROVE  \A p \in Runs \ {r} : dir'[p] = dir[r] /\ Past(p, "passport")' => <<p, r>> \in after'
<1> SUFFICES ASSUME NEW p \in Runs \ {r}, dir'[p] = dir[r], Past(p, "passport")'
             PROVE  <<p, r>> \in after'
    OBVIOUS
<1>1. pc'[p] = pc[p] /\ Steps(p)' = Steps(p) /\ dir[p] = dir[r]
    BY OthersStay, HistoryGrows, StepGrows
<1>2. Past(p, "passport")
    BY <1>1 DEF Past
<1>3. Wrote(p)
    BY <1>2, PastIsMade DEF Target, Names
<1>. QED
    BY <1>1, <1>3 DEF WritesAfter

\* A passport that stays is still the last one of its directory; one that is written is of
\* the run that writes it, or of the one whose passport an attestation held.
LEMMA PassportStep ==
    ASSUME FileTypes, PassportInv, HeldInv, [Next]_vars PROVE PassportInv'
<1> SUFFICES ASSUME NEW d \in Dirs, Readable(files'[d]["passport"])
             PROVE  \E b \in Runs : \E x : PassportOf(d, b, x)'
    BY DEF PassportInv, Readable
<1>0. /\ dir' = dir /\ \A p \in Runs : Steps(p)' = Steps(p)
      /\ "passport" \in Names /\ "quote" \in Names /\ Target("passport") = "passport"
    BY StepGrows, HistoryGrows DEF Names, Target
<1>1. CASE files'[d]["passport"] = files[d]["passport"]
  <2>1. PICK b \in Runs : \E x : PassportOf(d, b, x)
      BY <1>1 DEF PassportInv
  <2>2. PICK x : PassportOf(d, b, x)
      BY <2>1
  <2>3. /\ files'[d]["passport"] = [by |-> b, bound |-> x]
        /\ dir'[b] = d /\ Past(b, "passport")' /\ Wrote(b)
      BY <1>0, <1>1, <2>2, HistoryGrows, PastIsMade DEF PassportOf
  <2>4. CASE Overlapped(b)
      BY <2>3, <2>4, HistoryGrows DEF PassportOf
  <2>5. CASE ~Overlapped(b)
    <3>1. /\ \A p \in Runs \ {b} : dir[p] = d /\ Past(p, "passport") => <<p, b>> \in after
          /\ x # Unbound => /\ Done(b) /\ files[d]["quote"] = x
                            /\ b \in lost \/ x.payload = NewPassport(b)
        BY <2>2, <2>5 DEF PassportOf
    <3>2. ASSUME NEW p \in Runs \ {b}, dir'[p] = d, Past(p, "passport")'
          PROVE  <<p, b>> \in after'
      <4>1. CASE Past(p, "passport")
          BY <1>0, <3>1, <3>2, <4>1, StepGrows
      <4>2. CASE ~Past(p, "passport")
        <5>1. Leaves(p) /\ Steps(p)[pc[p]] = "passport"
            BY <1>0, <3>2, <4>2, PastByLeaving DEF DerivedNames
        <5>2. files'[d]["passport"] = NewPassport(p)
            BY <1>0, <3>2, <5>1, PassportWriters
        <5>. QED
            BY <2>3, <5>2 DEF NewPassport
      <4>. QED
          BY <4>1, <4>2
    <3>3. ASSUME x # Unbound
          PROVE  \/ Overlapped(b)'
                 \/ Done(b)' /\ files'[d]["quote"] = x /\ (b \in lost' \/ x.payload = NewPassport(b))
      <4>1. /\ Done(b) /\ files[d]["quote"] = x
            /\ b \in lost \/ x.payload = NewPassport(b)
          BY <3>1, <3>3
      <4>2. pc[b] = Len(Steps(b)) + 1 /\ Len(Steps(b)) \in Nat
          BY <4>1, FileScript DEF Done, FileTypes
      <4>3. ~Running(b) /\ pc[b] # 0
          BY <4>2 DEF Running
      <4>4. ~Passes(b) /\ ~Leaves(b) /\ ~GivesUp(b)
          BY <4>3 DEF Passes, Leaves, GivesUp
      <4>5. pc'[b] = pc[b]
          BY <4>4, FileCases, OthersStay DEF FileTypes
      <4>6. Done(b)'
          BY <1>0, <4>1, <4>5 DEF Done
      <4>7. files'[d]["quote"] = x \/ Overlapped(b)'
        <5> SUFFICES ASSUME files'[d]["quote"] # files[d]["quote"] PROVE Overlapped(b)'
            BY <4>1
        <5>1. PICK r \in Runs : /\ Running(r) /\ Target(Steps(r)[pc[r]]) = "quote" /\ Folder(r) = d
                                /\ WritesAfter(r) \subseteq after'
            BY <1>0, ChangedIsWritten
        <5>2. r # b /\ dir[r] = d /\ Past(r, "passport")
            BY <4>3, <5>1, CoreWritersWrote DEF Folder, Core
        <5>3. <<r, b>> \in after'
            BY <3>1, <5>2, StepGrows
        <5>4. <<b, r>> \in after'
            BY <1>0, <2>3, <5>1, <5>2 DEF WritesAfter
        <5>. QED
            BY <5>3, <5>4 DEF Overlapped
      <4>. QED
          BY <4>1, <4>6, <4>7, StepGrows
    <3>4. PassportOf(d, b, x)'
        BY <2>3, <3>2, <3>3 DEF PassportOf, NewPassport
    <3>. QED
        BY <3>4
  <2>. QED
      BY <2>4, <2>5
<1>2. CASE files'[d]["passport"] # files[d]["passport"]
  <2>1. PICK r \in Runs : /\ Target(Steps(r)[pc[r]]) = "passport" /\ Folder(r) = d
                          /\ Leaves(r)
      BY <1>0, <1>2, ChangedIsWritten DEF Readable
  <2>2. dir[r] = d
      BY <2>1 DEF Folder
  <2>3. Running(r) /\ kind[r] \in Kinds /\ pc[r] \in Nat
      BY <2>1 DEF Leaves, FileTypes
  <2>4. /\ pc'[r] = pc[r] + 1 /\ WritesAfter(r) \subseteq after'
        /\ files'[d]["quote"] = files[d]["quote"]
    <3>1. Readable(files'[dir[r]]["passport"]) /\ "quote" \in Names \ {"passport"}
        BY <1>0, <2>2
    <3>2. /\ pc'[r] = pc[r] + 1 /\ WritesAfter(r) \subseteq after'
          /\ \A n \in Names \ {"passport"} : files'[dir[r]][n] = files[dir[r]][n]
        BY <2>1, <3>1, PassportWriters
    <3>. QED
        BY <2>2, <3>1, <3>2
  <2>5. \A p \in Runs \ {r} : dir'[p] = d /\ Past(p, "passport")' => <<p, r>> \in after'
      BY <2>1, <2>2, <2>4, WritesAfterAll
  <2>6. CASE Steps(r)[pc[r]] = "passport" /\ files'[d]["passport"] = NewPassport(r)
    <3>1. Past(r, "passport")'
      <4>1. pc[r] \in 1..pc'[r] - 1 /\ pc[r] \in DOMAIN Steps(r)
          BY <2>3, <2>4, PlaceInScript
      <4>. QED
          BY <1>0, <2>6, <4>1 DEF Past
    <3>2. PassportOf(d, r, Unbound)'
        BY <1>0, <2>2, <2>5, <2>6, <3>1 DEF PassportOf, NewPassport
    <3>. QED
        BY <3>2
  <2>7. CASE /\ Steps(r)[pc[r]] = "attach"
             /\ files'[d]["passport"] = [held[r].passport EXCEPT !.bound = held[r].quoted]
    <3>1. PICK c \in Runs : \E x, y : HeldOf(r, c, x, y)
        BY <2>3, <2>7 DEF HeldInv, At
    <3>2. PICK x, y : HeldOf(r, c, x, y)
        BY <3>1
    <3>3. /\ files'[d]["passport"] = [by |-> c, bound |-> y]
          /\ dir'[c] = d /\ Past(c, "passport")' /\ Wrote(c)
        BY <1>0, <2>2, <2>7, <3>2, HistoryGrows, PastIsMade DEF HeldOf
    <3>4. CASE c # r
      <4>1. Overlapped(c)'
        <5>1. CASE Overlapped(c)
            BY <5>1, HistoryGrows
        <5>2. CASE <<r, c>> \in after
          <6>1. <<c, r>> \in after'
              BY <1>0, <2>2, <2>5, <3>3, <3>4
          <6>. QED
              BY <5>2, <6>1, StepGrows DEF Overlapped
        <5>. QED
            BY <3>2, <3>4, <5>1, <5>2 DEF HeldOf
      <4>2. PassportOf(d, c, y)'
          BY <3>3, <4>1 DEF PassportOf
      <4>. QED
          BY <4>2
    <3>5. CASE c = r
      <4>1. \/ Overlapped(r)'
            \/ File(r, "quote") = y /\ (r \in lost \/ y.payload = NewPassport(r))
        <5>1. CASE Followed(r)
          <6>1. PICK p \in Runs \ {r} : dir[p] = dir[r] /\ Wrote(p) /\ <<r, p>> \in after
              BY <5>1 DEF Followed
          <6>2. <<p, r>> \in after'
              BY <2>4, <6>1 DEF WritesAfter
          <6>. QED
              BY <6>1, <6>2, StepGrows DEF Overlapped
        <5>2. CASE ~Followed(r)
            BY <3>2, <3>5, <5>2, HistoryGrows DEF HeldOf
        <5>. QED
            BY <5>1, <5>2
      <4>2. Done(r)'
        <5>1. pc[r] = Len(Steps(r))
            BY <2>3, <2>7, PlaceInScript
        <5>. QED
            BY <1>0, <2>4, <5>1 DEF Done
      <4>3. PassportOf(d, c, y)'
          BY <2>2, <2>4, <2>5, <3>3, <3>5, <4>1, <4>2, StepGrows DEF PassportOf, NewPassport, File
      <4>. QED
          BY <4>3
    <3>. QED
        BY <3>4, <3>5
  <2>. QED
      BY <2>1, <2>2, <2>6, <2>7, PassportWriters
<1>. QED
    BY <1>1, <1>2

BindingInv == FileTypes /\ ChainInv /\ PassportInv /\ HeldInv

\* Nothing is written and nothing held at the start.
LEMMA InitBinding == Init => BindingInv
<1> SUFFICES ASSUME Init PROVE BindingInv
    OBVIOUS
<1>1. FileTypes
  <2>1. PICK start \in Starts : /\ kind = [r \in Runs |-> start[r].kind]
                                /\ dir = [r \in Runs |-> start[r].dir]
      BY DEF Init
  <2>2. kind \in [Runs -> Kinds]
      BY <2>1, KnownKinds
  <2>3. dir \in [Runs -> Dirs]
      BY <2>1 DEF Dirs
  <2>. QED
      BY <2>2, <2>3 DEF Init, FileTypes
<1>2. \A q \in Runs : pc[q] = 0
    BY DEF Init
<1>3. \A q \in Runs : ~Running(q) /\ 1..pc[q] - 1 = {}
    BY <1>2 DEF Running
<1>4. ChainInv /\ HeldInv
    BY <1>3 DEF ChainInv, ChainOf, HeldInv, HasMade, At
<1>5. \A d \in Dirs : files[d]["passport"] = NoFile
    BY DEF Init, Names
<1>6. PassportInv
    BY <1>5 DEF PassportInv, Readable
<1>. QED
    BY <1>1, <1>4, <1>6 DEF BindingInv

\* The four parts are inductive together.
LEMMA BindingAlways == Spec => []BindingInv
<1>1. BindingInv /\ [Next]_vars => BindingInv'
    BY StepGrows, ChainStep, HeldStep, PassportStep DEF BindingInv
<1>. QED
    BY <1>1, InitBinding, PTL DEF Spec


\* Through swallowed exceptions, crashes and runs that write over one another: a passport
\* that carries an attestation of a run that overlapped no other lies beside the quote of
\* that attestation, and the envelope it is bound to is of this passport unless the run
\* lost an exception.
THEOREM BindingsHold == Spec => []BindingIsConsistent
<1>1. BindingInv => BindingIsConsistent
  <2> SUFFICES ASSUME BindingInv, NEW r \in Runs, Readable(File(r, "passport")),
                      File(r, "passport").bound # Unbound, ~Overlapped(File(r, "passport").by)
               PROVE  LET passport == File(r, "passport")
                      IN  /\ File(r, "quote") = passport.bound
                          /\ passport.by \in lost \/ passport.bound.payload = Unbound0(passport)
      BY DEF BindingIsConsistent
  <2>1. dir[r] \in Dirs
      BY DEF BindingInv, FileTypes
  <2>2. PICK b \in Runs : \E x : PassportOf(dir[r], b, x)
      BY <2>1 DEF BindingInv, PassportInv, File
  <2>3. PICK x : PassportOf(dir[r], b, x)
      BY <2>2
  <2>4. File(r, "passport") = [by |-> b, bound |-> x]
      BY <2>3 DEF PassportOf, File
  <2>5. Unbound0(File(r, "passport")) = NewPassport(b)
      BY <2>4 DEF Unbound0, NewPassport
  <2>. QED
      BY <2>3, <2>4, <2>5 DEF PassportOf, File
<1>. QED
    BY <1>1, BindingAlways, PTL

----------------------------------------------------------------------------
\* What is anchored, in a log that is kept and in one that starts at the envelope.

\* The leaves of a log that is kept: entries, after the one that begins it.
LogLeaves == Entries \cup {"genesis"}
LogInv == log \in [Runs -> Seq(LogLeaves)]

\* An entry is appended to the log of its run, the other steps leave every log as it is.
LEMMA LogStep == ASSUME LogInv, [Next]_vars PROVE LogInv'
<1>1. ASSUME NEW r \in Runs, AppendEntry(r) PROVE LogInv'
  <2>1. PICK entry \in Entries :
            log' = [log EXCEPT ![r] = Append(IF @ = <<>> THEN <<"genesis">> ELSE @, entry)]
      BY <1>1 DEF AppendEntry
  <2>2. <<"genesis">> \in Seq(LogLeaves) /\ log[r] \in Seq(LogLeaves) /\ entry \in LogLeaves
      BY DEF LogInv, LogLeaves
  <2>3. Append(IF log[r] = <<>> THEN <<"genesis">> ELSE log[r], entry) \in Seq(LogLeaves)
      BY <2>2, AppendProperties
  <2>. QED
      BY <2>1, <2>3 DEF LogInv
<1>2. CASE log' = log
    BY <1>2 DEF LogInv
<1>. QED
    BY <1>1, <1>2 DEF Next, vars, mind, Start, Scenario, Judge, OpenGate, Evaluate, Fuzz, Report,
                      WriteArtifacts, EmitArtifacts, Demo, WritePassport, Sign, Anchor, Redact,
                      Quote, Attach, Swallow, Die, Exit

\* However many entries a service has anchored, its tree is the one of RFC 6962, each path
\* proves the leaf at its index and no other, and the receipt of the last entry verifies
\* under the key of the service alone.
THEOREM InclusionIsSound == Spec => []InclusionProofsAreSound
<1>1. LogInv => InclusionProofsAreSound
  <2> SUFFICES ASSUME LogInv, NEW r \in Runs, log[r] # <<>>
               PROVE  LET leaves == log[r]
                          receipt == Anchored(r, Front(leaves), Last(leaves))
                      IN  /\ Root(leaves) = MTH(leaves)
                          /\ \A i \in DOMAIN leaves : \A leaf \in LogLeaves :
                                VerifyInclusion(leaf, Root(leaves), AuditPath(leaves, i - 1))
                                    <=> leaf = leaves[i]
                          /\ \A key \in Runs : VerifyReceipt(key, receipt) <=> key = r
      BY DEF InclusionProofsAreSound, LogLeaves
  <2>1. PICK leaves \in Seq(LogLeaves) : leaves = log[r] /\ leaves # <<>>
      BY DEF LogInv
  <2>2. PICK N \in Nat \ {0} : N = Len(leaves) /\ DOMAIN leaves = 1..N
      BY <2>1
  <2>3. /\ Root(leaves) = MTH(leaves)
        /\ \A index \in 0..N - 1 : \A leaf :
              VerifyInclusion(leaf, Root(leaves), AuditPath(leaves, index))
                  <=> leaf = leaves[index + 1]
      BY <2>2, LogProves
  <2>4. ASSUME NEW i \in DOMAIN leaves, NEW leaf
        PROVE  VerifyInclusion(leaf, Root(leaves), AuditPath(leaves, i - 1)) <=> leaf = leaves[i]
    <3>1. i - 1 \in 0..N - 1 /\ (i - 1) + 1 = i
        BY <2>2
    <3>. QED
        BY <2>3, <3>1
  <2>5. Front(leaves) \in Seq(LogLeaves) /\ Last(leaves) \in LogLeaves
    <3>1. \A i \in 1..N - 1 : leaves[i] \in LogLeaves
        BY <2>2, ElementOfSeq
    <3>2. leaves[N] \in LogLeaves
        BY <2>2, ElementOfSeq
    <3>3. 1 \in Int /\ N - 1 \in Int
        OBVIOUS
    <3>. QED
        BY <2>2, <3>1, <3>2, <3>3, SubSeqProperties DEF Front, Last
  <2>6. \A key : VerifyReceipt(key, Anchored(r, Front(leaves), Last(leaves))) <=> key = r
      BY <2>5, ReceiptsVerify
  <2>. QED
      BY <2>1, <2>3, <2>4, <2>6
<1>2. Init => LogInv
  <2>1. <<>> \in Seq(LogLeaves)
      OBVIOUS
  <2>. QED
      BY <2>1 DEF Init, LogInv
<1>. QED
    BY <1>1, <1>2, LogStep, PTL DEF Spec

\* The receipt of an entry anchored after the genesis leaf verifies under its key.
LEMMA AnchoredVerifies ==
    ASSUME NEW key, NEW entry
    PROVE  LET receipt == Anchored(key, <<"genesis">>, entry)
           IN  receipt.entry = entry /\ receipt.signedBy = key /\ VerifyReceipt(key, receipt)
<1>1. <<"genesis">> \in Seq({"genesis", entry}) /\ entry \in {"genesis", entry}
    OBVIOUS
<1>2. VerifyReceipt(key, Anchored(key, <<"genesis">>, entry))
    BY <1>1, ReceiptsVerify
<1>. QED
    BY <1>2 DEF Anchored

----------------------------------------------------------------------------
\* A run that ended well.

\* The transparency receipt there is: if a run's, the one of the envelope it signed last.
Receipt == files["audit_out"]["rekor"]
ReceiptInv ==
    Readable(Receipt) => \A q \in Runs \ (lost \cup dead) :
        Receipt.signedBy[1] = q /\ Past(q, "anchor2") =>
            Disturbed(q) \/ Receipt = Anchored(<<q, "anchor2">>, <<"genesis">>, Signed(q, "cose"))

\* The receipt that a run writes is signed with its key.
LEMMA ReceiptWriters ==
    ASSUME FileTypes, NEW r \in Runs, Leaves(r), Target(Steps(r)[pc[r]]) = "rekor",
           Readable(Receipt')
    PROVE  LET step == Steps(r)[pc[r]]
           IN  /\ step \in {"anchor", "anchor2"}
               /\ Receipt' = Anchored(<<r, step>>, <<"genesis">>,
                                      File(r, IF step = "anchor" THEN "envelope" ELSE "cose"))
               /\ Receipt'.signedBy[1] = r
<1>1. Steps(r)[pc[r]] \in {"anchor", "anchor2"}
    BY DEF Leaves, Target, OwnNames
<1>2. PICK x : x = Anchored(<<r, Steps(r)[pc[r]]>>, <<"genesis">>,
                            File(r, IF Steps(r)[pc[r]] = "anchor" THEN "envelope" ELSE "cose"))
    OBVIOUS
<1>3. Put(r, x)
    BY <1>1, <1>2 DEF Leaves, OwnNames
<1>4. Writes(r) /\ Folder(r) = "audit_out"
    BY LeavesWrites DEF Folder
<1>5. Receipt' = x
    BY <1>3, <1>4, PutLeaves DEF Receipt, Readable
<1>6. x.signedBy[1] = r
    BY <1>2 DEF Anchored
<1>. QED
    BY <1>1, <1>2, <1>5, <1>6

\* Every step keeps what is known of the receipt.
LEMMA ReceiptStep ==
    ASSUME FileTypes, ChainInv, ReceiptInv, [Next]_vars PROVE ReceiptInv'
<1> SUFFICES ASSUME Readable(Receipt'), NEW q \in Runs, q \notin lost' \cup dead',
                    Receipt'.signedBy[1] = q, Past(q, "anchor2")'
             PROVE  \/ Disturbed(q)'
                    \/ Receipt' = Anchored(<<q, "anchor2">>, <<"genesis">>, Signed(q, "cose"))
    BY DEF ReceiptInv, Readable, Signed, NewPassport
<1>1. q \notin lost \cup dead
    BY StepGrows
<1>2. Target("anchor2") = "rekor" /\ "rekor" \in Names /\ "audit_out" \in Dirs
    BY DEF Target, Names, Dirs
<1>3. CASE Leaves(q) /\ Steps(q)[pc[q]] = "anchor2"
  <2>1. Receipt' = Anchored(<<q, "anchor2">>, <<"genesis">>, File(q, "cose"))
      BY <1>2, <1>3, ReceiptWriters
  <2>2. Past(q, "cose")
      BY <1>3, PlaceInScript DEF Leaves
  <2>3. HasMade(q, "cose")
      BY <2>2, PastIsMade DEF Target, Names
  <2>4. Disturbed(q) \/ File(q, "cose") = Signed(q, "cose")
    <3>1. ChainOf(q)
        BY <1>1 DEF ChainInv
    <3>2. "cose" \in Names \ {"rekor"} /\ "cose" \notin Core
        BY DEF Names, Core
    <3>. QED
        BY <2>3, <3>1, <3>2 DEF ChainOf, Excused, Made
  <2>. QED
      BY <2>1, <2>4, HistoryGrows
<1>4. CASE ~(Leaves(q) /\ Steps(q)[pc[q]] = "anchor2")
  <2>1. Past(q, "anchor2")
      BY <1>2, <1>4, PastByLeaving
  <2>2. Receipt' = Receipt
    <3> SUFFICES ASSUME Receipt' # Receipt PROVE FALSE
        OBVIOUS
    <3>1. PICK r \in Runs : /\ Target(Steps(r)[pc[r]]) = "rekor" /\ Leaves(r)
        BY <1>2, ChangedIsWritten DEF Receipt, Readable
    <3>2. r = q /\ Steps(r)[pc[r]] \in {"anchor", "anchor2"}
        BY <3>1, ReceiptWriters
    <3>. QED
        BY <2>1, <3>1, <3>2, PlaceInScript DEF Leaves
  <2>. QED
      BY <1>1, <2>1, <2>2, HistoryGrows DEF ReceiptInv
<1>. QED
    BY <1>3, <1>4

\* The chain and the receipt are inductive together.
LEMMA ChainAlways == Spec => [](FileTypes /\ ChainInv /\ ReceiptInv)
<1>1. Init => FileTypes /\ ChainInv /\ ReceiptInv
  <2>1. Init => Receipt = NoFile
      BY DEF Init, Receipt, Names, Dirs
  <2>. QED
      BY <2>1, InitBinding DEF BindingInv, ReceiptInv, Readable
<1>2. FileTypes /\ ChainInv /\ ReceiptInv /\ [Next]_vars => (FileTypes /\ ChainInv /\ ReceiptInv)'
    BY StepGrows, ChainStep, ReceiptStep
<1>. QED
    BY <1>1, <1>2, PTL DEF Spec

\* At its end a run is past every step, and the chain gives each of its files.
LEMMA CoherentAtEnd ==
    ASSUME FileTypes, ChainInv, ReceiptInv, NEW r \in Runs, Done(r), r \notin dead \cup lost,
           \A q \in Runs : <<r, q>> \notin after
    PROVE  Coherent(r)
<1>. DEFINE passport == File(r, "passport")
            made == {Target(Steps(r)[k]) : k \in DOMAIN Steps(r)}
<1>1. /\ kind[r] \in Kinds /\ pc[r] = Len(Steps(r)) + 1
      /\ Len(Steps(r)) \in Nat /\ DOMAIN Steps(r) = 1..Len(Steps(r))
    BY FileScript DEF FileTypes, Done
<1>2. DOMAIN Steps(r) = 1..pc[r] - 1
    BY <1>1
<1>3. \A name \in made : HasMade(r, name)
    BY <1>2 DEF HasMade
<1>4. ~Disturbed(r) /\ ~Followed(r) /\ ChainOf(r)
    BY DEF Disturbed, Followed, ChainInv
<1>5. \A name \in Names \ {"rekor"} : name \in made => File(r, name) = Made(r, name)
    BY <1>3, <1>4 DEF ChainOf, Excused
<1>6. \A name \in made \cap {"report", "gap", "score", "md", "page", "redacted", "proof"} :
          File(r, name) = r
    BY <1>5 DEF Names, Made
<1>7. ASSUME "passport" \in made
      PROVE  /\ Readable(passport) /\ passport.by = r /\ passport.bound = File(r, "envelope")
             /\ File(r, "quote") = File(r, "envelope")
             /\ \A name \in {"envelope", "cose", "receipt"} :
                   Readable(File(r, name)) /\ File(r, name).payload = Unbound0(passport)
             /\ LET receipt == files["audit_out"]["rekor"]
                IN  Readable(receipt) /\ receipt.signedBy[1] = r =>
                       /\ receipt.entry = File(r, "cose")
                       /\ VerifyReceipt(receipt.signedBy, receipt)
  <2>1. PICK k \in 1..Len(Steps(r)) : Target(Steps(r)[k]) = "passport"
      BY <1>1, <1>7
  <2>2. \E j \in 1..Len(Steps(r)) : Steps(r)[j] = "passport"
    <3>1. Steps(r)[k] \in {"passport", "attach"}
        BY <2>1 DEF Target
    <3>2. \A j \in 1..k - 1 : j \in 1..Len(Steps(r))
        BY <1>1
    <3>. QED
        BY <1>1, <3>1, <3>2, FileScript DEF DerivedNames
  <2>3. \A name \in DerivedNames : \E j \in 1..Len(Steps(r)) : Steps(r)[j] = name
      BY <1>1, <2>2, FileScript
  <2>4. {"envelope", "cose", "receipt", "quote"} \subseteq made
    <3>1. \A name \in {"envelope", "cose", "receipt", "quote"} :
              name \in DerivedNames /\ Target(name) = name
        BY DEF DerivedNames, Target
    <3>. QED
        BY <1>1, <2>3, <3>1
  <2>5. Past(r, "attach") /\ Past(r, "anchor2")
      BY <1>1, <1>2, <2>3 DEF DerivedNames, Past
  <2>6. /\ passport = Attested(r)
        /\ \A name \in {"envelope", "cose", "receipt"} : File(r, name) = Signed(r, name)
        /\ File(r, "quote") = Signed(r, "envelope")
      BY <1>5, <1>7, <2>4, <2>5 DEF Names, Made
  <2>7. /\ \A name \in {"envelope", "cose", "receipt"} : Readable(Signed(r, name))
        /\ Readable(Attested(r))
    <3>1. \A name \in {"envelope", "cose", "receipt"} :
              {Signed(r, name), [by |-> r, bound |-> Signed(r, name)]} \cap {NoFile, Torn} = {}
        BY ContentsAreWhole DEF Signed, NewPassport
    <3>2. "envelope" \in {"envelope", "cose", "receipt"}
        OBVIOUS
    <3>. QED
        BY <3>1, <3>2 DEF Attested, Readable
  <2>8. Unbound0(Attested(r)) = NewPassport(r) /\ Attested(r).by = r
        /\ Attested(r).bound = Signed(r, "envelope")
        /\ \A name : Signed(r, name).payload = NewPassport(r)
      BY DEF Unbound0, Attested, NewPassport, Signed
  <2>9. ASSUME Readable(Receipt), Receipt.signedBy[1] = r
        PROVE  Receipt.entry = File(r, "cose") /\ VerifyReceipt(Receipt.signedBy, Receipt)
    <3>1. Receipt = Anchored(<<r, "anchor2">>, <<"genesis">>, Signed(r, "cose"))
        BY <1>4, <2>5, <2>9 DEF ReceiptInv
    <3>. QED
        BY <2>6, <3>1, AnchoredVerifies
  <2>. QED
      BY <2>6, <2>7, <2>8, <2>9 DEF Receipt
<1>. QED
    BY <1>6, <1>7 DEF Coherent

\* A run that ended with no exception swallowed, in a directory nobody wrote to after it,
\* leaves one coherent bundle, and the receipt, if it is still its own, verifies.
THEOREM FinishedRunsAreCoherent == Spec => []FinishedRunIsCoherent
<1>1. FileTypes /\ ChainInv /\ ReceiptInv => FinishedRunIsCoherent
    BY CoherentAtEnd DEF FinishedRunIsCoherent
<1>. QED
    BY <1>1, ChainAlways, PTL
=============================================================================
