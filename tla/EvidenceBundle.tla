--------------------------- MODULE EvidenceBundle ---------------------------
(***************************************************************************)
(* The evidence a run leaves on disk: the artifacts of src/run.py,         *)
(* src/demo_launcher.py and the fuzzers, the envelopes, receipts,          *)
(* redactions and hardware attestation made from the trust passport, and   *)
(* the transparency receipt, which goes to audit_out wherever the rest     *)
(* goes.                                                                   *)
(*                                                                         *)
(* A file is the run that wrote it, or for the files made from others,     *)
(* what they were made from.  Files whose content never varies                  *)
(* (ProofOrStopFilter.java, fix.patch, the vendor entry) are left out.     *)
(* Nothing locks a directory: runs may overlap, and a run may die anywhere. *)
(***************************************************************************)
EXTENDS WireTestbed, TransparencyLog, ActionChecks

CONSTANTS Starts,         \* how the runs are started: the kind of each, its export
                          \* directory, and how it may fail ("raises", "raises again",
                          \* "dies")
          NoFile, Torn,   \* contents of a file: never written, half written
          Unbound,        \* no hardware attestation
          Payloads,       \* the actions an admissibility gate is asked about
          Entries         \* what is anchored in the log of a service that is kept

Kinds == {"single", "concise", "all", "demo", "soak", "stress", "gate", "service"}

ASSUME KnownKinds == \A start \in Starts, r \in Runs : start[r].kind \in Kinds
ASSUME KnownPayloads ==
    \A p \in Payloads : {p.amount, p.minor} \subseteq Int \cup {Absent} /\ p.verb \in Verbs

\* What is written whole is neither a missing file nor a torn one.
ASSUME ContentsAreWhole ==
    \A r \in Runs : \A name \in {"envelope", "cose", "receipt"} :
        LET signed == [payload |-> [by |-> r, bound |-> Unbound], key |-> <<r, name>>]
        IN  {signed, [by |-> r, bound |-> signed]} \cap {NoFile, Torn} = {}

VARIABLES kind,     \* how each run was started
          dir,      \* its export directory
          failures, \* how it may fail, a bound
          pc,       \* the next step of its script, 0 before the start
          dead,     \* runs that ended before their script did
          held,     \* the passport and envelope an attestation has in memory
          gate,     \* the APIs the admissibility gate of a run allows
          judged,   \* the last verdict a run reached without the wire
          log,      \* the leaves of the anchor service a run keeps
          files,    \* the directories
          lost,     \* history: runs that had an exception swallowed
          after     \* history: <<r, p>> when p wrote to r's directory after r did

disk == <<files, lost, after>>
mind == <<gate, judged, log>>
vars == <<testbed, kind, dir, failures, pc, dead, held, mind, disk>>

Names == {"report", "gap", "score", "passport", "md", "page", "envelope", "cose", "rekor",
          "redacted", "proof", "receipt", "quote", "soak", "stress"}
Dirs == {start[r].dir : start \in Starts, r \in Runs} \cup {"audit_out"}

\* What every kind of run makes from the passport, each line a try block.
Blocks == <<{"envelope", "anchor", "cose", "anchor2"}, {"redacted", "proof"}, {"receipt"},
            {"quote", "attach"}>>

\* Mutant: the hardware attestation is attached before the receipt is made.
DerivedAttachEarly == <<"envelope", "anchor", "cose", "anchor2", "redacted", "proof",
                        "quote", "attach", "receipt">>

Derived == <<"envelope", "anchor", "cose", "anchor2", "redacted", "proof", "receipt",
             "quote", "attach">>

\* The order in which each kind of run works.  The trace is written with the gap
\* report, the scorecard with the constant files.
SingleSteps == <<"judge", "report", "gap", "passport", "md">> \o Derived
ConciseSteps == <<"serve", "504", "timeout", "normal", "nominal", "gap", "score", "passport">>
                \o Derived
AllSteps == <<"serve", "504", "timeout", "rst", "reset", "drift", "normal", "nominal",
              "gap", "score", "passport">> \o Derived
DemoSteps == <<"gap", "page">>
SoakSteps == <<"judge", "soak">>
StressSteps == <<"judge", "stress">>
GateSteps == <<"open", "evaluate">>
ServiceSteps == [i \in 1..6 |-> "append"]

Init ==
    /\ InitTestbed
    /\ \E start \in Starts : /\ kind = [r \in Runs |-> start[r].kind]
                            /\ dir = [r \in Runs |-> start[r].dir]
                            /\ failures = [r \in Runs |-> start[r].failures]
    /\ pc = [r \in Runs |-> 0]
    /\ dead = {}
    /\ held = [r \in Runs |-> NoFile]
    /\ gate = [r \in Runs |-> {}]
    /\ judged = [r \in Runs |-> NoFile]
    /\ log = [r \in Runs |-> <<>>]
    /\ files = [d \in Dirs |-> [n \in Names |-> NoFile]]
    /\ lost = {}
    /\ after = {}

Steps(r) == CASE kind[r] = "single" -> SingleSteps
              [] kind[r] = "concise" -> ConciseSteps
              [] kind[r] = "all" -> AllSteps
              [] kind[r] = "demo" -> DemoSteps
              [] kind[r] = "soak" -> SoakSteps
              [] kind[r] = "stress" -> StressSteps
              [] kind[r] = "gate" -> GateSteps
              [] kind[r] = "service" -> ServiceSteps
Done(r) == pc[r] = Len(Steps(r)) + 1
Running(r) == pc[r] \in 1..Len(Steps(r)) /\ r \notin dead
At(r, step) == Running(r) /\ Steps(r)[pc[r]] = step
File(r, name) == files[dir[r]][name]
Readable(content) == content \notin {NoFile, Torn}

Advance(r) == pc' = [pc EXCEPT ![r] = @ + 1] /\ UNCHANGED <<kind, dir, failures, dead>>

Start(r) == pc[r] = 0 /\ r \notin dead /\ Advance(r) /\ UNCHANGED <<testbed, held, mind, disk>>

\* The file a step writes.
Target(step) == CASE step = "attach" -> "passport"
                  [] step \in {"anchor", "anchor2"} -> "rekor"
                  [] OTHER -> step

Writes(r) == Running(r) /\ Target(Steps(r)[pc[r]]) \in Names
Folder(r) == IF Target(Steps(r)[pc[r]]) = "rekor" THEN "audit_out" ELSE dir[r]

\* r writes after every run that has written to its directory.
Wrote(q) == \E k \in 1..pc[q] - 1 : k \in DOMAIN Steps(q) /\ Target(Steps(q)[k]) \in Names
WritesAfter(r) == {<<q, r>> : q \in {p \in Runs \ {r} : dir[p] = dir[r] /\ Wrote(p)}}

\* The runs that are about to write the file that r writes.
Rivals(r) == {q \in Runs \ {r} : /\ Writes(q) /\ Folder(q) = Folder(r)
                                 /\ Target(Steps(q)[pc[q]]) = Target(Steps(r)[pc[r]])}

\* The step's file is opened, truncated and written; two runs that do so at once
\* may leave a mixture.
Put(r, content) ==
    LET name == Target(Steps(r)[pc[r]])
    IN  /\ \/ /\ files' = [files EXCEPT ![Folder(r)][name] = content]
              /\ after' = after \cup WritesAfter(r)
           \/ /\ Rivals(r) # {}
              /\ files' = [files EXCEPT ![Folder(r)][name] = Torn]
              /\ after' = after \cup WritesAfter(r)
                               \cup {<<r, q>> : q \in {p \in Rivals(r) : dir[p] = dir[r]}}
        /\ UNCHANGED lost
        /\ Advance(r)

----------------------------------------------------------------------------
\* The scenarios of an interactive run.

Scenario(r) ==
    /\ \/ At(r, "serve") /\ RunServers(r)
       \/ At(r, "504") /\ Inject(r, "INJECT_504")
       \/ At(r, "rst") /\ Inject(r, "INJECT_RST")
       \/ At(r, "normal") /\ Inject(r, "NORMAL")
       \/ \E id \in {"timeout", "reset", "drift", "nominal"} : At(r, id) /\ Ask(r, id)
    /\ Advance(r)
    /\ UNCHANGED <<held, mind, disk>>

\* One case a run decides by itself: the scenario of a single run, or one of the
\* workload of a fuzzer, whose cases do not depend on one another.
Judge(r) ==
    /\ At(r, "judge")
    /\ \E case \in Workload(kind[r]) :
          judged' = [judged EXCEPT ![r] = [case |-> case, record |-> RunSingle(case[1], case[2])]]
    /\ Advance(r)
    /\ UNCHANGED <<testbed, held, gate, log, disk>>

\* What a passport grants: the two kinds of run write different authorities.  The
\* gate takes its defaults when it cannot read one; the limit is the same in all.
Defaults == {"payments.execute", "audit.write", "settle", "status"}
Authority(passport) ==
    IF ~Readable(passport) THEN Defaults
    ELSE IF kind[passport.by] = "single" THEN {"settle", "status", "payments.execute"}
    ELSE {"payments.execute", "audit.write"}

\* A gate is made: it reads the passport once.
OpenGate(r) ==
    /\ At(r, "open")
    /\ gate' = [gate EXCEPT ![r] = Authority(File(r, "passport"))]
    /\ Advance(r)
    /\ UNCHANGED <<testbed, held, judged, log, disk>>

\* An action is put to the gate, the router and the jury.
Evaluate(r) ==
    /\ At(r, "evaluate")
    /\ \E api \in Defaults, p \in Payloads :
          judged' = [judged EXCEPT ![r] = [api |-> api, payload |-> p,
                                           gate |-> GateEvaluate(api, gate[r], p),
                                           router |-> RouterEvaluate(p)]]
    /\ Advance(r)
    /\ UNCHANGED <<testbed, held, gate, log, disk>>

\* A service that is kept anchors one more entry, after its genesis leaf.
AppendEntry(r) ==
    /\ At(r, "append")
    /\ \E entry \in Entries :
          log' = [log EXCEPT ![r] = Append(IF @ = <<>> THEN <<"genesis">> ELSE @, entry)]
    /\ Advance(r)
    /\ UNCHANGED <<testbed, held, gate, judged, disk>>

\* The artifacts that carry the run's own verdicts; the first takes over the record or
\* the results.
Report(r, name) ==
    /\ At(r, name)
    /\ Put(r, r)
    /\ judged' = [judged EXCEPT ![r] = NoFile]
    /\ results' = [results EXCEPT ![r] = <<>>]
    /\ UNCHANGED <<owner, mode, held, gate, log>>

WriteArtifacts(r) == kind[r] = "single" /\ \E name \in {"report", "gap", "md"} : Report(r, name)
EmitArtifacts(r) == kind[r] \in {"concise", "all"} /\ \E name \in {"gap", "score"} : Report(r, name)
Fuzz(r) == \E name \in {"soak", "stress"} : kind[r] = name /\ Report(r, name)
Demo(r) == kind[r] = "demo" /\ \E name \in {"gap", "page"} : Report(r, name)

\* Mutant: the passport keeps the attestation it finds in the file.
NewPassportKeeping(r) ==
    [by |-> r, bound |-> IF Readable(File(r, "passport")) THEN File(r, "passport").bound
                         ELSE Unbound]

NewPassport(r) == [by |-> r, bound |-> Unbound]

WritePassport(r) ==
    At(r, "passport") /\ Put(r, NewPassport(r)) /\ UNCHANGED <<testbed, held, mind>>

----------------------------------------------------------------------------
\* What is made from the passport as it is on disk.

\* generate_scitt_envelope and AARMSigner.generate_receipt: the passport, signed
\* with a key made for the call.
Sign(r) ==
    \E name \in {"envelope", "cose", "receipt"} :
        /\ At(r, name)
        /\ Readable(File(r, "passport"))
        /\ Put(r, [payload |-> File(r, "passport"), key |-> <<r, name>>])
        /\ UNCHANGED <<testbed, held, mind>>

\* anchor_cose_envelope_to_file: the envelope just written is anchored with a
\* service made for the call, that holds the genesis leaf only.
Anchor(r) ==
    \E at \in {<<"anchor", "envelope">>, <<"anchor2", "cose">>} :
        /\ At(r, at[1])
        /\ Readable(File(r, at[2]))
        /\ Put(r, Anchored(<<r, at[1]>>, <<"genesis">>, File(r, at[2])))
        /\ UNCHANGED <<testbed, held, mind>>

\* redact_passport: what it discloses is the same in all passports made here.
Redact(r) ==
    \E name \in {"redacted", "proof"} :
        /\ At(r, name)
        /\ Readable(File(r, "passport"))
        /\ Put(r, r)
        /\ UNCHANGED <<testbed, held, mind>>

\* attach_hardware_attestation_to_passport reads the passport and the .cose.json
\* envelope, has a quote made whose nonce is the envelope's hash, and saves it ...
Quote(r) ==
    /\ At(r, "quote")
    /\ Readable(File(r, "passport"))
    /\ Readable(File(r, "envelope"))
    /\ held' = [held EXCEPT ![r] = [passport |-> File(r, "passport"), quoted |-> File(r, "envelope")]]
    /\ Put(r, File(r, "envelope"))
    /\ UNCHANGED <<testbed, mind>>

\* ... and then writes the passport it read, with the attestation.
Attach(r) ==
    /\ At(r, "attach")
    /\ Put(r, [held[r].passport EXCEPT !.bound = held[r].quoted])
    /\ held' = [held EXCEPT ![r] = NoFile]
    /\ UNCHANGED <<testbed, mind>>

----------------------------------------------------------------------------
\* Failures.

\* A step raises, before its file is opened or after.
Tears(r) ==
    \/ UNCHANGED <<files, after>>
    \/ /\ Writes(r)
       /\ files' = [files EXCEPT ![Folder(r)][Target(Steps(r)[pc[r]])] = Torn]
       /\ after' = after \cup WritesAfter(r)

\* An exception in a try block: the rest of the block is skipped, silently.  A
\* failed anchor is swallowed inside generate_scitt_envelope.  Every attestation
\* on a live enclave ends here, after the quote: its metadata has no
\* architecture, and the passport is never written.
Swallow(r) ==
    \E b \in 1..Len(Blocks) :
        /\ Running(r) /\ Steps(r)[pc[r]] \in Blocks[b]
        /\ (IF r \in lost THEN "raises again" ELSE "raises") \in failures[r]
        /\ Tears(r)
        /\ \E next \in pc[r] + 1..Len(Steps(r)) + 1 :
              /\ IF Steps(r)[pc[r]] \in {"anchor", "anchor2"} THEN next = pc[r] + 1
                 ELSE /\ \A j \in pc[r]..next - 1 : Steps(r)[j] \in Blocks[b]
                      /\ next \in DOMAIN Steps(r) => Steps(r)[next] \notin Blocks[b]
              /\ pc' = [pc EXCEPT ![r] = next]
        /\ held' = [held EXCEPT ![r] = NoFile]
        /\ lost' = lost \cup {r}
        /\ UNCHANGED <<testbed, mind, kind, dir, failures, dead>>

\* The process is killed, or an exception outside a try block ends it.
Die(r) ==
    /\ Running(r)
    /\ "dies" \in failures[r]
    /\ Tears(r)
    /\ dead' = dead \cup {r}
    /\ StopServers(r)
    /\ held' = [held EXCEPT ![r] = NoFile]
    /\ UNCHANGED <<mode, results, mind, kind, dir, failures, pc, lost>>

\* main returns, and its daemon threads end.
Exit(r) ==
    /\ Done(r) /\ owner = r
    /\ StopServers(r)
    /\ UNCHANGED <<mode, results, kind, dir, failures, pc, dead, held, mind, disk>>

Next ==
    \E r \in Runs :
        \/ Start(r) \/ Scenario(r) \/ Judge(r) \/ OpenGate(r) \/ Evaluate(r)
        \/ AppendEntry(r) \/ Fuzz(r) \/ WriteArtifacts(r) \/ EmitArtifacts(r) \/ Demo(r)
        \/ WritePassport(r)
        \/ Sign(r) \/ Anchor(r) \/ Redact(r) \/ Quote(r) \/ Attach(r)
        \/ Swallow(r) \/ Die(r) \/ Exit(r)

Spec == Init /\ [][Next]_vars
=============================================================================
