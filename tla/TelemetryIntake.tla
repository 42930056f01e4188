--------------------------- MODULE TelemetryIntake ---------------------------
(***************************************************************************)
(* The telemetry intake: a prospect delivers log files to the drop zone,   *)
(* line by line; the watchdog of src/src/evidence_adapter.py starts        *)
(* run_prospect.py on each and moves what was processed away.  Each        *)
(* pipeline is a process of its own: it lives on when the watchdog is      *)
(* killed.                                                                 *)
(*                                                                         *)
(* A line is [status, error, approved, priced], or Malformed; priced says  *)
(* that its amount, if it has one, is a number.  The name of a file        *)
(* determines the customer, and several names the same one: the report and *)
(* the normalised log of a customer are overwritten.  A digest is the      *)
(* content it is of.  Names in the processed zone carry the date; the      *)
(* model stays within a day.                                               *)
(***************************************************************************)
EXTENDS Integers, Sequences, SequencesExt, FiniteSets

CONSTANTS Names,         \* names of files
          Customers,
          Lines,         \* lines a prospect's agents log
          Malformed,     \* a line that is not JSON, or no object
          CustomerOf,    \* the customer each name stands for
          Pipelines,     \* a table of processes, with as many as there may be at once
          NoFile, Torn,  \* contents: no such file, half written
          NoName,
          MaxLines,      \* bound on the lines of a file
          MaxDeliveries, \* bound on the files delivered
          MaxFaults      \* bound on processes killed and moves that fail

ASSUME NamesHaveCustomers == CustomerOf \in [Names -> Customers]
ASSUME PipelinesAreNumbered == Pipelines \subseteq Nat \ {0}

\* A line of the normalised log.
Events == [line : Lines, disposition : {"DISPATCHED_UNCONFIRMED", "CONFIRMED"}]

\* A file in the processed zone.
Moved == [lines : Seq(Lines), read : Seq(Lines), grew : BOOLEAN]

ASSUME NoFileIsNoContent == NoFile \notin Seq(Lines) \cup Moved
ASSUME NoLogIsWhole == {NoFile, Torn} \cap Seq(Events) = {}

VARIABLES zone,        \* the drop zone
          deliveries, faults,
          processed,   \* the processed zone: the lines of a file, and, as history,
                       \* those that had been read, and whether it grew after that
          artifacts,   \* normalised logs
          reports,     \* reports: what was written to each, in order
          mixed,       \* history: the customers whose last pipeline was started while
                       \* another of theirs was running
          up,          \* the watchdog is running
          pass,        \* the rest of what its glob found, in any order
          child,       \* the pipeline it waits for
          job          \* each pipeline's file, where it is with it, the lines it has
                       \* normalised, the digest of its raw file, the accumulated
                       \* identifier, and, as history, whether the file grew since

disk == <<processed, artifacts, reports>>
prospect == <<zone, deliveries>>
watchdog == <<up, pass, child>>
vars == <<prospect, faults, disk, mixed, watchdog, job>>

NoPipeline == 0

NoJob == [file |-> NoName, step |-> "none", read |-> <<>>, raw |-> <<>>, proof |-> <<>>,
          grew |-> FALSE]

Init ==
    /\ zone = [n \in Names |-> NoFile]
    /\ deliveries = 0
    /\ faults = 0
    /\ processed = [n \in Names |-> NoFile]
    /\ artifacts = [c \in Customers |-> NoFile]
    /\ reports = [c \in Customers |-> <<>>]
    /\ mixed = {}
    /\ up = TRUE
    /\ pass = {}
    /\ child = NoPipeline
    /\ job = [p \in Pipelines |-> NoJob]

----------------------------------------------------------------------------
\* The prospect.

Deliver(n) ==
    /\ zone[n] = NoFile
    /\ deliveries < MaxDeliveries
    /\ zone' = [zone EXCEPT ![n] = <<>>]
    /\ deliveries' = deliveries + 1
    /\ UNCHANGED <<faults, disk, mixed, watchdog, job>>

AfterRead == {"hash", "report", "identify", "done"}

\* One more line, wherever the file has been moved to: the prospect may have it open
\* for as long as it likes.
WriteLine(n) ==
    /\ \E line \in Lines :
          IF zone[n] # NoFile
          THEN /\ Len(zone[n]) < MaxLines
               /\ zone' = [zone EXCEPT ![n] = Append(@, line)]
               /\ job' = [p \in Pipelines |->
                     [job[p] EXCEPT !.grew = @ \/ (job[p].file = n /\ job[p].step \in AfterRead)]]
               /\ UNCHANGED processed
          ELSE /\ processed[n] # NoFile
               /\ Len(processed[n].lines) < MaxLines
               /\ processed' = [processed EXCEPT ![n] =
                     [lines |-> Append(@.lines, line), read |-> @.read, grew |-> TRUE]]
               /\ UNCHANGED <<zone, job>>
    /\ UNCHANGED <<deliveries, faults, artifacts, reports, mixed, watchdog>>

----------------------------------------------------------------------------
\* What the pipeline computes.

\* normalize_logs and normalize_stream: only a 504 is not confirmed.
Normalized(lines) ==
    [i \in DOMAIN lines |->
        [line |-> lines[i],
         disposition |-> IF lines[i].status = "504" THEN "DISPATCHED_UNCONFIRMED" ELSE "CONFIRMED"]]

\* StateAccumulator: each event is hashed with the root so far.
Accumulate(events) == FoldLeft(LAMBDA root, event : <<root, event>>, <<>>, events)

\* calculate_risk_and_accumulate, without the exposure in money.
Unconfirmed(events) ==
    Cardinality({i \in DOMAIN events : events[i].disposition = "DISPATCHED_UNCONFIRMED"})

TimedOut(event) == event.line.status = "504" \/ event.line.error = "timeout"

\* evaluate_metrics.
Metrics(events) ==
    LET approved == {i \in DOMAIN events : events[i].line.approved}
        approval == IF approved = {} THEN "NOT_OBSERVED"
                    ELSE IF approved # DOMAIN events THEN "OBSERVED_MISMATCH"
                    ELSE "OBSERVED_BOUND"
        timedOut == \E i \in DOMAIN events : TimedOut(events[i])
        refused == \E i \in DOMAIN events : events[i].line.status \in {"401", "403", "409"}
    IN  IF events = <<>>
        THEN [approval |-> "NOT_OBSERVED", outcome |-> "INSUFFICIENT_EVIDENCE",
              authority |-> "UNKNOWN", retry |-> "UNKNOWN", continuity |-> "INSUFFICIENT"]
        ELSE [approval |-> approval,
              outcome |-> IF timedOut THEN "DISPATCHED_UNCONFIRMED"
                          ELSE IF refused THEN "REMOTE_REFUSED" ELSE "REMOTE_CONFIRMED",
              authority |-> IF approval = "NOT_OBSERVED" THEN "UNKNOWN" ELSE "FRESH",
              retry |-> IF timedOut THEN "HIGH" ELSE "LOW",
              continuity |-> IF Cardinality({events[i].line : i \in DOMAIN events}) = Len(events)
                             THEN "SUFFICIENT" ELSE "PARTIAL"]

Timeouts(events) == Cardinality({i \in DOMAIN events : TimedOut(events[i])})

\* compute_risk_calculator: it raises over an amount that is no number, ...
Computable(events) == \A i \in DOMAIN events : events[i].line.priced

\* ... and a log without timeouts counts as one with one.
WeeklyTimeouts(events) == IF Timeouts(events) = 0 THEN 1 ELSE Timeouts(events)

\* generate_markdown, before the identifiers are appended.
Report(events) == [metrics |-> Metrics(events), timeouts |-> WeeklyTimeouts(events)]

\* The identifiers of the log a report is of.
Identifiers(p, events) == [raw |-> job[p].raw, normalized |-> events, proof |-> job[p].proof]

----------------------------------------------------------------------------
\* A pipeline.

At(p, step) == job[p].step = step
C(p) == CustomerOf[job[p].file]

Running(p) == job[p].step \in {"normalize", "read", "hash", "report", "identify"}

\* A process that has come to its end is gone unless the watchdog waits for it.
Ended(p, how) ==
    [job EXCEPT ![p] = IF p = child THEN [job[p] EXCEPT !.step = how] ELSE NoJob]

Pipe == UNCHANGED <<prospect, faults, processed, mixed, watchdog>>

\* What two pipelines write to one log at once may be torn.
Logged(p, events) == IF C(p) \in mixed THEN {events, Torn} ELSE {events}

\* What they write to one report, and the identifiers that go into it, are not told
\* apart: nothing reads them.
OneWriter(p, part) == IF C(p) \in mixed THEN Torn ELSE part

Opened(p) == IF zone[job[p].file] # NoFile THEN zone[job[p].file] ELSE processed[job[p].file].lines

\* normalize_stream: the raw file is opened, the log is opened and truncated, ...
Truncate(p) ==
    /\ At(p, "normalize") /\ zone[job[p].file] # NoFile
    /\ artifacts' = [artifacts EXCEPT ![C(p)] = Torn]
    /\ job' = [job EXCEPT ![p].step = "read"]
    /\ UNCHANGED reports /\ Pipe

\* ... and the lines that are there are normalised.
Normalize(p) ==
    /\ At(p, "read") /\ Malformed \notin Range(Opened(p))
    /\ \E log \in Logged(p, Normalized(Opened(p))) :
           artifacts' = [artifacts EXCEPT ![C(p)] = log]
    /\ job' = [job EXCEPT ![p].step = "hash", ![p].read = Opened(p)]
    /\ UNCHANGED reports /\ Pipe

\* get_file_hash reads the raw file again, then the normalised log is accumulated.
Hash(p) ==
    /\ At(p, "hash") /\ zone[job[p].file] # NoFile
    /\ LET log == artifacts[C(p)] IN
       job' = [job EXCEPT
           ![p].step = "report",
           ![p].raw = OneWriter(p, zone[job[p].file]),
           ![p].proof = IF log = Torn THEN Torn ELSE OneWriter(p, Accumulate(log))]
    /\ UNCHANGED <<artifacts, reports>> /\ Pipe

\* Mutant: the pipeline has succeeded as soon as the report is there.
GenerateReportOnly(p) ==
    /\ At(p, "report")
    /\ artifacts[C(p)] # Torn /\ Computable(artifacts[C(p)])
    /\ reports' = [reports EXCEPT ![C(p)] = <<Report(artifacts[C(p)])>>]
    /\ job' = Ended(p, "done")
    /\ UNCHANGED artifacts /\ Pipe

\* generate_report writes the report from the normalised log, ...
GenerateReport(p) ==
    /\ At(p, "report")
    /\ LET log == artifacts[C(p)] IN
       /\ log # Torn => Computable(log)
       /\ reports' = [reports EXCEPT ![C(p)] = <<OneWriter(p, Report(log))>>]
    /\ job' = [job EXCEPT ![p].step = "identify"]
    /\ UNCHANGED artifacts /\ Pipe

\* ... and the identifiers are appended.
AppendIdentifiers(p) ==
    /\ At(p, "identify")
    /\ reports' = [reports EXCEPT
             ![C(p)] = Append(@, OneWriter(p, Identifiers(p, artifacts[C(p)])))]
    /\ job' = Ended(p, "done")
    /\ UNCHANGED artifacts /\ Pipe

\* An exception: a line that is not JSON, an amount that is no number, a raw file that
\* another pipeline's watchdog has moved, a log another pipeline has torn.
Raises(p) ==
    \/ At(p, "normalize") /\ zone[job[p].file] = NoFile
    \/ At(p, "read") /\ Malformed \in Range(Opened(p))
    \/ At(p, "hash") /\ (zone[job[p].file] = NoFile \/ artifacts[C(p)] = Torn)
    \/ At(p, "report") /\ artifacts[C(p)] = Torn
    \/ At(p, "report") /\ artifacts[C(p)] # Torn /\ ~Computable(artifacts[C(p)])

\* What has been written stays.
Fail(p) ==
    /\ Raises(p)
    /\ job' = Ended(p, "failed")
    /\ UNCHANGED <<artifacts, reports>> /\ Pipe

\* The process is killed: a report that was being written is torn, or not begun.
Kill(p) ==
    /\ Running(p)
    /\ faults < MaxFaults
    /\ faults' = faults + 1
    /\ \/ UNCHANGED reports
       \/ /\ At(p, "report")
          /\ reports' = [reports EXCEPT ![C(p)] = <<Torn>>]
       \/ /\ At(p, "identify")
          /\ reports' = [reports EXCEPT ![C(p)] = Append(@, Torn)]
    /\ job' = Ended(p, "failed")
    /\ UNCHANGED <<prospect, processed, artifacts, mixed, watchdog>>

Pipeline(p) ==
    \/ Truncate(p) \/ Normalize(p) \/ Hash(p) \/ GenerateReport(p) \/ AppendIdentifiers(p)
    \/ Fail(p)

----------------------------------------------------------------------------
\* The watchdog.

Idle == up /\ child = NoPipeline

\* glob lists the zone.
Scan ==
    /\ Idle /\ pass = {}
    /\ \E n \in Names : zone[n] # NoFile
    /\ pass' = {n \in Names : zone[n] # NoFile}
    /\ UNCHANGED <<prospect, faults, disk, mixed, up, child, job>>

Others(c) == {p \in Pipelines : Running(p) /\ C(p) = c}

\* A pipeline is started on the next file; it takes the first free entry of the table.
Start(n, p) ==
    /\ Idle /\ n \in pass
    /\ job[p].step = "none" /\ \A q \in Pipelines : q < p => job[q].step # "none"
    /\ pass' = pass \ {n}
    /\ child' = p
    /\ job' = [job EXCEPT ![p] = [NoJob EXCEPT !.file = n, !.step = "normalize"]]
    /\ LET c == CustomerOf[n]
       IN  mixed' = IF Others(c) = {} THEN mixed \ {c} ELSE mixed \cup {c}
    /\ UNCHANGED <<prospect, faults, disk, up>>

\* Mutant: a file that fails is moved too.
ReturnQuarantining ==
    /\ child # NoPipeline /\ At(child, "failed")
    /\ LET n == job[child].file IN
       /\ processed' = [processed EXCEPT ![n] =
             [lines |-> zone[n], read |-> job[child].read, grew |-> job[child].grew]]
       /\ zone' = [zone EXCEPT ![n] = NoFile]
    /\ child' = NoPipeline
    /\ job' = [job EXCEPT ![child] = NoJob]
    /\ UNCHANGED <<deliveries, faults, artifacts, reports, mixed, up, pass>>

\* Mutant: the failure ends the pass, and the next begins with the same file.
ReturnStopping ==
    /\ child # NoPipeline /\ At(child, "failed")
    /\ child' = NoPipeline
    /\ job' = [job EXCEPT ![child] = NoJob]
    /\ up' = FALSE
    /\ pass' = {}
    /\ UNCHANGED <<prospect, faults, disk, mixed>>

\* The pipeline has failed: the file stays in the zone, to be tried again in the next
\* pass.
Return ==
    /\ child # NoPipeline /\ At(child, "failed")
    /\ child' = NoPipeline
    /\ job' = [job EXCEPT ![child] = NoJob]
    /\ UNCHANGED <<prospect, faults, disk, mixed, up, pass>>

\* The pipeline has succeeded: the file is moved, over one of the same name.
Quarantine ==
    /\ child # NoPipeline /\ At(child, "done")
    /\ LET n == job[child].file IN
       /\ processed' = [processed EXCEPT ![n] =
             [lines |-> zone[n], read |-> job[child].read, grew |-> job[child].grew]]
       /\ zone' = [zone EXCEPT ![n] = NoFile]
    /\ child' = NoPipeline
    /\ job' = [job EXCEPT ![child] = NoJob]
    /\ UNCHANGED <<deliveries, faults, artifacts, reports, mixed, up, pass>>

\* The watchdog ends: it is killed, or, between a pipeline's end and the next, the move
\* raises.  A pipeline that is running is nobody's child now.
Crash ==
    /\ up
    /\ faults < MaxFaults
    /\ faults' = faults + 1
    /\ up' = FALSE
    /\ pass' = {}
    /\ child' = NoPipeline
    /\ job' = [p \in Pipelines |-> IF Running(p) THEN job[p] ELSE NoJob]
    /\ UNCHANGED <<prospect, disk, mixed>>

Restart ==
    /\ ~up
    /\ up' = TRUE
    /\ UNCHANGED <<prospect, faults, disk, mixed, pass, child, job>>

Prospect == \E n \in Names : Deliver(n) \/ WriteLine(n)

Watchdog == Scan \/ (\E n \in Names, p \in Pipelines : Start(n, p)) \/ Return \/ Quarantine

Next ==
    \/ Prospect \/ Watchdog \/ Crash \/ Restart
    \/ \E p \in Pipelines : Pipeline(p) \/ Kill(p)

\* The watchdog loops for ever, and is started again when it is down; processes run.
Fairness ==
    /\ WF_vars(Watchdog \/ Restart)
    /\ \A p \in Pipelines : WF_vars(Pipeline(p))

Spec == Init /\ [][Next]_vars /\ Fairness
=============================================================================
