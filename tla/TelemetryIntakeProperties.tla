---------------------- MODULE TelemetryIntakeProperties ----------------------
(***************************************************************************)
(* What the intake promises of the files a prospect delivers.              *)
(***************************************************************************)
EXTENDS TelemetryIntake

\* A file in the processed zone was read to its end, by a pipeline that did not
\* fail on it (evidence_adapter.py:57-64), unless the prospect was still writing:
\* then what was read is the beginning of it.
ProcessedWasRead ==
    \A n \in Names : processed[n] # NoFile =>
        /\ IsPrefix(processed[n].read, processed[n].lines)
        /\ processed[n].grew \/ processed[n].read = processed[n].lines
        /\ Malformed \notin Range(processed[n].read)

Waiting(c) == {n \in Names : CustomerOf[n] = c /\ zone[n] # NoFile}

\* A complete report, of the log on disk that was made from this processed file.
IsReportOf(report, log, file) ==
    /\ log \notin {NoFile, Torn}
    /\ log = Normalized(file.read)
    /\ Len(report) = 2
    /\ LET body == report[1]
           identifiers == report[2]
       IN  /\ body.metrics = Metrics(log)
           /\ body.timeouts = IF Timeouts(log) = 0 THEN 1 ELSE Timeouts(log)
           /\ body.metrics.outcome = "REMOTE_CONFIRMED" => Unconfirmed(log) = 0
           /\ identifiers.normalized = log
           /\ identifiers.proof = Accumulate(log)
           /\ file.grew \/ identifiers.raw = file.lines

ReportedOn(c, n) ==
    /\ CustomerOf[n] = c /\ processed[n] # NoFile
    /\ IsReportOf(reports[c], artifacts[c], processed[n])

Reported(c) ==
    \/ artifacts[c] = NoFile /\ reports[c] = <<>>
    \/ \E n \in Names : ReportedOn(c, n)

\* Processes that are killed and files that fail leave half-written logs and reports
\* behind (run_prospect.py:49-81), and a report may be of another file than the
\* normalised log beside it; but only while a file of that customer waits in the drop
\* zone to be tried again.  Otherwise the report is complete, and its metrics, digests
\* and identifier are of the one log on disk, made from one file that was processed;
\* and it confirms nothing that the risk calculation counts as unconfirmed.  The timeouts
\* it calls observed are those of the log, but where the log has none it gives one
\* (diagnostic_report.py:71-72).  That is so unless the last pipeline of the customer was
\* started beside one that a killed watchdog had left behind (evidence_adapter.py:38): the
\* two write the same files.
ReportsMatchEvidence == \A c \in Customers \ mixed : Waiting(c) = {} => Reported(c)

\* What the pipeline can take: lines that are objects, with amounts that are numbers.
Processable(lines) == \A i \in DOMAIN lines : lines[i] # Malformed /\ lines[i].priced

\* A file the pipeline can take, and to which the prospect adds nothing that it cannot,
\* leaves the drop zone however often others fail (evidence_adapter.py:57-59 returns,
\* and the loop of main goes on), through pipelines that are killed or left behind and
\* a watchdog that dies or cannot move a file, if not for ever.
GoodFilesGetThrough ==
    \A n \in Names :
        (zone[n] # NoFile /\ Processable(zone[n]))
            ~> (zone[n] = NoFile \/ ~Processable(zone[n]))
=============================================================================
