------------------------ MODULE TelemetryIntakeProofs ------------------------
(***************************************************************************)
(* Whatever is delivered, and whichever processes are killed: a file in    *)
(* the processed zone was read, in part only if it grew afterwards; and    *)
(* the report of a customer none of whose files is waiting, and none of    *)
(* whose pipelines was started beside another, is of the evidence beside   *)
(* it.                                                                     *)
(*                                                                         *)
(* The invariant follows a file from the glob to the move: only the        *)
(* watchdog takes files out of the zone, so the one its child works on     *)
(* stays (ZoneInv), and what the child has read stays a beginning of it    *)
(* (ReadInv), whatever the pipelines left behind do.                       *)
(***************************************************************************)
EXTENDS TelemetryIntakeProperties, SequenceTheorems, FiniteSetTheorems, TLAPS

Steps == {"none", "normalize", "read", "failed"} \cup AfterRead

Proofs == {Accumulate(log) : log \in Seq(Events) \cup {NoFile}} \cup {Torn, <<>>}

Jobs == [file : Names \cup {NoName}, step : Steps, read : Seq(Lines), raw : Seq(Lines) \cup {Torn},
         proof : Proofs, grew : BOOLEAN]

IntakeTypes ==
    /\ zone \in [Names -> Seq(Lines) \cup {NoFile}]
    /\ processed \in [Names -> Moved \cup {NoFile}]
    /\ artifacts \in [Customers -> Seq(Events) \cup {NoFile, Torn}]
    /\ pass \subseteq Names
    /\ child \in Pipelines \cup {NoPipeline}
    /\ job \in [Pipelines -> Jobs]

\* Files are in the zone, and the child's is, until it is moved; a pipeline has a file
\* that is there, or was; and only the child's end is waited for.
ZoneInv ==
    /\ \A n \in pass : zone[n] # NoFile
    /\ child # NoPipeline => /\ job[child].step # "none"
                            /\ zone[job[child].file] # NoFile
                            /\ job[child].file \notin pass
    /\ \A p \in Pipelines : job[p].step # "none" =>
          /\ job[p].file \in Names
          /\ zone[job[p].file] # NoFile \/ processed[job[p].file] # NoFile
          /\ job[p].step \in {"done", "failed"} => p = child

WasRead(part, all, more) ==
    IsPrefix(part, all) /\ (more \/ part = all) /\ Malformed \notin Range(part)

ReadInv == child # NoPipeline /\ job[child].step \in AfterRead =>
               WasRead(job[child].read, zone[job[child].file], job[child].grew)

IntakeInv == IntakeTypes /\ ZoneInv /\ ReadInv /\ ProcessedWasRead

\* A file that grows keeps what was read of it as its beginning.
LEMMA GrowingKeepsPrefix ==
    ASSUME NEW part \in Seq(Lines), NEW all \in Seq(Lines), NEW line \in Lines, IsPrefix(part, all)
    PROVE  IsPrefix(part, Append(all, line))
BY DEF IsPrefix

LEMMA PrefixOfItself == ASSUME NEW all \in Seq(Lines) PROVE IsPrefix(all, all)
BY DEF IsPrefix

LEMMA NoJobIsJob == NoJob \in Jobs
BY EmptySeq DEF NoJob, Jobs, Steps, Proofs

LEMMA NoPipelineIsNone == NoPipeline \notin Pipelines
BY PipelinesAreNumbered DEF NoPipeline

\* The fields of a job, and what changing one of them leaves.
LEMMA JobFields ==
    ASSUME NEW j \in Jobs
    PROVE  /\ j.file \in Names \cup {NoName} /\ j.step \in Steps /\ j.grew \in BOOLEAN
           /\ j.read \in Seq(Lines) /\ j.raw \in Seq(Lines) \cup {Torn} /\ j.proof \in Proofs
BY DEF Jobs

LEMMA StepChanged ==
    ASSUME NEW j \in Jobs, NEW to \in Steps, NEW k, k = [j EXCEPT !.step = to]
    PROVE  /\ k \in Jobs /\ k.step = to /\ k.file = j.file /\ k.read = j.read
           /\ k.raw = j.raw /\ k.proof = j.proof /\ k.grew = j.grew
BY DEF Jobs

LEMMA GrewChanged ==
    ASSUME NEW j \in Jobs, NEW more \in BOOLEAN, NEW k, k = [j EXCEPT !.grew = more]
    PROVE  /\ k \in Jobs /\ k.grew = more /\ k.file = j.file /\ k.step = j.step
           /\ k.read = j.read /\ k.raw = j.raw /\ k.proof = j.proof
BY DEF Jobs

LEMMA InitIntakeInv == Init => IntakeInv
<1> SUFFICES ASSUME Init PROVE IntakeInv
    OBVIOUS
<1> USE DEF Init
<1>1. IntakeTypes
    BY EmptySeq, NoJobIsJob DEF IntakeTypes
<1>2. ZoneInv /\ ReadInv
    BY DEF ZoneInv, ReadInv, NoJob
<1>3. ProcessedWasRead
    BY DEF ProcessedWasRead
<1>. QED
    BY <1>1, <1>2, <1>3 DEF IntakeInv

LEMMA DeliverKeeps == ASSUME IntakeInv, NEW n \in Names, Deliver(n) PROVE IntakeInv'
<1> USE DEF IntakeInv
<1>1. /\ zone[n] = NoFile /\ zone' = [zone EXCEPT ![n] = <<>>]
      /\ UNCHANGED <<processed, artifacts, pass, child, job>>
    BY DEF Deliver, disk, watchdog
<1>2. <<>> \in Seq(Lines)
    BY EmptySeq
<1>3. \A k \in Names : k # n => zone'[k] = zone[k]
    BY <1>1 DEF IntakeTypes
<1>4. zone'[n] # NoFile
    BY <1>1, <1>2, NoFileIsNoContent DEF IntakeTypes
<1>5. IntakeTypes'
    BY <1>1, <1>2 DEF IntakeTypes
<1>6. \A k \in Names : zone[k] # NoFile => zone'[k] # NoFile /\ zone'[k] = zone[k]
    BY <1>1, <1>3
<1>7. child # NoPipeline => child \in Pipelines /\ job[child].file \in Names
    BY DEF ZoneInv, IntakeTypes
<1>8. ZoneInv'
    BY <1>1, <1>6, <1>7 DEF ZoneInv, IntakeTypes
<1>9. ReadInv'
    BY <1>1, <1>6, <1>7 DEF ReadInv, ZoneInv
<1>10. ProcessedWasRead'
    BY <1>1 DEF ProcessedWasRead
<1>. QED
    BY <1>5, <1>8, <1>9, <1>10

\* The two cases of a line that is added.
LEMMA Lengthened ==
    ASSUME IntakeInv, NEW n \in Names, WriteLine(n)
    PROVE  \E line \in Lines :
             \/ /\ zone[n] # NoFile
                /\ zone' = [zone EXCEPT ![n] = Append(@, line)]
                /\ job' = [p \in Pipelines |->
                     [job[p] EXCEPT !.grew = @ \/ (job[p].file = n /\ job[p].step \in AfterRead)]]
                /\ UNCHANGED processed
             \/ /\ zone[n] = NoFile /\ processed[n] # NoFile
                /\ processed' = [processed EXCEPT ![n] =
                     [lines |-> Append(@.lines, line), read |-> @.read, grew |-> TRUE]]
                /\ UNCHANGED <<zone, job>>
BY DEF WriteLine

\* What a line that is added to a file in the zone does to the jobs.
LEMMA GrownJobs ==
    ASSUME IntakeTypes, NEW n \in Names,
           job' = [p \in Pipelines |->
               [job[p] EXCEPT !.grew = @ \/ (job[p].file = n /\ job[p].step \in AfterRead)]]
    PROVE  /\ job' \in [Pipelines -> Jobs]
           /\ \A p \in Pipelines :
                 /\ job'[p].file = job[p].file /\ job'[p].step = job[p].step
                 /\ job'[p].read = job[p].read /\ job'[p].raw = job[p].raw
                 /\ job'[p].proof = job[p].proof
                 /\ job'[p].grew = (job[p].grew \/ (job[p].file = n /\ job[p].step \in AfterRead))
<1>1. ASSUME NEW p \in Pipelines
      PROVE  /\ job'[p] \in Jobs
             /\ job'[p].file = job[p].file /\ job'[p].step = job[p].step
             /\ job'[p].read = job[p].read /\ job'[p].raw = job[p].raw
             /\ job'[p].proof = job[p].proof
             /\ job'[p].grew = (job[p].grew \/ (job[p].file = n /\ job[p].step \in AfterRead))
  <2>. DEFINE more == job[p].grew \/ (job[p].file = n /\ job[p].step \in AfterRead)
  <2>1. job[p] \in Jobs /\ more \in BOOLEAN
      BY DEF IntakeTypes
  <2>2. job'[p] = [job[p] EXCEPT !.grew = more]
      OBVIOUS
  <2>. HIDE DEF more
  <2>3. /\ job'[p] \in Jobs /\ job'[p].grew = more /\ job'[p].step = job[p].step
        /\ job'[p].file = job[p].file /\ job'[p].read = job[p].read
        /\ job'[p].raw = job[p].raw /\ job'[p].proof = job[p].proof
      BY <2>1, <2>2, GrewChanged
  <2>. QED
      BY <2>3 DEF more
<1>2. job' \in [Pipelines -> Jobs]
    BY <1>1
<1>. QED
    BY <1>1, <1>2

LEMMA WriteLineKeeps == ASSUME IntakeInv, NEW n \in Names, WriteLine(n) PROVE IntakeInv'
<1> USE DEF IntakeInv
<1>1. PICK line \in Lines :
          \/ /\ zone[n] # NoFile
             /\ zone' = [zone EXCEPT ![n] = Append(@, line)]
             /\ job' = [p \in Pipelines |->
                   [job[p] EXCEPT !.grew = @ \/ (job[p].file = n /\ job[p].step \in AfterRead)]]
             /\ UNCHANGED processed
          \/ /\ zone[n] = NoFile /\ processed[n] # NoFile
             /\ processed' = [processed EXCEPT ![n] =
                     [lines |-> Append(@.lines, line), read |-> @.read, grew |-> TRUE]]
             /\ UNCHANGED <<zone, job>>
    BY Lengthened
<1>2. UNCHANGED <<artifacts, pass, child>>
    BY DEF WriteLine, watchdog
<1>3. CASE zone[n] # NoFile
  <2>1. /\ zone' = [zone EXCEPT ![n] = Append(@, line)] /\ processed' = processed
        /\ job' = [p \in Pipelines |->
              [job[p] EXCEPT !.grew = @ \/ (job[p].file = n /\ job[p].step \in AfterRead)]]
      BY <1>1, <1>3
  <2>2. zone[n] \in Seq(Lines) /\ Append(zone[n], line) \in Seq(Lines)
      BY <1>3, AppendProperties DEF IntakeTypes
  <2>3. \A k \in Names : zone'[k] = IF k = n THEN Append(zone[n], line) ELSE zone[k]
      BY <2>1 DEF IntakeTypes
  <2>4. \A k \in Names : zone'[k] # NoFile <=> zone[k] # NoFile
      BY <1>3, <2>2, <2>3, NoFileIsNoContent
  <2>5. /\ job' \in [Pipelines -> Jobs]
        /\ \A p \in Pipelines :
              /\ job'[p].file = job[p].file /\ job'[p].step = job[p].step
              /\ job'[p].read = job[p].read
              /\ job'[p].grew = (job[p].grew \/ (job[p].file = n /\ job[p].step \in AfterRead))
      BY <2>1, GrownJobs
  <2>6. IntakeTypes'
    <3>1. zone' \in [Names -> Seq(Lines) \cup {NoFile}]
        BY <2>1, <2>2 DEF IntakeTypes
    <3>. QED
        BY <1>2, <2>1, <2>5, <3>1 DEF IntakeTypes
  <2>7. child # NoPipeline => child \in Pipelines /\ job[child].file \in Names
      BY DEF ZoneInv, IntakeTypes
  <2>8. ZoneInv'
    <3>1. pass \subseteq Names /\ \A k \in pass' : zone'[k] # NoFile
        BY <1>2, <2>4 DEF ZoneInv, IntakeTypes
    <3>2. child' # NoPipeline => /\ job'[child'].step # "none"
                                /\ zone'[job'[child'].file] # NoFile
                                /\ job'[child'].file \notin pass'
        BY <1>2, <2>4, <2>5, <2>7 DEF ZoneInv
    <3>3. ASSUME NEW p \in Pipelines, job'[p].step # "none"
          PROVE  /\ job'[p].file \in Names
                 /\ zone'[job'[p].file] # NoFile \/ processed'[job'[p].file] # NoFile
                 /\ job'[p].step \in {"done", "failed"} => p = child'
        BY <1>2, <2>1, <2>4, <2>5, <3>3 DEF ZoneInv
    <3>. QED
        BY <3>1, <3>2, <3>3 DEF ZoneInv
  <2>9. ReadInv'
    <3> SUFFICES ASSUME child # NoPipeline, job[child].step \in AfterRead
                 PROVE  WasRead(job[child].read, zone'[job[child].file], job'[child].grew)
        BY <1>2, <2>5, <2>7 DEF ReadInv
    <3>. DEFINE file == job[child].file
                part == job[child].read
    <3>1. /\ WasRead(part, zone[file], job[child].grew) /\ file \in Names
          /\ child \in Pipelines /\ part \in Seq(Lines)
        BY <2>7, JobFields DEF ReadInv, IntakeTypes
    <3>2. CASE n = file
      <4>1. IsPrefix(part, zone'[file])
          BY <2>2, <2>3, <3>1, <3>2, GrowingKeepsPrefix DEF WasRead
      <4>2. job'[child].grew
          BY <2>5, <3>1, <3>2
      <4>. QED
          BY <3>1, <4>1, <4>2 DEF WasRead
    <3>3. CASE n # file
      <4>1. zone'[file] = zone[file]
          BY <2>3, <3>1, <3>3
      <4>2. job[child].grew => job'[child].grew
          BY <2>5, <3>1
      <4>. QED
          BY <3>1, <4>1, <4>2 DEF WasRead
    <3>. QED
        BY <3>2, <3>3
  <2>10. ProcessedWasRead'
      BY <2>1 DEF ProcessedWasRead
  <2>. QED
      BY <2>6, <2>8, <2>9, <2>10
<1>4. CASE zone[n] = NoFile
  <2>1. /\ processed[n] # NoFile /\ zone' = zone /\ job' = job
        /\ processed' = [processed EXCEPT ![n] =
                     [lines |-> Append(@.lines, line), read |-> @.read, grew |-> TRUE]]
      BY <1>1, <1>4
  <2>2. processed[n] \in Moved
      BY <2>1 DEF IntakeTypes
  <2>3. Append(processed[n].lines, line) \in Seq(Lines)
      BY <2>2, AppendProperties DEF Moved
  <2>. DEFINE longer == [lines |-> Append(processed[n].lines, line),
                         read |-> processed[n].read, grew |-> TRUE]
  <2>4. processed' = [processed EXCEPT ![n] = longer]
      BY <2>1
  <2>5. longer \in Moved
      BY <2>2, <2>3 DEF Moved
  <2>6. IntakeTypes' /\ \A k \in Names : processed[k] # NoFile => processed'[k] # NoFile
    <3>1. processed' \in [Names -> Moved \cup {NoFile}]
      <4>. HIDE DEF longer
      <4>. QED
          BY <2>4, <2>5 DEF IntakeTypes
    <3>2. longer # NoFile
        BY <2>5, NoFileIsNoContent
    <3>3. \A k \in Names : processed'[k] = IF k = n THEN longer ELSE processed[k]
      <4>. HIDE DEF longer
      <4>. QED
          BY <2>4 DEF IntakeTypes
    <3>. QED
        BY <1>2, <2>1, <3>1, <3>2, <3>3 DEF IntakeTypes
  <2>7. ZoneInv' /\ ReadInv'
      BY <1>2, <2>1, <2>6 DEF ZoneInv, ReadInv, IntakeTypes
  <2>8. ProcessedWasRead'
    <3> SUFFICES ASSUME NEW k \in Names, processed'[k] # NoFile
                 PROVE  /\ IsPrefix(processed'[k].read, processed'[k].lines)
                        /\ processed'[k].grew \/ processed'[k].read = processed'[k].lines
                        /\ Malformed \notin Range(processed'[k].read)
        BY DEF ProcessedWasRead
    <3>1. CASE k = n
      <4>1. /\ processed'[n].lines = Append(processed[n].lines, line)
            /\ processed'[n].read = processed[n].read /\ processed'[n].grew
          BY <2>4 DEF IntakeTypes
      <4>2. IsPrefix(processed[n].read, processed[n].lines) /\ Malformed \notin Range(processed[n].read)
          BY <2>1 DEF ProcessedWasRead
      <4>3. IsPrefix(processed[n].read, Append(processed[n].lines, line))
          BY <2>2, <4>2, GrowingKeepsPrefix DEF Moved
      <4>. QED
          BY <3>1, <4>1, <4>2, <4>3
    <3>2. CASE k # n
      <4>1. processed'[k] = processed[k]
          BY <2>4, <3>2 DEF IntakeTypes
      <4>. QED
          BY <4>1 DEF ProcessedWasRead
    <3>. QED
        BY <3>1, <3>2
  <2>. QED
      BY <2>6, <2>7, <2>8
<1>. QED
    BY <1>3, <1>4

LEMMA ScanKeeps == ASSUME IntakeInv, Scan PROVE IntakeInv'
<1>1. /\ child = NoPipeline /\ pass' = {n \in Names : zone[n] # NoFile}
      /\ UNCHANGED <<zone, processed, artifacts, child, job>>
    BY DEF Scan, Idle, disk, prospect
<1>. QED
    BY <1>1 DEF IntakeInv, IntakeTypes, ZoneInv, ReadInv, ProcessedWasRead

LEMMA StartKeeps ==
    ASSUME IntakeInv, NEW n \in Names, NEW p \in Pipelines, Start(n, p) PROVE IntakeInv'
<1> USE DEF IntakeInv
<1> DEFINE new == [NoJob EXCEPT !.file = n, !.step = "normalize"]
<1>1. /\ child = NoPipeline /\ n \in pass /\ job[p].step = "none"
      /\ pass' = pass \ {n} /\ child' = p /\ job' = [job EXCEPT ![p] = new]
      /\ UNCHANGED <<zone, processed, artifacts>>
    BY DEF Start, Idle, disk, prospect
<1>2. new \in Jobs /\ new.file = n /\ new.step = "normalize"
    BY EmptySeq DEF NoJob, Jobs, Steps, Proofs
<1>. HIDE DEF new
<1>3. job'[p] = new /\ \A q \in Pipelines : q # p => job'[q] = job[q]
    BY <1>1 DEF IntakeTypes
<1>4. IntakeTypes'
    BY <1>1, <1>2 DEF IntakeTypes
<1>5. ZoneInv'
  <2>1. zone[n] # NoFile
      BY <1>1 DEF ZoneInv
  <2>2. ASSUME NEW q \in Pipelines, job'[q].step # "none"
        PROVE  /\ job'[q].file \in Names
               /\ zone'[job'[q].file] # NoFile \/ processed'[job'[q].file] # NoFile
               /\ job'[q].step \in {"done", "failed"} => q = child'
    <3>1. CASE q = p
        BY <1>1, <1>2, <1>3, <2>1, <3>1
    <3>2. CASE q # p
        BY <1>1, <1>3, <2>2, <3>2, NoPipelineIsNone DEF ZoneInv
    <3>. QED
        BY <3>1, <3>2
  <2>. QED
      BY <1>1, <1>2, <1>3, <2>1, <2>2 DEF ZoneInv
<1>6. ReadInv'
    BY <1>1, <1>2, <1>3 DEF ReadInv, AfterRead
<1>7. ProcessedWasRead'
    BY <1>1 DEF ProcessedWasRead
<1>. QED
    BY <1>4, <1>5, <1>6, <1>7

\* A pipeline goes on, or ends: all but its job and the customer's log and report stay,
\* and if it is the watchdog's child, what it has read is the beginning of its file.
LEMMA PipelineKeeps ==
    ASSUME IntakeInv, NEW p \in Pipelines, Running(p), NEW next \in Jobs,
           job' = [job EXCEPT ![p] = next],
           UNCHANGED <<zone, processed, pass, child>>,
           artifacts' \in [Customers -> Seq(Events) \cup {NoFile, Torn}],
           \/ next = NoJob /\ p # child
           \/ /\ next.file = job[p].file /\ next.step # "none"
              /\ next.step \in {"done", "failed"} => p = child
              /\ p = child /\ next.step \in AfterRead =>
                     WasRead(next.read, zone[job[p].file], next.grew)
    PROVE  IntakeInv'
<1> USE DEF IntakeInv
<1>1. job'[p] = next /\ \A q \in Pipelines : q # p => job'[q] = job[q]
    BY DEF IntakeTypes
<1>2. job[p].step # "none" /\ NoJob.step = "none"
    BY DEF Running, NoJob
<1>3. IntakeTypes'
    BY DEF IntakeTypes
<1>4. ASSUME child # NoPipeline
      PROVE  /\ job'[child].step # "none" /\ job'[child].file = job[child].file
             /\ job'[child].step \in AfterRead =>
                   WasRead(job'[child].read, zone[job[child].file], job'[child].grew)
  <2>1. CASE child = p
      BY <1>1, <2>1
  <2>2. CASE child # p
      BY <1>1, <1>4, <2>2 DEF ZoneInv, ReadInv, IntakeTypes
  <2>. QED
      BY <2>1, <2>2
<1>5. ASSUME NEW q \in Pipelines, job'[q].step # "none"
      PROVE  /\ job'[q].file \in Names
             /\ zone[job'[q].file] # NoFile \/ processed[job'[q].file] # NoFile
             /\ job'[q].step \in {"done", "failed"} => q = child
  <2>1. CASE q = p
      BY <1>1, <1>2, <1>5, <2>1 DEF ZoneInv
  <2>2. CASE q # p
      BY <1>1, <1>5, <2>2 DEF ZoneInv
  <2>. QED
      BY <2>1, <2>2
<1>6. ZoneInv'
    BY <1>4, <1>5 DEF ZoneInv
<1>7. ReadInv'
    BY <1>4 DEF ReadInv
<1>8. ProcessedWasRead'
    BY DEF ProcessedWasRead
<1>. QED
    BY <1>3, <1>6, <1>7, <1>8

LEMMA RunningHasStep == ASSUME NEW p, Running(p) PROVE job[p].step \notin {"none", "done", "failed"}
BY DEF Running

\* What ends, at its own end or another's.
LEMMA EndedJob ==
    ASSUME IntakeTypes, NEW p \in Pipelines, NEW how \in {"done", "failed"}
    PROVE  \E next \in Jobs :
             /\ Ended(p, how) = [job EXCEPT ![p] = next]
             /\ \/ next = NoJob /\ p # child
                \/ p = child /\ next = [job[p] EXCEPT !.step = how]
<1>1. job[p] \in Jobs /\ how \in Steps
    BY DEF IntakeTypes, Steps, AfterRead
<1>2. CASE p = child
    BY <1>1, <1>2, StepChanged DEF Ended
<1>3. CASE p # child
    BY <1>3, NoJobIsJob DEF Ended
<1>. QED
    BY <1>2, <1>3

LEMMA ChildHasRead ==
    ASSUME IntakeInv, NEW p \in Pipelines, p = child, job[p].step \in AfterRead
    PROVE  WasRead(job[p].read, zone[job[p].file], job[p].grew)
BY NoPipelineIsNone DEF IntakeInv, ReadInv

LEMMA TruncateKeeps == ASSUME IntakeInv, NEW p \in Pipelines, Truncate(p) PROVE IntakeInv'
<1>. DEFINE next == [job[p] EXCEPT !.step = "read"]
<1>1. /\ job[p].step = "normalize" /\ artifacts' = [artifacts EXCEPT ![C(p)] = Torn]
      /\ job' = [job EXCEPT ![p] = next] /\ UNCHANGED <<zone, processed, pass, child>>
    BY DEF Truncate, At, Pipe, prospect, watchdog
<1>2. job[p] \in Jobs /\ "read" \in Steps
    BY DEF IntakeInv, IntakeTypes, Steps
<1>3. next \in Jobs /\ next.step = "read" /\ next.file = job[p].file
    BY <1>2, StepChanged
<1>4. artifacts' \in [Customers -> Seq(Events) \cup {NoFile, Torn}]
    BY <1>1 DEF IntakeInv, IntakeTypes
<1>5. Running(p)
    BY <1>1 DEF Running
<1>6. next.step \notin {"none", "done", "failed"} \cup AfterRead
    BY <1>3 DEF AfterRead
<1>. QED
  <2>. HIDE DEF next
  <2>. QED
    BY <1>1, <1>3, <1>4, <1>5, <1>6, PipelineKeeps

\* What there is to be read: the file, or, if it has been moved, what it is now.
LEMMA OpenedIsLines ==
    ASSUME IntakeInv, NEW p \in Pipelines, job[p].step # "none"
    PROVE  /\ Opened(p) \in Seq(Lines) /\ C(p) \in Customers /\ job[p].file \in Names
           /\ zone[job[p].file] # NoFile => Opened(p) = zone[job[p].file]
<1>1. job[p].file \in Names /\ (zone[job[p].file] # NoFile \/ processed[job[p].file] # NoFile)
    BY DEF IntakeInv, ZoneInv
<1>2. CASE zone[job[p].file] # NoFile
    BY <1>1, <1>2, NamesHaveCustomers DEF Opened, C, IntakeInv, IntakeTypes
<1>3. CASE zone[job[p].file] = NoFile
  <2>1. processed[job[p].file] \in Moved
      BY <1>1, <1>3 DEF IntakeInv, IntakeTypes
  <2>. QED
      BY <1>1, <1>3, <2>1, NamesHaveCustomers DEF Opened, C, Moved
<1>. QED
    BY <1>2, <1>3

\* A normalised log is a log.
LEMMA NormalizedIsLog ==
    ASSUME NEW lines \in Seq(Lines)
    PROVE  Normalized(lines) \in Seq(Events) /\ Normalized(lines) \notin {NoFile, Torn}
<1>1. \A i \in 1..Len(lines) : Normalized(lines)[i] \in Events
    BY DEF Normalized, Events
<1>2. DOMAIN Normalized(lines) = 1..Len(lines) /\ Len(lines) \in Nat
    BY DEF Normalized
<1>3. Normalized(lines) = [i \in 1..Len(lines) |-> Normalized(lines)[i]]
    BY <1>2 DEF Normalized
<1>4. Normalized(lines) \in Seq(Events)
    BY <1>1, <1>2, <1>3, SeqDef
<1>. QED
    BY <1>4, NoLogIsWhole

\* What was read is all there is, and it can be parsed.
LEMMA NormalizeKeeps == ASSUME IntakeInv, NEW p \in Pipelines, Normalize(p) PROVE IntakeInv'
<1>. DEFINE next == [job[p] EXCEPT !.step = "hash", !.read = Opened(p)]
<1>1. /\ job[p].step = "read" /\ Malformed \notin Range(Opened(p))
      /\ job' = [job EXCEPT ![p] = next] /\ UNCHANGED <<zone, processed, pass, child>>
      /\ \E log \in {Normalized(Opened(p)), Torn} : artifacts' = [artifacts EXCEPT ![C(p)] = log]
    BY DEF Normalize, At, Pipe, prospect, watchdog, Logged
<1>2. Opened(p) \in Seq(Lines) /\ (zone[job[p].file] # NoFile => Opened(p) = zone[job[p].file])
    BY <1>1, OpenedIsLines
<1>3. artifacts' \in [Customers -> Seq(Events) \cup {NoFile, Torn}]
    BY <1>1, <1>2, NormalizedIsLog DEF IntakeInv, IntakeTypes
<1>4. /\ next \in Jobs /\ next.step = "hash" /\ next.file = job[p].file
      /\ next.read = Opened(p)
  <2>1. job[p] \in Jobs
      BY DEF IntakeInv, IntakeTypes
  <2>. QED
      BY <1>2, <2>1 DEF Jobs, Steps, AfterRead
<1>5. Running(p)
    BY <1>1 DEF Running
<1>6. p = child => WasRead(next.read, zone[job[p].file], next.grew)
  <2>1. p = child => zone[job[p].file] # NoFile
      BY NoPipelineIsNone DEF IntakeInv, ZoneInv
  <2>. HIDE DEF next
  <2>. QED
      BY <1>1, <1>2, <1>4, <2>1, PrefixOfItself DEF WasRead
<1>. HIDE DEF next
<1>. QED
    BY <1>1, <1>3, <1>4, <1>5, <1>6, PipelineKeeps

\* The steps from there to the end only write the report.
LEMMA HashKeeps == ASSUME IntakeInv, NEW p \in Pipelines, Hash(p) PROVE IntakeInv'
<1>. DEFINE log == artifacts[C(p)]
            digest == OneWriter(p, zone[job[p].file])
            mark == IF log = Torn THEN Torn ELSE OneWriter(p, Accumulate(log))
            next == [job[p] EXCEPT !.step = "report", !.raw = digest, !.proof = mark]
<1>1. /\ job[p].step = "hash" /\ zone[job[p].file] # NoFile
      /\ job' = [job EXCEPT ![p] = next] /\ UNCHANGED <<zone, processed, pass, child, artifacts>>
    BY DEF Hash, At, Pipe, prospect, watchdog
<1>2. job[p] \in Jobs /\ zone[job[p].file] \in Seq(Lines) /\ C(p) \in Customers
    BY <1>1, OpenedIsLines DEF IntakeInv, IntakeTypes
<1>3. digest \in Seq(Lines) \cup {Torn} /\ mark \in Proofs
    BY <1>2 DEF IntakeInv, IntakeTypes, Proofs, OneWriter
<1>4. /\ next \in Jobs /\ next.step = "report" /\ next.file = job[p].file
      /\ next.read = job[p].read /\ next.grew = job[p].grew
  <2>. HIDE DEF mark, digest
  <2>. QED
      BY <1>2, <1>3 DEF Jobs, Steps, AfterRead
<1>5. Running(p) /\ "hash" \in AfterRead
    BY <1>1 DEF Running, AfterRead
<1>6. p = child => WasRead(job[p].read, zone[job[p].file], job[p].grew)
    BY <1>1, <1>5, ChildHasRead
<1>7. artifacts' \in [Customers -> Seq(Events) \cup {NoFile, Torn}]
    BY <1>1 DEF IntakeInv, IntakeTypes
<1>. HIDE DEF next
<1>. QED
    BY <1>1, <1>4, <1>5, <1>6, <1>7, PipelineKeeps

LEMMA GenerateReportKeeps ==
    ASSUME IntakeInv, NEW p \in Pipelines, GenerateReport(p) PROVE IntakeInv'
<1>. DEFINE next == [job[p] EXCEPT !.step = "identify"]
<1>1. /\ job[p].step = "report"
      /\ job' = [job EXCEPT ![p] = next] /\ UNCHANGED <<zone, processed, pass, child, artifacts>>
    BY DEF GenerateReport, At, Pipe, prospect, watchdog
<1>2. job[p] \in Jobs /\ "identify" \in Steps /\ "report" \in AfterRead
    BY DEF IntakeInv, IntakeTypes, Steps, AfterRead
<1>3. /\ next \in Jobs /\ next.step = "identify" /\ next.file = job[p].file
      /\ next.read = job[p].read /\ next.grew = job[p].grew
    BY <1>2, StepChanged
<1>4. Running(p)
    BY <1>1 DEF Running
<1>5. p = child => WasRead(job[p].read, zone[job[p].file], job[p].grew)
    BY <1>1, <1>2, ChildHasRead
<1>6. artifacts' \in [Customers -> Seq(Events) \cup {NoFile, Torn}]
    BY <1>1 DEF IntakeInv, IntakeTypes
<1>. HIDE DEF next
<1>. QED
    BY <1>1, <1>3, <1>4, <1>5, <1>6, PipelineKeeps

\* A pipeline comes to an end.
LEMMA EndingKeeps ==
    ASSUME IntakeInv, NEW p \in Pipelines, Running(p),
           NEW how \in {"done", "failed"}, how = "done" => job[p].step \in AfterRead,
           job' = Ended(p, how), UNCHANGED <<zone, processed, pass, child, artifacts>>
    PROVE  IntakeInv'
<1>1. PICK next \in Jobs :
          /\ Ended(p, how) = [job EXCEPT ![p] = next]
          /\ \/ next = NoJob /\ p # child
             \/ p = child /\ next = [job[p] EXCEPT !.step = how]
    BY EndedJob DEF IntakeInv
<1>2. artifacts' \in [Customers -> Seq(Events) \cup {NoFile, Torn}]
    BY DEF IntakeInv, IntakeTypes
<1>3. CASE next = NoJob /\ p # child
    BY <1>1, <1>2, <1>3, PipelineKeeps
<1>4. CASE p = child /\ next = [job[p] EXCEPT !.step = how]
  <2>1. job[p] \in Jobs /\ how \in Steps
      BY DEF IntakeInv, IntakeTypes, Steps, AfterRead
  <2>2. /\ next.step = how /\ next.file = job[p].file
        /\ next.read = job[p].read /\ next.grew = job[p].grew
      BY <1>4, <2>1, StepChanged
  <2>3. next.step \in AfterRead => WasRead(next.read, zone[job[p].file], next.grew)
      BY <1>4, <2>2, ChildHasRead DEF AfterRead
  <2>4. next.step # "none"
      BY <2>2
  <2>. QED
      BY <1>1, <1>2, <1>4, <2>2, <2>3, <2>4, PipelineKeeps
<1>. QED
    BY <1>1, <1>3, <1>4

LEMMA EndsKeep ==
    ASSUME IntakeInv, NEW p \in Pipelines, AppendIdentifiers(p) \/ Fail(p) \/ Kill(p)
    PROVE  IntakeInv'
<1>1. Running(p)
    BY DEF AppendIdentifiers, Fail, Kill, Raises, At, Running
<1>2. UNCHANGED <<zone, processed, pass, child, artifacts>>
    BY DEF AppendIdentifiers, Fail, Kill, Pipe, prospect, watchdog
<1>3. CASE AppendIdentifiers(p)
  <2>1. job[p].step \in AfterRead /\ job' = Ended(p, "done")
      BY <1>3 DEF AppendIdentifiers, At, AfterRead
  <2>. QED
      BY <1>1, <1>2, <2>1, EndingKeeps
<1>4. CASE Fail(p) \/ Kill(p)
  <2>1. job' = Ended(p, "failed")
      BY <1>4 DEF Fail, Kill
  <2>. QED
      BY <1>1, <1>2, <2>1, EndingKeeps
<1>. QED
    BY <1>3, <1>4

\* Jobs are dropped, and the child with them; what is left is running, or the child.
LEMMA DroppingKeeps ==
    ASSUME IntakeInv, UNCHANGED <<zone, processed, artifacts>>,
           pass' \subseteq pass, child' \in {child, NoPipeline},
           job' \in [Pipelines -> Jobs],
           \A q \in Pipelines :
               /\ job'[q] \in {job[q], NoJob}
               /\ q = child' => job'[q] = job[q]
               /\ q # child' => job'[q].step \notin {"done", "failed"}
    PROVE  IntakeInv'
<1> USE DEF IntakeInv
<1>1. NoJob.step = "none"
    BY DEF NoJob
<1>2. child' # NoPipeline => child' = child /\ child \in Pipelines /\ job'[child] = job[child]
    BY DEF IntakeTypes
<1>3. IntakeTypes'
    BY DEF IntakeTypes
<1>4. ZoneInv'
    BY <1>1, <1>2 DEF ZoneInv
<1>5. ReadInv'
    BY <1>2 DEF ReadInv
<1>6. ProcessedWasRead'
    BY DEF ProcessedWasRead
<1>. QED
    BY <1>3, <1>4, <1>5, <1>6

LEMMA ReturnKeeps == ASSUME IntakeInv, Return PROVE IntakeInv'
<1>1. /\ child # NoPipeline /\ child' = NoPipeline /\ job' = [job EXCEPT ![child] = NoJob]
      /\ UNCHANGED <<zone, processed, artifacts, pass>>
    BY DEF Return, disk, prospect
<1>2. child \in Pipelines /\ NoJob.step = "none"
    BY <1>1 DEF IntakeInv, IntakeTypes, NoJob
<1>3. job' \in [Pipelines -> Jobs]
    BY <1>1, <1>2, NoJobIsJob DEF IntakeInv, IntakeTypes
<1>4. ASSUME NEW q \in Pipelines
      PROVE  /\ job'[q] = IF q = child THEN NoJob ELSE job[q]
             /\ q # child' /\ job'[q].step \notin {"done", "failed"}
  <2>1. job'[q] = IF q = child THEN NoJob ELSE job[q]
      BY <1>1, <1>2 DEF IntakeInv, IntakeTypes
  <2>2. q # child => job[q].step \notin {"done", "failed"}
      BY DEF IntakeInv, ZoneInv
  <2>. QED
      BY <1>1, <1>2, <2>1, <2>2, NoPipelineIsNone
<1>. QED
    BY <1>1, <1>3, <1>4, DroppingKeeps

LEMMA CrashKeeps == ASSUME IntakeInv, Crash PROVE IntakeInv'
<1>1. /\ child' = NoPipeline /\ pass' = {} /\ UNCHANGED <<zone, processed, artifacts>>
      /\ job' = [p \in Pipelines |-> IF Running(p) THEN job[p] ELSE NoJob]
    BY DEF Crash, disk, prospect
<1>2. job' \in [Pipelines -> Jobs]
    BY <1>1, NoJobIsJob DEF IntakeInv, IntakeTypes
<1>3. \A q \in Pipelines :
          /\ job'[q] \in {job[q], NoJob} /\ q # child'
          /\ job'[q].step \notin {"done", "failed"}
    BY <1>1, NoPipelineIsNone DEF Running, NoJob
<1>. QED
    BY <1>1, <1>2, <1>3, DroppingKeeps

LEMMA IdleKeeps == ASSUME IntakeInv, Restart \/ UNCHANGED vars PROVE IntakeInv'
<1>1. UNCHANGED <<zone, processed, artifacts, pass, child, job>>
    BY DEF Restart, vars, disk, prospect, watchdog
<1>. QED
    BY <1>1 DEF IntakeInv, IntakeTypes, ZoneInv, ReadInv, ProcessedWasRead

\* The file the child worked on is moved with what ReadInv says of it.
LEMMA QuarantineKeeps == ASSUME IntakeInv, Quarantine PROVE IntakeInv'
<1> USE DEF IntakeInv
<1>. DEFINE n == job[child].file
            moved == [lines |-> zone[n], read |-> job[child].read, grew |-> job[child].grew]
<1>1. /\ child # NoPipeline /\ job[child].step = "done" /\ child' = NoPipeline /\ pass' = pass
      /\ processed' = [processed EXCEPT ![n] = moved]
      /\ zone' = [zone EXCEPT ![n] = NoFile]
      /\ job' = [job EXCEPT ![child] = NoJob] /\ artifacts' = artifacts
    BY DEF Quarantine, At
<1>2. child \in Pipelines /\ NoJob.step = "none"
    BY <1>1 DEF IntakeTypes, NoJob
<1>3. /\ n \in Names /\ n \notin pass /\ zone[n] \in Seq(Lines)
      /\ job[child].read \in Seq(Lines) /\ job[child].grew \in BOOLEAN
    BY <1>1, <1>2, JobFields DEF ZoneInv, IntakeTypes
<1>4. WasRead(job[child].read, zone[n], job[child].grew)
    BY <1>1 DEF ReadInv, AfterRead
<1>5. moved \in Moved /\ moved # NoFile
    BY <1>3, NoFileIsNoContent DEF Moved
<1>6. moved.lines = zone[n] /\ moved.read = job[child].read /\ moved.grew = job[child].grew
    OBVIOUS
<1>. HIDE DEF moved, n
<1>7. /\ processed'[n] = moved
      /\ \A k \in Names : k # n => processed'[k] = processed[k] /\ zone'[k] = zone[k]
    BY <1>1, <1>3 DEF IntakeTypes
<1>8. IntakeTypes'
  <2>1. processed' \in [Names -> Moved \cup {NoFile}]
      BY <1>1, <1>5 DEF IntakeTypes
  <2>2. zone' \in [Names -> Seq(Lines) \cup {NoFile}]
      BY <1>1 DEF IntakeTypes
  <2>3. job' \in [Pipelines -> Jobs]
      BY <1>1, NoJobIsJob DEF IntakeTypes
  <2>. QED
      BY <1>1, <2>1, <2>2, <2>3 DEF IntakeTypes
<1>9. ASSUME NEW q \in Pipelines, job'[q].step # "none"
      PROVE  /\ job'[q].file \in Names /\ job'[q].step \notin {"done", "failed"}
             /\ zone'[job'[q].file] # NoFile \/ processed'[job'[q].file] # NoFile
  <2>1. q # child /\ job'[q] = job[q]
      BY <1>1, <1>2, <1>9 DEF IntakeTypes
  <2>2. job[q].file \in Names /\ (zone[job[q].file] # NoFile \/ processed[job[q].file] # NoFile)
      BY <1>9, <2>1 DEF ZoneInv
  <2>. QED
      BY <1>5, <1>7, <1>9, <2>1, <2>2 DEF ZoneInv
<1>10. ZoneInv'
  <2>1. \A k \in pass' : zone'[k] # NoFile
      BY <1>1, <1>3, <1>7 DEF ZoneInv, IntakeTypes
  <2>. QED
      BY <1>1, <1>9, <2>1 DEF ZoneInv
<1>11. ReadInv'
    BY <1>1 DEF ReadInv
<1>12. ProcessedWasRead'
  <2> SUFFICES ASSUME NEW k \in Names, processed'[k] # NoFile
               PROVE  WasRead(processed'[k].read, processed'[k].lines, processed'[k].grew)
      BY DEF ProcessedWasRead, WasRead
  <2>1. CASE k = n
      BY <1>4, <1>6, <1>7, <2>1
  <2>2. CASE k # n
      BY <1>7, <2>2 DEF ProcessedWasRead, WasRead
  <2>. QED
      BY <2>1, <2>2
<1>. QED
    BY <1>8, <1>10, <1>11, <1>12

LEMMA NextKeeps == IntakeInv /\ [Next]_vars => IntakeInv'
<1> SUFFICES ASSUME IntakeInv, [Next]_vars PROVE IntakeInv'
    OBVIOUS
<1>1. CASE Prospect
    BY <1>1, DeliverKeeps, WriteLineKeeps DEF Prospect
<1>2. CASE Watchdog
    BY <1>2, ScanKeeps, StartKeeps, ReturnKeeps, QuarantineKeeps DEF Watchdog
<1>3. CASE \E p \in Pipelines : Pipeline(p) \/ Kill(p)
    BY <1>3, TruncateKeeps, NormalizeKeeps, HashKeeps, GenerateReportKeeps, EndsKeep DEF Pipeline
<1>4. CASE Crash \/ Restart \/ UNCHANGED vars
    BY <1>4, CrashKeeps, IdleKeeps
<1>. QED
    BY <1>1, <1>2, <1>3, <1>4 DEF Next

\* A file in the processed zone was read by a pipeline that could parse all it read,
\* and whole, unless the prospect went on writing to it (evidence_adapter.py:57-64):
\* for any files, any prospects, any number of pipelines and any that are killed or
\* left behind.
THEOREM ProcessedIsRead == Spec => []ProcessedWasRead
<1>1. IntakeInv => ProcessedWasRead
    BY DEF IntakeInv
<1>. QED
    BY InitIntakeInv, NextKeeps, <1>1, PTL DEF Spec
----------------------------------------------------------------------------
(***************************************************************************)
(* And what the customer gets of it.  The pipelines of a customer that is  *)
(* not mixed are one (AloneInv), whose file is waiting (WaitingInv); the   *)
(* normalised log on disk is of what it has read, and the digests and the  *)
(* report are of that log, step by step (Told).                            *)
(***************************************************************************)

Active(p) == job[p].step # "none"

AloneInv ==
    \A p \in Pipelines, q \in Pipelines :
        Active(p) /\ Active(q) /\ C(p) = C(q) /\ C(p) \notin mixed => p = q

WaitingInv == \A p \in Pipelines : Active(p) /\ C(p) \notin mixed => zone[job[p].file] # NoFile

\* The pipeline is alone with the log and the report.
Tells(j, log, report, file) ==
    /\ j.step \in AfterRead => log = Normalized(j.read)
    /\ j.step \in {"report", "identify", "done"} =>
          j.proof = Accumulate(log) /\ (j.grew \/ j.raw = file)
    /\ j.step = "identify" => report = <<Report(log)>>
    /\ j.step = "done" =>
          report = <<Report(log), [raw |-> j.raw, normalized |-> log, proof |-> j.proof]>>

Told(p) ==
    Active(p) /\ C(p) \notin mixed =>
        Tells(job[p], artifacts[C(p)], reports[C(p)], zone[job[p].file])

ToldInv == \A p \in Pipelines : Told(p)

EvidenceInv ==
    IntakeInv /\ DOMAIN reports = Customers /\ AloneInv /\ WaitingInv /\ ToldInv
              /\ ReportsMatchEvidence

\* A log whose outcome the metrics call confirmed has no event that counts as unconfirmed.
LEMMA NothingConfirmedIsUnconfirmed ==
    ASSUME NEW lines \in Seq(Lines), NEW log, log = Normalized(lines),
           Metrics(log).outcome = "REMOTE_CONFIRMED"
    PROVE  Unconfirmed(log) = 0
<1>1. DOMAIN log = DOMAIN lines
    BY DEF Normalized
<1>2. \A i \in DOMAIN log : log[i].disposition = "DISPATCHED_UNCONFIRMED" => TimedOut(log[i])
  <2>1. \A i \in DOMAIN lines :
            log[i] = [line |-> lines[i], disposition |->
                IF lines[i].status = "504" THEN "DISPATCHED_UNCONFIRMED" ELSE "CONFIRMED"]
      BY DEF Normalized
  <2>. QED
      BY <1>1, <2>1 DEF TimedOut
<1>3. ~ \E i \in DOMAIN log : TimedOut(log[i])
    BY DEF Metrics
<1>4. {i \in DOMAIN log : log[i].disposition = "DISPATCHED_UNCONFIRMED"} = {}
    BY <1>2, <1>3
<1>. QED
    BY <1>4, FS_EmptySet DEF Unconfirmed

\* A customer's report stands while its log and its report do, and the files that were
\* processed for it, unless one was waiting before.
LEMMA UntouchedKeeps ==
    ASSUME ReportsMatchEvidence, NEW c \in Customers, c \notin mixed,
           artifacts'[c] = artifacts[c], reports'[c] = reports[c],
           \A n \in Names : CustomerOf[n] = c /\ processed[n] # NoFile =>
               /\ processed'[n] # NoFile /\ processed'[n].read = processed[n].read
               /\ processed'[n].grew \/ processed'[n] = processed[n],
           Waiting(c) = {}
    PROVE  Reported(c)'
<1>1. Reported(c)
    BY DEF ReportsMatchEvidence
<1>2. CASE artifacts[c] = NoFile /\ reports[c] = <<>>
    BY <1>2 DEF Reported
<1>3. CASE \E n \in Names : ReportedOn(c, n)
  <2>1. PICK n \in Names : ReportedOn(c, n)
      BY <1>3
  <2>2. IsReportOf(reports'[c], artifacts'[c], processed'[n])
      BY <2>1 DEF IsReportOf, ReportedOn
  <2>. QED
      BY <2>1, <2>2 DEF Reported, ReportedOn
<1>. QED
    BY <1>1, <1>2, <1>3 DEF Reported

\* Nor does it matter what is started or dropped.
LEMMA ReportsStand ==
    ASSUME ReportsMatchEvidence, UNCHANGED <<zone, processed, artifacts, reports, mixed>>
    PROVE  ReportsMatchEvidence'
<1> SUFFICES ASSUME NEW c \in Customers \ mixed, Waiting(c)' = {} PROVE Reported(c)'
    BY DEF ReportsMatchEvidence
<1>1. Waiting(c) = {}
    BY DEF Waiting
<1>. QED
    BY <1>1, UntouchedKeeps

LEMMA InitEvidenceInv == Init => EvidenceInv
<1> SUFFICES ASSUME Init PROVE EvidenceInv
    OBVIOUS
<1>1. \A p \in Pipelines : ~Active(p)
    BY DEF Init, Active, NoJob
<1>2. AloneInv /\ WaitingInv /\ ToldInv
    BY <1>1 DEF AloneInv, WaitingInv, ToldInv, Told
<1>3. ReportsMatchEvidence /\ DOMAIN reports = Customers
    BY DEF Init, ReportsMatchEvidence, Reported
<1>. QED
    BY InitIntakeInv, <1>2, <1>3 DEF EvidenceInv

\* A pipeline goes on, or ends: it may do what it likes to the log and the report of its
\* customer, whose file is waiting, if what it knows of them stays true; the other
\* pipelines are of other customers.
LEMMA PipelineKeepsEvidence ==
    ASSUME EvidenceInv, IntakeInv', NEW p \in Pipelines, Active(p), NEW next \in Jobs,
           job' = [job EXCEPT ![p] = next],
           next.step = "none" \/ next.file = job[p].file,
           UNCHANGED <<zone, processed, mixed>>,
           DOMAIN reports' = Customers,
           \A c \in Customers : c # C(p) => artifacts'[c] = artifacts[c] /\ reports'[c] = reports[c],
           C(p) \notin mixed /\ next.step # "none" =>
               Tells(next, artifacts'[C(p)], reports'[C(p)], zone[job[p].file])
    PROVE  EvidenceInv'
<1> USE DEF EvidenceInv
<1>1. job'[p] = next /\ \A q \in Pipelines : q # p => job'[q] = job[q]
    BY DEF IntakeInv, IntakeTypes
<1>2. \A q \in Pipelines : Active(q)' => Active(q) /\ job'[q].file = job[q].file
    BY <1>1 DEF Active
<1>3. \A q \in Pipelines : Active(q)' => C(q)' = C(q)
    BY <1>2 DEF C
<1>4. \A q \in Pipelines : Active(q) => C(q) \in Customers
    BY OpenedIsLines DEF Active
<1>5. AloneInv'
    BY <1>2, <1>3 DEF AloneInv
<1>6. WaitingInv'
    BY <1>2, <1>3 DEF WaitingInv
<1>7. ToldInv'
  <2> SUFFICES ASSUME NEW q \in Pipelines, Active(q)', C(q) \notin mixed
               PROVE  Tells(job'[q], artifacts'[C(q)], reports'[C(q)], zone[job[q].file])
      BY <1>2, <1>3 DEF ToldInv, Told
  <2>1. CASE q = p
      BY <1>1, <2>1 DEF Active
  <2>2. CASE q # p
    <3>1. Active(q) /\ C(q) # C(p) /\ C(q) \in Customers
        BY <1>2, <1>4, <2>2 DEF AloneInv
    <3>. QED
        BY <1>1, <2>2, <3>1 DEF ToldInv, Told
  <2>. QED
      BY <2>1, <2>2
<1>8. ReportsMatchEvidence'
  <2> SUFFICES ASSUME NEW c \in Customers \ mixed, Waiting(c)' = {} PROVE Reported(c)'
      BY DEF ReportsMatchEvidence
  <2>1. Waiting(c) = {}
      BY DEF Waiting
  <2>2. job[p].file \in Names
      BY OpenedIsLines DEF Active
  <2>3. c # C(p)
      BY <2>1, <2>2 DEF Waiting, WaitingInv, C
  <2>. QED
      BY <2>1, <2>3, UntouchedKeeps
<1>. QED
    BY <1>5, <1>6, <1>7, <1>8

\* What the customer's only pipeline knows: its file is waiting.
LEMMA ItsOwn ==
    ASSUME EvidenceInv, NEW p \in Pipelines, Active(p)
    PROVE  /\ job[p] \in Jobs /\ C(p) \in Customers /\ job[p].file \in Names
           /\ C(p) \notin mixed =>
                 /\ zone[job[p].file] # NoFile /\ Opened(p) = zone[job[p].file]
                 /\ Tells(job[p], artifacts[C(p)], reports[C(p)], zone[job[p].file])
BY OpenedIsLines DEF EvidenceInv, IntakeInv, IntakeTypes, Active, WaitingInv, ToldInv, Told

\* What is written to the log or the report of a customer is written to no other's.
LEMMA WrittenToOne ==
    ASSUME EvidenceInv, NEW c \in Customers, NEW x
    PROVE  /\ [artifacts EXCEPT ![c] = x][c] = x
           /\ [reports EXCEPT ![c] = x][c] = x
           /\ DOMAIN [reports EXCEPT ![c] = x] = Customers
           /\ \A d \in Customers : d # c => /\ [artifacts EXCEPT ![c] = x][d] = artifacts[d]
                                         /\ [reports EXCEPT ![c] = x][d] = reports[d]
BY DEF EvidenceInv, IntakeInv, IntakeTypes

LEMMA TruncateKeepsEvidence ==
    ASSUME EvidenceInv, NEW p \in Pipelines, Truncate(p) PROVE EvidenceInv'
<1>. DEFINE next == [job[p] EXCEPT !.step = "read"]
<1>1. /\ job[p].step = "normalize" /\ artifacts' = [artifacts EXCEPT ![C(p)] = Torn]
      /\ job' = [job EXCEPT ![p] = next] /\ UNCHANGED <<zone, processed, mixed, reports>>
    BY DEF Truncate, At, Pipe, prospect, watchdog
<1>2. Active(p)
    BY <1>1 DEF Active
<1>3. next \in Jobs /\ next.step = "read" /\ next.file = job[p].file
    BY <1>2, ItsOwn, StepChanged DEF Steps
<1>4. IntakeInv'
    BY TruncateKeeps DEF EvidenceInv
<1>5. Tells(next, artifacts'[C(p)], reports'[C(p)], zone[job[p].file])
    BY <1>3 DEF Tells, AfterRead
<1>. HIDE DEF next
<1>6. DOMAIN reports' = Customers
    BY <1>1 DEF EvidenceInv
<1>7. \A c \in Customers : c # C(p) => artifacts'[c] = artifacts[c] /\ reports'[c] = reports[c]
    BY <1>1, <1>2, ItsOwn, WrittenToOne
<1>. QED
    BY <1>1, <1>2, <1>3, <1>4, <1>5, <1>6, <1>7, PipelineKeepsEvidence

LEMMA NormalizeKeepsEvidence ==
    ASSUME EvidenceInv, NEW p \in Pipelines, Normalize(p) PROVE EvidenceInv'
<1>. DEFINE next == [job[p] EXCEPT !.step = "hash", !.read = Opened(p)]
<1>1. /\ job[p].step = "read" /\ job' = [job EXCEPT ![p] = next]
      /\ UNCHANGED <<zone, processed, mixed, reports>>
    BY DEF Normalize, At, Pipe, prospect, watchdog
<1>2. PICK log \in Logged(p, Normalized(Opened(p))) :
          artifacts' = [artifacts EXCEPT ![C(p)] = log]
    BY DEF Normalize
<1>3. Active(p)
    BY <1>1 DEF Active
<1>4. Opened(p) \in Seq(Lines)
    BY <1>3, OpenedIsLines DEF EvidenceInv, Active
<1>5. next \in Jobs /\ next.step = "hash" /\ next.file = job[p].file /\ next.read = Opened(p)
  <2>1. job[p] \in Jobs
      BY <1>3, ItsOwn
  <2>. QED
      BY <1>4, <2>1 DEF Jobs, Steps, AfterRead
<1>6. IntakeInv'
    BY NormalizeKeeps DEF EvidenceInv
<1>. HIDE DEF next
<1>7. /\ DOMAIN reports' = Customers /\ artifacts'[C(p)] = log
      /\ \A c \in Customers : c # C(p) => artifacts'[c] = artifacts[c] /\ reports'[c] = reports[c]
    BY <1>1, <1>2, <1>3, ItsOwn, WrittenToOne DEF EvidenceInv
<1>8. C(p) \notin mixed => log = Normalized(Opened(p))
    BY <1>2 DEF Logged
<1>9. C(p) \notin mixed => Tells(next, artifacts'[C(p)], reports'[C(p)], zone[job[p].file])
    BY <1>5, <1>7, <1>8 DEF Tells
<1>. QED
    BY <1>1, <1>3, <1>5, <1>6, <1>7, <1>9, PipelineKeepsEvidence

LEMMA HashKeepsEvidence ==
    ASSUME EvidenceInv, NEW p \in Pipelines, Hash(p) PROVE EvidenceInv'
<1>. DEFINE log == artifacts[C(p)]
            digest == OneWriter(p, zone[job[p].file])
            mark == IF log = Torn THEN Torn ELSE OneWriter(p, Accumulate(log))
            next == [job[p] EXCEPT !.step = "report", !.raw = digest, !.proof = mark]
<1>1. /\ job[p].step = "hash" /\ job' = [job EXCEPT ![p] = next]
      /\ UNCHANGED <<zone, processed, mixed, reports, artifacts>>
    BY DEF Hash, At, Pipe, prospect, watchdog
<1>2. Active(p) /\ zone[job[p].file] # NoFile
    BY <1>1 DEF Active, Hash
<1>3. job[p] \in Jobs /\ zone[job[p].file] \in Seq(Lines) /\ C(p) \in Customers
    BY <1>2, ItsOwn DEF EvidenceInv, IntakeInv, IntakeTypes
<1>4. digest \in Seq(Lines) \cup {Torn} /\ mark \in Proofs
    BY <1>3 DEF EvidenceInv, IntakeInv, IntakeTypes, Proofs, OneWriter
<1>5. /\ next \in Jobs /\ next.step = "report" /\ next.file = job[p].file
      /\ next.read = job[p].read /\ next.raw = digest /\ next.proof = mark
  <2>. HIDE DEF mark, digest
  <2>. QED
      BY <1>3, <1>4 DEF Jobs, Steps, AfterRead
<1>6. IntakeInv'
    BY HashKeeps DEF EvidenceInv
<1>7. C(p) \notin mixed => /\ log = Normalized(job[p].read) /\ mark = Accumulate(log)
                          /\ digest = zone[job[p].file]
  <2>1. C(p) \notin mixed => log = Normalized(job[p].read)
      BY <1>1, <1>2, ItsOwn DEF Tells, AfterRead
  <2>2. job[p].read \in Seq(Lines)
      BY <1>3, JobFields
  <2>. QED
      BY <2>1, <2>2, NormalizedIsLog DEF OneWriter
<1>. HIDE DEF next, mark, digest
<1>8. C(p) \notin mixed => Tells(next, artifacts'[C(p)], reports'[C(p)], zone[job[p].file])
    BY <1>1, <1>5, <1>7 DEF Tells
<1>. QED
    BY <1>1, <1>2, <1>5, <1>6, <1>8, PipelineKeepsEvidence DEF EvidenceInv

LEMMA GenerateReportKeepsEvidence ==
    ASSUME EvidenceInv, NEW p \in Pipelines, GenerateReport(p) PROVE EvidenceInv'
<1>. DEFINE next == [job[p] EXCEPT !.step = "identify"]
            log == artifacts[C(p)]
            report == OneWriter(p, Report(log))
<1>1. /\ job[p].step = "report" /\ job' = [job EXCEPT ![p] = next]
      /\ UNCHANGED <<zone, processed, mixed, artifacts>>
    BY DEF GenerateReport, At, Pipe, prospect, watchdog
<1>2. reports' = [reports EXCEPT ![C(p)] = <<report>>]
    BY DEF GenerateReport
<1>3. Active(p)
    BY <1>1 DEF Active
<1>4. /\ next \in Jobs /\ next.step = "identify" /\ next.file = job[p].file
      /\ next.read = job[p].read /\ next.raw = job[p].raw /\ next.proof = job[p].proof
      /\ next.grew = job[p].grew
    BY <1>3, ItsOwn, StepChanged DEF Steps, AfterRead
<1>5. IntakeInv'
    BY GenerateReportKeeps DEF EvidenceInv
<1>. HIDE DEF next
<1>6. /\ DOMAIN reports' = Customers /\ reports'[C(p)] = <<report>>
      /\ \A c \in Customers : c # C(p) => artifacts'[c] = artifacts[c] /\ reports'[c] = reports[c]
    BY <1>1, <1>2, <1>3, ItsOwn, WrittenToOne DEF EvidenceInv
<1>7. ASSUME C(p) \notin mixed
      PROVE  Tells(next, artifacts'[C(p)], reports'[C(p)], zone[job[p].file])
  <2>1. /\ log = Normalized(job[p].read) /\ job[p].proof = Accumulate(log)
        /\ job[p].grew \/ job[p].raw = zone[job[p].file]
      BY <1>1, <1>3, <1>7, ItsOwn DEF Tells, AfterRead
  <2>2. report = Report(log)
      BY <1>7 DEF OneWriter
  <2>. HIDE DEF report
  <2>. QED
      BY <1>1, <1>4, <1>6, <2>1, <2>2 DEF Tells
<1>. QED
    BY <1>1, <1>3, <1>4, <1>5, <1>6, <1>7, PipelineKeepsEvidence

LEMMA AppendToOne == ASSUME NEW x, NEW y PROVE Append(<<x>>, y) = <<x, y>>
<1>. DEFINE S == {x, y}
<1>1. <<x>> \in Seq(S) /\ y \in S
    OBVIOUS
<1>2. /\ Len(Append(<<x>>, y)) = 2 /\ Append(<<x>>, y)[1] = x /\ Append(<<x>>, y)[2] = y
      /\ Append(<<x>>, y) \in Seq(S)
    BY <1>1, AppendProperties
<1>3. <<x, y>> \in Seq(S) /\ Len(<<x, y>>) = 2
    OBVIOUS
<1>4. \A i \in 1..2 : Append(<<x>>, y)[i] = <<x, y>>[i]
    BY <1>2
<1>. QED
    BY <1>2, <1>3, <1>4, SeqEqual

LEMMA IdentifyKeepsEvidence ==
    ASSUME EvidenceInv, NEW p \in Pipelines, AppendIdentifiers(p) PROVE EvidenceInv'
<1>. DEFINE log == artifacts[C(p)]
            ids == OneWriter(p, Identifiers(p, log))
            report == Append(reports[C(p)], ids)
<1>1. /\ job[p].step = "identify" /\ job' = Ended(p, "done")
      /\ reports' = [reports EXCEPT ![C(p)] = report]
      /\ UNCHANGED <<zone, processed, mixed, artifacts>>
    BY DEF AppendIdentifiers, At, Pipe, prospect, watchdog
<1>2. Active(p)
    BY <1>1 DEF Active
<1>3. PICK next \in Jobs :
          /\ job' = [job EXCEPT ![p] = next]
          /\ \/ next = NoJob /\ p # child
             \/ p = child /\ next = [job[p] EXCEPT !.step = "done"]
    BY <1>1, EndedJob DEF EvidenceInv, IntakeInv
<1>4. IntakeInv'
    BY EndsKeep DEF EvidenceInv
<1>5. /\ DOMAIN reports' = Customers /\ reports'[C(p)] = report
      /\ \A c \in Customers : c # C(p) => artifacts'[c] = artifacts[c] /\ reports'[c] = reports[c]
  <2>. HIDE DEF report
  <2>. QED
      BY <1>1, <1>2, ItsOwn, WrittenToOne DEF EvidenceInv
<1>6. CASE next = NoJob
  <2>1. next.step = "none"
      BY <1>6 DEF NoJob
  <2>. QED
      BY <1>1, <1>2, <1>3, <1>4, <1>5, <2>1, PipelineKeepsEvidence
<1>7. CASE next = [job[p] EXCEPT !.step = "done"]
  <2>1. /\ next.step = "done" /\ next.file = job[p].file
        /\ next.read = job[p].read /\ next.raw = job[p].raw /\ next.proof = job[p].proof
        /\ next.grew = job[p].grew
      BY <1>2, <1>7, ItsOwn, StepChanged DEF Steps, AfterRead
  <2>2. ASSUME C(p) \notin mixed
        PROVE  Tells(next, artifacts'[C(p)], reports'[C(p)], zone[job[p].file])
    <3>1. /\ log = Normalized(job[p].read) /\ job[p].proof = Accumulate(log)
          /\ job[p].grew \/ job[p].raw = zone[job[p].file]
          /\ reports[C(p)] = <<Report(log)>>
        BY <1>1, <1>2, <2>2, ItsOwn DEF Tells, AfterRead
    <3>2. report = <<Report(log), ids>>
      <4>. HIDE DEF ids, log
      <4>. QED
          BY <3>1, AppendToOne
    <3>3. ids = [raw |-> next.raw, normalized |-> log, proof |-> next.proof]
        BY <2>1, <2>2 DEF Identifiers, OneWriter
    <3>. QED
        BY <1>1, <1>5, <2>1, <3>1, <3>2, <3>3 DEF Tells
  <2>. HIDE DEF report
  <2>. QED
      BY <1>1, <1>2, <1>3, <1>4, <1>5, <2>1, <2>2, PipelineKeepsEvidence
<1>. QED
    BY <1>3, <1>6, <1>7

\* A process that raises or is killed can leave half a report, but its file is waiting.
LEMMA FailingKeepsEvidence ==
    ASSUME EvidenceInv, NEW p \in Pipelines, Fail(p) \/ Kill(p) PROVE EvidenceInv'
<1>1. /\ job' = Ended(p, "failed") /\ UNCHANGED <<zone, processed, mixed, artifacts>>
    BY DEF Fail, Kill, Pipe, prospect, watchdog
<1>2. Active(p)
    BY DEF Active, Fail, Kill, Raises, Running, At
<1>3. PICK next \in Jobs :
          /\ job' = [job EXCEPT ![p] = next]
          /\ \/ next = NoJob /\ p # child
             \/ p = child /\ next = [job[p] EXCEPT !.step = "failed"]
    BY <1>1, EndedJob DEF EvidenceInv, IntakeInv
<1>4. next.step = "none" \/ (next.step = "failed" /\ next.file = job[p].file)
  <2>1. job[p] \in Jobs /\ NoJob.step = "none"
      BY <1>2, ItsOwn DEF NoJob
  <2>. QED
      BY <1>3, <2>1, StepChanged DEF Steps
<1>5. IntakeInv'
    BY EndsKeep DEF EvidenceInv
<1>6. /\ DOMAIN reports' = Customers
      /\ \A c \in Customers : c # C(p) => reports'[c] = reports[c]
  <2>1. \/ reports' = reports \/ reports' = [reports EXCEPT ![C(p)] = <<Torn>>]
        \/ reports' = [reports EXCEPT ![C(p)] = Append(@, Torn)]
      BY DEF Fail, Kill
  <2>. QED
      BY <2>1 DEF EvidenceInv
<1>7. Tells(next, artifacts'[C(p)], reports'[C(p)], zone[job[p].file]) \/ next.step = "none"
    BY <1>4 DEF Tells, AfterRead
<1>. QED
    BY <1>1, <1>2, <1>3, <1>4, <1>5, <1>6, <1>7, PipelineKeepsEvidence

\* Jobs are dropped.
LEMMA DroppingKeepsEvidence ==
    ASSUME EvidenceInv, IntakeInv', UNCHANGED <<zone, processed, mixed, artifacts, reports>>,
           \A q \in Pipelines : job'[q] \in {job[q], NoJob}
    PROVE  EvidenceInv'
<1> USE DEF EvidenceInv
<1>1. \A q \in Pipelines : Active(q)' => Active(q) /\ job'[q] = job[q]
    BY DEF Active, NoJob
<1>2. \A q \in Pipelines : Active(q)' => C(q)' = C(q)
    BY <1>1 DEF C
<1>3. AloneInv' /\ WaitingInv'
    BY <1>1, <1>2 DEF AloneInv, WaitingInv
<1>4. ToldInv'
    BY <1>1, <1>2 DEF ToldInv, Told
<1>. QED
    BY <1>3, <1>4, ReportsStand

LEMMA GivingUpKeepsEvidence ==
    ASSUME EvidenceInv, Return \/ Crash \/ Restart \/ Scan \/ UNCHANGED vars PROVE EvidenceInv'
<1>1. UNCHANGED <<zone, processed, mixed, artifacts, reports>>
    BY DEF Return, Crash, Restart, Scan, vars, disk, prospect
<1>2. \A q \in Pipelines : job'[q] \in {job[q], NoJob}
    BY DEF Return, Crash, Restart, Scan, vars, EvidenceInv, IntakeInv, IntakeTypes
<1>3. IntakeInv'
    BY ReturnKeeps, CrashKeeps, IdleKeeps, ScanKeeps DEF EvidenceInv
<1>. QED
    BY <1>1, <1>2, <1>3, DroppingKeepsEvidence

\* A pipeline that is started beside no other is alone, and its file is waiting.
LEMMA StartKeepsEvidence ==
    ASSUME EvidenceInv, NEW n \in Names, NEW p \in Pipelines, Start(n, p) PROVE EvidenceInv'
<1> USE DEF EvidenceInv
<1>. DEFINE new == [NoJob EXCEPT !.file = n, !.step = "normalize"]
            c == CustomerOf[n]
<1>1. /\ child = NoPipeline /\ n \in pass /\ job' = [job EXCEPT ![p] = new]
      /\ mixed' = (IF Others(c) = {} THEN mixed \ {c} ELSE mixed \cup {c})
      /\ UNCHANGED <<zone, processed, artifacts, reports>>
    BY DEF Start, Idle, disk, prospect
<1>2. new.file = n /\ new.step = "normalize"
    BY DEF NoJob
<1>. HIDE DEF new
<1>3. job'[p] = new /\ \A q \in Pipelines : q # p => job'[q] = job[q]
    BY <1>1 DEF IntakeInv, IntakeTypes
<1>4. zone[n] # NoFile
    BY <1>1 DEF IntakeInv, ZoneInv
<1>5. \A q \in Pipelines : Active(q) => Running(q)
  <2> SUFFICES ASSUME NEW q \in Pipelines, Active(q) PROVE Running(q)
      OBVIOUS
  <2>1. job[q].step \notin {"none", "done", "failed"}
      BY <1>1, NoPipelineIsNone DEF Active, IntakeInv, ZoneInv
  <2>2. job[q].step \in Steps
      BY JobFields DEF IntakeInv, IntakeTypes
  <2>. QED
      BY <2>1, <2>2 DEF Running, Steps, AfterRead
<1>6. C(p)' = c /\ \A q \in Pipelines : q # p => C(q)' = C(q) /\ (Active(q)' <=> Active(q))
    BY <1>2, <1>3 DEF C, Active
<1>7. ASSUME c \notin mixed' PROVE \A q \in Pipelines : Active(q) => C(q) # c
  <2>1. Others(c) = {}
      BY <1>1, <1>7
  <2>. QED
      BY <1>5, <2>1 DEF Others
<1>8. \A d : d # c => (d \in mixed' <=> d \in mixed)
    BY <1>1
<1>9. \A q \in Pipelines : q # p /\ Active(q)' /\ C(q)' \notin mixed' =>
          Active(q) /\ C(q) # c /\ C(q) \notin mixed
    BY <1>6, <1>7, <1>8
<1>10. AloneInv'
  <2> SUFFICES ASSUME NEW q \in Pipelines, NEW r \in Pipelines, Active(q)', Active(r)',
                      C(q)' = C(r)', C(q)' \notin mixed'
               PROVE  q = r
      BY DEF AloneInv
  <2>1. q # p => C(q)' # c
      BY <1>6, <1>9
  <2>2. r # p => C(r)' # c
      BY <1>6, <1>9
  <2>3. CASE q # p /\ r # p
      BY <1>6, <1>9, <2>3 DEF AloneInv
  <2>. QED
      BY <1>6, <2>1, <2>2, <2>3
<1>11. WaitingInv'
    BY <1>1, <1>2, <1>3, <1>4, <1>9 DEF WaitingInv
<1>12. ToldInv'
  <2> SUFFICES ASSUME NEW q \in Pipelines, Active(q)', C(q)' \notin mixed'
               PROVE  Tells(job'[q], artifacts[C(q)'], reports[C(q)'], zone[job'[q].file])
      BY <1>1 DEF ToldInv, Told
  <2>1. CASE q = p
      BY <1>2, <1>3, <2>1 DEF Tells, AfterRead
  <2>2. CASE q # p
      BY <1>3, <1>6, <1>9, <2>2 DEF ToldInv, Told
  <2>. QED
      BY <2>1, <2>2
<1>13. ReportsMatchEvidence'
  <2> SUFFICES ASSUME NEW d \in Customers \ mixed', Waiting(d)' = {} PROVE Reported(d)'
      BY DEF ReportsMatchEvidence
  <2>1. Waiting(d) = {}
      BY <1>1 DEF Waiting
  <2>2. d # c
      BY <1>4, <2>1 DEF Waiting
  <2>3. d \notin mixed
      BY <1>8, <2>2
  <2>. QED
      BY <1>1, <2>1, <2>3, UntouchedKeeps
<1>14. DOMAIN reports' = Customers /\ IntakeInv'
    BY <1>1, StartKeeps
<1>. QED
    BY <1>10, <1>11, <1>12, <1>13, <1>14

\* The prospect changes no file but by adding to it, or delivers one where none was.
LEMMA ProspectKeepsEvidence ==
    ASSUME EvidenceInv, IntakeInv', UNCHANGED <<artifacts, reports, mixed>>,
           \A k \in Names : zone[k] # NoFile => zone'[k] # NoFile,
           \A q \in Pipelines :
               /\ job'[q].file = job[q].file /\ job'[q].step = job[q].step
               /\ job'[q].read = job[q].read /\ job'[q].raw = job[q].raw
               /\ job'[q].proof = job[q].proof
               /\ job[q].grew => job'[q].grew
               /\ Active(q) /\ job[q].step \in AfterRead /\ zone[job[q].file] # NoFile =>
                     job'[q].grew \/ zone'[job[q].file] = zone[job[q].file],
           \A k \in Names : processed[k] # NoFile =>
               /\ processed'[k] # NoFile /\ processed'[k].read = processed[k].read
               /\ processed'[k].grew \/ processed'[k] = processed[k]
    PROVE  EvidenceInv'
<1> USE DEF EvidenceInv
<1>1. \A q \in Pipelines : (Active(q)' <=> Active(q)) /\ C(q)' = C(q)
    BY DEF Active, C
<1>2. \A q \in Pipelines : Active(q) => job[q].file \in Names
    BY OpenedIsLines DEF Active
<1>3. AloneInv' /\ WaitingInv'
    BY <1>1, <1>2 DEF AloneInv, WaitingInv
<1>4. ToldInv'
  <2> SUFFICES ASSUME NEW q \in Pipelines, Active(q), C(q) \notin mixed
               PROVE  Tells(job'[q], artifacts[C(q)], reports[C(q)], zone'[job[q].file])
      BY <1>1 DEF ToldInv, Told
  <2>1. /\ Tells(job[q], artifacts[C(q)], reports[C(q)], zone[job[q].file])
        /\ zone[job[q].file] # NoFile
      BY DEF ToldInv, Told, WaitingInv
  <2>2. job[q].step \in AfterRead =>
            job'[q].grew \/ (zone'[job[q].file] = zone[job[q].file])
      BY <2>1
  <2>. QED
      BY <2>1, <2>2 DEF Tells, AfterRead
<1>5. ReportsMatchEvidence'
  <2> SUFFICES ASSUME NEW c \in Customers \ mixed, Waiting(c)' = {} PROVE Reported(c)'
      BY DEF ReportsMatchEvidence
  <2>1. Waiting(c) = {}
      BY DEF Waiting
  <2>. QED
      BY <2>1, UntouchedKeeps
<1>. QED
    BY <1>3, <1>4, <1>5

LEMMA DeliverKeepsEvidence ==
    ASSUME EvidenceInv, NEW n \in Names, Deliver(n) PROVE EvidenceInv'
<1>1. /\ zone[n] = NoFile /\ zone' = [zone EXCEPT ![n] = <<>>]
      /\ UNCHANGED <<processed, artifacts, reports, mixed, job>>
    BY DEF Deliver, disk
<1>2. \A k \in Names : zone[k] # NoFile => zone'[k] = zone[k]
    BY <1>1 DEF EvidenceInv, IntakeInv, IntakeTypes
<1>3. \A q \in Pipelines : Active(q) => job[q].file \in Names
    BY OpenedIsLines DEF Active, EvidenceInv
<1>4. IntakeInv'
    BY DeliverKeeps DEF EvidenceInv
<1>. QED
    BY <1>1, <1>2, <1>3, <1>4, ProspectKeepsEvidence

\* What the prospect adds is not in the log; it was there when the raw file was hashed,
\* or the file has grown.
LEMMA WriteLineKeepsEvidence ==
    ASSUME EvidenceInv, NEW n \in Names, WriteLine(n) PROVE EvidenceInv'
<1>1. PICK line \in Lines :
          \/ /\ zone[n] # NoFile
             /\ zone' = [zone EXCEPT ![n] = Append(@, line)]
             /\ job' = [p \in Pipelines |->
                   [job[p] EXCEPT !.grew = @ \/ (job[p].file = n /\ job[p].step \in AfterRead)]]
             /\ UNCHANGED processed
          \/ /\ zone[n] = NoFile /\ processed[n] # NoFile
             /\ processed' = [processed EXCEPT ![n] =
                     [lines |-> Append(@.lines, line), read |-> @.read, grew |-> TRUE]]
             /\ UNCHANGED <<zone, job>>
    BY Lengthened DEF EvidenceInv
<1>2. UNCHANGED <<artifacts, reports, mixed>>
    BY DEF WriteLine
<1>3. IntakeTypes /\ IntakeInv' /\ DOMAIN zone = Names /\ DOMAIN processed = Names
    BY WriteLineKeeps DEF EvidenceInv, IntakeInv, IntakeTypes
<1>4. CASE zone[n] # NoFile
  <2>1. /\ zone' = [zone EXCEPT ![n] = Append(@, line)] /\ processed' = processed
        /\ job' = [p \in Pipelines |->
              [job[p] EXCEPT !.grew = @ \/ (job[p].file = n /\ job[p].step \in AfterRead)]]
      BY <1>1, <1>4
  <2>2. Append(zone[n], line) # NoFile
      BY <1>3, <1>4, AppendProperties, NoFileIsNoContent DEF IntakeTypes
  <2>3. \A k \in Names : zone'[k] = IF k = n THEN Append(zone[n], line) ELSE zone[k]
      BY <1>3, <2>1
  <2>4. \A q \in Pipelines :
            /\ job'[q].file = job[q].file /\ job'[q].step = job[q].step
            /\ job'[q].read = job[q].read /\ job'[q].raw = job[q].raw
            /\ job'[q].proof = job[q].proof
            /\ job'[q].grew = (job[q].grew \/ (job[q].file = n /\ job[q].step \in AfterRead))
      BY <1>3, <2>1, GrownJobs
  <2>5. \A q \in Pipelines : Active(q) => job[q].file \in Names
      BY OpenedIsLines DEF Active, EvidenceInv
  <2>6. \A q \in Pipelines :
            /\ job[q].grew => job'[q].grew
            /\ Active(q) /\ job[q].step \in AfterRead /\ zone[job[q].file] # NoFile =>
                  job'[q].grew \/ zone'[job[q].file] = zone[job[q].file]
      BY <2>3, <2>4, <2>5
  <2>7. \A k \in Names : zone[k] # NoFile => zone'[k] # NoFile
      BY <2>2, <2>3
  <2>. QED
      BY <1>2, <1>3, <2>1, <2>4, <2>6, <2>7, ProspectKeepsEvidence
<1>5. CASE zone[n] = NoFile
  <2>. DEFINE longer == [lines |-> Append(processed[n].lines, line),
                         read |-> processed[n].read, grew |-> TRUE]
  <2>1. /\ processed' = [processed EXCEPT ![n] = longer] /\ zone' = zone /\ job' = job
        /\ processed[n] # NoFile
      BY <1>1, <1>5
  <2>2. longer \in Moved
      BY <1>3, <2>1, AppendProperties DEF Moved, IntakeTypes
  <2>3. longer # NoFile /\ longer.read = processed[n].read /\ longer.grew
      BY <2>2, NoFileIsNoContent
  <2>. HIDE DEF longer
  <2>4. \A k \in Names : processed[k] # NoFile =>
            /\ processed'[k] # NoFile /\ processed'[k].read = processed[k].read
            /\ processed'[k].grew \/ processed'[k] = processed[k]
      BY <1>3, <2>1, <2>3
  <2>. QED
      BY <1>2, <1>3, <2>1, <2>4, ProspectKeepsEvidence
<1>. QED
    BY <1>4, <1>5

\* The file that is moved is the one the log and the report are of, and its customer's
\* only pipeline is the one that has made them.
LEMMA QuarantineKeepsEvidence == ASSUME EvidenceInv, Quarantine PROVE EvidenceInv'
<1> USE DEF EvidenceInv
<1>. DEFINE n == job[child].file
            c == CustomerOf[n]
            log == artifacts[c]
            moved == [lines |-> zone[n], read |-> job[child].read, grew |-> job[child].grew]
<1>1. /\ child # NoPipeline /\ job[child].step = "done"
      /\ processed' = [processed EXCEPT ![n] = moved] /\ zone' = [zone EXCEPT ![n] = NoFile]
      /\ job' = [job EXCEPT ![child] = NoJob] /\ UNCHANGED <<artifacts, reports, mixed>>
    BY DEF Quarantine, At
<1>2. child \in Pipelines /\ Active(child) /\ C(child) = c
    BY <1>1 DEF IntakeInv, IntakeTypes, Active, C
<1>3. /\ n \in Names /\ c \in Customers /\ zone[n] \in Seq(Lines)
      /\ job[child].read \in Seq(Lines) /\ job[child].grew \in BOOLEAN
      /\ DOMAIN zone = Names /\ DOMAIN processed = Names
    BY <1>1, <1>2, ItsOwn, JobFields DEF IntakeInv, IntakeTypes, ZoneInv
<1>4. moved # NoFile
    BY <1>3, NoFileIsNoContent DEF Moved
<1>5. moved.lines = zone[n] /\ moved.read = job[child].read /\ moved.grew = job[child].grew
    OBVIOUS
<1>6. ASSUME c \notin mixed PROVE IsReportOf(reports[c], log, moved)
  <2>. DEFINE ids == [raw |-> job[child].raw, normalized |-> log, proof |-> job[child].proof]
  <2>1. /\ log = Normalized(job[child].read) /\ job[child].proof = Accumulate(log)
        /\ job[child].grew \/ job[child].raw = zone[n]
        /\ reports[c] = <<Report(log), ids>>
      BY <1>1, <1>2, <1>6, ItsOwn DEF Tells, AfterRead
  <2>2. log \notin {NoFile, Torn}
      BY <1>3, <2>1, NormalizedIsLog
  <2>3. Metrics(log).outcome = "REMOTE_CONFIRMED" => Unconfirmed(log) = 0
      BY <1>3, <2>1, NothingConfirmedIsUnconfirmed
  <2>4. /\ Len(reports[c]) = 2 /\ reports[c][1].metrics = Metrics(log)
        /\ reports[c][1].timeouts = WeeklyTimeouts(log) /\ reports[c][2] = ids
      BY <2>1 DEF Report
  <2>5. ids.raw = job[child].raw /\ ids.normalized = log /\ ids.proof = job[child].proof
      OBVIOUS
  <2>. HIDE DEF ids, log, moved, c, n
  <2>. QED
      BY <1>5, <2>1, <2>2, <2>3, <2>4, <2>5 DEF IsReportOf, WeeklyTimeouts
<1>. HIDE DEF moved
<1>7. /\ processed'[n] = moved /\ zone'[n] = NoFile
      /\ \A k \in Names : k # n => processed'[k] = processed[k] /\ zone'[k] = zone[k]
    BY <1>1, <1>3
<1>8. \A q \in Pipelines : Active(q)' =>
          q # child /\ Active(q) /\ job'[q] = job[q] /\ C(q)' = C(q) /\ job[q].file \in Names
  <2> SUFFICES ASSUME NEW q \in Pipelines, Active(q)'
               PROVE  /\ q # child /\ Active(q) /\ job'[q] = job[q] /\ C(q)' = C(q)
                      /\ job[q].file \in Names
      OBVIOUS
  <2>1. q # child /\ job'[q] = job[q]
      BY <1>1, <1>2 DEF Active, NoJob, IntakeInv, IntakeTypes
  <2>2. Active(q) /\ C(q)' = C(q)
      BY <2>1 DEF Active, C
  <2>. QED
      BY <2>1, <2>2, ItsOwn
<1>9. \A q \in Pipelines : Active(q)' /\ C(q) \notin mixed =>
          C(q) # c /\ zone'[job[q].file] = zone[job[q].file]
  <2> SUFFICES ASSUME NEW q \in Pipelines, Active(q)', C(q) \notin mixed
               PROVE  C(q) # c /\ zone'[job[q].file] = zone[job[q].file]
      OBVIOUS
  <2>1. C(q) # c
      BY <1>2, <1>8 DEF AloneInv
  <2>. QED
      BY <1>7, <1>8, <2>1 DEF C
<1>10. AloneInv' /\ WaitingInv'
    BY <1>1, <1>8, <1>9 DEF AloneInv, WaitingInv
<1>11. ToldInv'
    BY <1>1, <1>8, <1>9 DEF ToldInv, Told
<1>12. ReportsMatchEvidence'
  <2> SUFFICES ASSUME NEW d \in Customers \ mixed, Waiting(d)' = {} PROVE Reported(d)'
      BY <1>1 DEF ReportsMatchEvidence
  <2>1. CASE d = c
    <3>1. n \in Names /\ CustomerOf[n] = d
        BY <1>3, <2>1
    <3>2. processed'[n] # NoFile /\ IsReportOf(reports'[d], artifacts'[d], processed'[n])
        BY <1>1, <1>4, <1>6, <1>7, <2>1
    <3>. HIDE DEF n
    <3>. QED
        BY <3>1, <3>2 DEF Reported, ReportedOn
  <2>2. CASE d # c
    <3>1. \A k \in Names : CustomerOf[k] = d => processed'[k] = processed[k] /\ zone'[k] = zone[k]
        BY <1>7, <2>2
    <3>2. Waiting(d) = {}
        BY <3>1 DEF Waiting
    <3>. QED
        BY <1>1, <3>1, <3>2, UntouchedKeeps
  <2>. QED
      BY <2>1, <2>2
<1>. QED
    BY <1>1, <1>10, <1>11, <1>12, QuarantineKeeps

LEMMA NextKeepsEvidence == EvidenceInv /\ [Next]_vars => EvidenceInv'
<1> SUFFICES ASSUME EvidenceInv, [Next]_vars PROVE EvidenceInv'
    OBVIOUS
<1>1. CASE Prospect
    BY <1>1, DeliverKeepsEvidence, WriteLineKeepsEvidence DEF Prospect
<1>2. CASE Watchdog
    BY <1>2, GivingUpKeepsEvidence, StartKeepsEvidence, QuarantineKeepsEvidence DEF Watchdog
<1>3. CASE \E p \in Pipelines : Pipeline(p) \/ Kill(p)
    BY <1>3, TruncateKeepsEvidence, NormalizeKeepsEvidence, HashKeepsEvidence,
       GenerateReportKeepsEvidence, IdentifyKeepsEvidence, FailingKeepsEvidence DEF Pipeline
<1>4. CASE Crash \/ Restart \/ UNCHANGED vars
    BY <1>4, GivingUpKeepsEvidence
<1>. QED
    BY <1>1, <1>2, <1>3, <1>4 DEF Next

\* A customer none of whose files is waiting has a whole report of the log on disk, which
\* was made from one of the files that were moved, and the report calls nothing confirmed
\* that the risk calculation does not (run_prospect.py:49-81): for any files and any
\* customers, though several files overwrite the one log and the one report, the prospect
\* goes on writing to them, and processes are killed wherever they are; unless its last
\* pipeline was started beside one that the watchdog's end had left behind.
THEOREM ReportsAreOfEvidence == Spec => []ReportsMatchEvidence
<1>1. EvidenceInv => ReportsMatchEvidence
    BY DEF EvidenceInv
<1>. QED
    BY InitEvidenceInv, NextKeepsEvidence, <1>1, PTL DEF Spec
=============================================================================
