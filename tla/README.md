# SMAOS: a TLA+ model of the pre-dispatch gate, its ledgers, the state graph and the evidence

SMAOS stands between an autonomous agent and the tools it calls. A consequential
call needs a human approval that can be spent once, a declared intent that other
agents can see, an idempotency key, and a classification of what the wire
answered; what happened is then signed, anchored and reported. The modules here
model that program (Python, one C filter) from its source: paths below are
relative to the repository's root, which the map in `PROJECT.json` calls `src/`.

Contents: 1 the system, 2 what is modelled and how it corresponds to the code,
3 the runs, 4 fairness, 5 the proofs, 6 what is not modelled, 7 the plan.

## 1. The system

| component | state | operations | hard behaviour | what makes it correct |
|---|---|---|---|---|
| approval nonce ledger, `src/nonce_ledger.py` | a SQLite table, one row for each approval (nonce, approval, payload, scope, window, status) | `record_approval`, `consume_nonce` | several processes and threads, a connection for each call, a wait of up to 30 s for the lock, a clock read before that wait, WAL with `synchronous = NORMAL`, crashes | an approval authorises one execution, of exactly what was approved, in its window; nothing re-arms it |
| intent ledger, `src/intent_ledger.py` | a SQLite table of intents; one connection and one cursor for each ledger object | `declare_intent`, `resolve_intent` | threads share the cursor and the transaction, implicit transactions, snapshots, failed writes, crashes | what an agent holds is visible to all, no two agents hold a target, resolved stays resolved, a lock never leaks silently |
| transport observer, `src/transport_observer.py` | none | `classify_wire_event`, `observe_tool_call` | any exception, at any point of the request, and answers of any shape | a disposition never claims more than is known, and it is recorded before it is returned |
| idempotency binder, `src/idempotency_binder.py` | none | `generate_idempotency_key`, `bind_to_headers` | defaults for two of the three arguments a key is made of; one payload approved and sent twice | equal calls get equal keys; nothing here relates two calls of one key |
| pre-dispatch gate, `src/smaos_gate.py` | a nonce ledger, an intent ledger, an advisory plane | `admit_and_dispatch` | all of the above in one call; the tool hangs, fails, or is answered late; the process dies in between | at most one request for an approval, always under a committed intent, truthfully reported |
| copy-on-write state graph, `src/cow_subgraph_sandbox.py` | master nodes and edges, history, active branches with their deltas | `fork`, reads and writes on a branch, `compute_delta_hash`, `merge_if_verified`, `discard` | several branches of one state, branches that read through to the parent, receipts used on the wrong branch | a merge applies the delta that was notarised, a discarded branch leaves no trace |
| SeekDB branch lifecycle, `src/branch_state.py` | the status of a branch | quarantine, merge, drop | order of the calls | quarantined evidence is kept for its retention |
| transparency log anchor, `src/scitt_anchor.py` | an append-only list of leaves, a signing key, the file of the last receipt | append, root, audit path, receipt, verification, fallback from a live log | odd levels of the tree; a fresh log and key for every file anchored, and one receipt file for all runs | a receipt proves the entry at its index and no other |
| wire-fault testbed, `run.py` | the two ports, the proxy's mode, the results, the files of a run | four interactive scenarios, single scenarios, classification, artifacts | several processes, and other programs, on fixed ports, and several in one directory; errors of the proxy; exceptions that are swallowed block by block; files changed after they were signed; crashes between files | a verdict rests on the wire, a finished bundle is of one run and its files agree |
| typed decision router, `src/jev_typed_router.py` | none | tools, tier, admissibility, completion | judges what the gate, the jury and the cascade judge too, from the same fields in another order | it confirms and allows no more than they do together |
| egress filters, `ebpf/`, `src/ebpf_membrane`, `src/ebpf_xdp_driver.py`, `scripts/build_ebpf_bytecode.py` | maps of addresses and ports, counters | one decision for each packet, written five times | processors that count at once, maps that change under a packet, truncated headers | the counters balance, and what one version drops the others do not contradict |
| air-gap monitor, `src/security/airgap_monitor.py` | the methods of `socket.socket`, byte counts, a list of violations | install, uninstall, hooked calls | nested monitors, threads that install, uninstall and use sockets between any two of the four assignments, names that resolve to other hosts, sockets connected or accepted before | what leaves under a monitor leaves in a way that can be named |
| enclave attestation, `src/enclave_cvm.py` | none, but a quote file and the passport | quote, verification, attachment to a passport | the envelope beside the passport may be another run's | the attestation is bound to the envelope of this passport |
| telemetry intake, `src/evidence_adapter.py`, `run_prospect.py`, `src/accumulator.py`, `src/diagnostic_*.py` | the drop zone, the processed zone, a log and a report for each customer | watch, normalise, accumulate, report, move | files still being written, files that fail in every pass, several files of one customer, pipelines that outlive their watchdog, a crash between the report and the move | what is moved was read, a report agrees with its evidence, a bad file holds no other up |
| policy compiler, `src/hcl_compiler/` | none | parse, compile to SQL triggers and C | none: a pure translation | |
| admissibility gate and jury, `src/admissibility_gate.py`, `src/jury_of_rivals.py` | the authority of the passport read at start | one decision | the passport may be missing, half written, or of another kind of run | together with the router, both limits hold |
| canonicalizer, signatures, envelopes, redaction, reports, fuzzers, demo, offline verifier | the files they write | encodings, cryptography, formatting | the order in which files are made from one another (modelled); the rest is not reached by a state model | a file is made from the passport it claims |

How they interact. `admit_and_dispatch` calls `consume_nonce`, then
`generate_idempotency_key`, then `declare_intent`, then hands `target_fn` to
`observe_tool_call`, which calls it, classifies what came back and calls
`resolve_intent`; then the advisory plane reads the payload. The two ledgers are
SQLite files that other processes use too, so every call is a set of concurrent
transactions. The state graph is used by agents that fork it, have a jury and a
notary issue a receipt, and merge. `run.py` runs its own wire observation and
writes the artifacts, with the anchor, the enclave quote and the redaction made
from the trust passport; the admissibility gate reads that passport, and judges
actions beside the router and the jury. The air-gap monitor and the XDP filter
stand one behind the other on the way out of a host. The intake is a pipeline of
its own, which shares only the shape of the wire classification.

`PROJECT.json` lists the hazards of this code at their lines, and the properties
that would catch each.

## 2. The modules

    ApprovalRegister          what the nonce ledger promises
      ^ refined by
    NonceLedger               record_approval and consume_nonce over SQLite
      NonceLedgerProperties   its properties and inductive invariant
        NonceLedgerProofs
        MCNonceLedger
    IntentLedger              declare_intent and resolve_intent over SQLite
      IntentLedgerProperties  its properties and inductive invariant
        IntentLedgerProofs
        MCIntentLedger
    TransportObserver         classify_wire_event, observe_tool_call's mapping
    PreDispatchGate           extends IntentLedger and TransportObserver, and
                              instantiates ApprovalRegister
      PreDispatchGateProperties  extends IntentLedgerProperties too
        PreDispatchGateProofs    extends IntentLedgerProofs too
        MCPreDispatchGate
    CowSandbox                the state graph, its branches and receipts
      CowSandboxProperties
        CowSandboxProofs
        MCCowSandbox
    WireVerdicts              the cascades that judge a wire event: run.py, the
                              router's completion, the fuzzers and their workloads
    WireTestbed               extends it: the ports, the proxy and the scenarios
    TransparencyLog           the Merkle tree, audit paths and receipts
      TransparencyLogProofs   its operators, for a log of any length
    ActionChecks              the gate, the router and the jury on one action
    EvidenceBundle            extends these three: the runs, and the files they leave
      EvidenceBundleProperties
        EvidenceBundleProofs     extends TransparencyLogProofs too
        MCEvidenceBundle
    AirgapMonitor             the hooked socket methods, and who uses them meanwhile
    EgressFilter              the XDP filter, its maps and counters, and its twins
    EgressPath                extends both: the way out of a host
      EgressPathProperties
        EgressPathProofs
        MCEgressPath
    TelemetryIntake           the drop zone, the watchdog and its pipeline
      TelemetryIntakeProperties
        TelemetryIntakeProofs
        MCTelemetryIntake

**ApprovalRegister.** For each nonce a status (absent, PENDING, CONSUMED,
EXPIRED) and the number of executions it authorised. An approval is granted once
and spent or expired once. A power loss may put any approval back into a state
it had before, and never takes back an execution.

**NonceLedger.** `ledger` is the committed table, `stable` the part of it that
has reached the disk, `draft` what a transaction has written, `writer` the holder
of SQLite's write lock. A call is `RecordApproval` or `ConsumeNonce` (arguments,
and the reading of the clock, which the code takes *before* it asks for the
lock), `Begin` or `LockTimeout`, `Select`, then one of `Reject`, `Expire`,
`Consume`, or `Insert`, `InsertFails`, then `Commit`. `Verdict` is the cascade
of checks of `consume_nonce` in its order. The `with` block of `sqlite3` rolls back
when an exception leaves it, which `Rollback` models; the expiry is committed by
the code itself before it raises. `Crash` kills a client at any point. `Sync`
moves commits to the disk in their order, `PowerLoss` goes back to `stable`.
The clock moves in both directions, as `time.time()` may. The UPDATE's guard on
`status = 'PENDING'` with its `rowcount` test (`RaceLost`) is there too: under the
lock it never fires, which the inductive invariant shows.

**IntentLedger.** One ledger object has one connection and one cursor, shared by
the threads of its process (`check_same_thread=False`). `mode` is the
connection's transaction: `none`; `begun`, the BEGIN the `sqlite3` module sent
before a write that then failed; `reading`, with a snapshot in `view`; `writing`.
`cursor` is the set of rows of the last SELECT that have not been fetched, taken in
the order of their ids, so one thread's `fetchone` can take another's rows. `Declare`, `Select`, `Pass` or
`Collide`, `Insert` or `InsertFails`, `CommitDeclare`, and `Resolve` or
`ResolveFails`, `CommitResolve` are the statements; `CursorBusy` is the
`ProgrammingError` of a second thread inside the cursor; `Crash` kills a process.
`basis`, `joined` and `orphans` are history variables for the properties.

**TransportObserver.** `Answers` names the classes of results and exceptions that
the code tells apart; `WireEvent` is what `observe_tool_call` passes on for
each, `Classify` the cascade of `classify_wire_event`, `ResolvedAs` the status the
intent gets. It is pure.

**PreDispatchGate.** Workers, each in a process, go through `admit_and_dispatch`:
`Admit` (or `Refuse`), `DeclareIntent`, `DeclareStep`, `DeclareDone` or
`DeclareRaises`, the tool's `Send` and `Answer`, `ResolveIntent`, `ResolveDone`
or `ResolveRaises` or `ClassifyRaises`, and `Return` or `EnrichRaises`. The
nonce ledger appears as the register it refines (a consumption is one step; power
losses are left to the nonce ledger's own model). The intent ledger appears in
full. The tool (`target_fn`) and the remote system are the environment: the tool
sends at most one request and then returns or raises, whenever it likes; the
remote executes or refuses a request at any time after it was sent. The idempotency
key is left out: only the remote system reads it, and what that makes of it is not this
program's. `told` is what the caller got, `under` the intent a
nonce's call was made under.

**CowSandbox.** `nodes` and `edges` are the master graph, `history` its
`commit_history`, `active` the registry; `status`, `bid`, `base`, `delta` and
`added` are the fields of the `COWBranch` objects. Each method is one action, as
the class has no locks and its callers no threads: the calls of several agents
interleave whole. The code copies a node's dict and shares what is nested in it,
so a node here is a reference to a cell of `heap`, `held` is the set of cells
agents have a reference to, and `ChangeInPlace` is an agent that writes to one.
A digest is injective, hence the hash of a delta *is* its content when it was
taken: branch, base, nodes, edges. `Notarise` takes the hash of a branch for the
receipts the notary signs, and the branch may be written to afterwards. `Merge`
is `merge_if_verified` for any receipt that could have been issued, on its own
branch or another; its `json` bit is the late `canonicalize(cose_sign1_receipt)`,
which raises a `TypeError` for a receipt with raw bytes in it, with the graph
changed already and the history and the registry not. `Reject` is each of its
failing checks, which all discard the branch. `mergedBy` and `unaudited` are
history variables for the properties, `changes` counts the changes in place.

**WireVerdicts, TransparencyLog, ActionChecks.** Pure operators, one for each
function of the code. A wire status or a claim is a name; a hash is a term, so
that two are equal only when they hash the same thing; an amount is counted in
half cents, so that what `int()` cuts off shows. The tree is built level by level
as `_build_tree` does, and `MTH` is the definition of RFC 6962 to compare it with.

**WireTestbed.** `owner` is the process whose servers hold the two fixed ports, `mode`
the class attribute `FaultProxyHandler.mode` of each process, `results` what a run
has collected until its first artifact takes it over. A process that cannot bind the
ports goes on and talks to the other's proxy, in whatever mode that is. Ports without an
owner are free, or another program's, which may answer with any status of `Foreign`.
`Forwarded` is what becomes of a request the proxy passes on: the ledger's 200, an error
it passes back, or its own 502. `Ask` is one scenario: the answer, the status the
`except` branches turn it into (`Recorded`), and the verdict.

**EvidenceBundle.** A run is a script, `Steps(r)`, of one of eight kinds: `run.py` on a
single scenario, concise or with all four, the demo, the two fuzzers, a program that
opens an admissibility gate, and one that keeps an anchor service. A step is one file
written or one scenario; `pc` is where the run is. `files` holds, for each directory
and file, what the content was made from: the run, or for envelopes, receipts and the
attested passport, a record of the content signed. `Put` opens, truncates and writes;
two processes that do so at once may leave `Torn`. `Swallow` is an exception in one of
the `try` blocks, which skips the rest of its block, `Die` the end of a process at any
point. `Quote` reads the passport and the envelope into memory and `Attach` writes that
passport later. `lost`, `after`, and the `heard` and `own` of a result are history.

**AirgapMonitor, EgressFilter, EgressPath.** `hooks` says whose function each socket
method is. Threads enter and leave `with` blocks; `Enter` and `Exit` set up the four
assignments of install and uninstall in the thread's `patch`, `Assign` makes one, and
other threads' assignments and calls come between any two, as there is no lock. A call is
taken at the moment its method is looked up. The monitor judges the name it is given
(`Passes`), the original method resolves it to a host (`Resolves`): a name that begins with
`127.`, or that is in `allowed_hosts`, may be another host. `conns` holds the hosts that
sockets are connected to and how that came about, those that were accepted too. `guarded`
and `out` are history: whether an install stands, and why the last call got through. In
the filter, `cpu` is where each processor is with its packet, between the atomic additions
to `metrics`; a packet is the depth to which its headers go, an address, whether it is TCP,
and a port. The program's twins are functions of a packet under the maps as they are. A
call that reaches a host behind the filter's interface is a packet the filter receives.

**TelemetryIntake.** The prospect delivers files line by line, and has them open when
the watchdog's `glob` finds them (`Scan`), or after they were moved. The watchdog starts a
pipeline for each (`Start`) and waits for it: it truncates the customer's normalised log,
normalises what lines there are, hashes the raw file, reports, appends the identifiers;
then the watchdog moves the file (`Quarantine`), or leaves it if the pipeline failed
(`Return`). A pipeline is a process of its own in `job`, and `child` the one the watchdog
waits for. It fails (`Fail`) on a line that cannot be parsed, an amount that is no number,
which raises only when the report is computed, or a file that is gone; it may be killed at
any point (`Kill`). `Crash` ends the watchdog, killed or by a move that raises, and leaves
its pipeline running: after `Restart` two pipelines may write one log and one report,
and then the log may hold what one of them alone would have written or something else
(`Logged`), and digests and reports are not told apart from torn ones (`OneWriter`); `mixed` names
those customers. The accumulated identifier is the
nesting of hashes it is, a report the sequence of what was written to it: the metrics, with
the number of timeouts it gives, then the identifiers. `read` and `grew` of a
processed file, and `mixed`, are history.

Each `Properties` module states what its component guarantees, and each carries
a comment that names the code behaviour meant. Definitions marked `Mutant:` are
plausible bugs in a definition of the model, one for each property: the property
must fail when the mutant takes the definition's place.

## 3. The runs

| run | instance | bounds and why they are enough |
|---|---|---|
| `nonce_ledger` | two clients, one nonce, two approvals that may be recorded under it, three calls (the approved one, another payload, another scope) | `MaxClock = 1`, with a window of 0 s: a call inside and outside its window, and a clock that is set back. `MaxLosses = 1`. Rows are independent, and the lock lets one transaction in at a time, so a third client would only repeat what the second does; the proofs cover every number |
| `nonce_ledger_power_loss` | the same | shows that `SingleUse` fails after a power loss |
| `intent_ledger` | two threads on one ledger object and a third worker in a process of its own, each its own agent, one target | `MaxDeclares = 4`: each worker declares and one declares again, after a crash or a failure. Two threads of a process are enough for cursor theft and for a commit of the other's work, one more process for lock failures and stale snapshots. Collisions are per target, so one target is the dense case |
| `intent_at_most_one_holder` | three processes, three declares | two holders at once |
| `intent_resolved_is_freed` | three processes, four declares | a stale snapshot needs a holder that resolves, a writer in its way, and the loser that checks again |
| `pre_dispatch_gate` | two threads of one process under the default agent, a third worker in another process, two approvals | `MaxDeclares = 2`, one for each approval: a second call beside the first, or after its answer was lost, with every way of failing in between |
| `gate_never_dispatched` | the same | shows a call that is reported as never dispatched though it was sent |
| `cow_sandbox` | two branches, two ids (symmetric), one node that exists, one edge, two cells of two values | `MaxWrites = 3` over both branches, `MaxChanges = 1`, one notarisation for each branch, `MaxCells = 2`, `Written = {1}`: enough for a branch that is written, notarised, and written or changed again, for a receipt used on the other branch, for an id that is reused, and for two branches of one base that both merge. Merges act on nodes one by one, so one node suffices for what a branch does to it; the proofs cover any number |
| `cow_parent_untouched` | the same | shows nested data of the master changed through a branch |
| `evidence_bundle` | two runs, in the pairs that share something: all scenarios with the demo in one directory, two interactive runs that share ports and receipt only, two single runs in one directory, the two fuzzers, a gate that reads while a run writes, an anchor service | in three pairs any step may raise or the process die, so a bundle is left at every point: in single runs an exception comes once in a run, in the pair with the demo twice; the two interactive runs in two directories die only. Hazards are between two processes (ports, one file, one receipt), so two suffice. A service anchors six entries after its genesis: trees of every size to seven, which has odd nodes on two levels. Amounts lie at the limits, just over them, and where cutting matters. `Foreign` is a 200, another success, a conflict and any other status: what the cascade and the `except` branches tell apart |
| `egress_path` | two threads with one monitor, this host, one behind the filter and one that is not; a name that is not allowed, and one that begins with `127.` and may be another host's; two processors, packets of every form (threads and processors symmetric) | `MaxDepth = 2`: a thread nests two monitors while the other has two of its own; leaving restores the originals whatever was there before, so a third level adds nothing. The four assignments are separate steps. One monitor object is enough, as all let through the same names. `MaxPackets = 2`: one for each processor at once, which meet only in the counters. The action constraint `OneAtWork` bounds how the two sides combine: steps are explored in which the process does all it can while the filter has seen no packet and no connection is to a host behind it, and steps in which the filter does all it can while the process has neither hooks nor connections but sends. The filter does not see the monitor, nor the monitor the filter: they meet in the packet of a call that got through, which the second kind has |
| `telemetry_intake` | two names of one customer, four lines (a confirmed call, a 504, one whose amount is no number, one that does not parse) | `MaxLines = 1`, `MaxDeliveries = 2` (two files, or a name delivered twice), `MaxFaults = 1`, two pipelines at once: the one a dead watchdog leaves behind and the next one's. A line stands for a file's worth of them: a file is empty, good, bad, or grows from empty to either before, while or after it is read. Customers share only the watchdog, so two files of one customer are the dense case. A file that fails late in every pass stands beside a good one, and the fault may be a kill, a dead watchdog or a move that raises |

What they show, beyond that each property holds on the instance:

- `BoundedReuse`, `ImplementsRegister`, `ConsumesWhatWasApproved`,
  `GrantsAreFinal`: approvals are single-use and final through client crashes,
  lock timeouts and clock changes; one power loss buys one extra use, and no more.
- `TransactionsEnd`, `CallsReturn`: no exception path keeps the lock, and every
  call comes back.
- `RespectsEarlierHolders`: what the collision check does guarantee. An agent alone on
  its connection gets a target whose holder was committed before its check only if it
  had held the target since before that holder. The check may read a stale snapshot, but
  then its INSERT fails. (`AtMostOneHolder`, which the docstring's "atomic" promises,
  fails.)
- `HeldIsCommitted`, `ToolRunsUnderIntent`, `SentIsRecorded`: whichever thread
  commits, the intent is on record before the tool runs and while it runs.
- `NoSilentLeak`, `ResolvedIsFinal`: only a crash or a failed `resolve_intent`
  leaves a lock behind, and no stale transaction brings one back.
- `OneRequestPerApproval`: no path sends twice under one approval. Of two approvals of
  one payload the second may be sent while the first is unconfirmed: nothing in the code
  compares two requests, and the `CONFLICT` that METHODOLOGY.md:78 promises for a
  reused key would have to come from the remote system.
- `StatusIsHonest`, `ToldIsRecorded`: an observation with a status agrees with
  what the remote system did, and with the intent ledger for good.
- `MergedAsNotarised`: if the receipt names a delta, the master changes by exactly
  what the notary saw, also when nested data is shared. A receipt without a
  `delta_hash` passes `merge_if_verified` too (`cow_subgraph_sandbox.py:218`), on any
  branch, although the docstring (184-188) merges if and only if the receipt names the
  delta; the property speaks of receipts that do.
- `HistoryExplainsGraph`: replaying the deltas of the history gives every root it
  names and the master, until data is changed in place or a merge raises late.
- `ReceiptsAreNotReplayed`: a receipt that names a delta, presented again or with
  another branch, merges nothing, unless that branch was forked under the same id from
  the same state.
- `RegistryIsTrue`, `OnlyMergesChange`: discards and rejections leave the master
  alone, discarding a branch that was merged included, and the registry stays
  true but for a merge that raised.
- `GateReturns`: the gate's own code never waits for ever.
- `VerdictsAreWitnessed`: whichever proxy or program answers, no settlement is
  confirmed without a 200, and no run is nominal if its settlement timed out or
  conflicted, or its capture got no success. Other errors of the settlement, such as a
  502, are no toxic receipts and leave a run nominal. The nominal scenario takes any
  failure for a 200 (`run.py:1111`), so a 200 on record was received unless it is that
  scenario's: the property says so.
- `FinishedRunIsCoherent`, `BindingIsConsistent`: a run that nobody disturbed leaves
  files that agree, and an attestation is of the envelope beside it, even after
  crashes. Envelope and receipt hold the passport *without* its attestation, which is
  attached later. After a swallowed failure the attestation may be bound to an
  envelope of an earlier run, and overlapping runs guarantee nothing: the properties
  name these cases.
- `InclusionProofsAreSound`: the tree is RFC 6962's, odd levels included. An index or
  a tree size in a receipt proves nothing by itself, as verification reads neither.
- `NoVerdictOverclaims`: the cascade, the soak fuzzer's fallback and the router differ,
  but none confirms what the cascade does not.
- `ChecksTogetherBound`: the gate and the router each miss a figure that the other
  field holds; together they bound both, even when the gate fell back to its defaults.
- `EgressHasAnExcuse`: what leaves under a monitor leaves in one of four ways: no
  install stands, as one uninstall anywhere takes down every monitor; `sendmsg` is not
  hooked; an allowed name is not the host it seems; the connection was made in one of
  these ways, or accepted. In the last two the receipt counts the bytes as loopback.
- `CountersBalance`: at every instant, not only at rest.
- `TwinsAgree`: the Python twin drops some packets with a truncated TCP header that
  the C filter passes; the object `build_ebpf_bytecode.py` assembles drops nothing, and
  its jumps for short packets skip the instruction that sets the verdict.
- `ProcessedWasRead`, `ReportsMatchEvidence`: half-written logs and reports exist only
  while a file that will be tried again is in the zone, or after two pipelines of one
  customer ran at once; a file that is moved while the prospect still writes is processed
  in part, and only then. For a log without a timeout the report gives one observed
  all the same (`diagnostic_report.py:71-72`), and the property says so.
- `GoodFilesGetThrough`: a file of JSON objects whose amounts are numbers leaves the
  zone, though files that fail early or late do so in every pass.

The violation runs are the findings of `PROJECT.json`: a power loss re-arms a
spent approval; the collision check is not atomic; a failed INSERT leaves a
transaction open in which a resolved intent stays PENDING for ever; a response
that does not parse is recorded as never dispatched; nested data of the master can be
changed through the copy `get_node` returns.

The ledgers and the gate switch TLC's deadlock check off where the bound on
declares, or the use of all approvals, ends a behaviour; the nonce ledger's run
keeps it on, and so does the state graph's, where a branch can always be
discarded. The evidence runs end with their scripts, the egress path with its bound on
packets, and the intake when nothing is delivered any more: they switch it off.

## 4. Fairness

Weak fairness for each client or worker, over the steps of a call that has begun
and only those: a running thread is scheduled again, a wait for the lock ends
after 30 s with an exception (`LockTimeout`, and the failing statements of the
intent ledger), and a crash ends a call too. The environment gets no fairness:
nobody is obliged to record an approval, call the ledger, resolve an intent, or
answer; the tool may hang (the phases `calling` and `sent` are excluded from
`GateReturns` for that reason); the remote system may never act; `Sync` may never
happen. The state graph has no scheduler and no waiting, so its specification has
no fairness and its properties are all safety; nor do the evidence bundle and the
egress path, whose properties say what holds wherever a process stops.

The intake has weak fairness of each pipeline (a process that runs is scheduled, and comes
to an end), of the watchdog as a whole (`while True`, one thread) together with its restart: only one
of the two is ever possible. The restart is an operator's, and `GoodFilesGetThrough` needs
it: a watchdog that nobody starts again processes nothing. Processes are killed, and moves fail, `MaxFaults` times: a move that
failed for ever would end every watchdog at the same file. The order of a `glob` is not
fixed, but a pass takes every file it found, so fairness of single files is not needed. The
prospect gets none.

## 5. The proofs

`NonceLedgerProofs`, for all clients, nonces, grants, calls and bounds, from
`LedgerAssumption` (the bounds are naturals, windows are integers, and the two
markers are not a client and not a row):

- `LedgerInvariant`: `LedgerInv` is inductive. `BoundedReuse` alone is not: it
  needs that a nonce which is not CONSUMED was spent at most once for each loss
  (`SpendInv`), which at a commit needs that the row being replaced is still
  PENDING (`DraftInv`), which needs that the row a client read is the row in the
  table (`RowInv`), which holds because one client is in a transaction at a time
  (`LockInv`); a power loss needs that the disk is behind the table and nowhere
  else (`StableInv`).
- `ReuseIsBounded`, `SingleUseWithoutLosses`, `ConsumptionIsApproved` and
  `GrantsStay` follow from it.
- `LedgerImplementsRegister`: every step of the ledger is a step of the register,
  or leaves it alone.

`PreDispatchGateProofs`, for all workers, processes, approvals and arguments of
calls, from `GateAssumption` (the marker of a worker without a call is not a
nonce):

- `GateInvariant`: `GateInv` is inductive. It says that a worker in a call is the
  only one with its nonce and that its caller has been told nothing (`JobInv`),
  counts consumptions and requests (`SendInv`), and ties an answer to the remote
  system's decision, which never changes (`AnswerInv`). The intent ledger's steps stay
  unexpanded: the argument does not depend on what they do.
- `OneRequest` and `HonestStatus` follow.

`IntentLedgerProofs`, for any workers, however they share ledger objects, and any
agents and targets, from `IntentAssumption` (the bound is a natural, there is a target,
and the markers are no row and no snapshot):

- `IntentInvariant`: `IntentInv` is inductive. `HeldIsCommitted` alone is not, because
  a thread commits whatever its connection holds. So the invariant speaks of
  `Newest(k)`, the table as connection k would leave it: a worker's row stands there as
  the call left it, and belongs to nobody else (`HolderInv`). That survives another
  process's commit because a snapshot is an earlier state of the table, and a writer's
  differs from it only by rows it added and by rows its own threads are resolving
  (`ViewInv`). An INSERT finds a free id because rows and calls under way are counted
  together (`CountInv`). `LeakInv` and `CheckInv` extend `NoSilentLeak` and
  `RespectsEarlierHolders` to what is not committed yet. For the latter, what a check
  read must be set against what was committed when it ran: a worker alone on its
  connection fetches from the rows of its own SELECT, and if the snapshot it reads is not
  the table, then the table has moved on since (`SnapshotInv`, with `Precedes` an order
  on tables), can never come back to that snapshot, and no write succeeds from there.
- `EarlierHoldersAreRespected`, `HeldIntentIsCommitted`, `LeaksAreAccounted` and
  `ResolvedStays` follow.

The second half of `PreDispatchGateProofs` joins the gate and the intent ledger, from both
assumptions (`GateAssumption` also says that an answer that can be classified has one of
the final statuses of an intent):

- `GateIntentInvariant`: `GateIntentInv` is inductive. It joins the invariants of the
  gate and of the ledger by where a worker is in both (`PhaseInv`), by the intent each
  approval was declared under, a committed row that no other call has or will get
  (`UnderInv`), and by what the row of a call says from its UPDATE on (`RecordInv`),
  which is of the connection's newest table until the commit.
- `ToolHasIntent`, `SentHasRow`, `OwnIntent` and `ToldHasRow` follow.

`CowSandboxProofs`, for all ids, nodes, edges, values and bounds, from
`CowAssumption` (the markers are distinct from what they mark):

- `SandboxTypes`: `TypeOK` is inductive. Its core is `DataInv`: every cell the
  master, a branch or an agent refers to was created. That is what makes a
  write safe: the cell `set_node` fills is one nobody refers to.
- `RegistryInvariant`: `RegistryIsTrue` is inductive relative to it.
- `MergesAreNotarised`: applying the deltas of a branch is applying its hash
  (`MergeAppliesDelta`), and a receipt that names a delta passes only if it is
  that hash.
- `OnlyMergesWrite`: no other call changes the content of the master, by
  `DataInv`.
- `ReceiptsMergeOnce`: the hash a branch was merged by names its id and its base, or no
  delta at all, whatever receipt was presented.
- `HistoryIsComplete`: `HistoryExplainsGraph` replays the history, a recursion over its
  length. The proof goes along the behaviour, which adds one entry at a time:
  `HistoryInv` says that a function with the equations of the replay exists for the
  history so far, and that any such function explains every root and the master. A merge
  extends the function by one; a change in place or a late exception makes the history
  `unaudited` for good. At the end the recursive function of the property is one with
  these equations.

`EgressPathProofs`, for any monitors, hosts, ports and processors, from
`OriginalIsNoMonitor` and `CpusAreFinite` (packets on processors are counted):

- `EgressIsExplained`: `MonitorInv` is inductive. `EgressHasAnExcuse` alone is not:
  whether a call is hooked depends on how far the assignments of several threads have
  come. `PatchInv` says that while an install stands, or one that stood has come to its
  end, no uninstall is under way, so the methods it has assigned stay hooked whatever
  other installs assign beside it. A name then passes only if it is allowed, and what is
  sent over a connection has the excuse the connection was made with.
- `CountersAlwaysBalance`: `FilterInv` is inductive. A drop is counted twice, by the
  total and by its reason, in two atomic additions: `CpuInv` says that a processor
  between the two is at a reason, so the packets counted once are the processors there.
- `TwinsAlwaysAgree`: by cases over what the header of a packet shows, under any maps.

`TelemetryIntakeProofs`, for any names, lines, customers, processes and bounds, from
`NoFileIsNoContent` and `NoLogIsWhole` (the markers of a missing and of a half-written
file are no content), `PipelinesAreNumbered` and `NamesHaveCustomers`:

- `ProcessedIsRead`: `IntakeInv` is inductive. A file is moved as what it is then, with
  what was read long before, so the invariant follows it from the `glob` to the move:
  what the pass holds and what the watchdog's child works on is still in the zone, as
  nobody else moves files (`ZoneInv`), and from normalisation on what the child has read
  is a beginning of the file without a bad line, the whole of it unless the prospect added
  to it (`ReadInv`). Of a pipeline left behind neither holds, and neither is needed: its
  end moves nothing.
- `ReportsAreOfEvidence`: `EvidenceInv` is inductive. `ReportsMatchEvidence` says nothing
  of a customer with a file in the zone, and the step that takes the last file out of the
  zone must establish it. A customer who is not `mixed` has one pipeline at most
  (`AloneInv`), whose file is in the zone (`WaitingInv`), so it may write what it likes to
  the log and the report on the way; and from normalisation on the log, the digests and
  the report are of the lines it read, as far as it has come (`ToldInv`). That a
  log whose outcome is REMOTE_CONFIRMED has no unconfirmed event is a lemma on the count.

`EvidenceBundleProofs`, for any runs, ways to start them and payloads, from `KnownKinds`
and `KnownPayloads` (the kinds of run and the values of the fields of an action),
`CeilingIsNat`, `LimitIsNat`, `CeilingCoversLimit` and `AbsentIsNoWord`, and
`ContentsAreWhole` (a passport or an envelope is neither the mark of a missing file nor
that of a torn one):

- `VerdictsRestOnTheWire`: `TestbedInv` is inductive. The answers to a scenario depend on
  whose proxy answers and in what mode, or on another program; a run's own proxy is in the mode the run set in
  the step before (`ModeInv`). That is a fact of the order of the scripts, stated for
  all of them in lemmas (`ScriptFacts`), and of a swallowed exception never skipping into a
  scenario. What has been recorded is then what the wire showed (`ResultsInv`).
- `VerdictsDoNotOverclaim` and `TwoChecksBoundPayments`: what a run has judged is a case
  of its workload, or an action put to its gate under some scope (`JudgedInv`); the rest
  is by cases over the cascades, for every wire status and claim, every payload and every
  ceiling that covers the limit.

- `BindingsHold`: `BindingInv` is inductive. `BindingIsConsistent` speaks of a passport
  with an attestation, and the step that attaches one writes what was read two files
  earlier: so what an attestation holds is followed from the quote on (`HeldInv`). Whose
  passport it read is known because every passport on disk is of a run that all others
  there wrote before, or that overlapped one of them (`PassportInv`). That the envelope it
  is bound to is of this passport is the chain of the run's own files: each is what the
  script makes of the one before, unless another run that had written to the
  directory wrote after it, or an exception was swallowed (`ChainInv`). A rival's torn
  write, a crash and a skipped block are steps of these proofs like any other.
- `FinishedRunsAreCoherent`: at the end of a script the same chain covers every file, and
  `ReceiptInv` says the same of the transparency receipt, which runs of other directories
  overwrite: if it is still the run's own, it is of the envelope anchored last. That it
  verifies is a case of `ReceiptsVerify` below.
- `InclusionIsSound`: `LogInv` says that a log is a sequence of entries and its first
  leaf; the rest holds of every such log by `LogProves`.

`TransparencyLogProofs`, for any leaves, with no assumption:

- `LogProves`: the root of a tree of any number of leaves is the hash RFC 6962 defines,
  and a path proves the leaf at its index and no other. The code builds the tree level
  by level from below, the RFC splits it from above at a power of two (`SplitPoint`);
  what joins them is that node i of level k is the RFC's hash of the run of 2^k leaves
  that begins at i * 2^k, or of what is left of them at the end (`LevelCovers`), because
  a run longer than 2^k and no longer than twice that splits at 2^k (`SplitAtPower`): that
  is where an odd node that moves up as it is, and is not paired with itself, matters.
  Each level halves, so the fold over the leaves is long enough to reach a level of one
  node (`TreeIsBuilt`). Along a path the hash so far is that of the node above the
  index exactly if the leaf is the one at the index, as hashes are injective
  (`StepUp`); where there is no sibling neither changes.
- `ReceiptsVerify`: so does the receipt of the entry appended last, under one key.
- These are inductions over data. The library's induction theorems take an operator as
  a parameter, which no backend can instantiate; `InductionOn` states induction of a *set*
  of naturals instead, from `WFMin` and the well-foundedness of `<` on naturals. Folds and
  recursive functions are a CHOOSE of a function with given equations: the
  lemmas show that one exists for every length (`FoldIsDefined`, `MerkleHash`,
  `Flattens`), and use the equations from there. For that, `MTH` is written so that its
  recursion never leaves its domain.

Model-checked only: liveness (`TransactionsEnd`, `CallsReturn`, `GateReturns`,
`GoodFilesGetThrough`), as fairness and ENABLED are out of the prover's reach.

## 6. What is not modelled

In the modelled components: logging, the text of exceptions, the creation of the
tables (it is the initial state), the digests (injective: a payload is itself),
byte counts other than none and some. In the intent ledger, a power loss: it also
runs with `synchronous = NORMAL`, so a record can be lost as an approval can. In
the gate, the advisory plane is one step that returns or raises, and a remote system that
makes something of the key is left out. In the state graph,
timestamps and metadata of edges (two edges with one id are equal here),
`edge_tombstones` (nothing writes them) and `execute_isolated` (it wraps a
sequence of the calls modelled, and catches what they raise).

In the evidence bundle: files whose content never varies, the layout of pages, the
submission to a live log over HTTP (its failure, which falls back to the local log, is
what is modelled), and the layout and verification of quotes. In the
testbed: settings of the environment that send requests for the fixed ports through some
other proxy. In the egress path: loading and attaching the filter, interfaces without one
(what is sent there is a call that reaches a host and no packet), and the monitor's list of
blocked targets; its receipt says `CONFIRMED_ZERO_EGRESS` whatever the list holds, so the property is about
the byte counts. In the intake: exposure in money, the wording of reports,
`diagnostic_extractor.py` (a stand-alone filter of lines), and the date in the name
of a processed file: within a day, a file of the same name replaces the earlier one.
There is one watchdog at a time, and of what two pipelines that write one file may make of it
the model keeps apart only a log that one of them alone would have written.
The watchdog looks in the pipeline's output for a line that `run_prospect.py` does not
print and logs a warning each time; logging is left out.

Of the whole system: `branch_state.py` has no caller but its test, and its SQL does
nothing; `hcl_compiler` translates text; the canonicalizer, COSE, BBS and post-quantum
code are cryptography and byte formats, which a model would have to assume; reports,
XBRL and manifests are formatting; deployment scripts, scratch files and the offline
verifier are tooling. `PROJECT.json` names each with its reason.

## 7. Plan

Every safety property that a run checks is a theorem. What is left is in the model: a
power loss in the intent ledger, which runs with `synchronous = NORMAL` as the nonce ledger
does, and then its theorems again with the losses counted, as `ReuseIsBounded` counts them.
