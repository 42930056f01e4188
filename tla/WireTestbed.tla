----------------------------- MODULE WireTestbed -----------------------------
(***************************************************************************)
(* The wire testbed of src/run.py: the settlement ledger and the fault     *)
(* proxy in front of it, on fixed local ports, and the scenarios a run     *)
(* sends through them.  The ports belong to one process at a time; another *)
(* process that cannot bind them sends its requests to the same ports all  *)
(* the same, and so to the first one's proxy, in whatever mode that is, or *)
(* to another program's server.                                            *)
(* Actions here say what happens to the testbed; EvidenceBundle adds the   *)
(* run that performs them.                                                 *)
(***************************************************************************)
EXTENDS Naturals, Sequences, WireVerdicts

CONSTANTS Runs,    \* processes of run.py
          Nobody,  \* the owner of ports that are free, or another program's
          Foreign  \* what that program's server may answer

ASSUME NobodyIsNoRun == Nobody \notin Runs
ASSUME ForeignIsHTTP == Foreign \subseteq HTTPStatuses

VARIABLES owner,     \* the run whose servers listen on the two ports
          mode,      \* FaultProxyHandler.mode, a class attribute of each process
          results    \* the results a run has collected

testbed == <<owner, mode, results>>

InitTestbed ==
    /\ owner = Nobody
    /\ mode = [r \in Runs |-> "NORMAL"]
    /\ results = [r \in Runs |-> <<>>]

\* run_servers: bind both ports or give up, and go on either way.  A run whose servers
\* do not answer the probe in time leaves them listening.
RunServers(r) ==
    /\ owner' \in (IF owner = Nobody THEN {r, Nobody} ELSE {owner})
    /\ UNCHANGED <<mode, results>>

\* The servers die with the process.
StopServers(r) == owner' = IF owner = r THEN Nobody ELSE owner

\* What comes of passing a request on to the ledger: its 200, an error it answers with,
\* or 502 if there is no answer.
Forwarded == {"200", "other", "502"}

\* FaultProxyHandler.do_POST, as the client sees it, or whoever has its port.
Answers ==
    IF owner = Nobody THEN Foreign \cup {"-1"}
    ELSE CASE mode[owner] = "INJECT_504" -> {"504"}
           [] mode[owner] = "INJECT_RST" -> {"-1"}
           [] mode[owner] = "NORMAL" -> Forwarded

Inject(r, m) == mode' = [mode EXCEPT ![r] = m] /\ UNCHANGED <<owner, results>>

\* What the agent's SDK claims in each scenario.
ClaimIn(id) == CASE id = "timeout" -> "CONFIRMED"
                 [] id = "reset" -> "FAILED"
                 [] id = "drift" -> "INVALID_INPUT"
                 [] id = "nominal" -> "CONFIRMED"

\* Mutant: a request that fails outright is taken for the expected success.
RecordedOptimist(id, heard) ==
    CASE id = "timeout" -> IF heard = "-1" THEN "200" ELSE heard
      [] id = "reset" -> IF heard \in Successes THEN heard ELSE "-1"
      [] id = "drift" -> "INVALID"
      [] id = "nominal" -> IF heard \in Successes THEN heard ELSE "200"

\* The wire status the run goes on with.  A request that fails outright counts as
\* the fault the scenario injects; so does every HTTP error in the reset scenario;
\* in the nominal scenario every error and every failure counts as 200.
Recorded(id, heard) ==
    CASE id = "timeout" -> IF heard = "-1" THEN "504" ELSE heard
      [] id = "reset" -> IF heard \in Successes THEN heard ELSE "-1"
      [] id = "drift" -> "INVALID"
      [] id = "nominal" -> IF heard \in Successes THEN heard ELSE "200"

\* What an answer that has been heard becomes.  heard and own record, for the
\* properties, what came over the wire and whether the run's own proxy sent it.
Result(r, id, heard) ==
    LET wire == Recorded(id, heard)
    IN  [id |-> id, wire |-> wire, heard |-> heard, own |-> owner = r,
         verdict |-> EvaluateDisposition(wire, ClaimIn(id))]

\* One scenario's request and verdict; nothing is sent in the drift scenario.
Ask(r, id) ==
    /\ \E heard \in IF id = "drift" THEN {"INVALID"} ELSE Answers :
           results' = [results EXCEPT ![r] = Append(@, Result(r, id, heard))]
    /\ UNCHANGED <<owner, mode>>

\* emit_artifacts: the results that count for the Toxic Receipt Index, and what
\* the gap report of the whole run is classified as.
Toxic(result) == result.verdict.flag \in {"VERIFIED_TOXIC_RECEIPT", "UNVERIFIED_STATE"}
Classified(r) ==
    IF \E i \in DOMAIN results[r] : Toxic(results[r][i]) THEN "4h_major_incident"
    ELSE "nominal_compliant"
=============================================================================
