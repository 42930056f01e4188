--------------------- MODULE PreDispatchGateProperties ---------------------
(***************************************************************************)
(* What the pre-dispatch gate guarantees to its caller and to the operator *)
(* who approved the call, and what it does not.                            *)
(***************************************************************************)
EXTENDS PreDispatchGate, IntentLedgerProperties

Phases == {"idle", "admitted", "declaring", "calling", "sent", "answered", "resolving",
           "enriching"}

\* Type correctness of the register, the workers' locals and the world outside.
GateTypeOK ==
    /\ approvals \in [Nonces -> Register!States]
    /\ spends \in [Nonces -> Nat]
    /\ phase \in [Workers -> Phases]
    /\ job \in [Workers -> Nonces \cup {NoNonce}]
    /\ answer \in [Workers -> Answers \cup {"none"}]
    /\ sends \in [Nonces -> Nat]
    /\ remote \in [Nonces -> {"unsent", "sent", "executed", "refused"}]
    /\ told \in [Nonces -> Answers \cup {"nothing", "exception"}]

\* The caller of n's call holds an observation with disposition d.
Told(n, d) == told[n] \in Answers /\ Observed(told[n]) = d

\* An approval lets at most one request out, whatever came back and whoever
\* died: a call that ended in a fault, an exception or a crash is never sent
\* again under the same approval.
OneRequestPerApproval == \A n \in Nonces : sends[n] <= spends[n] /\ spends[n] <= 1

\* While a tool may be running, and until its answer is dealt with, its intent is
\* committed and PENDING, whatever the other threads of the process commit,
\* resolve or lose on the connection they share.
ToolRunsUnderIntent ==
    \A w \in Workers : phase[w] \in {"calling", "sent", "answered"} =>
        /\ mine[w] # 0
        /\ intents[mine[w]] = [agent |-> AgentOf[w], target |-> target[w],
                              status |-> "PENDING"]

\* Every request that left has a committed intent it left under, of the agent
\* that sent it: after any crash or failure an operator finds a row for it.
SentIsRecorded ==
    \A n \in Nonces : sends[n] > 0 => under[n] # 0 /\ intents[under[n]] # NoIntent

\* Two calls never get one intent.
IntentsAreNotShared ==
    \A m, n \in Nonces : m # n /\ under[m] # 0 => under[m] # under[n]

\* An answer that carries a status is never over-claimed: what the caller is told
\* is confirmed was executed, and what is refused was not executed by this call
\* and will not be.
StatusIsHonest ==
    \A n \in Nonces : told[n] # "plain" =>
        /\ Told(n, "remote_confirmed") => remote[n] = "executed"
        /\ Told(n, "remote_refused") => remote[n] = "refused"

\* When the caller has an observation, the committed intent says the same, and
\* goes on saying it: a later call, crash or stale snapshot never unsays it.
ToldIsRecorded ==
    \A n \in Nonces : told[n] \in Answers =>
        intents[under[n]].status = ResolvedAs(told[n])

\* A call that the gate itself is working on comes back, or gets to its tool.
GateReturns ==
    \A w \in Workers : phase[w] \notin {"idle", "calling", "sent"}
                           ~> phase[w] \in {"idle", "calling", "sent"}

-----------------------------------------------------------------------------
(* The inductive invariant. *)

\* A worker in a call has a nonce that it alone consumed, and whose caller has
\* been told nothing yet.
JobInv ==
    /\ \A w \in Workers : phase[w] = "idle" <=> job[w] = NoNonce
    /\ \A w \in Workers : job[w] # NoNonce =>
          /\ approvals[job[w]] = "CONSUMED"
          /\ told[job[w]] = "nothing"
          /\ \A v \in Workers \ {w} : job[v] # job[w]

\* Consumptions are counted, requests follow them, and a call whose tool has not
\* sent has sent nothing.
SendInv ==
    /\ \A n \in Nonces : spends[n] = IF approvals[n] = "CONSUMED" THEN 1 ELSE 0
    /\ \A n \in Nonces : sends[n] <= spends[n]
    /\ \A n \in Nonces : approvals[n] # "CONSUMED" =>
          remote[n] = "unsent" /\ told[n] \in {"nothing", "exception"}
    /\ \A n \in Nonces : approvals[n] \in {"absent", "PENDING"} => told[n] = "nothing"
    /\ \A w \in Workers : phase[w] \in {"admitted", "declaring", "calling"} =>
          sends[job[w]] = 0

Decided(a, r) == (a = "2xx" => r = "executed") /\ (a = "4xx" => r = "refused")

\* An answer with a status agrees with what the remote system decided, which it
\* does not change: while the call works on it, and after the caller has it.
AnswerInv ==
    /\ \A w \in Workers : phase[w] \in {"answered", "resolving", "enriching"} =>
          answer[w] \in Answers /\ Decided(answer[w], remote[job[w]])
    /\ \A n \in Nonces : Decided(told[n], remote[n])

\* The inductive invariant of what the gate does with approvals: who works on which,
\* what it may still send, and what is known of the remote system.
GateInv == GateTypeOK /\ JobInv /\ SendInv /\ AnswerInv

\* Where a worker is in the gate and where it is in the ledger.
PhaseInv ==
    \A w \in Workers :
        /\ phase[w] \in {"idle", "admitted", "enriching"} <=> at[w] = "idle"
        /\ phase[w] \in {"calling", "sent", "answered"} <=> at[w] = "held"
        /\ phase[w] = "resolving" <=> at[w] = "resolve"

\* The intent of each call is a committed row that no other call has or will get.
UnderInv ==
    /\ under \in [Nonces -> {0} \cup Ids]
    /\ \A n \in Nonces : /\ under[n] # 0 => under[n] \in Rows(intents)
                         /\ sends[n] > 0 => under[n] # 0
    /\ IntentsAreNotShared
    /\ \A w \in Workers :
          /\ phase[w] \in {"calling", "sent", "answered", "resolving"} =>
                under[job[w]] = mine[w]
          /\ at[w] = "commit" => \A n \in Nonces : under[n] # mine[w]

RecordedAs(row, a) == ~Unclassifiable(a) /\ row.status = ResolvedAs(a)

\* From the UPDATE on, the intent of a call says what its tool came back with.
RecordInv ==
    /\ \A w \in Workers : phase[w] = "resolving" =>
          RecordedAs(Newest(ConnOf[w])[mine[w]], answer[w])
    /\ \A w \in Workers : phase[w] = "enriching" =>
          under[job[w]] # 0 /\ RecordedAs(intents[under[job[w]]], answer[w])
    /\ \A n \in Nonces : told[n] \in Answers =>
          under[n] # 0 /\ RecordedAs(intents[under[n]], told[n])

\* The inductive invariant of the gate and of the intent ledger under it.
GateIntentInv == GateInv /\ IntentInv /\ PhaseInv /\ UnderInv /\ RecordInv

-----------------------------------------------------------------------------
\* The observer's docstring: "request_bytes_written: integer bytes committed to
\* socket buffer", and its own table has "response_parse_failure_after_write" as
\* unconfirmed.  A call reported as never dispatched was not sent.
NeverDispatchedWasNotSent ==
    \A n \in Nonces : Told(n, "never_dispatched") => remote[n] = "unsent"
=============================================================================
