-------------------------- MODULE PreDispatchGate --------------------------
(***************************************************************************)
(* The gate of src/smaos_gate.py: one call consumes the approval, binds an *)
(* idempotency key, declares the intent, runs the tool under the transport *)
(* observer, resolves the intent and returns what was observed.            *)
(*                                                                         *)
(* Approvals are the abstract register, which the nonce ledger implements  *)
(* (one consumption is one step).  Intents are the intent ledger, step by  *)
(* step.  The tool (target_fn) and the remote system are external: the     *)
(* tool sends at most one request and then returns or raises; the remote   *)
(* executes or refuses a request at any time after it was sent, also when  *)
(* the tool has given up on it.                                            *)
(***************************************************************************)
EXTENDS IntentLedger, TransportObserver

CONSTANTS Nonces,      \* the nonces approvals were issued under
          NoNonce      \* the worker serves no call

ASSUME GateAssumption ==
    /\ NoNonce \notin Nonces
    /\ \A a \in Answers : ~Unclassifiable(a) => ResolvedAs(a) \in Finals

VARIABLES approvals,   \* the register: what the nonce ledger says of each nonce
          spends,      \* how often each nonce was consumed
          phase,       \* where each worker is in admit_and_dispatch
          job,         \* the nonce each worker's call consumed
          sends,       \* requests sent under each nonce
          under,       \* history: the intent declared for each nonce's call, 0 if none
          remote,      \* what became of each nonce's request at the remote system
          answer,      \* what each worker's tool call came back with
          told         \* what the caller got: nothing yet, an exception, or the
                       \* observation of an answer (kept as that answer)

register == <<approvals, spends>>
world == <<sends, under, remote>>
gatevars == <<register, phase, job, world, answer, told>>
vars == <<ledgervars, gatevars>>

Register == INSTANCE ApprovalRegister
                WITH status <- approvals, MaxLosses <- 0, losses <- 0

Init == /\ InitLedger
        /\ Register!Init
        /\ phase = [w \in Workers |-> "idle"]
        /\ job = [w \in Workers |-> NoNonce]
        /\ sends = [n \in Nonces |-> 0]
        /\ under = [n \in Nonces |-> 0]
        /\ remote = [n \in Nonces |-> "unsent"]
        /\ answer = [w \in Workers |-> "none"]
        /\ told = [n \in Nonces |-> "nothing"]

-----------------------------------------------------------------------------
Enter(w, label) == phase' = [phase EXCEPT ![w] = label]

\* Mutant: the worker keeps the nonce of a call that failed.
RaiseKeepingJob(w) ==
    /\ Enter(w, "idle")
    /\ answer' = [answer EXCEPT ![w] = "none"]
    /\ told' = [told EXCEPT ![job[w]] = "exception"]
    /\ UNCHANGED <<job, register, world>>

\* The call ends with an exception in the caller's hands.
Raise(w) ==
    /\ Enter(w, "idle")
    /\ job' = [job EXCEPT ![w] = NoNonce]
    /\ answer' = [answer EXCEPT ![w] = "none"]
    /\ told' = [told EXCEPT ![job[w]] = "exception"]
    /\ UNCHANGED <<register, world>>

\* record_approval, by the operator.
RecordApproval(n) ==
    /\ Register!Grant(n)
    /\ UNCHANGED <<ledgervars, phase, job, world, answer, told>>

\* consume_nonce raises ApprovalExpiredViolation; its other refusals change nothing.
Refuse(w, n) ==
    /\ phase[w] = "idle"
    /\ Register!Expire(n)
    /\ told' = [told EXCEPT ![n] = "exception"]
    /\ UNCHANGED <<ledgervars, phase, job, world, answer>>

\* 1. consume_nonce returns.
Admit(w, n) ==
    /\ phase[w] = "idle"
    /\ Register!Spend(n)
    /\ Enter(w, "admitted")
    /\ job' = [job EXCEPT ![w] = n]
    /\ UNCHANGED <<ledgervars, world, answer, told>>

\* 2. bind_headers puts the idempotency key in the headers, where only the remote system
\* reads it.  3. declare_intent.
DeclareIntent(w) ==
    /\ phase[w] = "admitted"
    /\ \E t \in Targets : Declare(w, t)
    /\ Enter(w, "declaring")
    /\ UNCHANGED <<register, job, world, answer, told>>

DeclareStep(w) ==
    /\ phase[w] = "declaring"
    /\ Select(w) \/ Pass(w) \/ Insert(w)
    /\ UNCHANGED gatevars

DeclareDone(w) ==
    /\ phase[w] = "declaring"
    /\ CommitDeclare(w)
    /\ Enter(w, "calling")
    /\ under' = [under EXCEPT ![job[w]] = mine[w]]
    /\ UNCHANGED <<register, job, sends, remote, answer, told>>

\* A worker whose tool is running holds an intent and is not in the cursor.
InCursor(w) == UsesCursor(w) /\ phase[w] \in {"declaring", "answered"}

LosesCursor(w) ==
    /\ InCursor(w)
    /\ \E v \in Workers \ {w} : ConnOf[v] = ConnOf[w] /\ InCursor(v)
    /\ CursorBusy(w)

\* Mutant: a collision is waited out.
DeclareWaits(w) ==
    /\ phase[w] = "declaring"
    /\ \/ (InsertFails(w) \/ LosesCursor(w)) /\ Raise(w)
       \/ /\ at[w] = "fetch" /\ Taken(w) /\ Fetched(w)
          /\ Goto(w, "select")
          /\ UNCHANGED <<intents, mode, view, callvars, joined, orphans, declared, gatevars>>

\* The approval is spent and nothing was sent.
DeclareRaises(w) ==
    /\ phase[w] = "declaring"
    /\ Collide(w) \/ InsertFails(w) \/ LosesCursor(w)
    /\ Raise(w)

-----------------------------------------------------------------------------
\* 4. The tool writes its request, headers included, to the socket.
Send(w) ==
    LET n == job[w] IN
    /\ phase[w] = "calling"
    /\ Enter(w, "sent")
    /\ sends' = [sends EXCEPT ![n] = @ + 1]
    /\ remote' = [remote EXCEPT ![n] = "sent"]
    /\ UNCHANGED <<ledgervars, register, job, under, answer, told>>

\* The remote system carries the request out.
Execute(n) ==
    /\ remote[n] = "sent"
    /\ remote' = [remote EXCEPT ![n] = "executed"]
    /\ UNCHANGED <<ledgervars, register, phase, job, sends, under, answer, told>>

RefuseRemotely(n) ==
    /\ remote[n] = "sent"
    /\ remote' = [remote EXCEPT ![n] = "refused"]
    /\ UNCHANGED <<ledgervars, register, phase, job, sends, under, answer, told>>

\* What the tool can come back with: only the remote system says 2xx or 4xx, a
\* proxy may say 5xx of anything it has seen, and the tool may fail by itself.
Possible(w, a) ==
    CASE a = "2xx" -> phase[w] = "sent" /\ remote[job[w]] = "executed"
      [] a = "4xx" -> phase[w] = "sent" /\ remote[job[w]] = "refused"
      [] a = "5xx" -> phase[w] = "sent"
      [] OTHER     -> phase[w] \in {"calling", "sent"}

\* Mutant: the tool is called again after a fault.
AnswerOrRetry(w, a) ==
    /\ Possible(w, a)
    /\ Enter(w, IF a = "fault" THEN "calling" ELSE "answered")
    /\ answer' = [answer EXCEPT ![w] = a]
    /\ UNCHANGED <<ledgervars, register, job, world, told>>

Answer(w, a) ==
    /\ Possible(w, a)
    /\ Enter(w, "answered")
    /\ answer' = [answer EXCEPT ![w] = a]
    /\ UNCHANGED <<ledgervars, register, job, world, told>>

-----------------------------------------------------------------------------
\* resolve_intent, with the disposition of the answer.
ResolveIntent(w) ==
    LET a == answer[w] IN
    /\ phase[w] = "answered"
    /\ ~Unclassifiable(a)
    /\ Resolve(w, ResolvedAs(a))
    /\ Enter(w, "resolving")
    /\ UNCHANGED <<register, job, world, answer, told>>

ResolveDone(w) ==
    /\ phase[w] = "resolving"
    /\ CommitResolve(w)
    /\ Enter(w, "enriching")
    /\ UNCHANGED <<register, job, world, answer, told>>

\* The UPDATE fails: the answer is lost and the intent stays PENDING.
ResolveRaises(w) ==
    /\ phase[w] = "answered"
    /\ ~Unclassifiable(answer[w])
    /\ ResolveFails(w) \/ LosesCursor(w)
    /\ Raise(w)

\* TypeError in classify_wire_event: the same, though the tool answered.
ClassifyRaises(w) ==
    /\ phase[w] = "answered"
    /\ Unclassifiable(answer[w])
    /\ Abandon(w)
    /\ UNCHANGED <<intents, connvars, joined, declared>>
    /\ Raise(w)

\* 5. The advisory plane reads the payload, and the call returns.
Return(w) ==
    /\ phase[w] = "enriching"
    /\ Enter(w, "idle")
    /\ job' = [job EXCEPT ![w] = NoNonce]
    /\ answer' = [answer EXCEPT ![w] = "none"]
    /\ told' = [told EXCEPT ![job[w]] = answer[w]]
    /\ UNCHANGED <<ledgervars, register, world>>

\* An extractor that returned None has no append: the answer is lost.
EnrichRaises(w) ==
    /\ phase[w] = "enriching"
    /\ Raise(w)
    /\ UNCHANGED ledgervars

\* A process dies with its workers.  Spent approvals stay spent, and what was
\* sent stays sent.
CrashProcess(k) ==
    /\ \E w \in Workers : ConnOf[w] = k /\ phase[w] # "idle"
    /\ IF \E w \in Workers : ConnOf[w] = k /\ at[w] # "idle"
       THEN Crash(k) ELSE UNCHANGED ledgervars
    /\ phase' = [w \in Workers |-> IF ConnOf[w] = k THEN "idle" ELSE phase[w]]
    /\ job' = [w \in Workers |-> IF ConnOf[w] = k THEN NoNonce ELSE job[w]]
    /\ answer' = [w \in Workers |-> IF ConnOf[w] = k THEN "none" ELSE answer[w]]
    /\ UNCHANGED <<register, world, told>>

\* The steps of the gate's own code once it has admitted a call.
GateStep(w) ==
    \/ DeclareIntent(w) \/ DeclareStep(w) \/ DeclareDone(w) \/ DeclareRaises(w)
    \/ ResolveIntent(w) \/ ResolveDone(w) \/ ResolveRaises(w) \/ ClassifyRaises(w)
    \/ Return(w) \/ EnrichRaises(w)

ToolStep(w) == Send(w) \/ \E a \in Answers : Answer(w, a)

Next ==
    \/ \E n \in Nonces :
          \/ RecordApproval(n) \/ Execute(n) \/ RefuseRemotely(n)
          \/ \E w \in Workers : Admit(w, n) \/ Refuse(w, n)
    \/ \E w \in Workers : GateStep(w) \/ ToolStep(w)
    \/ \E k \in Conns : CrashProcess(k)

GateSpec == Init /\ [][Next]_vars

\* The gate's code keeps running.  The tool may hang, and the remote system may
\* never act.
FairGateSpec == GateSpec /\ \A w \in Workers : WF_vars(GateStep(w))
=============================================================================
