----------------------- MODULE PreDispatchGateProofs -----------------------
(***************************************************************************)
(* Proofs about the pre-dispatch gate, for every set of workers, processes *)
(* and approvals, whatever the calls pass, however the intent              *)
(* ledger's steps interleave, and whoever dies.                            *)
(*                                                                         *)
(* First what the gate promises by itself, where the steps of the intent   *)
(* ledger stay unexpanded and nothing rests on what they do; then the gate *)
(* and the ledger together: what a call did and what the committed intents *)
(* say of it, whatever is committed, lost or killed between its steps.     *)
(***************************************************************************)
EXTENDS PreDispatchGateProperties, IntentLedgerProofs, TLAPS

USE GateAssumption DEF Phases, Answers, Decided

\* The steps in which a worker gives up its call with an exception.
Failing(w) ==
    \/ DeclareRaises(w) \/ ResolveRaises(w) \/ ClassifyRaises(w) \/ EnrichRaises(w)

\* The steps in which a worker of the gate only moves on.
Moving(w) == DeclareIntent(w) \/ DeclareDone(w) \/ ResolveIntent(w) \/ ResolveDone(w)

(* What the steps of the two groups do to the gate's variables: a failing   *)
(* worker was in a call past its admission, and a moving one goes from one  *)
(* phase to the next with everything the theorems speak of unchanged.       *)
LEMMA FailingIsRaise ==
    ASSUME NEW w \in Workers, Failing(w)
    PROVE  Raise(w) /\ phase[w] \in {"declaring", "answered", "enriching"}
BY DEF Failing, DeclareRaises, ResolveRaises, ClassifyRaises, EnrichRaises

LEMMA MovingOnlyMoves ==
    ASSUME NEW w \in Workers, Moving(w)
    PROVE  /\ UNCHANGED <<approvals, spends, job, sends, remote, answer, told>>
           /\ \/ phase[w] = "admitted" /\ Enter(w, "declaring")
              \/ phase[w] = "declaring" /\ Enter(w, "calling")
              \/ phase[w] = "answered" /\ Enter(w, "resolving")
              \/ phase[w] = "resolving" /\ Enter(w, "enriching")
BY DEF Moving, DeclareIntent, DeclareDone, ResolveIntent, ResolveDone, register, world

(* Every step is one of the gate's, or leaves the gate's variables alone.   *)
LEMMA StepCases ==
    ASSUME [Next]_vars
    PROVE  \/ \E n \in Nonces : RecordApproval(n) \/ Execute(n) \/ RefuseRemotely(n)
           \/ \E w \in Workers, n \in Nonces : Admit(w, n) \/ Refuse(w, n)
           \/ \E w \in Workers : Failing(w) \/ Moving(w) \/ Send(w) \/ Return(w)
           \/ \E w \in Workers, a \in Answers : Answer(w, a)
           \/ \E k \in Conns : CrashProcess(k)
           \/ UNCHANGED gatevars
<1>1. CASE UNCHANGED vars
    BY <1>1 DEF vars
<1>2. ASSUME NEW w \in Workers, DeclareStep(w) PROVE UNCHANGED gatevars
    BY <1>2 DEF DeclareStep
<1>3. CASE Next
    BY <1>2, <1>3 DEF Next, GateStep, ToolStep, Failing, Moving
<1> QED
    BY <1>1, <1>3

-----------------------------------------------------------------------------
LEMMA GateTypeStep ==
    ASSUME GateTypeOK, JobInv, AnswerInv, [Next]_vars PROVE GateTypeOK'
<1> USE DEF GateTypeOK, Enter, register, world
<1>1. ASSUME NEW n \in Nonces, RecordApproval(n) PROVE GateTypeOK'
    BY <1>1 DEF RecordApproval, Register!Grant, Register!Move, Register!States
<1>2. ASSUME NEW n \in Nonces, Execute(n) PROVE GateTypeOK'
    BY <1>2 DEF Execute
<1>3. ASSUME NEW n \in Nonces, RefuseRemotely(n) PROVE GateTypeOK'
    BY <1>3 DEF RefuseRemotely
<1>4. ASSUME NEW w \in Workers, NEW n \in Nonces, Admit(w, n) PROVE GateTypeOK'
    BY <1>4 DEF Admit, Register!Spend, Register!Move, Register!States
<1>5. ASSUME NEW w \in Workers, NEW n \in Nonces, Refuse(w, n) PROVE GateTypeOK'
    BY <1>5 DEF Refuse, Register!Expire, Register!Move, Register!States
<1>6. ASSUME NEW w \in Workers, Failing(w) PROVE GateTypeOK'
    BY <1>6, FailingIsRaise DEF Raise, JobInv
<1>7. ASSUME NEW w \in Workers, Moving(w) PROVE GateTypeOK'
    BY <1>7, MovingOnlyMoves
<1>8. ASSUME NEW w \in Workers, Send(w) PROVE GateTypeOK'
    BY <1>8 DEF Send, JobInv
<1>9. ASSUME NEW w \in Workers, Return(w) PROVE GateTypeOK'
    BY <1>9 DEF Return, JobInv, AnswerInv
<1>10. ASSUME NEW w \in Workers, NEW a \in Answers, Answer(w, a) PROVE GateTypeOK'
    BY <1>10 DEF Answer
<1>11. ASSUME NEW k \in Conns, CrashProcess(k) PROVE GateTypeOK'
    BY <1>11 DEF CrashProcess
<1>12. CASE UNCHANGED gatevars
    BY <1>12 DEF gatevars
<1> QED
    BY <1>1, <1>2, <1>3, <1>4, <1>5, <1>6, <1>7, <1>8, <1>9, <1>10, <1>11, <1>12, StepCases

(* Only the worker that consumed an approval works on it. *)
LEMMA JobStep ==
    ASSUME GateTypeOK, JobInv, SendInv, [Next]_vars PROVE JobInv'
<1> USE DEF GateTypeOK, JobInv, Enter, register, world
<1>1. ASSUME NEW n \in Nonces, RecordApproval(n) PROVE JobInv'
    BY <1>1 DEF RecordApproval, Register!Grant, Register!Move
<1>2. ASSUME NEW n \in Nonces, Execute(n) \/ RefuseRemotely(n) PROVE JobInv'
    BY <1>2 DEF Execute, RefuseRemotely
<1>3. ASSUME NEW w \in Workers, NEW n \in Nonces, Admit(w, n) PROVE JobInv'
    BY <1>3 DEF Admit, Register!Spend, Register!Move, SendInv
<1>4. ASSUME NEW w \in Workers, NEW n \in Nonces, Refuse(w, n) PROVE JobInv'
    BY <1>4 DEF Refuse, Register!Expire, Register!Move
<1>5. ASSUME NEW w \in Workers, Failing(w) PROVE JobInv'
    BY <1>5, FailingIsRaise DEF Raise
<1>6. ASSUME NEW w \in Workers, Moving(w) PROVE JobInv'
    BY <1>6, MovingOnlyMoves
<1>7. ASSUME NEW w \in Workers, Send(w) PROVE JobInv'
    BY <1>7 DEF Send
<1>8. ASSUME NEW w \in Workers, Return(w) PROVE JobInv'
    BY <1>8 DEF Return
<1>9. ASSUME NEW w \in Workers, NEW a \in Answers, Answer(w, a) PROVE JobInv'
    BY <1>9 DEF Answer, Possible
<1>10. ASSUME NEW k \in Conns, CrashProcess(k) PROVE JobInv'
    BY <1>10 DEF CrashProcess
<1>11. CASE UNCHANGED gatevars
    BY <1>11 DEF gatevars
<1> QED
    BY <1>1, <1>2, <1>3, <1>4, <1>5, <1>6, <1>7, <1>8, <1>9, <1>10, <1>11, StepCases

(* A request follows a consumption, and only the worker of the call sends. *)
LEMMA SendStep ==
    ASSUME GateTypeOK, JobInv, SendInv, [Next]_vars PROVE SendInv'
<1> USE DEF GateTypeOK, SendInv, Enter, register, world
<1>1. ASSUME NEW n \in Nonces, RecordApproval(n) PROVE SendInv'
    BY <1>1 DEF RecordApproval, Register!Grant, Register!Move, JobInv
<1>2. ASSUME NEW n \in Nonces, Execute(n) \/ RefuseRemotely(n) PROVE SendInv'
    BY <1>2 DEF Execute, RefuseRemotely
<1>3. ASSUME NEW w \in Workers, NEW n \in Nonces, Admit(w, n) PROVE SendInv'
    BY <1>3 DEF Admit, Register!Spend, Register!Move, JobInv
<1>4. ASSUME NEW w \in Workers, NEW n \in Nonces, Refuse(w, n) PROVE SendInv'
    BY <1>4 DEF Refuse, Register!Expire, Register!Move, JobInv
<1>5. ASSUME NEW w \in Workers, Failing(w) PROVE SendInv'
    BY <1>5, FailingIsRaise DEF Raise, JobInv
<1>6. ASSUME NEW w \in Workers, Moving(w) PROVE SendInv'
    BY <1>6, MovingOnlyMoves
<1>7. ASSUME NEW w \in Workers, Send(w) PROVE SendInv'
    BY <1>7 DEF Send, JobInv
<1>8. ASSUME NEW w \in Workers, Return(w) PROVE SendInv'
    BY <1>8 DEF Return, JobInv
<1>9. ASSUME NEW w \in Workers, NEW a \in Answers, Answer(w, a) PROVE SendInv'
    BY <1>9 DEF Answer
<1>10. ASSUME NEW k \in Conns, CrashProcess(k) PROVE SendInv'
    BY <1>10 DEF CrashProcess
<1>11. CASE UNCHANGED gatevars
    BY <1>11 DEF gatevars
<1> QED
    BY <1>1, <1>2, <1>3, <1>4, <1>5, <1>6, <1>7, <1>8, <1>9, <1>10, <1>11, StepCases

(* What the remote system decided it does not change, so what an answer says *)
(* of it stays true.                                                         *)
LEMMA AnswerStep ==
    ASSUME GateTypeOK, JobInv, SendInv, AnswerInv, [Next]_vars PROVE AnswerInv'
<1> USE DEF GateTypeOK, AnswerInv, Enter, register, world
<1>1. ASSUME NEW n \in Nonces, RecordApproval(n) PROVE AnswerInv'
    BY <1>1 DEF RecordApproval
<1>2. ASSUME NEW n \in Nonces, Execute(n) \/ RefuseRemotely(n) PROVE AnswerInv'
  <2>1. /\ remote[n] = "sent"
        /\ \A m \in Nonces : m # n => remote'[m] = remote[m]
        /\ UNCHANGED <<phase, job, answer, told>>
    BY <1>2 DEF Execute, RefuseRemotely
  <2>2. ~(told[n] = "2xx" \/ told[n] = "4xx")
    BY <2>1
  <2>3. \A w \in Workers :
           phase[w] \in {"answered", "resolving", "enriching"} => job[w] \in Nonces
    BY DEF JobInv
  <2> QED
    BY <2>1, <2>2, <2>3
<1>3. ASSUME NEW w \in Workers, NEW n \in Nonces, Admit(w, n) PROVE AnswerInv'
    BY <1>3 DEF Admit
<1>4. ASSUME NEW w \in Workers, NEW n \in Nonces, Refuse(w, n) PROVE AnswerInv'
    BY <1>4 DEF Refuse
<1>5. ASSUME NEW w \in Workers, Failing(w) PROVE AnswerInv'
    BY <1>5, FailingIsRaise DEF Raise, JobInv
<1>6. ASSUME NEW w \in Workers, Moving(w) PROVE AnswerInv'
    BY <1>6, MovingOnlyMoves
<1>7. ASSUME NEW w \in Workers, Send(w) PROVE AnswerInv'
    BY <1>7 DEF Send, JobInv
<1>8. ASSUME NEW w \in Workers, Return(w) PROVE AnswerInv'
    BY <1>8 DEF Return, JobInv
<1>9. ASSUME NEW w \in Workers, NEW a \in Answers, Answer(w, a) PROVE AnswerInv'
    BY <1>9 DEF Answer, Possible
<1>10. ASSUME NEW k \in Conns, CrashProcess(k) PROVE AnswerInv'
    BY <1>10 DEF CrashProcess
<1>11. CASE UNCHANGED gatevars
    BY <1>11 DEF gatevars
<1> QED
    BY <1>1, <1>2, <1>3, <1>4, <1>5, <1>6, <1>7, <1>8, <1>9, <1>10, <1>11, StepCases

-----------------------------------------------------------------------------
\* The inductive invariant of the gate, the types of its state included: who works
\* on which approval, what may still be sent, and what an answer says of the
\* remote system, in every state of every execution of admit_and_dispatch.
THEOREM GateInvariant == GateSpec => []GateInv
<1>1. Init => GateInv
    BY DEF Init, Register!Init, Register!States, GateInv, GateTypeOK, JobInv, SendInv,
           AnswerInv
<1>2. GateInv /\ [Next]_vars => GateInv'
    BY GateTypeStep, JobStep, SendStep, AnswerStep DEF GateInv
<1> QED
    BY <1>1, <1>2, PTL DEF GateSpec

\* An approval lets at most one request out of the host, through collisions, lock
\* failures, faults of the tool, lost answers and crashes.
THEOREM OneRequest == GateSpec => []OneRequestPerApproval
<1>1. GateInv => OneRequestPerApproval
    BY DEF GateInv, GateTypeOK, SendInv, OneRequestPerApproval
<1> QED
    BY <1>1, GateInvariant, PTL

\* What the observer classifies as confirmed or refused was: the classification of
\* an answer never claims more than the remote system did.
THEOREM HonestStatus == GateSpec => []StatusIsHonest
<1>1. ASSUME GateInv PROVE StatusIsHonest
  <2>1. \A a \in Answers \ {"plain"} :
           /\ Observed(a) = "remote_confirmed" => a = "2xx"
           /\ Observed(a) = "remote_refused" => a = "4xx"
    BY DEF Observed, Classify, WireEvent
  <2> QED
    BY <1>1, <2>1 DEF GateInv, AnswerInv, StatusIsHonest, Told
<1> QED
    BY <1>1, GateInvariant, PTL

\* The ledger's proofs cite what they use, and so do the ones that follow.
HIDE GateAssumption DEF Phases, Answers, Decided

-----------------------------------------------------------------------------
(* A step of the gate is a step of the ledger, or none. *)

\* ClassifyRaises leaves the intent without a call of the ledger.
LEMMA GateStepsLedger ==
    ASSUME AnswerInv, PhaseInv, [Next]_vars PROVE [AnyStep]_ledgervars
<1>1. ASSUME NEW w \in Workers, GateStep(w) PROVE [AnyStep]_ledgervars
  <2>1. CASE DeclareIntent(w) \/ DeclareStep(w) \/ DeclareDone(w) \/ DeclareRaises(w)
      BY <2>1 DEF DeclareIntent, DeclareStep, DeclareDone, DeclareRaises, LosesCursor, AnyStep,
                  NextLedger, LedgerStep
  <2>2. CASE ResolveIntent(w) \/ ResolveDone(w) \/ ResolveRaises(w)
    <3>1. CASE ResolveIntent(w)
      <4>1. ResolvedAs(answer[w]) \in Finals
          BY <3>1, GateAssumption DEF ResolveIntent, AnswerInv
      <4>. QED
          BY <3>1, <4>1 DEF ResolveIntent, AnyStep, NextLedger
    <3>. QED
        BY <2>2, <3>1 DEF ResolveDone, ResolveRaises, LosesCursor, AnyStep, NextLedger, LedgerStep
  <2>3. CASE ClassifyRaises(w)
      BY <2>3 DEF ClassifyRaises, PhaseInv, Quits, UsesCursor, AnyStep
  <2>4. CASE Return(w) \/ EnrichRaises(w)
      BY <2>4 DEF Return, EnrichRaises
  <2>. QED
      BY <1>1, <2>1, <2>2, <2>3, <2>4 DEF GateStep
<1>2. ASSUME NEW k \in Conns, CrashProcess(k) PROVE [AnyStep]_ledgervars
    BY <1>2 DEF CrashProcess, AnyStep, NextLedger
<1>3. CASE UNCHANGED vars
    BY <1>3 DEF vars
<1>. QED
    BY <1>1, <1>2, <1>3 DEF Next, RecordApproval, Execute, RefuseRemotely, Admit, Refuse, ToolStep,
                            Send, Answer

LEMMA GateCases ==
    ASSUME [Next]_vars
    PROVE  \/ \E n \in Nonces : RecordApproval(n) \/ Execute(n) \/ RefuseRemotely(n)
           \/ \E w \in Workers, n \in Nonces : Admit(w, n) \/ Refuse(w, n)
           \/ \E w \in Workers : \/ DeclareIntent(w) \/ DeclareStep(w) \/ DeclareDone(w)
                                 \/ ResolveIntent(w) \/ ResolveDone(w)
                                 \/ Failing(w) \/ Send(w) \/ Return(w)
           \/ \E w \in Workers, a \in Answers : Answer(w, a)
           \/ \E k \in Conns : CrashProcess(k)
           \/ UNCHANGED vars
BY DEF Next, GateStep, ToolStep, Failing

\* What a failing call leaves of a worker.
LEMMA FailingEnds ==
    ASSUME TypeOK, PhaseInv, NEW w \in Workers, Failing(w)
    PROVE  /\ at' = [at EXCEPT ![w] = "idle"]
           /\ intents' = intents /\ under' = under /\ sends' = sends
           /\ \A v \in Workers : mine'[v] \in {0, mine[v]} /\ (v # w => mine'[v] = mine[v])
           /\ Raise(w)
<1> USE DEF Goto, TypeOK
<1>1. CASE DeclareRaises(w)
    BY <1>1 DEF DeclareRaises, Collide, InsertFails, LosesCursor, CursorBusy, Abandon, Forgets,
                Raise, world
<1>2. CASE ResolveRaises(w)
    BY <1>2 DEF ResolveRaises, ResolveFails, LosesCursor, CursorBusy, Abandon, Forgets,
                Raise, world
<1>3. CASE ClassifyRaises(w)
    BY <1>3 DEF ClassifyRaises, Abandon, Forgets, Raise, world
<1>4. CASE EnrichRaises(w)
    BY <1>4 DEF EnrichRaises, PhaseInv, Raise, world, ledgervars
<1>. QED
    BY <1>1, <1>2, <1>3, <1>4 DEF Failing

-----------------------------------------------------------------------------
(* Where a worker is in the gate and in the ledger. *)

LEMMA PhaseStep ==
    ASSUME TypeOK, GateTypeOK, PhaseInv, [Next]_vars PROVE PhaseInv'
<1> USE DEF PhaseInv, GateTypeOK, Enter, Goto
<1>0. at \in [Workers -> {"idle", "select", "fetch", "insert", "commit", "held", "resolve"}]
    BY DEF TypeOK
<1>1. ASSUME NEW n \in Nonces, RecordApproval(n) \/ Execute(n) \/ RefuseRemotely(n)
      PROVE  PhaseInv'
    BY <1>1 DEF RecordApproval, Execute, RefuseRemotely, ledgervars
<1>2. ASSUME NEW w \in Workers, NEW n \in Nonces, Admit(w, n) \/ Refuse(w, n) PROVE PhaseInv'
    BY <1>0, <1>2 DEF Admit, Refuse, ledgervars
<1>3. ASSUME NEW w \in Workers, DeclareIntent(w) PROVE PhaseInv'
    BY <1>0, <1>3 DEF DeclareIntent, Declare
<1>4. ASSUME NEW w \in Workers, DeclareStep(w) PROVE PhaseInv'
    BY <1>0, <1>4 DEF DeclareStep, Select, Pass, Insert, gatevars
<1>5. ASSUME NEW w \in Workers, DeclareDone(w) PROVE PhaseInv'
    BY <1>0, <1>5 DEF DeclareDone, CommitDeclare
<1>6. ASSUME NEW w \in Workers, ResolveIntent(w) PROVE PhaseInv'
    BY <1>0, <1>6 DEF ResolveIntent, Resolve
<1>7. ASSUME NEW w \in Workers, ResolveDone(w) PROVE PhaseInv'
    BY <1>0, <1>7 DEF ResolveDone, CommitResolve
<1>8. ASSUME NEW w \in Workers, Failing(w) PROVE PhaseInv'
    BY <1>0, <1>8, FailingEnds DEF Raise
<1>9. ASSUME NEW w \in Workers, Send(w) \/ Return(w) PROVE PhaseInv'
    BY <1>0, <1>9 DEF Send, Return, ledgervars
<1>10. ASSUME NEW w \in Workers, NEW a \in Answers, Answer(w, a) PROVE PhaseInv'
    BY <1>0, <1>10 DEF Answer, Possible, ledgervars
<1>11. ASSUME NEW k \in Conns, CrashProcess(k) PROVE PhaseInv'
  <2>1. at' = [w \in Workers |-> IF ConnOf[w] = k THEN "idle" ELSE at[w]]
      BY <1>0, <1>11 DEF CrashProcess, Crash, ledgervars
  <2>. QED
      BY <1>11, <2>1 DEF CrashProcess
<1>12. CASE UNCHANGED vars
    BY <1>12 DEF vars, ledgervars, gatevars
<1>. QED
    BY <1>1, <1>2, <1>3, <1>4, <1>5, <1>6, <1>7, <1>8, <1>9, <1>10, <1>11, <1>12, GateCases

-----------------------------------------------------------------------------
(* The intent of each call. *)

LEMMA UnderKept ==
    ASSUME UnderInv, Grows(intents, intents'), under' = under,
           \A n \in Nonces : sends'[n] > 0 => under[n] # 0,
           \A w \in Workers : phase'[w] \in {"calling", "sent", "answered", "resolving"} =>
              /\ phase[w] \in {"calling", "sent", "answered", "resolving"}
              /\ job'[w] = job[w] /\ mine'[w] = mine[w],
           \A w \in Workers : at'[w] = "commit" => at[w] = "commit" /\ mine'[w] = mine[w]
    PROVE  UnderInv'
<1>1. \A n \in Nonces : under'[n] # 0 => under'[n] \in Rows(intents')
    BY DEF UnderInv, Grows
<1>2. IntentsAreNotShared'
    BY DEF UnderInv, IntentsAreNotShared
<1>. QED
    BY <1>1, <1>2 DEF UnderInv

LEMMA UnderStep ==
    ASSUME GateTypeOK, JobInv, SendInv, AnswerInv, IntentInv, PhaseInv, UnderInv, [Next]_vars
    PROVE  UnderInv'
<1> USE DEF GateTypeOK, Enter, Goto, register, world
<1>0. Grows(intents, intents')
    BY GateStepsLedger, RowsOnlyGrow DEF IntentInv
<1>1. \A n \in Nonces : sends[n] > 0 => under[n] # 0
    BY DEF UnderInv
<1>2. /\ mine \in [Workers -> {0} \cup Ids]
      /\ at \in [Workers -> {"idle", "select", "fetch", "insert", "commit", "held", "resolve"}]
    BY DEF IntentInv, TypeOK
<1>3. ASSUME NEW n \in Nonces, RecordApproval(n) \/ Execute(n) \/ RefuseRemotely(n)
      PROVE  UnderInv'
    BY <1>0, <1>1, <1>3, UnderKept DEF RecordApproval, Execute, RefuseRemotely, ledgervars
<1>4. ASSUME NEW w \in Workers, NEW n \in Nonces, Admit(w, n) \/ Refuse(w, n) PROVE UnderInv'
    BY <1>0, <1>1, <1>4, UnderKept DEF Admit, Refuse, ledgervars
<1>5. ASSUME NEW w \in Workers, DeclareIntent(w) PROVE UnderInv'
    BY <1>0, <1>1, <1>2, <1>5, UnderKept DEF DeclareIntent, Declare
<1>6. ASSUME NEW w \in Workers, DeclareStep(w) PROVE UnderInv'
  <2>1. CASE Select(w) \/ Pass(w)
      BY <1>0, <1>1, <1>2, <1>6, <2>1, UnderKept
         DEF DeclareStep, Select, Pass, gatevars, callvars
  <2>2. CASE Insert(w)
    <3>1. PICK id \in Ids : /\ Newest(ConnOf[w])[id] = NoIntent
                            /\ Writes(ConnOf[w], [Newest(ConnOf[w]) EXCEPT ![id] = Own(w)])
                            /\ mine' = [mine EXCEPT ![w] = id]
        BY <2>2, InsertEffect DEF IntentInv
    <3>2. id \notin Rows(intents) /\ id # 0
        BY <3>1, WriterSees, IntentAssumption DEF IntentInv, Writes, Grows, Rows, Ids
    <3>3. /\ at' = [at EXCEPT ![w] = "commit"] /\ UNCHANGED gatevars /\ intents' = intents
          /\ at[w] = "insert"
        BY <1>6, <2>2 DEF DeclareStep, Insert
    <3>4. \A n \in Nonces : under[n] # id
        BY <3>2 DEF UnderInv
    <3>5. ASSUME NEW v \in Workers, phase[v] \in {"calling", "sent", "answered", "resolving"}
          PROVE  mine'[v] = mine[v]
        BY <1>2, <3>1, <3>3, <3>5 DEF PhaseInv
    <3>6. ASSUME NEW v \in Workers, at'[v] = "commit", NEW n \in Nonces
          PROVE  under[n] # mine'[v]
        BY <1>2, <3>1, <3>3, <3>4, <3>6 DEF UnderInv
    <3>. QED
        BY <3>3, <3>5, <3>6 DEF UnderInv, IntentsAreNotShared, gatevars, Rows
  <2>. QED
      BY <1>6, <2>1, <2>2 DEF DeclareStep
<1>7. ASSUME NEW w \in Workers, DeclareDone(w) PROVE UnderInv'
  <2>1. /\ at[w] = "commit" /\ Commits(ConnOf[w]) /\ at' = [at EXCEPT ![w] = "held"]
        /\ mine' = mine /\ phase' = [phase EXCEPT ![w] = "calling"]
        /\ under' = [under EXCEPT ![job[w]] = mine[w]] /\ UNCHANGED <<job, sends>>
        /\ phase[w] = "declaring"
      BY <1>7 DEF DeclareDone, CommitDeclare, callvars
  <2>2. job[w] \in Nonces /\ \A v \in Workers \ {w} : job[v] # job[w]
      BY <2>1 DEF JobInv
  <2>3. mine[w] \in Ids /\ mine[w] # 0 /\ mine[w] \in Rows(intents')
    <3>1. mine[w] \in Ids /\ mine[w] # 0 /\ Own(w) # NoIntent
        BY <2>1, IntentAssumption DEF IntentInv, TypeOK, Own, Intent, Agents
    <3>2. intents' = Newest(ConnOf[w])
        BY <2>1, CommitEffect, IntentAssumption DEF IntentInv
    <3>. QED
        BY <2>1, <3>1, <3>2 DEF IntentInv, HolderInv, Rows
  <2>4. \A n \in Nonces : under[n] # mine[w]
      BY <2>1 DEF UnderInv
  <2>5. /\ under'[job[w]] = mine[w] /\ under' \in [Nonces -> {0} \cup Ids]
        /\ \A n \in Nonces \ {job[w]} : under'[n] = under[n]
      BY <2>1, <2>2, <2>3 DEF UnderInv
  <2>6. ASSUME NEW n \in Nonces
        PROVE  /\ under'[n] # 0 => under'[n] \in Rows(intents')
               /\ sends'[n] > 0 => under'[n] # 0
      BY <1>0, <2>1, <2>3, <2>5 DEF UnderInv, Grows
  <2>7. IntentsAreNotShared'
      BY <2>4, <2>5 DEF UnderInv, IntentsAreNotShared
  <2>8. ASSUME NEW v \in Workers, phase'[v] \in {"calling", "sent", "answered", "resolving"}
        PROVE  under'[job'[v]] = mine'[v]
    <3>1. CASE v = w
        BY <2>1, <2>5, <3>1
    <3>2. CASE v # w
      <4>1. phase[v] \in {"calling", "sent", "answered", "resolving"} /\ job[v] \in Nonces
          BY <2>1, <2>8, <3>2 DEF JobInv
      <4>. QED
          BY <2>1, <2>2, <2>5, <3>2, <4>1 DEF UnderInv
    <3>. QED
        BY <3>1, <3>2
  <2>9. ASSUME NEW v \in Workers, at'[v] = "commit", NEW n \in Nonces PROVE under'[n] # mine'[v]
    <3>1. v # w /\ at[v] = "commit"
        BY <1>2, <2>1, <2>9
    <3>2. mine[v] # mine[w]
        BY <2>3, <3>1 DEF IntentInv, HolderInv
    <3>. QED
        BY <2>1, <2>5, <3>1, <3>2 DEF UnderInv
  <2>. QED
      BY <2>5, <2>6, <2>7, <2>8, <2>9 DEF UnderInv
<1>8. ASSUME NEW w \in Workers, ResolveIntent(w) PROVE UnderInv'
    BY <1>0, <1>1, <1>2, <1>8, UnderKept DEF ResolveIntent, Resolve, callvars
<1>9. ASSUME NEW w \in Workers, ResolveDone(w) PROVE UnderInv'
    BY <1>0, <1>1, <1>2, <1>9, UnderKept DEF ResolveDone, CommitResolve, Forgets
<1>10. ASSUME NEW w \in Workers, Failing(w) PROVE UnderInv'
    BY <1>0, <1>1, <1>2, <1>10, FailingEnds, UnderKept DEF Raise, IntentInv
<1>11. ASSUME NEW w \in Workers, Send(w) PROVE UnderInv'
  <2>1. job[w] \in Nonces /\ under[job[w]] = mine[w] /\ mine[w] # 0
      BY <1>11 DEF Send, JobInv, UnderInv, PhaseInv, IntentInv, TypeOK
  <2>. QED
      BY <1>0, <1>1, <1>11, <2>1, UnderKept DEF Send, ledgervars
<1>12. ASSUME NEW w \in Workers, Return(w) PROVE UnderInv'
    BY <1>0, <1>1, <1>12, UnderKept DEF Return, ledgervars
<1>13. ASSUME NEW w \in Workers, NEW a \in Answers, Answer(w, a) PROVE UnderInv'
    BY <1>0, <1>1, <1>13, UnderKept DEF Answer, Possible, ledgervars
<1>14. ASSUME NEW k \in Conns, CrashProcess(k) PROVE UnderInv'
  <2>1. \A w \in Workers : at'[w] = "commit" => at[w] = "commit" /\ mine'[w] = mine[w]
      BY <1>14 DEF CrashProcess, Crash, ledgervars
  <2>2. \A w \in Workers : ConnOf[w] # k => mine'[w] = mine[w]
      BY <1>14 DEF CrashProcess, Crash, ledgervars
  <2>. QED
      BY <1>0, <1>1, <1>14, <2>1, <2>2, UnderKept DEF CrashProcess
<1>15. CASE UNCHANGED vars
    BY <1>0, <1>1, <1>15, UnderKept DEF vars, ledgervars, gatevars
<1>. QED
    BY <1>3, <1>4, <1>5, <1>6, <1>7, <1>8, <1>9, <1>10, <1>11, <1>12, <1>13, <1>14, <1>15, GateCases

-----------------------------------------------------------------------------
(* What the intent of a call says of it. *)

\* Where a resolution, an observation and the intent of a call come from.
LEMMA RecordCauses ==
    ASSUME TypeOK, GateTypeOK, JobInv, PhaseInv, [Next]_vars
    PROVE  /\ \A v \in Workers : phase'[v] = "resolving" =>
                 \/ phase[v] = "resolving" /\ answer'[v] = answer[v]
                 \/ ResolveIntent(v)
           /\ \A v \in Workers : phase'[v] = "enriching" =>
                 \/ phase[v] = "enriching" /\ job'[v] = job[v] /\ answer'[v] = answer[v]
                 \/ ResolveDone(v)
           /\ \A n \in Nonces : told'[n] \in Answers =>
                 told'[n] = told[n] \/ \E w \in Workers : Return(w) /\ job[w] = n
           /\ \A n \in Nonces :
                 under'[n] = under[n] \/ \E w \in Workers : DeclareDone(w) /\ job[w] = n
<1> USE DEF GateTypeOK, Answers, Enter, register, world
<1> DEFINE Causes ==
           /\ \A v \in Workers : phase'[v] = "resolving" =>
                 \/ phase[v] = "resolving" /\ answer'[v] = answer[v]
                 \/ ResolveIntent(v)
           /\ \A v \in Workers : phase'[v] = "enriching" =>
                 \/ phase[v] = "enriching" /\ job'[v] = job[v] /\ answer'[v] = answer[v]
                 \/ ResolveDone(v)
           /\ \A n \in Nonces : told'[n] \in Answers =>
                 told'[n] = told[n] \/ \E w \in Workers : Return(w) /\ job[w] = n
           /\ \A n \in Nonces :
                 under'[n] = under[n] \/ \E w \in Workers : DeclareDone(w) /\ job[w] = n
<1>1. ASSUME NEW n \in Nonces, RecordApproval(n) \/ Execute(n) \/ RefuseRemotely(n) PROVE Causes
    BY <1>1 DEF RecordApproval, Execute, RefuseRemotely
<1>2. ASSUME NEW w \in Workers, NEW n \in Nonces, Admit(w, n) \/ Refuse(w, n) PROVE Causes
    BY <1>2 DEF Admit, Refuse
<1>3. ASSUME NEW w \in Workers, DeclareIntent(w) \/ DeclareStep(w) PROVE Causes
    BY <1>3 DEF DeclareIntent, DeclareStep, gatevars
<1>4. ASSUME NEW w \in Workers, DeclareDone(w) PROVE Causes
  <2>1. /\ phase' = [phase EXCEPT ![w] = "calling"] /\ UNCHANGED <<job, answer, told>>
        /\ under' = [under EXCEPT ![job[w]] = mine[w]]
      BY <1>4 DEF DeclareDone
  <2>. QED
      BY <1>4, <2>1 DEF JobInv
<1>5. ASSUME NEW w \in Workers, ResolveIntent(w) PROVE Causes
  <2>1. phase' = [phase EXCEPT ![w] = "resolving"] /\ UNCHANGED <<job, answer, told, under>>
      BY <1>5 DEF ResolveIntent
  <2>. QED
      BY <1>5, <2>1
<1>6. ASSUME NEW w \in Workers, ResolveDone(w) PROVE Causes
  <2>1. phase' = [phase EXCEPT ![w] = "enriching"] /\ UNCHANGED <<job, answer, told, under>>
      BY <1>6 DEF ResolveDone
  <2>. QED
      BY <1>6, <2>1
<1>7. ASSUME NEW w \in Workers, Failing(w) PROVE Causes
  <2>1. Raise(w) /\ job[w] \in Nonces
      BY <1>7, FailingIsRaise DEF JobInv
  <2>. QED
      BY <2>1 DEF Raise
<1>8. ASSUME NEW w \in Workers, Send(w) PROVE Causes
    BY <1>8 DEF Send
<1>9. ASSUME NEW w \in Workers, Return(w) PROVE Causes
  <2>1. /\ phase' = [phase EXCEPT ![w] = "idle"] /\ job' = [job EXCEPT ![w] = NoNonce]
        /\ answer' = [answer EXCEPT ![w] = "none"] /\ under' = under
        /\ told' = [told EXCEPT ![job[w]] = answer[w]] /\ job[w] \in Nonces
      BY <1>9 DEF Return, JobInv
  <2>. QED
      BY <1>9, <2>1
<1>10. ASSUME NEW w \in Workers, NEW a \in Answers, Answer(w, a) PROVE Causes
    BY <1>10 DEF Answer, Possible
<1>11. ASSUME NEW k \in Conns, CrashProcess(k) PROVE Causes
    BY <1>11 DEF CrashProcess
<1>12. CASE UNCHANGED vars
    BY <1>12 DEF vars, gatevars
<1>. QED
    BY <1>1, <1>2, <1>3, <1>4, <1>5, <1>6, <1>7, <1>8, <1>9, <1>10, <1>11, <1>12, GateCases

\* A recorded answer is final.
LEMMA RecordStays ==
    ASSUME IntentInv, [AnyStep]_ledgervars, NEW i \in Rows(intents), NEW a \in Answers,
           RecordedAs(intents[i], a)
    PROVE  i \in Rows(intents') /\ RecordedAs(intents'[i], a)
<1>1. intents[i].status # "PENDING"
    BY GateAssumption, IntentAssumption DEF RecordedAs
<1>2. intents'[i] = intents[i]
    BY <1>1, FinalStays DEF IntentInv
<1>. QED
    BY <1>2 DEF Rows

LEMMA RecordStep ==
    ASSUME GateTypeOK, JobInv, AnswerInv, IntentInv, PhaseInv, UnderInv, RecordInv,
           PhaseInv', UnderInv', [Next]_vars
    PROVE  RecordInv'
<1>0. [AnyStep]_ledgervars
    BY GateStepsLedger
<1> USE DEF IntentInv
<1>1. ASSUME NEW n \in Nonces, under'[n] # under[n]
      PROVE  told[n] = "nothing" /\ told'[n] = told[n]
             /\ \A v \in Workers : job[v] = n => phase[v] = "declaring" /\ phase'[v] = "calling"
  <2>1. PICK w \in Workers : DeclareDone(w) /\ job[w] = n
      BY <1>1, RecordCauses
  <2>. QED
      BY <2>1 DEF DeclareDone, Enter, JobInv, GateTypeOK
<1>2. ASSUME NEW v \in Workers, phase'[v] = "resolving"
      PROVE  RecordedAs(Newest(ConnOf[v])'[mine'[v]], answer'[v])
  <2>1. CASE phase[v] = "resolving" /\ answer'[v] = answer[v]
    <3>1. at[v] = "resolve" /\ at'[v] = "resolve"
        BY <1>2, <2>1 DEF PhaseInv
    <3>2. mine'[v] = mine[v] /\ Newest(ConnOf[v])'[mine[v]] = Newest(ConnOf[v])[mine[v]]
        BY <1>0, <3>1, RowStands
    <3>. QED
        BY <2>1, <3>2 DEF RecordInv
  <2>2. CASE ResolveIntent(v)
    <3> DEFINE f == ResolvedAs(answer[v])
               db == [Newest(ConnOf[v]) EXCEPT ![mine[v]] = [Own(v) EXCEPT !.status = f]]
    <3>1. /\ ~Unclassifiable(answer[v]) /\ f \in Finals /\ Resolve(v, f)
          /\ answer' = answer
        BY <2>2, GateAssumption DEF ResolveIntent, AnswerInv
    <3>2. db \in Table /\ Writes(ConnOf[v], db) /\ mine[v] \in Ids
        BY <3>1, ResolveEffect
    <3>3. Newest(ConnOf[v])' = db /\ mine'[v] = mine[v] /\ ConnOf[v] \in Conns
        BY <3>1, <3>2, WriteEffect, IntentAssumption DEF Resolve, callvars
    <3>4. Newest(ConnOf[v]) \in Table
        BY <3>2, <3>3, WriterSees DEF Writes
    <3>5. db[mine[v]] = [Own(v) EXCEPT !.status = f]
        BY <3>2, <3>4 DEF Table
    <3>6. db[mine[v]].status = f
        BY <3>5 DEF Own
    <3>. QED
        BY <3>1, <3>3, <3>6 DEF RecordedAs
  <2>. QED
      BY <1>2, <2>1, <2>2, RecordCauses
<1>3. ASSUME NEW v \in Workers, phase'[v] = "enriching"
      PROVE  under'[job'[v]] # 0 /\ RecordedAs(intents'[under'[job'[v]]], answer'[v])
  <2>1. CASE phase[v] = "enriching" /\ job'[v] = job[v] /\ answer'[v] = answer[v]
    <3>1. job[v] \in Nonces /\ answer[v] \in Answers
        BY <2>1 DEF JobInv, AnswerInv, GateTypeOK
    <3>2. under'[job[v]] = under[job[v]]
        BY <1>1, <2>1, <3>1
    <3>3. under[job[v]] # 0 /\ RecordedAs(intents[under[job[v]]], answer[v])
        BY <2>1 DEF RecordInv
    <3>4. under[job[v]] \in Rows(intents)
        BY <3>1, <3>3 DEF UnderInv
    <3>. QED
        BY <1>0, <2>1, <3>1, <3>2, <3>3, <3>4, RecordStays
  <2>2. CASE ResolveDone(v)
    <3>1. /\ phase[v] = "resolving" /\ Commits(ConnOf[v]) /\ UNCHANGED <<job, answer, under>>
        BY <2>2 DEF ResolveDone, CommitResolve, world
    <3>2. under[job[v]] = mine[v] /\ mine[v] # 0
        BY <3>1 DEF UnderInv, PhaseInv, TypeOK
    <3>3. intents' = Newest(ConnOf[v])
        BY <3>1, CommitEffect, IntentAssumption
    <3>. QED
        BY <3>1, <3>2, <3>3 DEF RecordInv
  <2>. QED
      BY <1>3, <2>1, <2>2, RecordCauses
<1>4. ASSUME NEW n \in Nonces, told'[n] \in Answers
      PROVE  under'[n] # 0 /\ RecordedAs(intents'[under'[n]], told'[n])
  <2>1. under'[n] = under[n]
      BY <1>1, <1>4 DEF Answers
  <2>2. under[n] # 0 /\ RecordedAs(intents[under[n]], told'[n])
    <3>1. CASE told'[n] = told[n]
        BY <1>4, <3>1 DEF RecordInv
    <3>2. ASSUME NEW w \in Workers, Return(w), job[w] = n
          PROVE  under[n] # 0 /\ RecordedAs(intents[under[n]], told'[n])
        BY <3>2 DEF Return, RecordInv, GateTypeOK
    <3>. QED
        BY <1>4, <3>1, <3>2, RecordCauses
  <2>3. under[n] \in Rows(intents)
      BY <2>2 DEF UnderInv
  <2>. QED
      BY <1>0, <1>4, <2>1, <2>2, <2>3, RecordStays
<1>. QED
    BY <1>2, <1>3, <1>4 DEF RecordInv

-----------------------------------------------------------------------------
(* The theorems. *)

LEMMA GateIntentInit == Init => GateIntentInv
<1> SUFFICES ASSUME Init PROVE GateIntentInv
    OBVIOUS
<1>1. GateInv
    BY DEF Init, Register!Init, Register!States, GateInv, GateTypeOK, JobInv, SendInv,
           AnswerInv, Phases, Answers, Decided
<1>2. IntentInv
    BY IntentInit DEF Init
<1>3. PhaseInv /\ UnderInv /\ RecordInv
    BY DEF Init, InitLedger, PhaseInv, UnderInv, IntentsAreNotShared, RecordInv, Answers
<1>. QED
    BY <1>1, <1>2, <1>3 DEF GateIntentInv

LEMMA GateIntentStep ==
    ASSUME GateIntentInv, [Next]_vars PROVE GateIntentInv'
<1> USE DEF GateIntentInv, GateInv
<1>1. GateInv'
    BY GateTypeStep, JobStep, SendStep, AnswerStep
<1>2. IntentInv'
    BY GateStepsLedger, IntentStep
<1>3. PhaseInv' /\ UnderInv'
    BY PhaseStep, UnderStep DEF IntentInv
<1>. QED
    BY <1>1, <1>2, <1>3, RecordStep

\* The inductive invariant of the gate and the ledger under it: where a worker is in
\* both, which row is the intent of its call, and what that row says of the answer
\* (smaos_gate.py:147-232 over intent_ledger.py:25-63).
THEOREM GateIntentInvariant == GateSpec => []GateIntentInv
<1>1. GateIntentInv /\ [Next]_vars => GateIntentInv'
    BY GateIntentStep
<1>. QED
    BY <1>1, GateIntentInit, PTL DEF GateSpec

\* While a tool may be running, and until its answer is dealt with, its intent stands
\* committed and PENDING under its own agent and target.
THEOREM ToolHasIntent == GateSpec => []ToolRunsUnderIntent
<1>1. ASSUME GateIntentInv, NEW w \in Workers, phase[w] \in {"calling", "sent", "answered"}
      PROVE  mine[w] # 0 /\ intents[mine[w]] = Own(w)
  <2>1. at[w] = "held"
      BY <1>1 DEF GateIntentInv, PhaseInv
  <2>. QED
      BY <1>1, <2>1 DEF GateIntentInv, IntentInv, TypeOK, HolderInv
<1>2. GateIntentInv => ToolRunsUnderIntent
    BY <1>1 DEF ToolRunsUnderIntent, Own
<1>. QED
    BY <1>2, GateIntentInvariant, PTL

\* A request that left has a committed intent that it left under.
THEOREM SentHasRow == GateSpec => []SentIsRecorded
<1>1. GateIntentInv => SentIsRecorded
    BY DEF GateIntentInv, UnderInv, SentIsRecorded, Rows
<1>. QED
    BY <1>1, GateIntentInvariant, PTL

\* No two calls are ever given one intent.
THEOREM OwnIntent == GateSpec => []IntentsAreNotShared
<1>1. GateIntentInv => IntentsAreNotShared
    BY DEF GateIntentInv, UnderInv
<1>. QED
    BY <1>1, GateIntentInvariant, PTL

\* What the caller was told, the committed intent of its call says, for good.
THEOREM ToldHasRow == GateSpec => []ToldIsRecorded
<1>1. GateIntentInv => ToldIsRecorded
    BY DEF GateIntentInv, RecordInv, RecordedAs, ToldIsRecorded
<1>. QED
    BY <1>1, GateIntentInvariant, PTL
=============================================================================
