--------------------------- MODULE EgressPathProofs ---------------------------
(***************************************************************************)
(* Whatever the monitors, threads, hosts, names and packets, what a        *)
(* process sends under a monitor reaches another host only in the ways     *)
(* EgressHasAnExcuse names.                                                *)
(*                                                                         *)
(* The property is not inductive: it needs that the three calls a monitor  *)
(* judges by the name they are given are hooked while guarded holds.  That *)
(* depends on how far each thread's assignments have come, and on no       *)
(* uninstall being under way beside them (PatchInv).                       *)
(*                                                                         *)
(* The second part is about the filter: its counters balance, because the  *)
(* packets counted once so far are on a processor (CpuInv), and the        *)
(* versions of it that are written beside it agree where they should.      *)
(***************************************************************************)
EXTENDS EgressPathProperties, FiniteSetTheorems, TLAPS

Guarded == {"connect", "connect_ex", "sendto"}

MonitorTypes ==
    /\ hooks \in [Calls -> Monitors \cup {Original}]
    /\ entered \in [Threads -> Nat]
    /\ patch \in [Threads -> [to : Monitors \cup {Original}, next : 1..5, stands : BOOLEAN]]
    /\ guarded \in BOOLEAN

\* While an install stands, or one that stood has come to its end, no uninstall is
\* under way; the methods it has assigned are hooked, and they stay so whatever other
\* installs assign beside it.
PatchInv ==
    /\ \A t \in Threads : patch[t].stands =>
           /\ NoUninstall
           /\ patch[t].to # Original
           /\ \A i \in 1..4 : i < patch[t].next => hooks[Hooked[i]] # Original
    /\ guarded => /\ NoUninstall
                  /\ \A c \in Guarded : hooks[c] # Original
    /\ hooks["sendall"] = Original /\ hooks["sendmsg"] = Original

MonitorInv == MonitorTypes /\ PatchInv /\ EgressHasAnExcuse

USE DEF Calls, Connects, Guarded

LEMMA HookedMethods ==
    /\ Len(Hooked) = 4 /\ DOMAIN Hooked = 1..4
    /\ \A i \in 1..4 : Hooked[i] \in {"connect", "connect_ex", "sendto", "send"}
    /\ Hooked[1] = "connect" /\ Hooked[2] = "connect_ex" /\ Hooked[3] = "sendto"
BY DEF Hooked

LEMMA NoPatchIsAtItsEnd == NoPatch = [to |-> Original, next |-> 5, stands |-> FALSE]
BY HookedMethods DEF NoPatch

LEMMA NoUninstallIsBoolean == NoUninstall \in BOOLEAN
BY DEF NoUninstall

LEMMA InitMonitorInv == Init => MonitorInv
<1> SUFFICES ASSUME Init PROVE MonitorInv
    OBVIOUS
<1> USE DEF Init, InitMonitor
<1>1. MonitorTypes
  <2>1. NoPatch \in [to : Monitors \cup {Original}, next : 1..5, stands : BOOLEAN]
      BY NoPatchIsAtItsEnd
  <2>2. patch \in [Threads -> [to : Monitors \cup {Original}, next : 1..5, stands : BOOLEAN]]
      BY <2>1
  <2>. QED
      BY <2>2 DEF MonitorTypes
<1>2. PatchInv
    BY DEF PatchInv, NoPatch
<1>3. EgressHasAnExcuse
    BY DEF EgressHasAnExcuse
<1>. QED
    BY <1>1, <1>2, <1>3 DEF MonitorInv

\* Entering, leaving and assigning change neither connections nor what has been sent.
LEMMA EnterKeeps ==
    ASSUME MonitorInv, NEW t \in Threads, NEW m \in Monitors, Enter(t, m) PROVE MonitorInv'
<1> USE DEF MonitorInv
<1>1. /\ entered' = [entered EXCEPT ![t] = @ + 1]
      /\ patch' = [patch EXCEPT ![t] = [to |-> m, next |-> 1, stands |-> NoUninstall]]
      /\ UNCHANGED <<hooks, conns, guarded, out>>
    BY DEF Enter
<1>2. MonitorTypes'
    BY <1>1, NoUninstallIsBoolean DEF MonitorTypes
<1>3. /\ patch'[t].to = m /\ patch'[t].next = 1 /\ patch'[t].stands = NoUninstall
      /\ \A u \in Threads : u # t => patch'[u] = patch[u]
    BY <1>1 DEF MonitorTypes
<1>4. m # Original
    BY OriginalIsNoMonitor
<1>5. NoUninstall => NoUninstall'
    BY <1>3, <1>4 DEF NoUninstall, Assigning
<1>6. PatchInv'
  <2>1. ASSUME NEW u \in Threads, patch'[u].stands
        PROVE  /\ NoUninstall'
               /\ patch'[u].to # Original
               /\ \A i \in 1..4 : i < patch'[u].next => hooks'[Hooked[i]] # Original
    <3>1. CASE u = t
        BY <1>3, <1>4, <1>5, <2>1, <3>1
    <3>2. CASE u # t
        BY <1>1, <1>3, <1>5, <2>1, <3>2 DEF PatchInv
    <3>. QED
        BY <3>1, <3>2
  <2>. QED
      BY <1>1, <1>5, <2>1 DEF PatchInv
<1>7. EgressHasAnExcuse'
    BY <1>1 DEF EgressHasAnExcuse
<1>. QED
    BY <1>2, <1>6, <1>7

LEMMA ExitKeeps == ASSUME MonitorInv, NEW t \in Threads, Exit(t) PROVE MonitorInv'
<1> USE DEF MonitorInv
<1>1. /\ entered[t] > 0 /\ entered' = [entered EXCEPT ![t] = @ - 1]
      /\ patch' = [u \in Threads |-> IF u = t THEN [to |-> Original, next |-> 1, stands |-> FALSE]
                                      ELSE [patch[u] EXCEPT !.stands = FALSE]]
      /\ guarded' = FALSE
      /\ UNCHANGED <<hooks, conns, out>>
    BY DEF Exit
<1>2. MonitorTypes'
  <2>1. entered' \in [Threads -> Nat]
      BY <1>1 DEF MonitorTypes
  <2>2. ASSUME NEW u \in Threads
        PROVE  patch'[u] \in [to : Monitors \cup {Original}, next : 1..5, stands : BOOLEAN]
    <3>1. patch[u] \in [to : Monitors \cup {Original}, next : 1..5, stands : BOOLEAN]
        BY DEF MonitorTypes
    <3>2. CASE u = t
        BY <1>1, <3>2
    <3>3. CASE u # t
      <4>1. patch'[u] = [patch[u] EXCEPT !.stands = FALSE]
          BY <1>1, <3>3
      <4>. QED
          BY <3>1, <4>1
    <3>. QED
        BY <3>2, <3>3
  <2>3. patch' \in [Threads -> [to : Monitors \cup {Original}, next : 1..5, stands : BOOLEAN]]
      BY <1>1, <2>2
  <2>. QED
      BY <1>1, <2>1, <2>3 DEF MonitorTypes
<1>3. \A u \in Threads : patch'[u].stands = FALSE
  <2>1. ASSUME NEW u \in Threads, u # t PROVE patch'[u].stands = FALSE
    <3>1. patch[u] \in [to : Monitors \cup {Original}, next : 1..5, stands : BOOLEAN]
        BY DEF MonitorTypes
    <3>2. patch'[u] = [patch[u] EXCEPT !.stands = FALSE]
        BY <1>1, <2>1
    <3>. QED
        BY <3>1, <3>2
  <2>. QED
      BY <1>1, <2>1
<1>4. PatchInv'
    BY <1>1, <1>3 DEF PatchInv
<1>5. EgressHasAnExcuse'
    BY <1>1 DEF EgressHasAnExcuse
<1>. QED
    BY <1>2, <1>4, <1>5

\* The last assignment of an install that stands is the moment guarded becomes true: it
\* has assigned the other methods before, and nothing has taken them back.
LEMMA AssignKeeps == ASSUME MonitorInv, NEW t \in Threads, Assign(t) PROVE MonitorInv'
<1> USE DEF MonitorInv
<1> DEFINE n == patch[t].next
           to == patch[t].to
<1>1. /\ n \in 1..4
      /\ hooks' = [hooks EXCEPT ![Hooked[n]] = to]
      /\ patch' = IF n = 4 THEN [patch EXCEPT ![t] = NoPatch] ELSE [patch EXCEPT ![t].next = n + 1]
      /\ guarded' = (guarded \/ (n = 4 /\ patch[t].stands))
      /\ UNCHANGED <<entered, conns, out>>
    BY HookedMethods DEF Assign, Assigning
<1>2. \A c \in Calls : hooks'[c] = IF c = Hooked[n] THEN to ELSE hooks[c]
    BY <1>1 DEF MonitorTypes
<1>3. /\ n = 4 => patch'[t] = NoPatch
      /\ n # 4 => /\ patch'[t].to = to /\ patch'[t].next = n + 1
                  /\ patch'[t].stands = patch[t].stands
      /\ \A u \in Threads : u # t => patch'[u] = patch[u]
  <2>1. patch[t] \in [to : Monitors \cup {Original}, next : 1..5, stands : BOOLEAN]
      BY DEF MonitorTypes
  <2>2. n = 4 => patch'[t] = NoPatch
      BY <1>1 DEF MonitorTypes
  <2>3. \A u \in Threads : u # t => patch'[u] = patch[u]
      BY <1>1 DEF MonitorTypes
  <2>4. n # 4 => patch'[t].to = to /\ patch'[t].next = n + 1 /\ patch'[t].stands = patch[t].stands
      BY <1>1, <2>1 DEF MonitorTypes
  <2>. QED
      BY <2>2, <2>3, <2>4
<1>4. MonitorTypes'
  <2>1. NoPatch \in [to : Monitors \cup {Original}, next : 1..5, stands : BOOLEAN]
      BY NoPatchIsAtItsEnd
  <2>3. patch' \in [Threads -> [to : Monitors \cup {Original}, next : 1..5, stands : BOOLEAN]]
    <3>1. n + 1 \in 1..5
        BY <1>1
    <3>2. CASE n = 4
        BY <1>1, <2>1, <3>2 DEF MonitorTypes
    <3>3. CASE n # 4
        BY <1>1, <3>1, <3>3 DEF MonitorTypes
    <3>. QED
        BY <3>2, <3>3
  <2>4. hooks' \in [Calls -> Monitors \cup {Original}]
      BY <1>1 DEF MonitorTypes
  <2>5. guarded' \in BOOLEAN
      BY <1>1 DEF MonitorTypes
  <2>. QED
      BY <1>1, <2>3, <2>4, <2>5 DEF MonitorTypes
<1>5. NoUninstall => to # Original /\ NoUninstall'
  <2>1. Assigning(t)
      BY DEF Assign
  <2>2. \A u \in Threads : Assigning(u)' => Assigning(u) /\ patch'[u].to = patch[u].to
      BY <1>1, <1>3, HookedMethods DEF Assigning, NoPatch
  <2>. QED
      BY <2>1, <2>2 DEF NoUninstall
<1>6. PatchInv'
  <2>1. ASSUME NEW u \in Threads, patch'[u].stands
        PROVE  /\ NoUninstall'
               /\ patch'[u].to # Original
               /\ \A i \in 1..4 : i < patch'[u].next => hooks'[Hooked[i]] # Original
    <3>1. patch[u].stands /\ patch'[u].to = patch[u].to
        BY <1>3, <2>1 DEF NoPatch
    <3>2. NoUninstall' /\ to # Original /\ patch'[u].to # Original
        BY <1>5, <3>1 DEF PatchInv
    <3>3. ASSUME NEW i \in 1..4, i < patch'[u].next PROVE hooks'[Hooked[i]] # Original
      <4>1. i < patch[u].next \/ (u = t /\ i = n)
        <5>1. patch[u].next \in 1..5
            BY DEF MonitorTypes
        <5>2. CASE u = t
          <6>1. n # 4
              BY <1>3, <2>1, <5>2, NoPatchIsAtItsEnd
          <6>2. patch'[u].next = n + 1
              BY <1>3, <5>2, <6>1
          <6>3. i < n + 1 /\ n \in 1..4
              BY <1>1, <3>3, <6>2
          <6>4. i < n \/ i = n
              BY <6>3
          <6>. QED
              BY <5>2, <6>4
        <5>3. CASE u # t
          <6>1. patch'[u] = patch[u]
              BY <1>3, <5>3
          <6>. QED
              BY <3>3, <6>1
        <5>. QED
            BY <5>2, <5>3
      <4>2. Hooked[i] \in Calls
          BY HookedMethods
      <4>. QED
          BY <1>2, <3>1, <3>2, <4>1, <4>2 DEF PatchInv
    <3>. QED
        BY <3>2, <3>3
  <2>2. ASSUME guarded'
        PROVE  NoUninstall' /\ \A c \in Guarded : hooks'[c] # Original
    <3>1. CASE guarded
        BY <1>2, <1>5, <3>1 DEF PatchInv
    <3>2. CASE n = 4 /\ patch[t].stands
      <4>1. NoUninstall' /\ to # Original /\ \A i \in 1..4 : i < 4 => hooks[Hooked[i]] # Original
          BY <1>5, <3>2 DEF PatchInv
      <4>. QED
          BY <1>2, <4>1, HookedMethods
    <3>. QED
        BY <1>1, <2>2, <3>1, <3>2
  <2>3. (hooks["sendall"] = Original /\ hooks["sendmsg"] = Original)'
      BY <1>1, <1>2, HookedMethods DEF PatchInv
  <2>. QED
      BY <2>1, <2>2, <2>3 DEF PatchInv
<1>7. EgressHasAnExcuse'
    BY <1>1 DEF EgressHasAnExcuse
<1>. QED
    BY <1>4, <1>6, <1>7

\* What neither assigns nor enters or leaves needs an excuse for what it sends.
LEMMA CallKeeps ==
    ASSUME MonitorInv, UNCHANGED <<hooks, entered, patch, guarded>>, EgressHasAnExcuse'
    PROVE  MonitorInv'
BY DEF MonitorInv, MonitorTypes, PatchInv, NoUninstall, Assigning

\* A call that passes with a name: while guarded, the name is allowed, the host is this
\* one, or the call is sendmsg.
LEMMA PassesWithAnExcuse ==
    ASSUME MonitorInv, NEW call \in Connects \cup {"sendto", "sendmsg"}, NEW name, NEW host,
           Passes(call, name)
    PROVE  /\ Why(call, name, host) # "no excuse"
           /\ Why(call, name, host) = "not hooked" => call = "sendmsg"
<1>1. call # "sendmsg" => call \in Guarded
    OBVIOUS
<1>2. guarded /\ call # "sendmsg" => name \in Allowed
    BY <1>1 DEF MonitorInv, PatchInv, Passes
<1>. QED
    BY <1>2 DEF Why

LEMMA NewConnection ==
    ASSUME NEW host, NEW why, why \notin {"no excuse", "not hooked"},
           \A conn \in conns : conn[2] \notin {"no excuse", "not hooked"}
    PROVE  \A conn \in conns \cup {<<host, why>>} : conn[2] \notin {"no excuse", "not hooked"}
<1> DEFINE new == <<host, why>>
<1>1. new[2] \notin {"no excuse", "not hooked"}
    OBVIOUS
<1> HIDE DEF new
<1>2. ASSUME NEW conn \in conns \cup {new} PROVE conn[2] \notin {"no excuse", "not hooked"}
  <2>1. CASE conn \in conns
      BY <2>1
  <2>2. CASE conn = new
      BY <1>1, <2>2
  <2>. QED
      BY <1>2, <2>1, <2>2
<1>. QED
    BY <1>2 DEF new

LEMMA ConnectKeeps ==
    ASSUME MonitorInv, NEW call \in Calls, NEW name, NEW host, Connect(call, name, host)
    PROVE  MonitorInv'
<1>1. /\ call \in Connects /\ Passes(call, name)
      /\ conns' = conns \cup {<<host, Why(call, name, host)>>}
      /\ out' = [why |-> Why(call, name, host), by |-> Original]
      /\ UNCHANGED <<hooks, entered, patch, guarded>>
    BY DEF Connect
<1>2. Why(call, name, host) \notin {"no excuse", "not hooked"}
    BY <1>1, PassesWithAnExcuse
<1>3. out'.why # "no excuse" /\ (out'.why = "not hooked" => out'.by = Original)
    BY <1>1, <1>2
<1>4. \A conn \in conns' : conn[2] \notin {"no excuse", "not hooked"}
    BY <1>1, <1>2, NewConnection DEF EgressHasAnExcuse, MonitorInv
<1>5. EgressHasAnExcuse'
    BY <1>3, <1>4 DEF EgressHasAnExcuse
<1>. QED
    BY <1>1, <1>5, CallKeeps

LEMMA AcceptKeeps == ASSUME MonitorInv, NEW host, Accept(host) PROVE MonitorInv'
<1>1. /\ conns' = conns \cup {<<host, IF host \in Loopback THEN "loopback" ELSE "accepted">>}
      /\ UNCHANGED <<hooks, entered, patch, guarded, out>>
    BY DEF Accept
<1>2. \A conn \in conns' : conn[2] \notin {"no excuse", "not hooked"}
    BY <1>1, NewConnection DEF EgressHasAnExcuse, MonitorInv
<1>3. EgressHasAnExcuse'
    BY <1>1, <1>2 DEF EgressHasAnExcuse, MonitorInv
<1>. QED
    BY <1>1, <1>3, CallKeeps

LEMMA SendToKeeps ==
    ASSUME MonitorInv, NEW call \in Calls, NEW name, NEW host, SendTo(call, name, host)
    PROVE  MonitorInv'
<1>1. /\ call \in {"sendto", "sendmsg"} /\ Passes(call, name)
      /\ out' = [why |-> Why(call, name, host), by |-> hooks[call]]
      /\ UNCHANGED <<hooks, entered, patch, conns, guarded>>
    BY DEF SendTo
<1>2. /\ Why(call, name, host) # "no excuse"
      /\ Why(call, name, host) = "not hooked" => call = "sendmsg"
    BY <1>1, PassesWithAnExcuse
<1>3. hooks["sendmsg"] = Original
    BY DEF MonitorInv, PatchInv
<1>4. EgressHasAnExcuse'
    BY <1>1, <1>2, <1>3 DEF EgressHasAnExcuse, MonitorInv
<1>. QED
    BY <1>1, <1>4, CallKeeps

LEMMA SendKeeps ==
    ASSUME MonitorInv, NEW call \in Calls, NEW conn \in conns, Send(call, conn) PROVE MonitorInv'
<1>1. /\ out' = [why |-> conn[2], by |-> hooks[call]]
      /\ UNCHANGED <<hooks, entered, patch, conns, guarded>>
    BY DEF Send
<1>2. EgressHasAnExcuse'
    BY <1>1 DEF EgressHasAnExcuse, MonitorInv
<1>. QED
    BY <1>1, <1>2, CallKeeps

LEMMA UnchangedKeeps == ASSUME MonitorInv, UNCHANGED monitor PROVE MonitorInv'
<1>1. EgressHasAnExcuse'
    BY DEF monitor, EgressHasAnExcuse, MonitorInv
<1>. QED
    BY <1>1, CallKeeps DEF monitor

LEMMA NextKeeps == MonitorInv /\ [Next]_vars => MonitorInv'
<1> SUFFICES ASSUME MonitorInv, [Next]_vars PROVE MonitorInv'
    OBVIOUS
<1>1. CASE Guard
    BY <1>1, EnterKeeps, ExitKeeps, AssignKeeps DEF Guard
<1>2. ASSUME NEW call \in Calls, Call(call) PROVE MonitorInv'
    BY <1>2, ConnectKeeps, SendToKeeps, SendKeeps, UnchangedKeeps DEF Call, Refuse
<1>3. ASSUME NEW host \in Hosts, Accept(host) PROVE MonitorInv'
    BY <1>3, AcceptKeeps
<1>4. ASSUME NEW c \in Cpus, Kernel(c) PROVE MonitorInv'
    BY <1>4, UnchangedKeeps DEF Kernel
<1>5. CASE Configure
    BY <1>5, UnchangedKeeps DEF Configure
<1>6. CASE UNCHANGED vars
    BY <1>6, UnchangedKeeps DEF vars
<1>. QED
    BY <1>1, <1>2, <1>3, <1>4, <1>5, <1>6 DEF Next

\* Which method of socket.socket is whose, at every moment of the installs and
\* uninstalls of several threads (airgap_monitor.py:118-150).
THEOREM MonitorInvariant == Spec => []MonitorInv
<1>. QED
    BY InitMonitorInv, NextKeeps, PTL DEF Spec

\* Once an install has come to its end, and until an uninstall begins, what reaches
\* another host went by sendmsg, by a name that is allowed as it is written, or over a
\* connection accepted, made before, or made by such a name (airgap_monitor.py:49-143).
THEOREM EgressIsExplained == Spec => []EgressHasAnExcuse
<1>1. MonitorInv => EgressHasAnExcuse
    BY DEF MonitorInv
<1>. QED
    BY <1>1, MonitorInvariant, PTL

----------------------------------------------------------------------------
(***************************************************************************)
(* The counters.  CountersBalance counts processors by where they are; what *)
(* is missing is that a drop that was counted is at its reason (CpuInv), so *)
(* that no other step can lose it.                                         *)
(***************************************************************************)

AnyPacket ==
    Packets \cup {NoPacket} \cup [form : {"full"}, ip : Ips, tcp : {TRUE}, port : Ports]

FilterTypes ==
    /\ cpu \in [Cpus -> [packet : AnyPacket, counted : BOOLEAN,
                         at : {"idle", "parse", "tcp", "allow", "bad_ip", "bad_port"}]]
    /\ metrics \in [Metrics -> Nat]
    /\ uncounted \in Nat

CpuInv == \A c \in Cpus : /\ cpu[c].counted => cpu[c].at \in Reasons
                          /\ cpu[c].at = "idle" => cpu[c] = Idle

Working == {c \in Cpus : cpu[c] # Idle /\ ~cpu[c].counted}
Dropping == {c \in Cpus : cpu[c].counted}

FilterInv == FilterTypes /\ CpuInv /\ CountersBalance

LEMMA Balance ==
    CountersBalance <=>
        /\ metrics["inspected"] =
               metrics["allowed"] + metrics["dropped"] + uncounted + Cardinality(Working)
        /\ metrics["dropped"] = metrics["bad_ip"] + metrics["bad_port"] + Cardinality(Dropping)
BY DEF CountersBalance, InFlight, Working, Dropping

LEMMA BalanceNext ==
    CountersBalance' <=>
        /\ metrics'["inspected"] =
               metrics'["allowed"] + metrics'["dropped"] + uncounted' + Cardinality(Working')
        /\ metrics'["dropped"] = metrics'["bad_ip"] + metrics'["bad_port"] + Cardinality(Dropping')
BY DEF CountersBalance, InFlight, Working, Dropping

LEMMA Processors ==
    /\ IsFiniteSet(Working) /\ Cardinality(Working) \in Nat
    /\ IsFiniteSet(Dropping) /\ Cardinality(Dropping) \in Nat
<1>1. Working \in SUBSET Cpus /\ Dropping \in SUBSET Cpus
    BY DEF Working, Dropping
<1>. QED
    BY <1>1, CpusAreFinite, FS_Subset, FS_CardinalityType

LEMMA InitFilterInv == Init => FilterInv
<1> SUFFICES ASSUME Init PROVE FilterInv
    OBVIOUS
<1> USE DEF Init, InitFilter
<1>1. FilterTypes
    BY DEF FilterTypes, Idle, AnyPacket, Metrics
<1>2. CpuInv
    BY DEF CpuInv, Idle
<1>3. Working = {} /\ Dropping = {}
    BY DEF Working, Dropping, Idle
<1>4. CountersBalance
    BY <1>3, FS_EmptySet, Balance DEF Metrics
<1>. QED
    BY <1>1, <1>2, <1>4 DEF FilterInv

\* A packet is taken up by a processor that was idle.
LEMMA ReceiveKeeps ==
    ASSUME FilterInv, NEW c \in Cpus, NEW packet \in AnyPacket, Receive(c, packet)
    PROVE  FilterInv'
<1> USE DEF FilterInv
<1> DEFINE busy == [packet |-> packet, at |-> "parse", counted |-> FALSE]
<1>1. /\ cpu[c] = Idle /\ cpu' = [cpu EXCEPT ![c] = busy]
      /\ metrics' = [metrics EXCEPT !["inspected"] = @ + 1] /\ uncounted' = uncounted
    BY DEF Receive, Increment
<1>2. cpu' \in [Cpus -> [packet : AnyPacket, counted : BOOLEAN,
                         at : {"idle", "parse", "tcp", "allow", "bad_ip", "bad_port"}]]
    BY <1>1 DEF FilterTypes
<1>3. FilterTypes'
    BY <1>1, <1>2 DEF FilterTypes, Metrics
<1>4. \A d \in Cpus : cpu'[d] = IF d = c THEN busy ELSE cpu[d]
    BY <1>1 DEF FilterTypes
<1>5. busy # Idle /\ busy.at = "parse" /\ ~busy.counted /\ ~cpu[c].counted
    BY <1>1 DEF Idle
<1>6. CpuInv'
    BY <1>4, <1>5 DEF CpuInv
<1>7. Working' = Working \cup {c} /\ c \notin Working /\ Dropping' = Dropping
    BY <1>1, <1>4, <1>5 DEF Working, Dropping
<1>8. Cardinality(Working') = Cardinality(Working) + 1
    BY <1>7, Processors, FS_AddElement
<1>9. CountersBalance'
    BY <1>1, <1>3, <1>7, <1>8, Processors, Balance, BalanceNext DEF FilterTypes, Metrics
<1>. QED
    BY <1>3, <1>6, <1>9

\* A processor that goes on with its packet is counted as before.
LEMMA GotoKeeps ==
    ASSUME FilterInv, NEW c \in Cpus, cpu[c].at \in {"parse", "tcp"},
           NEW at \in {"tcp", "allow", "bad_ip", "bad_port"}, Goto(c, at),
           UNCHANGED <<metrics, uncounted>>
    PROVE  FilterInv'
<1> USE DEF FilterInv
<1>1. ~cpu[c].counted /\ cpu[c] # Idle
    BY DEF CpuInv, Reasons, Idle
<1>2. cpu' = [cpu EXCEPT ![c].at = at]
    BY DEF Goto
<1>3. FilterTypes'
    BY <1>2 DEF FilterTypes
<1>4. \A d \in Cpus : d # c => cpu'[d] = cpu[d]
    BY <1>2 DEF FilterTypes
<1>5. cpu'[c].at = at /\ ~cpu'[c].counted /\ cpu'[c] # Idle
    BY <1>1, <1>2 DEF FilterTypes, Idle
<1>6. CpuInv'
    BY <1>4, <1>5 DEF CpuInv
<1>7. Working' = Working /\ Dropping' = Dropping
    BY <1>1, <1>4, <1>5 DEF Working, Dropping
<1>8. CountersBalance'
    BY <1>7, Balance, BalanceNext
<1>. QED
    BY <1>3, <1>6, <1>8

\* A packet that is not to be dropped leaves, and one count goes up: that of the packets
\* allowed, or of those passed without being judged.
LEMMA PassKeeps ==
    ASSUME FilterInv, NEW c \in Cpus, cpu[c].at \in {"parse", "tcp", "allow"}, Pass(c),
           \/ metrics' = [metrics EXCEPT !["allowed"] = @ + 1] /\ uncounted' = uncounted
           \/ metrics' = metrics /\ uncounted' = uncounted + 1
    PROVE  FilterInv'
<1> USE DEF FilterInv
<1>1. ~cpu[c].counted /\ cpu[c] # Idle
    BY DEF CpuInv, Reasons, Idle
<1>2. cpu' = [cpu EXCEPT ![c] = Idle]
    BY DEF Pass
<1>3. Idle \in [packet : AnyPacket, counted : BOOLEAN,
                at : {"idle", "parse", "tcp", "allow", "bad_ip", "bad_port"}]
    BY DEF Idle, AnyPacket
<1>4. FilterTypes'
    BY <1>2, <1>3 DEF FilterTypes, Metrics
<1>5. cpu'[c] = Idle /\ \A d \in Cpus : d # c => cpu'[d] = cpu[d]
    BY <1>2 DEF FilterTypes
<1>6. CpuInv'
  <2>1. ~Idle.counted
      BY DEF Idle
  <2>. QED
      BY <1>5, <2>1 DEF CpuInv
<1>7. Working' = Working \ {c} /\ c \in Working /\ Dropping' = Dropping
  <2>1. ~Idle.counted
      BY DEF Idle
  <2>. QED
      BY <1>1, <1>5, <2>1 DEF Working, Dropping
<1>8. Cardinality(Working') = Cardinality(Working) - 1
    BY <1>7, Processors, FS_RemoveElement
<1>9. CountersBalance'
    BY <1>4, <1>7, <1>8, Processors, Balance, BalanceNext DEF FilterTypes, Metrics
<1>. QED
    BY <1>4, <1>6, <1>9

LEMMA CountDroppedKeeps ==
    ASSUME FilterInv, NEW c \in Cpus, CountDropped(c) PROVE FilterInv'
<1> USE DEF FilterInv
<1>1. /\ cpu[c].at \in Reasons /\ ~cpu[c].counted
      /\ cpu' = [cpu EXCEPT ![c].counted = TRUE]
      /\ metrics' = [metrics EXCEPT !["dropped"] = @ + 1] /\ uncounted' = uncounted
    BY DEF CountDropped, Increment
<1>2. FilterTypes'
  <2>1. cpu' \in [Cpus -> [packet : AnyPacket, counted : BOOLEAN,
                           at : {"idle", "parse", "tcp", "allow", "bad_ip", "bad_port"}]]
      BY <1>1 DEF FilterTypes
  <2>2. metrics' \in [Metrics -> Nat]
      BY <1>1 DEF FilterTypes, Metrics
  <2>. QED
      BY <1>1, <2>1, <2>2 DEF FilterTypes
<1>3. \A d \in Cpus : d # c => cpu'[d] = cpu[d]
    BY <1>1 DEF FilterTypes
<1>4. cpu'[c].at = cpu[c].at /\ cpu'[c].counted /\ cpu[c] # Idle
    BY <1>1 DEF FilterTypes, Idle, Reasons
<1>5. CpuInv'
    BY <1>1, <1>3, <1>4 DEF CpuInv, Reasons
<1>6. /\ Working' = Working \ {c} /\ c \in Working
      /\ Dropping' = Dropping \cup {c} /\ c \notin Dropping
    BY <1>1, <1>3, <1>4 DEF Working, Dropping
<1>7. /\ Cardinality(Working') = Cardinality(Working) - 1
      /\ Cardinality(Dropping') = Cardinality(Dropping) + 1
    BY <1>6, Processors, FS_AddElement, FS_RemoveElement
<1>8. CountersBalance'
    BY <1>1, <1>2, <1>7, Processors, Balance, BalanceNext DEF FilterTypes, Metrics
<1>. QED
    BY <1>2, <1>5, <1>8

LEMMA DropKeeps ==
    ASSUME FilterInv, NEW c \in Cpus, Drop(c) PROVE FilterInv'
<1> USE DEF FilterInv
<1>1. /\ cpu[c].at \in Reasons /\ cpu[c].counted
      /\ cpu' = [cpu EXCEPT ![c] = Idle]
      /\ metrics' = [metrics EXCEPT ![cpu[c].at] = @ + 1] /\ uncounted' = uncounted
    BY DEF Drop, Increment
<1>2. Idle \in [packet : AnyPacket, counted : BOOLEAN,
                at : {"idle", "parse", "tcp", "allow", "bad_ip", "bad_port"}]
    BY DEF Idle, AnyPacket
<1>3. FilterTypes'
    BY <1>1, <1>2 DEF FilterTypes, Metrics, Reasons
<1>4. cpu'[c] = Idle /\ \A d \in Cpus : d # c => cpu'[d] = cpu[d]
    BY <1>1 DEF FilterTypes
<1>5. CpuInv'
  <2>1. ~Idle.counted
      BY DEF Idle
  <2>. QED
      BY <1>4, <2>1 DEF CpuInv
<1>6. Working' = Working /\ Dropping' = Dropping \ {c} /\ c \in Dropping
    BY <1>1, <1>4 DEF Working, Dropping, Idle
<1>7. Cardinality(Dropping') = Cardinality(Dropping) - 1
    BY <1>6, Processors, FS_RemoveElement
<1>8. metrics'["bad_ip"] + metrics'["bad_port"] = metrics["bad_ip"] + metrics["bad_port"] + 1
  <2>1. CASE cpu[c].at = "bad_ip"
      BY <1>1, <2>1 DEF FilterTypes, Metrics
  <2>2. CASE cpu[c].at = "bad_port"
      BY <1>1, <2>2 DEF FilterTypes, Metrics
  <2>. QED
      BY <1>1, <2>1, <2>2 DEF Reasons
<1>9. \A name \in {"inspected", "allowed", "dropped"} : metrics'[name] = metrics[name]
    BY <1>1 DEF FilterTypes, Metrics, Reasons
<1>10. CountersBalance'
    BY <1>1, <1>3, <1>6, <1>7, <1>8, <1>9, Processors, Balance, BalanceNext DEF FilterTypes, Metrics
<1>. QED
    BY <1>3, <1>5, <1>10

LEMMA SameFilterKeeps ==
    ASSUME FilterInv, UNCHANGED <<cpu, metrics, uncounted>> PROVE FilterInv'
<1>1. Working' = Working /\ Dropping' = Dropping
    BY DEF Working, Dropping
<1>2. CountersBalance'
    BY <1>1, Balance, BalanceNext DEF FilterInv
<1>. QED
    BY <1>2 DEF FilterInv, FilterTypes, CpuInv

LEMMA KernelKeeps == ASSUME FilterInv, NEW c \in Cpus, Kernel(c) PROVE FilterInv'
<1>1. ASSUME NEW packet \in Packets, Receive(c, packet) PROVE FilterInv'
    BY <1>1, ReceiveKeeps DEF AnyPacket
<1>2. CASE LookupIp(c)
  <2>1. CASE cpu[c].packet.form \in NotIPv4
      BY <1>2, <2>1, PassKeeps DEF LookupIp, PassUncounted
  <2>2. CASE cpu[c].packet.form \notin NotIPv4
    <3>1. PICK at \in {"tcp", "allow", "bad_ip", "bad_port"} :
              Goto(c, at) /\ UNCHANGED <<metrics, uncounted>>
        BY <1>2, <2>2 DEF LookupIp
    <3>. QED
        BY <1>2, <3>1, GotoKeeps DEF LookupIp
  <2>. QED
      BY <2>1, <2>2
<1>3. CASE LookupPort(c)
  <2>1. CASE cpu[c].packet.form # "full"
      BY <1>3, <2>1, PassKeeps DEF LookupPort, PassUncounted
  <2>2. CASE cpu[c].packet.form = "full"
    <3>1. PICK at \in {"tcp", "allow", "bad_ip", "bad_port"} :
              Goto(c, at) /\ UNCHANGED <<metrics, uncounted>>
        BY <1>3, <2>2 DEF LookupPort
    <3>. QED
        BY <1>3, <3>1, GotoKeeps DEF LookupPort
  <2>. QED
      BY <2>1, <2>2
<1>4. CASE Allow(c)
    BY <1>4, PassKeeps DEF Allow, Increment
<1>. QED
    BY <1>1, <1>2, <1>3, <1>4, CountDroppedKeeps, DropKeeps DEF Kernel

LEMMA CallKeepsFilter ==
    ASSUME FilterInv, NEW call \in Calls, Call(call) PROVE FilterInv'
<1>1. CASE UNCHANGED filter
    BY <1>1, SameFilterKeeps DEF filter
<1>2. ASSUME NEW host, Leaves(host) PROVE FilterInv'
  <2>1. ASSUME NEW c \in Cpus, NEW port \in Ports, host \in Ips,
               Receive(c, [form |-> "full", ip |-> host, tcp |-> TRUE, port |-> port])
        PROVE  FilterInv'
      BY <2>1, ReceiveKeeps DEF AnyPacket
  <2>. QED
      BY <1>1, <1>2, <2>1 DEF Leaves
<1>. QED
    BY <1>1, <1>2 DEF Call

LEMMA NextKeepsFilter == FilterInv /\ [Next]_vars => FilterInv'
<1> SUFFICES ASSUME FilterInv, [Next]_vars PROVE FilterInv'
    OBVIOUS
<1>1. CASE Guard
    BY <1>1, SameFilterKeeps DEF Guard, filter
<1>2. CASE Configure
    BY <1>2, SameFilterKeeps DEF Configure, UpdateAllowedIp, UpdateAllowedPort
<1>3. ASSUME UNCHANGED filter PROVE FilterInv'
    BY <1>3, SameFilterKeeps DEF filter
<1>. QED
    BY <1>1, <1>2, <1>3, KernelKeeps, CallKeepsFilter DEF Next, vars

\* The counters of the filter balance at every instant, however many processors add to
\* them at once (smaos_egress_xdp.bpf.c:128-186).
THEOREM CountersAlwaysBalance == Spec => []CountersBalance
<1>1. FilterInv => CountersBalance
    BY DEF FilterInv
<1>. QED
    BY <1>1, InitFilterInv, NextKeepsFilter, PTL DEF Spec

----------------------------------------------------------------------------
\* Where the filters that are written more than once agree, under any maps and for any
\* packet (smaos_egress_xdp.bpf.c:135-186 and its twins).
THEOREM TwinsAlwaysAgree == Spec => []TwinsAgree
<1>1. TwinsAgree
  <2> SUFFICES ASSUME NEW packet \in Packets
               PROVE  /\ \/ FilterAction(packet) = DriverAction(packet)
                         \/ packet.form = "cut" /\ DriverAction(packet) = "DROP"
                      /\ AddressFilterAction(packet) = "DROP" => FilterAction(packet) = "DROP"
                      /\ MembraneAction(packet, Ports \ allowedPorts) = "DROP" =>
                            FilterAction(packet) = "DROP"
                      /\ FilterAction(packet) = "DROP" => BytecodeAction(packet) = "PASS"
      BY DEF TwinsAgree
  <2>1. \/ FilterAction(packet) = DriverAction(packet)
        \/ packet.form = "cut" /\ DriverAction(packet) = "DROP"
      BY DEF FilterAction, DriverAction, NotIPv4
  <2>2. AddressFilterAction(packet) = "DROP" => FilterAction(packet) = "DROP"
      BY DEF FilterAction, AddressFilterAction, NotIPv4
  <2>3. MembraneAction(packet, Ports \ allowedPorts) = "DROP" => FilterAction(packet) = "DROP"
      BY DEF FilterAction, MembraneAction, NotIPv4
  <2>4. FilterAction(packet) = "DROP" => BytecodeAction(packet) = "PASS"
      BY DEF FilterAction, BytecodeAction, NotIPv4
  <2>. QED
      BY <2>1, <2>2, <2>3, <2>4
<1>. QED
    BY <1>1, PTL
=============================================================================
