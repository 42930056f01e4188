------------------------------ MODULE EgressPath ------------------------------
(***************************************************************************)
(* The way out of a host: a process's socket calls under air-gap monitors, *)
(* and the packets they send, with those of other processes, through the   *)
(* XDP filter of one interface.  Ips are the addresses behind it; loopback *)
(* traffic, and that of other interfaces, does not meet the filter.        *)
(***************************************************************************)
EXTENDS AirgapMonitor, EgressFilter

ASSUME LoopbackMeetsNoFilter == Loopback \cap Ips = {}

vars == <<monitor, filter>>

Init == InitMonitor /\ InitFilter

\* The with blocks of the process.
Guard ==
    /\ \E t \in Threads : Exit(t) \/ Assign(t) \/ \E m \in Monitors : Enter(t, m)
    /\ UNCHANGED filter

\* What reaches a host by way of the interface that has the filter is a packet to its
\* address, whatever name was given.
Leaves(host) ==
    IF host \notin Ips THEN UNCHANGED filter
    ELSE \E c \in Cpus, port \in Ports :
             Receive(c, [form |-> "full", ip |-> host, tcp |-> TRUE, port |-> port])

\* A socket call.
Call(call) ==
    \/ \E name \in Names :
           \/ \E host \in Hosts : /\ Connect(call, name, host) \/ SendTo(call, name, host)
                                 /\ Leaves(host)
           \/ Refuse(call, name) /\ UNCHANGED filter
    \/ \E conn \in conns : Send(call, conn) /\ Leaves(conn[1])

\* The filter at work, on anyone's packets.
Kernel(c) ==
    /\ \/ \E packet \in Packets : Receive(c, packet)
       \/ LookupIp(c) \/ LookupPort(c) \/ CountDropped(c) \/ Drop(c) \/ Allow(c)
    /\ UNCHANGED monitor

\* User space changes the maps.
Configure ==
    /\ \E allowed \in BOOLEAN : \/ \E ip \in Ips : UpdateAllowedIp(ip, allowed)
                                \/ \E port \in Ports : UpdateAllowedPort(port, allowed)
    /\ UNCHANGED monitor

Next ==
    \/ Guard
    \/ \E call \in Calls : Call(call)
    \/ \E host \in Hosts : Accept(host) /\ UNCHANGED filter
    \/ \E c \in Cpus : Kernel(c)
    \/ Configure

Spec == Init /\ [][Next]_vars
=============================================================================
