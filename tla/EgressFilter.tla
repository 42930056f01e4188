----------------------------- MODULE EgressFilter -----------------------------
(***************************************************************************)
(* The XDP egress filter of src/ebpf/smaos_egress_xdp.bpf.c on several     *)
(* processors, over maps that user space changes meanwhile, and its twins: *)
(* the Python driver, the filter of xdp_egress_filter.c and the membrane.  *)
(*                                                                         *)
(* A packet is [form, ip, tcp, port].  form says how far its headers go:   *)
(* "short" (for IPv4), "other" (not IPv4), "stub" (less than the ports of  *)
(* the TCP header), "cut" (the ports but not all of it) or "full".         *)
(***************************************************************************)
EXTENDS Naturals, FiniteSets

CONSTANTS Cpus, Ips, Ports, Packets,
          NoPacket,
          MaxPackets   \* bound on the packets received

ASSUME CpusAreFinite == IsFiniteSet(Cpus)

VARIABLES allowedIps,    \* allowed_ipv4: the keys, whose values are all 1
          allowedPorts,  \* allowed_ports, likewise
          cpu,           \* each processor's packet and where it is with it
          metrics,       \* egress_telemetry
          uncounted      \* history: packets passed with no count but that of inspection

filter == <<allowedIps, allowedPorts, cpu, metrics, uncounted>>

Metrics == {"inspected", "allowed", "dropped", "bad_ip", "bad_port"}

NotIPv4 == {"short", "other"}

Reasons == {"bad_ip", "bad_port"}

Idle == [packet |-> NoPacket, at |-> "idle", counted |-> FALSE]

InitFilter ==
    /\ allowedIps = {}
    /\ allowedPorts = {}
    /\ cpu = [c \in Cpus |-> Idle]
    /\ metrics = [name \in Metrics |-> 0]
    /\ uncounted = 0

\* increment_metric: an atomic addition.
Increment(name) == metrics' = [metrics EXCEPT ![name] = @ + 1]

\* User space changes a map.
UpdateAllowedIp(ip, allowed) ==
    /\ allowedIps' = IF allowed THEN allowedIps \cup {ip} ELSE allowedIps \ {ip}
    /\ UNCHANGED <<allowedPorts, cpu, metrics, uncounted>>

UpdateAllowedPort(port, allowed) ==
    /\ allowedPorts' = IF allowed THEN allowedPorts \cup {port} ELSE allowedPorts \ {port}
    /\ UNCHANGED <<allowedIps, cpu, metrics, uncounted>>

\* A packet enters the filter.
Receive(c, packet) ==
    /\ cpu[c] = Idle
    /\ metrics["inspected"] < MaxPackets
    /\ Increment("inspected")
    /\ cpu' = [cpu EXCEPT ![c] = [packet |-> packet, at |-> "parse", counted |-> FALSE]]
    /\ UNCHANGED <<allowedIps, allowedPorts, uncounted>>

Goto(c, at) == cpu' = [cpu EXCEPT ![c].at = at]

\* XDP_PASS: the processor is free for the next packet.
Pass(c) == cpu' = [cpu EXCEPT ![c] = Idle]

PassUncounted(c) ==
    /\ Pass(c)
    /\ uncounted' = uncounted + 1
    /\ UNCHANGED <<allowedIps, allowedPorts, metrics>>

\* The Ethernet and IPv4 headers, and the address.
LookupIp(c) ==
    /\ cpu[c].at = "parse"
    /\ LET packet == cpu[c].packet
       IN  IF packet.form \in NotIPv4 THEN PassUncounted(c)
           ELSE /\ Goto(c, IF packet.ip \notin allowedIps THEN "bad_ip"
                           ELSE IF packet.tcp THEN "tcp" ELSE "allow")
                /\ UNCHANGED <<allowedIps, allowedPorts, metrics, uncounted>>

\* The TCP header and the port.
LookupPort(c) ==
    /\ cpu[c].at = "tcp"
    /\ LET packet == cpu[c].packet
       IN  IF packet.form # "full" THEN PassUncounted(c)
           ELSE /\ Goto(c, IF packet.port \notin allowedPorts THEN "bad_port" ELSE "allow")
                /\ UNCHANGED <<allowedIps, allowedPorts, metrics, uncounted>>

\* Mutant: the reason is counted for every drop, the drop itself is not.
CountDroppedNot(c) ==
    /\ cpu[c].at \in Reasons /\ ~cpu[c].counted
    /\ cpu' = [cpu EXCEPT ![c].counted = TRUE]
    /\ UNCHANGED <<allowedIps, allowedPorts, metrics, uncounted>>

\* A drop is counted, ...
CountDropped(c) ==
    /\ cpu[c].at \in Reasons /\ ~cpu[c].counted
    /\ Increment("dropped")
    /\ cpu' = [cpu EXCEPT ![c].counted = TRUE]
    /\ UNCHANGED <<allowedIps, allowedPorts, uncounted>>

\* ... then its reason, and the packet is gone.
Drop(c) ==
    /\ cpu[c].at \in Reasons /\ cpu[c].counted
    /\ Increment(cpu[c].at)
    /\ cpu' = [cpu EXCEPT ![c] = Idle]
    /\ UNCHANGED <<allowedIps, allowedPorts, uncounted>>

Allow(c) ==
    /\ cpu[c].at = "allow"
    /\ Increment("allowed")
    /\ Pass(c)
    /\ UNCHANGED <<allowedIps, allowedPorts, uncounted>>

----------------------------------------------------------------------------
\* The filter and its twins as functions of a packet, under the maps as they are.

FilterAction(packet) ==
    IF packet.form \in NotIPv4 THEN "PASS"
    ELSE IF packet.ip \notin allowedIps THEN "DROP"
    ELSE IF packet.tcp /\ packet.form = "full" /\ packet.port \notin allowedPorts THEN "DROP"
    ELSE "PASS"

\* Mutant: the port is looked at whatever the protocol.
DriverActionAnyProtocol(packet) ==
    IF packet.form \in NotIPv4 THEN "PASS"
    ELSE IF packet.ip \notin allowedIps THEN "DROP"
    ELSE IF packet.form \in {"cut", "full"} /\ packet.port \notin allowedPorts THEN "DROP"
    ELSE "PASS"

\* XDPEgressFilter.inspect_packet: the port is looked at as soon as it is there.
DriverAction(packet) ==
    IF packet.form \in NotIPv4 THEN "PASS"
    ELSE IF packet.ip \notin allowedIps THEN "DROP"
    ELSE IF packet.tcp /\ packet.form \in {"cut", "full"} /\ packet.port \notin allowedPorts THEN "DROP"
    ELSE "PASS"

\* xdp_egress_filter.c: whether there is an entry for the address.
AddressFilterAction(packet) ==
    IF packet.form \notin NotIPv4 /\ packet.ip \notin allowedIps THEN "DROP" ELSE "PASS"

\* xdp_admissibility_drop.c: TCP to a port that is denied.
MembraneAction(packet, denied) ==
    IF packet.form = "full" /\ packet.tcp /\ packet.port \in denied THEN "DROP" ELSE "PASS"

\* build_ebpf_bytecode.py: two checks of the length, whose jumps go past the
\* instruction that sets the verdict.
BytecodeAction(packet) == IF packet.form = "short" THEN "unset" ELSE "PASS"
=============================================================================
