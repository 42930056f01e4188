------------------------- MODULE EgressPathProperties -------------------------
(***************************************************************************)
(* What the egress guards promise together, and the agreement of the       *)
(* filters that are written more than once.                                *)
(***************************************************************************)
EXTENDS EgressPath

\* What a process sends while it has monitors (airgap_monitor.py:118-147) reaches
\* another host in one of four ways: no install has come to its end since the last
\* uninstall of any thread, or an uninstall was under way as it began; sendmsg, which
\* is not hooked; a name that is allowed as it is written and resolves to another host;
\* a connection that was accepted, or was made in one of these ways.  A monitor's
\* loopback bytes, on which its receipt rests, include another host's only for such a
\* name or over such a connection.
EgressHasAnExcuse ==
    /\ out.why # "no excuse"
    /\ out.why = "not hooked" => out.by = Original
    /\ \A conn \in conns : conn[2] \notin {"no excuse", "not hooked"}

InFlight(at(_)) == Cardinality({c \in Cpus : at(cpu[c])})

\* The counters of smaos_egress_xdp.bpf.c:113-133, added to by several processors
\* at once, at every instant: each packet inspected is being worked on, was passed
\* and counted, was dropped and counted, or passed as one the filter does not
\* judge; each drop has one reason, but for those between the two additions.
CountersBalance ==
    /\ metrics["inspected"] =
           metrics["allowed"] + metrics["dropped"] + uncounted
           + InFlight(LAMBDA p : p # Idle /\ ~p.counted)
    /\ metrics["dropped"] = metrics["bad_ip"] + metrics["bad_port"] + InFlight(LAMBDA p : p.counted)

\* Under the same maps the Python driver (ebpf_xdp_driver.py:63-112) does what the
\* filter does to every packet but one whose TCP header is cut after its ports,
\* which it may drop and the filter passes; the address filter, and the membrane
\* told to deny the ports that are not allowed, drop nothing that the filter would
\* pass; and of the packets the filter drops, the object that
\* build_ebpf_bytecode.py:56-73 assembles would pass every one.  Its jumps for
\* short packets skip the verdict: they alone get none.
TwinsAgree ==
    \A packet \in Packets :
        /\ \/ FilterAction(packet) = DriverAction(packet)
           \/ packet.form = "cut" /\ DriverAction(packet) = "DROP"
        /\ AddressFilterAction(packet) = "DROP" => FilterAction(packet) = "DROP"
        /\ MembraneAction(packet, Ports \ allowedPorts) = "DROP" =>
              FilterAction(packet) = "DROP"
        /\ FilterAction(packet) = "DROP" => BytecodeAction(packet) = "PASS"
=============================================================================
