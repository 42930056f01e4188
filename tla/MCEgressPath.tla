----------------------------- MODULE MCEgressPath -----------------------------
(***************************************************************************)
(* Two threads that use a monitor, this host, one behind the filter and    *)
(* one that is not, a name that is not allowed and one that begins with    *)
(* "127." and may be another host, and two processors that see packets of  *)
(* every form.                                                             *)
(***************************************************************************)
EXTENDS EgressPathProperties, TLC

CONSTANTS local, gateway, elsewhere, outside, dotted, m1, t1, t2, c1, c2

Packet(form, ip, tcp) == [form |-> form, ip |-> ip, tcp |-> tcp, port |-> 8080]

MCPackets ==
    {Packet(f, gateway, TRUE) : f \in {"short", "other", "stub", "cut", "full"}}
        \cup {Packet("full", gateway, FALSE)}

MCResolves == (outside :> {gateway, elsewhere}) @@ (dotted :> {local, elsewhere})

\* Bound on the steps taken: the process installs, connects and sends while the filter
\* has seen nothing, and has to do with the gateway in no call; or the filter works, and
\* the process has neither hooks nor connections, but sends.
Quiet ==
    /\ conns = {} /\ hooks = [c \in Calls |-> Original]
    /\ \A t \in Threads : entered[t] = 0 /\ ~Assigning(t)
WithoutFilter == InitFilter /\ \A conn \in conns : conn[1] # gateway
OneAtWork == (WithoutFilter /\ WithoutFilter') \/ (Quiet /\ Quiet')

Symmetry == Permutations({t1, t2}) \cup Permutations({c1, c2})
=============================================================================
