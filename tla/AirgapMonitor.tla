---------------------------- MODULE AirgapMonitor ----------------------------
(***************************************************************************)
(* src/src/security/airgap_monitor.py: monitors replace four methods of    *)
(* socket.socket, one assignment at a time and without a lock, while other *)
(* threads install, uninstall and use sockets; leaving any monitor puts    *)
(* the original methods back.  A monitor judges the name it is given; the  *)
(* original method resolves it.                                            *)
(***************************************************************************)
EXTENDS Naturals, Sequences

CONSTANTS Monitors,
          Original,   \* a method that is not replaced
          Threads,    \* those that enter and leave with blocks
          MaxDepth,   \* bound: with blocks a thread has open
          Hosts,
          Loopback,   \* the hosts that are this one
          Names,      \* what a caller may give as an address
          Allowed,    \* the names in allowed_hosts, and those that begin with "127."
          Resolves    \* the hosts each name may turn out to be

ASSUME OriginalIsNoMonitor == Original \notin Monitors
ASSUME NamesAreOfHosts == Resolves \in [Names -> SUBSET Hosts]

VARIABLES hooks,    \* whose method each of the calls is
          entered,  \* the with blocks each thread has open
          patch,    \* what each thread is assigning, and where it is
          conns,    \* the hosts sockets are connected to, and how that came about
          guarded,  \* history: an install has come to its end, and no uninstall has
                    \* been under way since it began
          out       \* history: how the last call reached its host, and the monitor
                    \* that counted its bytes as loopback bytes

monitor == <<hooks, entered, patch, conns, guarded, out>>

\* Mutant: connect_ex is not replaced.
HookedThree == <<"connect", "sendto", "send">>

Hooked == <<"connect", "connect_ex", "sendto", "send">>

Connects == {"connect", "connect_ex"}
Calls == Connects \cup {"sendto", "send", "sendall", "sendmsg"}

\* stands: no uninstall has been under way since this install began.
NoPatch == [to |-> Original, next |-> Len(Hooked) + 1, stands |-> FALSE]

Assigning(t) == patch[t].next \in DOMAIN Hooked

InitMonitor ==
    /\ hooks = [c \in Calls |-> Original]
    /\ entered = [t \in Threads |-> 0]
    /\ patch = [t \in Threads |-> NoPatch]
    /\ conns = {}
    /\ guarded = FALSE
    /\ out = [why |-> "loopback", by |-> Original]

NoUninstall == \A t \in Threads : Assigning(t) => patch[t].to # Original

\* A with block is entered: install starts.
Enter(t, m) ==
    /\ ~Assigning(t) /\ entered[t] < MaxDepth
    /\ entered' = [entered EXCEPT ![t] = @ + 1]
    /\ patch' = [patch EXCEPT ![t] = [to |-> m, next |-> 1, stands |-> NoUninstall]]
    /\ UNCHANGED <<hooks, conns, guarded, out>>

\* A with block is left: uninstall starts.  It is a class method: it knows
\* nothing of the monitors around, or of other threads'.
Exit(t) ==
    /\ ~Assigning(t) /\ entered[t] > 0
    /\ entered' = [entered EXCEPT ![t] = @ - 1]
    /\ patch' = [u \in Threads |-> IF u = t THEN [to |-> Original, next |-> 1, stands |-> FALSE]
                                   ELSE [patch[u] EXCEPT !.stands = FALSE]]
    /\ guarded' = FALSE
    /\ UNCHANGED <<hooks, conns, out>>

\* One assignment.  Those of _is_installed and _instance are left out: nothing reads
\* either.
Assign(t) ==
    /\ Assigning(t)
    /\ LET last == patch[t].next = Len(Hooked) IN
       /\ hooks' = [hooks EXCEPT ![Hooked[patch[t].next]] = patch[t].to]
       /\ patch' = IF last THEN [patch EXCEPT ![t] = NoPatch] ELSE [patch EXCEPT ![t].next = @ + 1]
       /\ guarded' = (guarded \/ (last /\ patch[t].stands))
    /\ UNCHANGED <<entered, conns, out>>

----------------------------------------------------------------------------
\* Socket calls of any thread, each at the moment its method is looked up.

\* _is_allowed_address, for the calls that are given a name.
Passes(call, name) == hooks[call] = Original \/ name \in Allowed

\* How it comes about that a call given this name reaches this host.
Why(call, name, host) ==
    CASE host \in Loopback -> "loopback"
      [] host \notin Loopback /\ name \in Allowed -> "allowed name"
      [] host \notin Loopback /\ name \notin Allowed /\ call = "sendmsg" -> "not hooked"
      [] host \notin Loopback /\ name \notin Allowed /\ call # "sendmsg" ->
             IF guarded THEN "no excuse" ELSE "unguarded"

\* hook_connect and hook_connect_ex, or the originals.
Connect(call, name, host) ==
    /\ call \in Connects /\ Passes(call, name) /\ host \in Resolves[name]
    /\ conns' = conns \cup {<<host, Why(call, name, host)>>}
    /\ out' = [why |-> Why(call, name, host), by |-> Original]
    /\ UNCHANGED <<hooks, entered, patch, guarded>>

\* Another host connects to this process: accept and listen are not hooked.
Accept(host) ==
    /\ conns' = conns \cup {<<host, IF host \in Loopback THEN "loopback" ELSE "accepted">>}
    /\ UNCHANGED <<hooks, entered, patch, guarded, out>>

\* hook_sendto, or the original; sendmsg with an address is not hooked.
SendTo(call, name, host) ==
    /\ call \in {"sendto", "sendmsg"} /\ Passes(call, name) /\ host \in Resolves[name]
    /\ out' = [why |-> Why(call, name, host), by |-> hooks[call]]
    /\ UNCHANGED <<hooks, entered, patch, conns, guarded>>

\* hook_send, which lets everything through; sendall, and sendmsg without an address.
Send(call, conn) ==
    /\ call \in {"send", "sendall", "sendmsg"} /\ conn \in conns
    /\ out' = [why |-> conn[2], by |-> hooks[call]]
    /\ UNCHANGED <<hooks, entered, patch, conns, guarded>>

\* A refused call raises, or returns as if nothing were wrong in the mode that is
\* not strict; either way the original is not called.  The monitor's list of blocked
\* targets is left out.
Refuse(call, name) ==
    /\ call \in Connects \cup {"sendto"} /\ ~Passes(call, name)
    /\ UNCHANGED monitor
=============================================================================
