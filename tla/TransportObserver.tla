------------------------- MODULE TransportObserver -------------------------
(***************************************************************************)
(* The classification of src/transport_observer.py: what a tool call came  *)
(* back with, and the disposition and intent status it is given.  A value  *)
(* of Answers stands for every result or exception the code treats alike:  *)
(*   2xx, 4xx, 5xx  a result with an HTTP status; 4xx is one of 400, 401,  *)
(*                  403, 404, 409, 422 and 429, 5xx any other non-2xx code *)
(*   fault          requests.Timeout, or any OSError: a connection that    *)
(*                  failed, broke or was reset, before or after the write  *)
(*   error          any other exception, as a response that does not parse *)
(*   plain          a result that carries no status at all                 *)
(*   text           a dict whose status is text                            *)
(***************************************************************************)
Answers == {"2xx", "4xx", "5xx", "fault", "error", "plain", "text"}

Dispositions == {"locally_blocked", "never_dispatched", "remote_confirmed",
                 "remote_refused", "dispatched_unconfirmed"}

\* Mutant: a gateway error is taken for a refusal.
ClassifyGatewayAsRefusal(e) ==
    IF e.blocked THEN "locally_blocked"
    ELSE IF e.receipt THEN "remote_confirmed"
    ELSE IF ~e.written THEN "never_dispatched"
    ELSE IF e.status \in {"4xx", "5xx"} THEN "remote_refused"
    ELSE IF e.status = "2xx" THEN "remote_confirmed"
    ELSE "dispatched_unconfirmed"

\* classify_wire_event, in the order of its branches.  The named transport errors
\* and the statuses 500 to 504 all end where everything else does, in the default.
Classify(e) ==
    IF e.blocked THEN "locally_blocked"
    ELSE IF e.receipt THEN "remote_confirmed"
    ELSE IF ~e.written THEN "never_dispatched"
    ELSE IF e.status = "4xx" THEN "remote_refused"
    ELSE IF e.status = "2xx" THEN "remote_confirmed"
    ELSE "dispatched_unconfirmed"

\* What observe_tool_call passes on.  It has not measured what was written: it
\* says 256 bytes, or none when the exception is not one it knows, and takes an
\* answer without a status for HTTP 200.
WireEvent(answer) ==
    [blocked |-> FALSE, receipt |-> FALSE,
     written |-> answer # "error",
     status |-> CASE answer = "plain" -> "2xx"
                  [] answer \in {"2xx", "4xx", "5xx"} -> answer
                  [] OTHER -> "none"]

\* `200 <= status' is a TypeError for text, outside the try block.
Unclassifiable(answer) == answer = "text"

Observed(answer) == Classify(WireEvent(answer))

\* The status the intent is resolved with.
ResolvedAs(answer) == IF answer = "plain" THEN "CONFIRMED" ELSE Observed(answer)
=============================================================================
