-------------------------- MODULE MCTelemetryIntake --------------------------
(***************************************************************************)
(* Two files of one customer: a call confirmed, one that got a 504 and     *)
(* timed out, one whose amount is no number, and a line that cannot be     *)
(* parsed.                                                                 *)
(***************************************************************************)
EXTENDS TelemetryIntakeProperties

CONSTANTS bad

Line(status, error, approved, priced) ==
    [status |-> status, error |-> error, approved |-> approved, priced |-> priced]

MCCustomerOf == [n \in Names |-> "A"]

Confirmed == Line("200", "none", TRUE, TRUE)
TimedOutLine == Line("504", "timeout", FALSE, TRUE)
Unpriced == Line("200", "none", TRUE, FALSE)

MCLines == {Confirmed, TimedOutLine, Unpriced, bad}
=============================================================================
