------------------------------ MODULE MCDaemon ------------------------------
(***************************************************************************)
(* Daemon with one answer of GitHub for each verdict there is.             *)
(***************************************************************************)
EXTENDS Daemon

Good == [sent |-> TRUE, status |-> 200, body |-> "json", errors |-> "none",
         retry |-> FALSE]
Limited == [Good EXCEPT !.errors = "RATE_LIMITED", !.retry = TRUE]
Refused == [Good EXCEPT !.status = 401]
Outage == [Good EXCEPT !.status = 502]
TimedOut == [Good EXCEPT !.sent = FALSE]

GoodOnly == {Good}
GoodOrLimited == {Good, Limited}
AllKinds == {Good, Limited, Refused, Outage, TimedOut}
=============================================================================
