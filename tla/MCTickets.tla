------------------------------- MODULE MCTickets -------------------------------
(* TicketKeys for TLC. *)
EXTENDS TicketKeys

Setup(off, own, forClient) ==
    [disabled |-> off, legacy |-> [c \in Configs |-> IF c = "own" THEN own ELSE forClient]]

\* Automatic keys, a SessionTicketKey of the user on either side, and a server whose
\* own tickets are disabled.
RotateSetups == {Setup({}, "zero", "zero"), Setup({}, "user", "zero"), Setup({"own"}, "zero", "user")}

\* The configuration of the callback has its tickets disabled.
DisabledSetups == {Setup({"forClient"}, "zero", "zero")}
================================================================================
