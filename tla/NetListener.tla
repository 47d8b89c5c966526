------------------------------- MODULE NetListener -------------------------------
(***************************************************************************)
(* What net/http's Serve needs of the net.Listener it is given, here the   *)
(* one WrapCCMListener returns: a connection that arrives is delivered to  *)
(* a caller or dropped, never both and never twice; nothing is delivered   *)
(* once the listener is closed; what was delivered is the caller's alone.  *)
(***************************************************************************)
CONSTANT Conns

VARIABLES
    closed,     \* Close has been called
    status      \* what became of each connection

lvars == <<closed, status>>

Init == closed = FALSE /\ status = [c \in Conns |-> "new"]

Arrive(c) ==
    /\ status[c] = "new"
    /\ status' = [status EXCEPT ![c] = "pending"]
    /\ UNCHANGED closed

Deliver(c) ==
    /\ status[c] = "pending" /\ ~closed
    /\ status' = [status EXCEPT ![c] = "delivered"]
    /\ UNCHANGED closed

\* A failed or timed-out handshake at any time, any pending one after Close.
Drop(c) ==
    /\ status[c] = "pending"
    /\ status' = [status EXCEPT ![c] = "dropped"]
    /\ UNCHANGED closed

Close == ~closed /\ closed' = TRUE /\ UNCHANGED status

Next == Close \/ \E c \in Conns : Arrive(c) \/ Deliver(c) \/ Drop(c)

Spec == Init /\ [][Next]_lvars
================================================================================
