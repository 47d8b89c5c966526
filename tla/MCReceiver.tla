------------------------------- MODULE MCReceiver -------------------------------
(* Receiver for TLC. *)
EXTENDS Receiver, TLC

CallerSymmetry == Permutations(Callers)

\* All of the state but ret, the value a call has returned: no guard and no property
\* of the life-cycle run reads it.
Lasting == <<recvVars, pc, sg, expired, servVars, hsrvVars, connVars, reqVars, closeVars,
             stopDone>>

Request(len, end, root) ==
    [post |-> TRUE, sepXML |-> TRUE, cert |-> TRUE, len |-> len, end |-> end, root |-> root]

Good == Request(1, 1, "notification")

\* The life-cycle runs need one request that reaches the dispatcher.
GoodOnly == {Good}

\* With MaxBody = 2: an empty body, bodies at the limit (whole and cut short by
\* the peer), a body one over it whose root element ends inside the limit, and
\* every other way to be refused.
AllRequests ==
    {[Good EXCEPT !.post = FALSE], [Good EXCEPT !.sepXML = FALSE],
     [Good EXCEPT !.cert = FALSE], Request(2, 2, "zero"),
     Request(0, 1, "notification"), Request(2, 2, "notification"),
     Request(2, 3, "notification"), Request(3, 1, "notification")}
================================================================================
