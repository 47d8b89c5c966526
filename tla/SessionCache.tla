------------------------------ MODULE SessionCache ------------------------------
(***************************************************************************)
(* What a ClientSessionCache promises its callers (gotls/common.go): a Get *)
(* returns the session last put under that key, or nothing.  The cache may *)
(* forget any session at any Put; it never returns one under another key.  *)
(***************************************************************************)
CONSTANTS
    Keys,      \* session keys, the names of the servers
    Sessions,  \* sessions; s.server is the server s was established with
    Nil        \* no session

VARIABLE store  \* store[k]: the session Get(k) returns, or Nil

Init == store = [k \in Keys |-> Nil]

\* Put(k, s), with s = Nil to remove; the sessions under the keys of F are forgotten.
Put(k, s, F) ==
    /\ s # Nil => s.server = k
    /\ store' = [j \in Keys |-> IF j = k THEN s ELSE IF j \in F THEN Nil ELSE store[j]]

Next == \E k \in Keys, s \in Sessions \cup {Nil}, F \in SUBSET Keys : Put(k, s, F)

Spec == Init /\ [][Next]_store
================================================================================
