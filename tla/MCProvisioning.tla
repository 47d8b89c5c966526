----------------------------- MODULE MCProvisioning -----------------------------
(* Provisioning for TLC. *)
EXTENDS Provisioning

Good == [key |-> [alg |-> "P256", id |-> "own"], signer |-> "own", isCA |-> TRUE,
         usage |-> "certSign", eku |-> {}, unknownEKU |-> FALSE, critical |-> FALSE,
         notBefore |-> 1, notAfter |-> 2]

Pair(cert) == [cert |-> cert, key |-> cert.key]

\* A good CA that begins at 1 and ends at 2, and what can be wrong with one, alone.
OperatorPairs ==
    {Pair(c) : c \in
        {Good, [Good EXCEPT !.signer = "root"], [Good EXCEPT !.isCA = FALSE],
         [Good EXCEPT !.usage = "other"], [Good EXCEPT !.usage = "absent"],
         [Good EXCEPT !.eku = {"client"}], [Good EXCEPT !.eku = {"server"}],
         [Good EXCEPT !.eku = {"any"}, !.unknownEKU = TRUE], [Good EXCEPT !.unknownEKU = TRUE],
         [Good EXCEPT !.critical = TRUE], [Good EXCEPT !.key.alg = "P384"],
         [Good EXCEPT !.key.alg = "rsa"]}}
    \cup {[cert |-> Good, key |-> [alg |-> "P256", id |-> "stray"]],
          [cert |-> [Good EXCEPT !.key.alg = "rsa"], key |-> [alg |-> "P256", id |-> "stray"]]}

SANs == {<<"hmn">>, <<"hmn", "hmn">>, <<"hmn", "otherName">>, <<"otherName", "hmn">>,
         <<"badHMN">>, <<"hmn", "badHMN">>, <<"hmn", "dns">>, <<>>}

Nibbles(n) == [i \in 1 .. 64 |-> n]

\* The smallest and the largest identifier, and one in between.
Fingerprints == {Nibbles(0), Nibbles(15), [i \in 1 .. 64 |-> (7 * i) % 16]}
================================================================================
