----------------------------- MODULE MCGroupChat -----------------------------
(* Instance of GroupChat for TLC: every acyclic dependency map of four     *)
(* tasks, up to renaming, some with a cycle, and relays of up to three.    *)
EXTENDS GroupChat, TLC

CONSTANTS a, b

MCGroups == {<<a>>, <<a, b, a>>}
Acyclic4 == {<<{}, m2, m3, m4>> : m2 \in SUBSET {1}, m3 \in SUBSET {1, 2}, m4 \in SUBSET {1, 2, 3}}
Acyclic2 == {<<{}, m2>> : m2 \in SUBSET {1}}
Cyclic == {<<{2}, {1}>>, <<{}, {1, 3}, {2}, {}>>, <<{4}, {1}, {2}, {3}>>}
Assigned(n) == {[t \in 1..n |-> a], [t \in 1..n |-> IF t = 2 THEN Nobody ELSE IF t = 3 THEN b ELSE a]}
MCDecompositions ==
    {[needs |-> m, agent |-> g] : m \in Acyclic4, g \in Assigned(4)}
    \cup {[needs |-> m, agent |-> g] : m \in Acyclic2, g \in Assigned(2)}
    \cup {[needs |-> <<>>, agent |-> <<>>]}
    \cup {[needs |-> m, agent |-> [t \in DOMAIN m |-> a]] : m \in Cyclic}
=============================================================================
