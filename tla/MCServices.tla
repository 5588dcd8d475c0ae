----------------------------- MODULE MCServices -----------------------------
\* Values for the constants of Services that a configuration cannot write.
EXTENDS Services, TLC

CONSTANTS p1, p2, p3,   \* providers
          ta, tb,       \* evaluation tasks
          minor, major, \* a failure cluster, and a critical one
          q1, q2,       \* repair tasks
          u1, u2,       \* tasks that are judged
          wf, rt, qt,   \* calls: write a file, run the tests, run some tests
          g1, g2,       \* runs
          z1, z2,       \* sessions
          st,           \* a plan step
          wd, bak       \* a file, and the same with ".bak" appended

\* p1 is preferred, p2 scores higher, p3 is like p2 but later in the list.
MCPriority == p1 :> 5 @@ p2 :> 1 @@ p3 :> 1
MCScore    == p1 :> 5 @@ p2 :> 10 @@ p3 :> 5
MCPosition == p1 :> 1 @@ p2 :> 2 @@ p3 :> 3

MCLimit == [s \in Stores |-> 2]

Ok(n)     == [success |-> TRUE, faults |-> n, clusters |-> {}]
NotOk(ks) == [success |-> FALSE, faults |-> 0, clusters |-> ks]

\* The suite has one task at first, which passes with a fault, and gets another one; the
\* suite of the program has the same one.
MCOutcomesOf ==
    << {ta :> Ok(1)},
       {ta :> NotOk({minor}) @@ tb :> Ok(0), ta :> NotOk({major}) @@ tb :> Ok(0)},
       {ta :> Ok(1)} >>

MCReasonOf   == q1 :> "attestation_untrusted" @@ q2 :> "artifact_path_hygiene_failed"
MCSeverityOf == q1 :> "none" @@ q2 :> "medium"

MCToolOf   == wf :> "write_file" @@ rt :> "run_test" @@ qt :> "run_test"
MCSourceOf == wf :> "file" @@ rt :> "pytest" @@ qt :> "pytest -k"
MCKindOf   == "write_file" :> "write" @@ "run_test" :> "test"

\* One task is to test and to prove it, the other one to write without testing.
MCSpecOf ==
    u1 :> [allowed |-> {"run_test"}, forbidden |-> {}, required |-> <<"run_test">>,
           calls |-> {}, criteria |-> {}, sources |-> {"test"}, duplicates |-> 1,
           repairs |-> 0, recover |-> TRUE, verified |-> TRUE]
 @@ u2 :> [allowed |-> {"write_file"}, forbidden |-> {"run_test"}, required |-> <<>>,
           calls |-> {wf}, sources |-> {}, duplicates |-> 0, repairs |-> 0,
           criteria |-> {[tool |-> "write_file", type |-> Whatever, source |-> Whatever],
                         [tool |-> Whatever, type |-> "tool_output", source |-> "file"]},
           recover |-> FALSE, verified |-> FALSE]

Said(who, size, layer, dense) == [kind |-> who, size |-> size, think |-> 0, layer |-> layer,
                                  err |-> FALSE, dense |-> dense]

\* Instructions that leave room or none and a question; or a session that is resumed,
\* its earlier instructions among its messages.
MCOpenings ==
    {<<Said("system", n, TRUE, FALSE), Said("user", u, FALSE, u = 24)>> :
        n \in {6, 30}, u \in {6, 24}}
    \cup {<<Said("system", 6, TRUE, FALSE), Said("user", 9, FALSE, FALSE),
            [Said("text", 3, FALSE, FALSE) EXCEPT !.think = 9],
            Said("system", 3, TRUE, FALSE), Said("user", 3, FALSE, TRUE)>>}
MCExchanges ==
    {<<[Said("calls", 3, FALSE, FALSE) EXCEPT !.think = IF z = 6 THEN 0 ELSE 15],
       [Said("tool", z, FALSE, FALSE) EXCEPT !.err = e]>> : z \in {6, 30}, e \in BOOLEAN}

Bit(k)      == [of |-> k]
BitAt(k, n) == [of |-> k, index |-> n]

\* A reply with two calls whose pieces are mixed, or come the wrong way round with a gap in
\* the indices, or do not say which call they are of; or a text.
MCRepliesTo ==
    "run" :> {<<Bit(0), BitAt(1, 0), BitAt(2, 1), BitAt(1, 0), BitAt(2, 1)>>,
              <<BitAt(1, 2), BitAt(2, 0), BitAt(1, 2), BitAt(1, 2)>>,
              <<Bit(1), Bit(2), Bit(2)>>}
 @@ "repair" :> {<<Bit(0), Bit(0)>>, <<>>}

Job(k, z) == [kind |-> k, session |-> z, step |-> st]

\* A run and one that resumes its session, two sessions at once, a step that two runs do.
MCStoredJobs == {g1 :> Job("run", z1) @@ g2 :> Job("resume", z1),
                 g1 :> Job("run", z1) @@ g2 :> Job("run", z2),
                 g1 :> Job("step", z1) @@ g2 :> Job("step", z2)}
MCMaxTurns   == g1 :> 2 @@ g2 :> 1

MCBackupOf == wd :> bak

=============================================================================
