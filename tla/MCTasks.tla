------------------------------ MODULE MCTasks ------------------------------
EXTENDS Tasks, Relation, TLC
Three == 1..3
R == "r"
Bad == ".."
OneBad == {Bad}
Files == {<< <<"a">> >>, << <<"a", "b">> >>, << <<"c">> >>}
Job(id, deps, scopes) ==
    [id |-> id, dependencies |-> deps, write_scopes |-> scopes, requirement_ids |-> <<R>>]
Plan(tasks) == [requirements |-> <<R>>, tasks |-> tasks, integration_checks |-> 1]
Lists == {SetToSeq(d) : d \in SUBSET (1..3)}

GraphPlans ==
    {Plan(<<Job(1, d[1], s[1]), Job(3, d[3], s[3]), Job(2, d[2], s[2])>>) :
        d \in [1..3 -> Lists], s \in [1..3 -> Files]}

Nested == << <<"a">>, <<"a", "b">> >>
OddPlans ==
    {Plan(<<>>), Plan(<<Job(1, <<>>, Nested)>>), Plan(<<Job(1, <<1>>, Nested)>>),
     Plan(<<Job(1, <<2>>, << <<"c">> >>)>>),
     Plan(<<Job(1, <<>>, << <<Bad>> >>)>>),
     Plan(<<Job(2, <<1, 1>>, << <<"c">> >>), Job(1, <<>>, << <<"c">> >>)>>),
     Plan(<<Job(1, <<>>, << <<"a">> >>), Job(1, <<>>, << <<"c">> >>)>>),
     [Plan(<<Job(1, <<>>, << <<"c">> >>)>>) EXCEPT !.requirements = <<R, "other">>],
     [Plan(<<Job(1, <<>>, << <<"c">> >>)>>) EXCEPT !.integration_checks = 0]}

\* Task 2 writes below what task 1 writes and waits for it; task 3 is apart.
ExecutedPlan ==
    Plan(<<Job(1, <<>>, << <<"a">> >>), Job(3, <<>>, << <<"c">> >>),
           Job(2, <<1>>, << <<"a", "b">> >>)>>)
\* Task 3 waits for two others.
JoinPlan ==
    Plan(<<Job(1, <<>>, << <<"a">> >>), Job(3, <<1, 2>>, << <<"a", "b">> >>),
           Job(2, <<>>, << <<"c">> >>)>>)
\* Task 3 waits for 1 only by way of 2, and writes where 1 does.
ChainPlan ==
    Plan(<<Job(1, <<>>, << <<"a">> >>), Job(3, <<2>>, << <<"a">> >>),
           Job(2, <<1>>, << <<"c">> >>)>>)
AllPlans == GraphPlans \union OddPlans

\* Before is the transitive closure as the library computes it.
ASSUME ClosureAssumption ==
    \A p \in GraphPlans :
      TransitiveClosure([t, u \in Ids(p) |-> t \in Dependencies(p, u)], Ids(p))
        = [t, u \in Ids(p) |-> Before(p, t, u)]

ExecutedPlans == {ExecutedPlan, JoinPlan, ChainPlan}
FirstTask == {1}
FirstTwo == {1, 2}
Symmetry == UNION {Permutations(S) : S \in {Session, LeaseId, Key}}
=============================================================================
