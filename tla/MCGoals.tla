------------------------------ MODULE MCGoals ------------------------------
(* Four operations pass a limit of one by more than one, and a limit of     *)
(* three, the largest u8; two workflows share a milestone or have one each. *)
EXTENDS Goals, TLC

CONSTANTS g1, w1, w2, m1, m2, p1, p2, s1, o1, o2, o3, o4

OneGoal == {g1}
TwoWorkflows == {w1, w2}
TwoMilestones == {m1, m2}
TwoPlans == {p1, p2}
OneSession == {s1}
FourOperations == {o1, o2, o3, o4}
SmallLimits == {1, 3}
SmallU8 == 3
Symmetry ==
    Permutations(WorkflowId) \union Permutations(Milestone)
        \union Permutations(Content) \union Permutations(Operation)
=============================================================================
