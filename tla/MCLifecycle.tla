---------------------------- MODULE MCLifecycle ----------------------------
EXTENDS Lifecycle, TLC
CONSTANTS c1, c2, p1, p2, b1, b2, s1, s2
TwoCandidates == {c1, c2}
OneSlot == {s1}
TwoSlots == {s1, s2}
OnePlan == {p1}
TwoPlans == {p1, p2}
SameBytes == {b1}
TwoContents == {b1, b2}
OneGate == <<"command">>
AnyStatus == {"Passed", "Failed", "Skipped"}
PassOrFail == {"Passed", "Failed"}
BothModes == {"Quick", "Full"}
FullMode == {"Full"}
SmallBudget == 2
SmallU8 == 3
NoFaults == 0
OneFault == 1
OneCycle == 1
SlotSymmetry == Permutations(Slot)
=============================================================================
