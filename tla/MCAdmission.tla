---------------------------- MODULE MCAdmission ----------------------------
EXTENDS Admission, TLC
CONSTANTS w1, w2, w3, p1, p2
ThreeWorkflows == {w1, w2, w3}
TwoProjects == {p1, p2}
TwoInOne == w1 :> p1 @@ w2 :> p1 @@ w3 :> p2
OneWatched == {w3}
OneControlled == {w1}
All(level) == [r \in Resource |-> level]
SampleKinds == {All("enough"), [All("enough") EXCEPT !["cpu"] = "short"],
                [All("short") EXCEPT !["disk"] = "unknown"]}
=============================================================================
