------------------------------ MODULE Release ------------------------------
(***************************************************************************)
(* What a governed workflow promises about candidates, without saying how: *)
(* one candidate at a time is proposed, each is judged at most once, a     *)
(* rejected one is set aside for good, and only an approved one, and only  *)
(* one, is released.  Lifecycle implements it.                             *)
(***************************************************************************)
EXTENDS Naturals, FiniteSets

CONSTANTS Candidate, None

VARIABLES
    current,   \* the candidate under judgement, or None
    rejected,  \* candidates judged and rejected
    approved,  \* candidates judged and approved
    released   \* the candidate that was delivered, or None

judged == rejected \union approved
releaseVars == <<current, rejected, approved, released>>

Init ==
    /\ current = None
    /\ rejected = {}
    /\ approved = {}
    /\ released = None

Propose(c) ==
    /\ current = None
    /\ c \notin judged
    /\ current' = c
    /\ UNCHANGED <<rejected, approved, released>>

Reject ==
    /\ current # None
    /\ current \notin judged
    /\ rejected' = rejected \union {current}
    /\ UNCHANGED <<current, approved, released>>

\* A repair sets the rejected candidate aside.
SetAside ==
    /\ current \in rejected
    /\ current' = None
    /\ UNCHANGED <<rejected, approved, released>>

Approve ==
    /\ current # None
    /\ judged \intersect {current} = {}
    /\ approved = {}
    /\ approved' = {current}
    /\ UNCHANGED <<current, rejected, released>>

Deliver ==
    /\ current \in approved
    /\ released = None
    /\ released' = current
    /\ UNCHANGED <<current, rejected, approved>>

Next == (\E c \in Candidate : Propose(c)) \/ Reject \/ SetAside \/ Approve \/ Deliver

Spec == Init /\ [][Next]_releaseVars
=============================================================================
