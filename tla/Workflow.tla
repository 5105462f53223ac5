------------------------------ MODULE Workflow ------------------------------
(***************************************************************************)
(* The workflow aggregate of crates/workflow-core/src/workflow.rs.  Every  *)
(* command is a guard Can<Command>(w), the condition under which           *)
(* Workflow::apply accepts it, and a value <Command>(w), the aggregate it  *)
(* leaves.  A refused command changes nothing and is no step here.  The    *)
(* two operators are kept apart because the store applies them inside      *)
(* larger transactions (module Lifecycle).  A definition whose name starts *)
(* with Faulty is a plausible slip in the definition that follows it: no   *)
(* specification uses it, the mutation runs do (see README.md).            *)
(***************************************************************************)
EXTENDS Integers

CONSTANTS
    Candidate,        \* candidate identifiers
    None,             \* Option::None
    MaxRepairCycles,  \* max_repair_cycles of a new workflow, 5 in the code
    U8Max             \* largest u8, 255 in the code

ASSUME BudgetAssumption ==
    /\ U8Max \in Nat
    /\ MaxRepairCycles \in 1..U8Max

VARIABLE workflow

-----------------------------------------------------------------------------
Mode == {"Quick", "Full"}
RepairTarget == {"Execution", "Architecture"}

Terminal == {"Completed", "Cancelled"}
Suspended == {"Paused", "Blocked"}
Working == {"Intake", "Routing", "QuickExecution", "Architecture", "Execution",
            "Verification", "IndependentReviews", "Arbitration", "Delivery",
            "Repair"}
WorkflowState == Working \union Suspended \union Terminal

ASSUME AggregateNone ==
    None \notin Candidate \union WorkflowState \union Mode \union RepairTarget

Pausable == Working \ {"Verification", "Delivery"}

WorkflowRecord ==
    [state : WorkflowState,
     mode : Mode \union {None},
     current_candidate : Candidate \union {None},
     repair_target : RepairTarget \union {None},
     repair_cycles : 0..U8Max,
     max_repair_cycles : 1..U8Max,
     paused_from : WorkflowState \union {None},
     infrastructure_blocked_from : WorkflowState \union {None}]

NewWorkflow ==
    [state |-> "Intake",
     mode |-> None,
     current_candidate |-> None,
     repair_target |-> None,
     repair_cycles |-> 0,
     max_repair_cycles |-> MaxRepairCycles,
     paused_from |-> None,
     infrastructure_blocked_from |-> None]

MoveTo(w, s) == [w EXCEPT !.state = s]

-----------------------------------------------------------------------------
(* Intake, routing and planning.                                           *)

CanCompleteIntake(w) == w.state = "Intake"
CompleteIntake(w) == MoveTo(w, "Routing")

CanRoute(w) == w.state = "Routing"
Route(w, mode) ==
    [w EXCEPT !.mode = mode,
              !.state = IF mode = "Quick" THEN "QuickExecution" ELSE "Architecture"]

CanArchitectureAccepted(w) == w.state = "Architecture"
ArchitectureAccepted(w) == MoveTo(w, "Execution")

CanReplanExecution(w) == w.state = "Execution"
ReplanExecution(w) == MoveTo(w, "Architecture")

-----------------------------------------------------------------------------
(* A candidate and the judgements on it.                                   *)

CanCandidateReady(w) == w.state \in {"QuickExecution", "Execution"}
CandidateReady(w, c) ==
    [w EXCEPT !.current_candidate = c, !.state = "Verification"]

CanVerificationPassed(w) ==
    /\ w.state = "Verification"
    /\ w.current_candidate # None
    /\ w.mode # None
VerificationPassed(w) ==
    MoveTo(w, IF w.mode = "Quick" THEN "Arbitration" ELSE "IndependentReviews")

CanReviewsReady(w) == w.state = "IndependentReviews"
ReviewsReady(w) == MoveTo(w, "Arbitration")

CanApprove(w) ==
    /\ w.state = "Arbitration"
    /\ w.current_candidate # None
Approve(w) == MoveTo(w, "Delivery")

CanDeliver(w) ==
    /\ w.state = "Delivery"
    /\ w.current_candidate # None
Deliver(w) == MoveTo(w, "Completed")

\* VerificationRejected in Verification, Reject in Arbitration; the cycle
\* counter is a u8 advanced with checked_add.
CanReject(w) ==
    /\ w.state \in {"Verification", "Arbitration"}
    /\ w.current_candidate # None
    /\ w.repair_cycles < U8Max
\* A rejection consumes a repair cycle; the last one blocks.
Reject(w, target) ==
    [w EXCEPT !.repair_cycles = @ + 1,
              !.repair_target = target,
              !.state = IF w.repair_cycles + 1 >= w.max_repair_cycles
                        THEN "Blocked" ELSE "Repair"]

FaultyBeginRepair(w) ==
    [w EXCEPT !.repair_target = None, !.state = w.repair_target]

CanBeginRepair(w) ==
    /\ w.state = "Repair"
    /\ w.repair_target # None
BeginRepair(w) ==
    [w EXCEPT !.repair_target = None,
              !.current_candidate = None,
              !.state = w.repair_target]

-----------------------------------------------------------------------------
(* Suspension.                                                             *)

CanPause(w) == w.state \in Pausable
Pause(w) == [w EXCEPT !.paused_from = w.state, !.state = "Paused"]

FaultyResume(w) == MoveTo(w, w.paused_from)
CanResume(w) ==
    /\ w.state = "Paused"
    /\ w.paused_from # None
Resume(w) == [w EXCEPT !.paused_from = None, !.state = w.paused_from]

CanCancel(w) == w.state \notin Terminal
Cancel(w) == [w EXCEPT !.paused_from = None, !.state = "Cancelled"]

CanBlockInfrastructure(w) == w.state \in Working
BlockInfrastructure(w) ==
    [w EXCEPT !.infrastructure_blocked_from = w.state, !.state = "Blocked"]

FaultyResumeInfrastructure(w) ==
    [w EXCEPT !.infrastructure_blocked_from = None, !.state = "Repair"]
CanResumeInfrastructure(w) ==
    /\ w.state = "Blocked"
    /\ w.infrastructure_blocked_from # None
ResumeInfrastructure(w) ==
    [w EXCEPT !.infrastructure_blocked_from = None,
              !.state = w.infrastructure_blocked_from]

FaultyCanResumeBlocked(w, additional) ==
    /\ w.state = "Blocked"
    /\ additional # 0
    /\ w.max_repair_cycles + additional <= U8Max
\* The budget grows with checked_add: past the u8 the command is refused.
CanResumeBlocked(w, additional) ==
    /\ w.state = "Blocked"
    /\ w.infrastructure_blocked_from = None
    /\ additional # 0
    /\ w.max_repair_cycles + additional <= U8Max
ResumeBlocked(w, additional) ==
    [w EXCEPT !.max_repair_cycles = @ + additional, !.state = "Repair"]

-----------------------------------------------------------------------------
AggregateInit == workflow = NewWorkflow

DoCompleteIntake == CanCompleteIntake(workflow) /\ workflow' = CompleteIntake(workflow)
DoRoute(mode) == CanRoute(workflow) /\ workflow' = Route(workflow, mode)
DoArchitectureAccepted ==
    CanArchitectureAccepted(workflow) /\ workflow' = ArchitectureAccepted(workflow)
DoReplanExecution ==
    CanReplanExecution(workflow) /\ workflow' = ReplanExecution(workflow)
DoCandidateReady(c) ==
    CanCandidateReady(workflow) /\ workflow' = CandidateReady(workflow, c)
DoVerificationPassed ==
    CanVerificationPassed(workflow) /\ workflow' = VerificationPassed(workflow)
DoReviewsReady == CanReviewsReady(workflow) /\ workflow' = ReviewsReady(workflow)
DoApprove == CanApprove(workflow) /\ workflow' = Approve(workflow)
DoDeliver == CanDeliver(workflow) /\ workflow' = Deliver(workflow)
DoReject(target) == CanReject(workflow) /\ workflow' = Reject(workflow, target)
DoBeginRepair == CanBeginRepair(workflow) /\ workflow' = BeginRepair(workflow)
DoPause == CanPause(workflow) /\ workflow' = Pause(workflow)
DoResume == CanResume(workflow) /\ workflow' = Resume(workflow)
DoCancel == CanCancel(workflow) /\ workflow' = Cancel(workflow)
DoBlockInfrastructure ==
    CanBlockInfrastructure(workflow) /\ workflow' = BlockInfrastructure(workflow)
DoResumeInfrastructure ==
    CanResumeInfrastructure(workflow) /\ workflow' = ResumeInfrastructure(workflow)
DoResumeBlocked(additional) ==
    /\ CanResumeBlocked(workflow, additional)
    /\ workflow' = ResumeBlocked(workflow, additional)

\* RetryInfrastructure only emits an event: on the aggregate it is a stutter.
AggregateNext ==
    \/ DoCompleteIntake
    \/ \E mode \in Mode : DoRoute(mode)
    \/ DoArchitectureAccepted
    \/ DoReplanExecution
    \/ \E c \in Candidate : DoCandidateReady(c)
    \/ DoVerificationPassed
    \/ DoReviewsReady
    \/ DoApprove
    \/ DoDeliver
    \/ \E target \in RepairTarget : DoReject(target)
    \/ DoBeginRepair
    \/ DoPause
    \/ DoResume
    \/ DoCancel
    \/ DoBlockInfrastructure
    \/ DoResumeInfrastructure
    \/ \E additional \in 0..U8Max : DoResumeBlocked(additional)

AggregateSpec == AggregateInit /\ [][AggregateNext]_workflow

-----------------------------------------------------------------------------
(* What the aggregate promises.                                            *)

\* The phase of the work, seen through a pause or an infrastructure block.
Phase(w) ==
    IF w.state = "Paused" THEN w.paused_from
    ELSE IF w.state = "Blocked" /\ w.infrastructure_blocked_from # None
         THEN w.infrastructure_blocked_from
         ELSE w.state

\* Phases in which a candidate exists and is being judged, was judged or is
\* about to be abandoned; "Blocked" here is an exhausted repair budget.
JudgingPhase == {"Verification", "IndependentReviews", "Arbitration", "Delivery",
                 "Repair", "Blocked", "Completed"}

(* Every field holds a value of its type: in particular neither the cycle  *)
(* counter nor the budget ever leaves the u8 (workflow.rs:120-131).        *)
AggregateTypeOK == workflow \in WorkflowRecord

(* The budget: a live workflow has a cycle left, except in the Blocked     *)
(* state that Workflow::reject chose, where exactly the budget is used up. *)
(* So the checked_add of reject can never fail (workflow.rs:315-333).      *)
RepairBudget(w) ==
    /\ w.repair_cycles <= w.max_repair_cycles
    /\ Phase(w) \notin {"Blocked", "Cancelled"} => w.repair_cycles < w.max_repair_cycles
    /\ Phase(w) = "Blocked" => w.repair_cycles = w.max_repair_cycles

(* A repair that is waiting to begin, or blocked on its budget, knows its  *)
(* target; no other live phase carries a stale one.  MissingRepairTarget   *)
(* is therefore never the answer to BeginRepair (workflow.rs:247-257).     *)
TargetWhileRepairing(w) ==
    Phase(w) # "Cancelled" =>
        (w.repair_target # None <=> Phase(w) \in {"Repair", "Blocked"})

(* A candidate is current exactly while it is judged or delivered: none is *)
(* carried into a new execution, and none is missing when a verdict needs  *)
(* it (MissingCandidate is never the answer), whatever was paused, blocked *)
(* or resumed in between (workflow.rs:197-257).                            *)
CandidateWhileJudged(w) ==
    Phase(w) # "Cancelled" =>
        (w.current_candidate # None <=> Phase(w) \in JudgingPhase)

(* A suspension remembers where to return to, and a return point never     *)
(* outlives it: nested suspensions and resumes into a suspended state are  *)
(* impossible (workflow.rs:258-307, 345-375).                              *)
ReturnPoint(w) ==
    /\ w.paused_from # None <=> w.state = "Paused"
    /\ w.paused_from \in Pausable \union {None}
    /\ w.infrastructure_blocked_from \in Working \union {None}
    /\ w.infrastructure_blocked_from # None => w.state \in {"Blocked", "Cancelled"}

(* The mode is chosen by routing, once, and quick work is never reviewed.  *)
RoutedMode(w) ==
    /\ Phase(w) # "Cancelled" =>
           (w.mode = None <=> Phase(w) \in {"Intake", "Routing"})
    /\ Phase(w) = "IndependentReviews" => w.mode = "Full"
    /\ Phase(w) = "QuickExecution" => w.mode = "Quick"

WorkflowInv(w) ==
    /\ RepairBudget(w)
    /\ TargetWhileRepairing(w)
    /\ CandidateWhileJudged(w)
    /\ ReturnPoint(w)
    /\ RoutedMode(w)

BudgetInv == RepairBudget(workflow)
TargetInv == TargetWhileRepairing(workflow)
CandidateInv == CandidateWhileJudged(workflow)
ReturnPointInv == ReturnPoint(workflow)
ModeInv == RoutedMode(workflow)

(* Whatever was paused, blocked, resumed, repaired or replanned, and in    *)
(* whichever order, the record of a workflow has its type, a cycle left    *)
(* while it is live, and a target, a candidate, a return point and a mode  *)
(* exactly while they are needed (workflow.rs:183-375).                    *)
AggregateInv == AggregateTypeOK /\ BudgetInv /\ TargetInv /\ CandidateInv /\ ReturnPointInv /\ ModeInv

(* The order of the phases that the manual promises for a full and a quick *)
(* request, repairs, replanning and cancellation included.                 *)
PhaseEdge(mode) ==
    {<<"Intake", "Routing">>, <<"Execution", "Verification">>,
     <<"Architecture", "Execution">>, <<"Execution", "Architecture">>,
     <<"Arbitration", "Delivery">>, <<"Delivery", "Completed">>}
    \union ({"Verification", "Arbitration"} \X {"Repair", "Blocked"})
    \union {<<"Blocked", "Repair">>}
    \union ({"Repair"} \X RepairTarget)
    \union (IF mode = "Quick"
            THEN {<<"Routing", "QuickExecution">>, <<"QuickExecution", "Verification">>,
                  <<"Verification", "Arbitration">>}
            ELSE {<<"Routing", "Architecture">>, <<"Verification", "IndependentReviews">>,
                  <<"IndependentReviews", "Arbitration">>})
    \union ((Working \union {"Blocked"}) \X {"Cancelled"})

(* Pausing, blocking on infrastructure and resuming never move the work,   *)
(* and the work moves only along the documented edges of its mode; what    *)
(* ended never restarts (workflow.rs:183-312).                             *)
PhasesInOrder ==
    [][Phase(workflow') # Phase(workflow) =>
          <<Phase(workflow), Phase(workflow')>> \in PhaseEdge(workflow'.mode)]_workflow

(* Cycles are only ever spent one at a time and never refunded, and only a *)
(* workflow blocked on its budget gets a larger one (workflow.rs:276-293). *)
BudgetOnlyExtendedWhenSpent ==
    [][/\ workflow'.repair_cycles - workflow.repair_cycles \in {0, 1}
       /\ workflow'.max_repair_cycles # workflow.max_repair_cycles =>
              /\ Phase(workflow) = "Blocked"
              /\ workflow'.max_repair_cycles > workflow.max_repair_cycles]_workflow
=============================================================================
