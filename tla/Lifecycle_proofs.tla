-------------------------- MODULE Lifecycle_proofs --------------------------
(***************************************************************************)
(* Proofs about the workflow aggregate, and about a governed workflow in   *)
(* the daemon: for every number of connections, candidates, plans, gates   *)
(* and faults, every budget and every width of the counters.               *)
(*                                                                         *)
(* The lemmas about the aggregate speak of the value each command leaves,  *)
(* so that they hold wherever a handler applies it.  Each step of a        *)
(* handler is then shown to be one of a few kinds of steps of the store,   *)
(* and the invariant to be kept by each kind.                              *)
(***************************************************************************)
EXTENDS Lifecycle, FiniteSetTheorems, TLAPS

-----------------------------------------------------------------------------
(* The aggregate.                                                          *)

(* The inductive invariant: no part of it is inductive without the others. *)
(* A resume needs the return point to know the phase it returns to, and    *)
(* the phase decides which fields are set.                                 *)
Sound(w) == w \in WorkflowRecord /\ WorkflowInv(w)

LEMMA NoneIsNoState ==
    /\ None \notin WorkflowState
    /\ None \notin Mode
    /\ None \notin RepairTarget
    /\ None \notin Candidate
BY AggregateNone DEF WorkflowState, Working, Suspended, Terminal, Mode, RepairTarget

LEMMA NewSound == Sound(NewWorkflow)
<1>1. NewWorkflow \in WorkflowRecord
    BY BudgetAssumption DEF NewWorkflow, WorkflowRecord, WorkflowState, Working
<1>2. Phase(NewWorkflow) = "Intake"
    BY DEF Phase, NewWorkflow
<1>3. RepairBudget(NewWorkflow)
    BY <1>2, BudgetAssumption DEF RepairBudget, NewWorkflow
<1>4. TargetWhileRepairing(NewWorkflow) /\ CandidateWhileJudged(NewWorkflow)
    BY <1>2 DEF TargetWhileRepairing, CandidateWhileJudged, NewWorkflow, JudgingPhase
<1>5. ReturnPoint(NewWorkflow)
    BY DEF ReturnPoint, NewWorkflow
<1>6. RoutedMode(NewWorkflow)
    BY <1>2 DEF RoutedMode, NewWorkflow
<1> QED BY <1>1, <1>3, <1>4, <1>5, <1>6 DEF Sound, WorkflowInv

-----------------------------------------------------------------------------
LEMMA Fields ==
    ASSUME NEW w \in WorkflowRecord
    PROVE  /\ w.state \in WorkflowState
           /\ w.mode \in Mode \union {None}
           /\ w.current_candidate \in Candidate \union {None}
           /\ w.repair_target \in RepairTarget \union {None}
           /\ w.repair_cycles \in 0..U8Max
           /\ w.max_repair_cycles \in 1..U8Max
           /\ w.paused_from \in WorkflowState \union {None}
           /\ w.infrastructure_blocked_from \in WorkflowState \union {None}
BY DEF WorkflowRecord

LEMMA MoveToRecord ==
    ASSUME NEW w \in WorkflowRecord, NEW s \in WorkflowState
    PROVE  /\ MoveTo(w, s) \in WorkflowRecord
           /\ MoveTo(w, s).state = s
           /\ MoveTo(w, s).mode = w.mode
           /\ MoveTo(w, s).current_candidate = w.current_candidate
           /\ MoveTo(w, s).repair_target = w.repair_target
           /\ MoveTo(w, s).repair_cycles = w.repair_cycles
           /\ MoveTo(w, s).max_repair_cycles = w.max_repair_cycles
           /\ MoveTo(w, s).paused_from = w.paused_from
           /\ MoveTo(w, s).infrastructure_blocked_from = w.infrastructure_blocked_from
BY DEF MoveTo, WorkflowRecord

-----------------------------------------------------------------------------
(* In a state that is not suspended or cancelled the phase is the state,   *)
(* and the invariant is a statement about the fields that state needs.     *)

AtWork(w) ==
    /\ w.paused_from = None
    /\ w.infrastructure_blocked_from = None
    /\ w.repair_cycles < w.max_repair_cycles
    /\ w.repair_target # None <=> w.state = "Repair"
    /\ w.current_candidate # None <=> w.state \in JudgingPhase
    /\ w.mode = None <=> w.state \in {"Intake", "Routing"}
    /\ w.state = "IndependentReviews" => w.mode = "Full"
    /\ w.state = "QuickExecution" => w.mode = "Quick"

LEMMA SoundAtWork ==
    ASSUME NEW w, Sound(w), w.state \in Working \union {"Completed"}
    PROVE  w \in WorkflowRecord /\ Phase(w) = w.state /\ AtWork(w)
<1>1. w \in WorkflowRecord
    BY DEF Sound
<1>2. w.state # "Paused" /\ w.state # "Blocked" /\ w.state # "Cancelled"
    BY DEF Working
<1>3. Phase(w) = w.state
    BY <1>2 DEF Phase
<1>4. w.paused_from = None /\ w.infrastructure_blocked_from = None
    BY <1>2 DEF Sound, WorkflowInv, ReturnPoint
<1>5. w.repair_cycles < w.max_repair_cycles
    BY <1>2, <1>3 DEF Sound, WorkflowInv, RepairBudget
<1>6. w.repair_target # None <=> w.state = "Repair"
    BY <1>2, <1>3 DEF Sound, WorkflowInv, TargetWhileRepairing
<1>7. w.current_candidate # None <=> w.state \in JudgingPhase
    BY <1>2, <1>3 DEF Sound, WorkflowInv, CandidateWhileJudged
<1>8. /\ w.mode = None <=> w.state \in {"Intake", "Routing"}
      /\ w.state = "IndependentReviews" => w.mode = "Full"
      /\ w.state = "QuickExecution" => w.mode = "Quick"
    BY <1>2, <1>3 DEF Sound, WorkflowInv, RoutedMode
<1> QED BY <1>1, <1>3, <1>4, <1>5, <1>6, <1>7, <1>8 DEF AtWork

LEMMA AtWorkSound ==
    ASSUME NEW w \in WorkflowRecord, w.state \in Working \union {"Completed"}, AtWork(w)
    PROVE  Sound(w)
<1>1. w.state # "Paused" /\ w.state # "Blocked" /\ w.state # "Cancelled"
    BY DEF Working
<1>2. Phase(w) = w.state
    BY <1>1 DEF Phase
<1>3. w.repair_cycles \in Int /\ w.max_repair_cycles \in Int
    BY Fields, BudgetAssumption
<1>4. RepairBudget(w)
    BY <1>1, <1>2, <1>3 DEF AtWork, RepairBudget
<1>5. TargetWhileRepairing(w)
    BY <1>1, <1>2 DEF AtWork, TargetWhileRepairing
<1>6. CandidateWhileJudged(w)
    BY <1>2 DEF AtWork, CandidateWhileJudged
<1>7. ReturnPoint(w)
    BY <1>1 DEF AtWork, ReturnPoint
<1>8. RoutedMode(w)
    BY <1>2 DEF AtWork, RoutedMode
<1> QED BY <1>4, <1>5, <1>6, <1>7, <1>8 DEF Sound, WorkflowInv

\* A command that only moves an aggregate at work to another such state, where
\* the same fields are needed.
LEMMA MoveSound ==
    ASSUME NEW w, Sound(w), w.state \in Working,
           NEW s \in Working \union {"Completed"},
           w.state = "Repair" <=> s = "Repair",
           w.state \in JudgingPhase <=> s \in JudgingPhase,
           w.state \in {"Intake", "Routing"} <=> s \in {"Intake", "Routing"},
           s = "IndependentReviews" => w.mode = "Full",
           s = "QuickExecution" => w.mode = "Quick"
    PROVE  Sound(MoveTo(w, s))
<1>1. w \in WorkflowRecord /\ AtWork(w)
    BY SoundAtWork
<1>2. s \in WorkflowState
    BY DEF WorkflowState, Terminal
<1>3. MoveTo(w, s) \in WorkflowRecord /\ MoveTo(w, s).state = s
    BY <1>1, <1>2, MoveToRecord
<1>4. AtWork(MoveTo(w, s))
    BY <1>1, <1>2, MoveToRecord DEF AtWork
<1> QED BY <1>3, <1>4, AtWorkSound

-----------------------------------------------------------------------------
(* One lemma per command.                                                  *)

LEMMA CompleteIntakeSound ==
    ASSUME NEW w, Sound(w), CanCompleteIntake(w)
    PROVE  Sound(CompleteIntake(w))
BY MoveSound DEF CanCompleteIntake, CompleteIntake, Working, JudgingPhase

LEMMA RouteSound ==
    ASSUME NEW w, Sound(w), CanRoute(w), NEW mode \in Mode
    PROVE  Sound(Route(w, mode))
<1> DEFINE v == Route(w, mode)
<1>1. w.state = "Routing" /\ w \in WorkflowRecord /\ AtWork(w)
    BY SoundAtWork DEF CanRoute, Working
<1>2. (IF mode = "Quick" THEN "QuickExecution" ELSE "Architecture") \in WorkflowState
    BY DEF WorkflowState, Working
<1>3. /\ v \in WorkflowRecord
      /\ v.state = IF mode = "Quick" THEN "QuickExecution" ELSE "Architecture"
      /\ v.mode = mode
      /\ v.current_candidate = w.current_candidate
      /\ v.repair_target = w.repair_target
      /\ v.repair_cycles = w.repair_cycles
      /\ v.max_repair_cycles = w.max_repair_cycles
      /\ v.paused_from = w.paused_from
      /\ v.infrastructure_blocked_from = w.infrastructure_blocked_from
    BY <1>1, <1>2 DEF Route, WorkflowRecord
<1>4. AtWork(v)
    BY <1>1, <1>3, NoneIsNoState DEF AtWork, JudgingPhase, Mode
<1> QED BY <1>3, <1>4, AtWorkSound DEF Working

LEMMA ArchitectureAcceptedSound ==
    ASSUME NEW w, Sound(w), CanArchitectureAccepted(w)
    PROVE  Sound(ArchitectureAccepted(w))
BY MoveSound DEF CanArchitectureAccepted, ArchitectureAccepted, Working, JudgingPhase

LEMMA ReplanExecutionSound ==
    ASSUME NEW w, Sound(w), CanReplanExecution(w)
    PROVE  Sound(ReplanExecution(w))
BY MoveSound DEF CanReplanExecution, ReplanExecution, Working, JudgingPhase

LEMMA CandidateReadySound ==
    ASSUME NEW w, Sound(w), CanCandidateReady(w), NEW c \in Candidate
    PROVE  Sound(CandidateReady(w, c))
<1> DEFINE v == CandidateReady(w, c)
<1>1. /\ w.state \in {"QuickExecution", "Execution"}
      /\ w \in WorkflowRecord
      /\ AtWork(w)
    BY SoundAtWork DEF CanCandidateReady, Working
<1>2. /\ v \in WorkflowRecord
      /\ v.state = "Verification"
      /\ v.mode = w.mode
      /\ v.current_candidate = c
      /\ v.repair_target = w.repair_target
      /\ v.repair_cycles = w.repair_cycles
      /\ v.max_repair_cycles = w.max_repair_cycles
      /\ v.paused_from = w.paused_from
      /\ v.infrastructure_blocked_from = w.infrastructure_blocked_from
    BY <1>1 DEF CandidateReady, WorkflowRecord, WorkflowState, Working
<1>3. AtWork(v)
    BY <1>1, <1>2, NoneIsNoState DEF AtWork, JudgingPhase
<1> QED BY <1>2, <1>3, AtWorkSound DEF Working

LEMMA VerificationPassedSound ==
    ASSUME NEW w, Sound(w), CanVerificationPassed(w)
    PROVE  Sound(VerificationPassed(w))
<1>1. w.state = "Verification" /\ w.mode # None /\ w \in WorkflowRecord
    BY DEF CanVerificationPassed, Sound
<1>2. w.mode # "Quick" => w.mode = "Full"
    BY <1>1, Fields DEF Mode
<1>3. CASE w.mode = "Quick"
    BY <1>1, <1>3, MoveSound DEF VerificationPassed, Working, JudgingPhase
<1>4. CASE w.mode # "Quick"
    BY <1>1, <1>2, <1>4, MoveSound DEF VerificationPassed, Working, JudgingPhase
<1> QED BY <1>3, <1>4

LEMMA ReviewsReadySound ==
    ASSUME NEW w, Sound(w), CanReviewsReady(w)
    PROVE  Sound(ReviewsReady(w))
BY MoveSound DEF CanReviewsReady, ReviewsReady, Working, JudgingPhase

LEMMA ApproveSound ==
    ASSUME NEW w, Sound(w), CanApprove(w)
    PROVE  Sound(Approve(w))
BY MoveSound DEF CanApprove, Approve, Working, JudgingPhase

LEMMA DeliverSound ==
    ASSUME NEW w, Sound(w), CanDeliver(w)
    PROVE  Sound(Deliver(w))
BY MoveSound DEF CanDeliver, Deliver, Working, JudgingPhase

LEMMA RejectSound ==
    ASSUME NEW w, Sound(w), CanReject(w), NEW target \in RepairTarget
    PROVE  Sound(Reject(w, target))
<1> DEFINE v == Reject(w, target)
<1>1. /\ w.state \in {"Verification", "Arbitration"}
      /\ w \in WorkflowRecord
      /\ AtWork(w)
      /\ w.repair_cycles < U8Max
    BY SoundAtWork DEF CanReject, Working
<1>2. w.repair_cycles \in Nat /\ w.max_repair_cycles \in Nat
    BY <1>1, Fields, BudgetAssumption
<1>3. w.repair_cycles + 1 \in 0..U8Max
    BY <1>1, <1>2, BudgetAssumption
<1>4. (IF w.repair_cycles + 1 >= w.max_repair_cycles THEN "Blocked" ELSE "Repair")
          \in WorkflowState
    BY DEF WorkflowState, Working, Suspended
<1>5. /\ v \in WorkflowRecord
      /\ v.state = IF w.repair_cycles + 1 >= w.max_repair_cycles THEN "Blocked" ELSE "Repair"
      /\ v.mode = w.mode
      /\ v.current_candidate = w.current_candidate
      /\ v.repair_target = target
      /\ v.repair_cycles = w.repair_cycles + 1
      /\ v.max_repair_cycles = w.max_repair_cycles
      /\ v.paused_from = w.paused_from
      /\ v.infrastructure_blocked_from = w.infrastructure_blocked_from
    BY <1>1, <1>3, <1>4 DEF Reject, WorkflowRecord
<1>6. w.paused_from = None /\ w.infrastructure_blocked_from = None
    BY <1>1 DEF AtWork
<1>7. w.repair_cycles < w.max_repair_cycles
    BY <1>1 DEF AtWork
<1>8. w.current_candidate # None /\ w.mode # None /\ target # None
    BY <1>1, NoneIsNoState DEF AtWork, JudgingPhase
<1>9. CASE v.state = "Repair"
  <2>1. v.repair_cycles < v.max_repair_cycles
    BY <1>2, <1>5, <1>9
  <2>2. AtWork(v)
    BY <1>5, <1>6, <1>8, <1>9, <2>1 DEF AtWork, JudgingPhase
  <2> QED BY <1>5, <1>9, <2>2, AtWorkSound DEF Working
<1>10. CASE v.state = "Blocked"
  <2>1. Phase(v) = "Blocked"
    BY <1>5, <1>6, <1>10 DEF Phase
  <2>2. v.repair_cycles = v.max_repair_cycles
    BY <1>2, <1>5, <1>7, <1>10
  <2>3. RepairBudget(v)
    BY <1>2, <1>5, <2>1, <2>2 DEF RepairBudget
  <2>4. TargetWhileRepairing(v) /\ CandidateWhileJudged(v)
    BY <1>5, <1>8, <2>1 DEF TargetWhileRepairing, CandidateWhileJudged, JudgingPhase
  <2>5. ReturnPoint(v)
    BY <1>5, <1>6, <1>10 DEF ReturnPoint
  <2>6. RoutedMode(v)
    BY <1>5, <1>8, <2>1 DEF RoutedMode
  <2> QED BY <1>5, <2>3, <2>4, <2>5, <2>6 DEF Sound, WorkflowInv
<1> QED BY <1>5, <1>9, <1>10

LEMMA BeginRepairSound ==
    ASSUME NEW w, Sound(w), CanBeginRepair(w)
    PROVE  Sound(BeginRepair(w))
<1> DEFINE v == BeginRepair(w)
<1>1. /\ w.state = "Repair"
      /\ w.repair_target # None
      /\ w \in WorkflowRecord
      /\ AtWork(w)
    BY SoundAtWork DEF CanBeginRepair, Working
<1>2. w.repair_target \in RepairTarget
    BY <1>1, Fields
<1>3. /\ v \in WorkflowRecord
      /\ v.state = w.repair_target
      /\ v.mode = w.mode
      /\ v.current_candidate = None
      /\ v.repair_target = None
      /\ v.repair_cycles = w.repair_cycles
      /\ v.max_repair_cycles = w.max_repair_cycles
      /\ v.paused_from = w.paused_from
      /\ v.infrastructure_blocked_from = w.infrastructure_blocked_from
    BY <1>1, <1>2 DEF BeginRepair, WorkflowRecord, WorkflowState, Working, RepairTarget
<1>4. AtWork(v)
    BY <1>1, <1>2, <1>3 DEF AtWork, JudgingPhase, RepairTarget
<1> QED BY <1>2, <1>3, <1>4, AtWorkSound DEF Working, RepairTarget

-----------------------------------------------------------------------------
(* Suspending and resuming keep the phase and everything that depends on it.*)

LEMMA SamePhaseSound ==
    ASSUME NEW w, Sound(w),
           NEW v \in WorkflowRecord,
           Phase(v) = Phase(w),
           v.mode = w.mode,
           v.current_candidate = w.current_candidate,
           v.repair_target = w.repair_target,
           v.repair_cycles = w.repair_cycles,
           v.max_repair_cycles = w.max_repair_cycles,
           ReturnPoint(v)
    PROVE  Sound(v)
<1>1. RepairBudget(v)
    BY DEF Sound, WorkflowInv, RepairBudget
<1>2. TargetWhileRepairing(v)
    BY DEF Sound, WorkflowInv, TargetWhileRepairing
<1>3. CandidateWhileJudged(v)
    BY DEF Sound, WorkflowInv, CandidateWhileJudged
<1>4. RoutedMode(v)
    BY DEF Sound, WorkflowInv, RoutedMode
<1> QED BY <1>1, <1>2, <1>3, <1>4 DEF Sound, WorkflowInv

LEMMA PauseSound ==
    ASSUME NEW w, Sound(w), CanPause(w)
    PROVE  Sound(Pause(w)) /\ Phase(Pause(w)) = Phase(w)
<1> DEFINE v == Pause(w)
<1>1. w.state \in Pausable /\ w \in WorkflowRecord /\ Phase(w) = w.state /\ AtWork(w)
    BY SoundAtWork DEF CanPause, Pausable
<1>2. w.state # None
    BY <1>1, NoneIsNoState, Fields
<1>3. /\ v \in WorkflowRecord
      /\ v.state = "Paused"
      /\ v.mode = w.mode
      /\ v.current_candidate = w.current_candidate
      /\ v.repair_target = w.repair_target
      /\ v.repair_cycles = w.repair_cycles
      /\ v.max_repair_cycles = w.max_repair_cycles
      /\ v.paused_from = w.state
      /\ v.infrastructure_blocked_from = None
    BY <1>1 DEF Pause, WorkflowRecord, WorkflowState, Suspended, AtWork
<1>4. Phase(v) = Phase(w)
    BY <1>1, <1>3 DEF Phase
<1>5. ReturnPoint(v)
    BY <1>1, <1>2, <1>3 DEF ReturnPoint
<1> QED BY <1>3, <1>4, <1>5, SamePhaseSound

LEMMA ResumeSound ==
    ASSUME NEW w, Sound(w), CanResume(w)
    PROVE  Sound(Resume(w)) /\ Phase(Resume(w)) = Phase(w)
<1> DEFINE v == Resume(w)
<1>1. /\ w.state = "Paused"
      /\ w.paused_from \in Pausable
      /\ w.infrastructure_blocked_from = None
      /\ w \in WorkflowRecord
    BY DEF CanResume, Sound, WorkflowInv, ReturnPoint
<1>2. /\ v \in WorkflowRecord
      /\ v.state = w.paused_from
      /\ v.mode = w.mode
      /\ v.current_candidate = w.current_candidate
      /\ v.repair_target = w.repair_target
      /\ v.repair_cycles = w.repair_cycles
      /\ v.max_repair_cycles = w.max_repair_cycles
      /\ v.paused_from = None
      /\ v.infrastructure_blocked_from = None
    BY <1>1 DEF Resume, WorkflowRecord, WorkflowState, Pausable
<1>3. v.state # "Paused" /\ v.state # "Blocked"
    BY <1>1, <1>2 DEF Pausable, Working
<1>4. Phase(v) = Phase(w)
    BY <1>1, <1>2, <1>3 DEF Phase
<1>5. ReturnPoint(v)
    BY <1>2, <1>3 DEF ReturnPoint
<1> QED BY <1>2, <1>4, <1>5, SamePhaseSound

LEMMA BlockInfrastructureSound ==
    ASSUME NEW w, Sound(w), CanBlockInfrastructure(w)
    PROVE  Sound(BlockInfrastructure(w)) /\ Phase(BlockInfrastructure(w)) = Phase(w)
<1> DEFINE v == BlockInfrastructure(w)
<1>1. w.state \in Working /\ w \in WorkflowRecord /\ Phase(w) = w.state /\ AtWork(w)
    BY SoundAtWork DEF CanBlockInfrastructure
<1>2. w.state # None
    BY <1>1, NoneIsNoState, Fields
<1>3. /\ v \in WorkflowRecord
      /\ v.state = "Blocked"
      /\ v.mode = w.mode
      /\ v.current_candidate = w.current_candidate
      /\ v.repair_target = w.repair_target
      /\ v.repair_cycles = w.repair_cycles
      /\ v.max_repair_cycles = w.max_repair_cycles
      /\ v.paused_from = None
      /\ v.infrastructure_blocked_from = w.state
    BY <1>1 DEF BlockInfrastructure, WorkflowRecord, WorkflowState, Suspended, AtWork
<1>4. Phase(v) = Phase(w)
    BY <1>1, <1>2, <1>3 DEF Phase
<1>5. ReturnPoint(v)
    BY <1>1, <1>3 DEF ReturnPoint
<1> QED BY <1>3, <1>4, <1>5, SamePhaseSound

LEMMA ResumeInfrastructureSound ==
    ASSUME NEW w, Sound(w), CanResumeInfrastructure(w)
    PROVE  Sound(ResumeInfrastructure(w)) /\ Phase(ResumeInfrastructure(w)) = Phase(w)
<1> DEFINE v == ResumeInfrastructure(w)
<1>1. /\ w.state = "Blocked"
      /\ w.infrastructure_blocked_from \in Working
      /\ w.infrastructure_blocked_from # None
      /\ w.paused_from = None
      /\ w \in WorkflowRecord
    BY DEF CanResumeInfrastructure, Sound, WorkflowInv, ReturnPoint
<1>2. /\ v \in WorkflowRecord
      /\ v.state = w.infrastructure_blocked_from
      /\ v.mode = w.mode
      /\ v.current_candidate = w.current_candidate
      /\ v.repair_target = w.repair_target
      /\ v.repair_cycles = w.repair_cycles
      /\ v.max_repair_cycles = w.max_repair_cycles
      /\ v.paused_from = None
      /\ v.infrastructure_blocked_from = None
    BY <1>1 DEF ResumeInfrastructure, WorkflowRecord, WorkflowState
<1>3. v.state # "Paused" /\ v.state # "Blocked"
    BY <1>1, <1>2 DEF Working
<1>4. Phase(v) = Phase(w)
    BY <1>1, <1>2, <1>3 DEF Phase
<1>5. ReturnPoint(v)
    BY <1>2, <1>3 DEF ReturnPoint
<1> QED BY <1>2, <1>4, <1>5, SamePhaseSound

LEMMA CancelSound ==
    ASSUME NEW w, Sound(w), CanCancel(w)
    PROVE  Sound(Cancel(w))
<1> DEFINE v == Cancel(w)
<1>1. w \in WorkflowRecord
    BY DEF Sound
<1>2. /\ v \in WorkflowRecord
      /\ v.state = "Cancelled"
      /\ v.mode = w.mode
      /\ v.repair_cycles = w.repair_cycles
      /\ v.max_repair_cycles = w.max_repair_cycles
      /\ v.paused_from = None
      /\ v.infrastructure_blocked_from = w.infrastructure_blocked_from
    BY <1>1 DEF Cancel, WorkflowRecord, WorkflowState, Terminal
<1>3. Phase(v) = "Cancelled"
    BY <1>2 DEF Phase
<1>4. RepairBudget(v)
    BY <1>2, <1>3 DEF RepairBudget, Sound, WorkflowInv
<1>5. TargetWhileRepairing(v) /\ CandidateWhileJudged(v) /\ RoutedMode(v)
    BY <1>3 DEF TargetWhileRepairing, CandidateWhileJudged, RoutedMode
<1>6. ReturnPoint(v)
    BY <1>2 DEF ReturnPoint, Sound, WorkflowInv
<1> QED BY <1>2, <1>4, <1>5, <1>6 DEF Sound, WorkflowInv

LEMMA ResumeBlockedSound ==
    ASSUME NEW w, Sound(w), NEW additional \in 0..U8Max, CanResumeBlocked(w, additional)
    PROVE  Sound(ResumeBlocked(w, additional))
<1> DEFINE v == ResumeBlocked(w, additional)
<1>1. /\ w.state = "Blocked"
      /\ w.infrastructure_blocked_from = None
      /\ additional \in 1..U8Max
      /\ w.max_repair_cycles + additional <= U8Max
      /\ w \in WorkflowRecord
    BY BudgetAssumption DEF CanResumeBlocked, Sound
<1>2. Phase(w) = "Blocked"
    BY <1>1 DEF Phase
<1>3. w.repair_cycles \in Nat /\ w.max_repair_cycles \in 1..U8Max
    BY <1>1, Fields
<1>4. w.max_repair_cycles + additional \in 1..U8Max
    BY <1>1, <1>3, BudgetAssumption
<1>5. /\ v \in WorkflowRecord
      /\ v.state = "Repair"
      /\ v.mode = w.mode
      /\ v.current_candidate = w.current_candidate
      /\ v.repair_target = w.repair_target
      /\ v.repair_cycles = w.repair_cycles
      /\ v.max_repair_cycles = w.max_repair_cycles + additional
      /\ v.paused_from = w.paused_from
      /\ v.infrastructure_blocked_from = w.infrastructure_blocked_from
    BY <1>1, <1>4 DEF ResumeBlocked, WorkflowRecord, WorkflowState, Working
<1>6. w.paused_from = None
    BY <1>1 DEF Sound, WorkflowInv, ReturnPoint
<1>7. w.repair_target # None /\ w.current_candidate # None /\ w.mode # None
    BY <1>2 DEF Sound, WorkflowInv, TargetWhileRepairing, CandidateWhileJudged,
                RoutedMode, JudgingPhase
<1>8. v.repair_cycles < v.max_repair_cycles
    BY <1>1, <1>2, <1>3, <1>5, BudgetAssumption DEF Sound, WorkflowInv, RepairBudget
<1>9. AtWork(v)
    BY <1>1, <1>5, <1>6, <1>7, <1>8 DEF AtWork, JudgingPhase
<1> QED BY <1>5, <1>9, AtWorkSound DEF Working

-----------------------------------------------------------------------------
LEMMA SoundInit == AggregateInit => Sound(workflow)
BY NewSound DEF AggregateInit

LEMMA SoundNext == Sound(workflow) /\ [AggregateNext]_workflow => Sound(workflow)'
<1> SUFFICES ASSUME Sound(workflow), AggregateNext PROVE Sound(workflow')
    BY DEF Sound
<1>1. CASE DoCompleteIntake
    BY <1>1, CompleteIntakeSound DEF DoCompleteIntake
<1>2. ASSUME NEW mode \in Mode, DoRoute(mode) PROVE Sound(workflow')
    BY <1>2, RouteSound DEF DoRoute
<1>3. CASE DoArchitectureAccepted
    BY <1>3, ArchitectureAcceptedSound DEF DoArchitectureAccepted
<1>4. CASE DoReplanExecution
    BY <1>4, ReplanExecutionSound DEF DoReplanExecution
<1>5. ASSUME NEW c \in Candidate, DoCandidateReady(c) PROVE Sound(workflow')
    BY <1>5, CandidateReadySound DEF DoCandidateReady
<1>6. CASE DoVerificationPassed
    BY <1>6, VerificationPassedSound DEF DoVerificationPassed
<1>7. CASE DoReviewsReady
    BY <1>7, ReviewsReadySound DEF DoReviewsReady
<1>8. CASE DoApprove
    BY <1>8, ApproveSound DEF DoApprove
<1>9. CASE DoDeliver
    BY <1>9, DeliverSound DEF DoDeliver
<1>10. ASSUME NEW target \in RepairTarget, DoReject(target) PROVE Sound(workflow')
    BY <1>10, RejectSound DEF DoReject
<1>11. CASE DoBeginRepair
    BY <1>11, BeginRepairSound DEF DoBeginRepair
<1>12. CASE DoPause
    BY <1>12, PauseSound DEF DoPause
<1>13. CASE DoResume
    BY <1>13, ResumeSound DEF DoResume
<1>14. CASE DoCancel
    BY <1>14, CancelSound DEF DoCancel
<1>15. CASE DoBlockInfrastructure
    BY <1>15, BlockInfrastructureSound DEF DoBlockInfrastructure
<1>16. CASE DoResumeInfrastructure
    BY <1>16, ResumeInfrastructureSound DEF DoResumeInfrastructure
<1>17. ASSUME NEW additional \in 0..U8Max, DoResumeBlocked(additional)
       PROVE  Sound(workflow')
    BY <1>17, ResumeBlockedSound DEF DoResumeBlocked
<1> QED BY <1>1, <1>2, <1>3, <1>4, <1>5, <1>6, <1>7, <1>8, <1>9, <1>10, <1>11, <1>12,
           <1>13, <1>14, <1>15, <1>16, <1>17 DEF AggregateNext

(* The inductive invariant holds in every behaviour of the aggregate.      *)
LEMMA AlwaysSound == AggregateSpec => []Sound(workflow)
BY SoundInit, SoundNext, PTL DEF AggregateSpec

(* No sequence of commands takes a field out of its type: the u8 counters  *)
(* never overflow, whatever their width (workflow.rs:120-131, 315-333).    *)
THEOREM AggregateTypeCorrect == AggregateSpec => []AggregateTypeOK
<1>1. Sound(workflow) => AggregateTypeOK
    BY DEF Sound, AggregateTypeOK
<1> QED BY <1>1, AlwaysSound, PTL

(* A live workflow always has a repair cycle left, and one that is blocked *)
(* on its budget has used exactly all of it (workflow.rs:315-333).         *)
THEOREM BudgetCorrect == AggregateSpec => []BudgetInv
<1>1. Sound(workflow) => BudgetInv
    BY DEF Sound, WorkflowInv, BudgetInv
<1> QED BY <1>1, AlwaysSound, PTL

(* A repair always knows where to go: BeginRepair is never refused for a   *)
(* missing target (workflow.rs:247-257).                                   *)
THEOREM TargetCorrect == AggregateSpec => []TargetInv
<1>1. Sound(workflow) => TargetInv
    BY DEF Sound, WorkflowInv, TargetInv
<1> QED BY <1>1, AlwaysSound, PTL

(* A candidate is current exactly while it is judged or delivered: no      *)
(* verdict ever misses it and no execution inherits it (workflow.rs:197-257). *)
THEOREM CandidateCorrect == AggregateSpec => []CandidateInv
<1>1. Sound(workflow) => CandidateInv
    BY DEF Sound, WorkflowInv, CandidateInv
<1> QED BY <1>1, AlwaysSound, PTL

(* Suspensions never nest and never lose the state they return to          *)
(* (workflow.rs:258-307).                                                  *)
THEOREM ReturnPointCorrect == AggregateSpec => []ReturnPointInv
<1>1. Sound(workflow) => ReturnPointInv
    BY DEF Sound, WorkflowInv, ReturnPointInv
<1> QED BY <1>1, AlwaysSound, PTL

(* The mode is fixed by routing and decides whether a candidate is         *)
(* reviewed (workflow.rs:187-193, 208-216).                                *)
THEOREM ModeCorrect == AggregateSpec => []ModeInv
<1>1. Sound(workflow) => ModeInv
    BY DEF Sound, WorkflowInv, ModeInv
<1> QED BY <1>1, AlwaysSound, PTL

(* All of this together, which the run checks on its instance: the record  *)
(* of a workflow is sound after every sequence of commands, for every set  *)
(* of candidates, every budget and every width (workflow.rs:183-375).      *)
THEOREM AggregateCorrect == AggregateSpec => []AggregateInv
BY AggregateTypeCorrect, BudgetCorrect, TargetCorrect, CandidateCorrect, ReturnPointCorrect,
   ModeCorrect, PTL DEF AggregateInv
-----------------------------------------------------------------------------
(* The two action properties: every command stays on an edge of its mode.  *)

PhaseStep(w, v) == Phase(v) # Phase(w) => <<Phase(w), Phase(v)>> \in PhaseEdge(v.mode)

BudgetStep(w, v) ==
    /\ v.repair_cycles - w.repair_cycles \in {0, 1}
    /\ v.max_repair_cycles # w.max_repair_cycles =>
           /\ Phase(w) = "Blocked"
           /\ v.max_repair_cycles > w.max_repair_cycles

\* A move between two states at work is in order when its edge is documented.
LEMMA MoveInOrder ==
    ASSUME NEW w, Sound(w), w.state \in Working,
           NEW s \in Working \union {"Completed"},
           <<w.state, s>> \in PhaseEdge(w.mode)
    PROVE  PhaseStep(w, MoveTo(w, s)) /\ BudgetStep(w, MoveTo(w, s))
<1>1. w \in WorkflowRecord /\ Phase(w) = w.state
    BY SoundAtWork
<1>2. s \in WorkflowState /\ s # "Paused" /\ s # "Blocked"
    BY DEF WorkflowState, Working, Terminal
<1>3. Phase(MoveTo(w, s)) = s
    BY <1>1, <1>2, MoveToRecord DEF Phase
<1>4. MoveTo(w, s).mode = w.mode
    BY <1>1, <1>2, MoveToRecord
<1>5. PhaseStep(w, MoveTo(w, s))
    BY <1>1, <1>3, <1>4 DEF PhaseStep
<1>6. w.repair_cycles \in Int
    BY <1>1, Fields, BudgetAssumption
<1>7. BudgetStep(w, MoveTo(w, s))
    BY <1>1, <1>2, <1>6, MoveToRecord DEF BudgetStep
<1> QED BY <1>5, <1>7

\* A suspension or a resume changes neither the phase nor the budget.
LEMMA SameBudget ==
    ASSUME NEW w, NEW v, w \in WorkflowRecord,
           v.repair_cycles = w.repair_cycles,
           v.max_repair_cycles = w.max_repair_cycles
    PROVE  BudgetStep(w, v)
BY Fields, BudgetAssumption DEF BudgetStep

LEMMA CompleteIntakeInOrder ==
    ASSUME NEW w, Sound(w), CanCompleteIntake(w)
    PROVE  PhaseStep(w, CompleteIntake(w)) /\ BudgetStep(w, CompleteIntake(w))
<1>1. <<"Intake", "Routing">> \in PhaseEdge(w.mode)
    BY DEF PhaseEdge
<1> QED BY <1>1, MoveInOrder DEF CanCompleteIntake, CompleteIntake, Working

LEMMA RouteInOrder ==
    ASSUME NEW w, Sound(w), CanRoute(w), NEW mode \in Mode
    PROVE  PhaseStep(w, Route(w, mode)) /\ BudgetStep(w, Route(w, mode))
<1> DEFINE s == IF mode = "Quick" THEN "QuickExecution" ELSE "Architecture"
           v == Route(w, mode)
<1>1. w.state = "Routing" /\ w \in WorkflowRecord /\ Phase(w) = "Routing"
    BY SoundAtWork DEF CanRoute, Working
<1>2. /\ v.state = s
      /\ v.mode = mode
      /\ v.repair_cycles = w.repair_cycles
      /\ v.max_repair_cycles = w.max_repair_cycles
    BY <1>1 DEF Route, WorkflowRecord
<1>3. Phase(v) = s
    BY <1>2 DEF Phase
<1>4. <<"Routing", s>> \in PhaseEdge(mode)
    BY DEF PhaseEdge
<1>5. PhaseStep(w, v)
    BY <1>1, <1>2, <1>3, <1>4 DEF PhaseStep
<1> QED BY <1>1, <1>2, <1>5, SameBudget

LEMMA ArchitectureAcceptedInOrder ==
    ASSUME NEW w, Sound(w), CanArchitectureAccepted(w)
    PROVE  PhaseStep(w, ArchitectureAccepted(w)) /\ BudgetStep(w, ArchitectureAccepted(w))
<1>1. <<"Architecture", "Execution">> \in PhaseEdge(w.mode)
    BY DEF PhaseEdge
<1> QED BY <1>1, MoveInOrder DEF CanArchitectureAccepted, ArchitectureAccepted, Working

LEMMA ReplanExecutionInOrder ==
    ASSUME NEW w, Sound(w), CanReplanExecution(w)
    PROVE  PhaseStep(w, ReplanExecution(w)) /\ BudgetStep(w, ReplanExecution(w))
<1>1. <<"Execution", "Architecture">> \in PhaseEdge(w.mode)
    BY DEF PhaseEdge
<1> QED BY <1>1, MoveInOrder DEF CanReplanExecution, ReplanExecution, Working

LEMMA CandidateReadyInOrder ==
    ASSUME NEW w, Sound(w), CanCandidateReady(w), NEW c \in Candidate
    PROVE  PhaseStep(w, CandidateReady(w, c)) /\ BudgetStep(w, CandidateReady(w, c))
<1> DEFINE v == CandidateReady(w, c)
<1>1. /\ w.state \in {"QuickExecution", "Execution"}
      /\ w \in WorkflowRecord
      /\ Phase(w) = w.state
      /\ AtWork(w)
    BY SoundAtWork DEF CanCandidateReady, Working
<1>2. /\ v.state = "Verification"
      /\ v.mode = w.mode
      /\ v.repair_cycles = w.repair_cycles
      /\ v.max_repair_cycles = w.max_repair_cycles
    BY <1>1 DEF CandidateReady, WorkflowRecord
<1>3. Phase(v) = "Verification"
    BY <1>2 DEF Phase
<1>4. CASE w.state = "QuickExecution"
  <2>1. w.mode = "Quick"
    BY <1>1, <1>4 DEF AtWork
  <2>2. <<"QuickExecution", "Verification">> \in PhaseEdge("Quick")
    BY DEF PhaseEdge
  <2>3. PhaseStep(w, v)
    BY <1>1, <1>2, <1>3, <1>4, <2>1, <2>2 DEF PhaseStep
  <2> QED BY <1>1, <1>2, <2>3, SameBudget
<1>5. CASE w.state = "Execution"
  <2>1. <<"Execution", "Verification">> \in PhaseEdge(w.mode)
    BY DEF PhaseEdge
  <2>2. PhaseStep(w, v)
    BY <1>1, <1>2, <1>3, <1>5, <2>1 DEF PhaseStep
  <2> QED BY <1>1, <1>2, <2>2, SameBudget
<1> QED BY <1>1, <1>4, <1>5

LEMMA VerificationPassedInOrder ==
    ASSUME NEW w, Sound(w), CanVerificationPassed(w)
    PROVE  PhaseStep(w, VerificationPassed(w)) /\ BudgetStep(w, VerificationPassed(w))
<1> DEFINE s == IF w.mode = "Quick" THEN "Arbitration" ELSE "IndependentReviews"
<1>1. w.state = "Verification"
    BY DEF CanVerificationPassed
<1>2. <<"Verification", s>> \in PhaseEdge(w.mode)
    BY DEF PhaseEdge
<1> QED BY <1>1, <1>2, MoveInOrder DEF VerificationPassed, Working

LEMMA ReviewsReadyInOrder ==
    ASSUME NEW w, Sound(w), CanReviewsReady(w)
    PROVE  PhaseStep(w, ReviewsReady(w)) /\ BudgetStep(w, ReviewsReady(w))
<1>1. w.state = "IndependentReviews" /\ w.mode = "Full"
    BY SoundAtWork DEF CanReviewsReady, Working, AtWork
<1>2. <<"IndependentReviews", "Arbitration">> \in PhaseEdge("Full")
    BY DEF PhaseEdge
<1> QED BY <1>1, <1>2, MoveInOrder DEF ReviewsReady, Working

LEMMA ApproveInOrder ==
    ASSUME NEW w, Sound(w), CanApprove(w)
    PROVE  PhaseStep(w, Approve(w)) /\ BudgetStep(w, Approve(w))
<1>1. <<"Arbitration", "Delivery">> \in PhaseEdge(w.mode)
    BY DEF PhaseEdge
<1> QED BY <1>1, MoveInOrder DEF CanApprove, Approve, Working

LEMMA DeliverInOrder ==
    ASSUME NEW w, Sound(w), CanDeliver(w)
    PROVE  PhaseStep(w, Deliver(w)) /\ BudgetStep(w, Deliver(w))
<1>1. <<"Delivery", "Completed">> \in PhaseEdge(w.mode)
    BY DEF PhaseEdge
<1> QED BY <1>1, MoveInOrder DEF CanDeliver, Deliver, Working

LEMMA RejectInOrder ==
    ASSUME NEW w, Sound(w), CanReject(w), NEW target \in RepairTarget
    PROVE  PhaseStep(w, Reject(w, target)) /\ BudgetStep(w, Reject(w, target))
<1> DEFINE s == IF w.repair_cycles + 1 >= w.max_repair_cycles THEN "Blocked" ELSE "Repair"
           v == Reject(w, target)
<1>1. /\ w.state \in {"Verification", "Arbitration"}
      /\ w \in WorkflowRecord
      /\ Phase(w) = w.state
      /\ w.infrastructure_blocked_from = None
    BY SoundAtWork DEF CanReject, Working, AtWork
<1>2. w.repair_cycles \in Int
    BY <1>1, Fields, BudgetAssumption
<1>3. /\ v.state = s
      /\ v.mode = w.mode
      /\ v.repair_cycles = w.repair_cycles + 1
      /\ v.max_repair_cycles = w.max_repair_cycles
      /\ v.infrastructure_blocked_from = None
    BY <1>1 DEF Reject, WorkflowRecord
<1>4. Phase(v) = s
    BY <1>3 DEF Phase
<1>5. <<w.state, s>> \in PhaseEdge(w.mode)
    BY <1>1 DEF PhaseEdge
<1>6. PhaseStep(w, v)
    BY <1>1, <1>3, <1>4, <1>5 DEF PhaseStep
<1>7. BudgetStep(w, v)
    BY <1>2, <1>3 DEF BudgetStep
<1> QED BY <1>6, <1>7

LEMMA BeginRepairInOrder ==
    ASSUME NEW w, Sound(w), CanBeginRepair(w)
    PROVE  PhaseStep(w, BeginRepair(w)) /\ BudgetStep(w, BeginRepair(w))
<1> DEFINE v == BeginRepair(w)
<1>1. /\ w.state = "Repair"
      /\ w \in WorkflowRecord
      /\ Phase(w) = "Repair"
      /\ w.repair_target \in RepairTarget
    BY SoundAtWork, Fields DEF CanBeginRepair, Working
<1>2. /\ v.state = w.repair_target
      /\ v.mode = w.mode
      /\ v.repair_cycles = w.repair_cycles
      /\ v.max_repair_cycles = w.max_repair_cycles
    BY <1>1 DEF BeginRepair, WorkflowRecord
<1>3. Phase(v) = w.repair_target
    BY <1>1, <1>2 DEF Phase, RepairTarget
<1>4. <<"Repair", w.repair_target>> \in PhaseEdge(w.mode)
    BY <1>1 DEF PhaseEdge
<1>5. PhaseStep(w, v)
    BY <1>1, <1>2, <1>3, <1>4 DEF PhaseStep
<1> QED BY <1>1, <1>2, <1>5, SameBudget

LEMMA CancelInOrder ==
    ASSUME NEW w, Sound(w), CanCancel(w)
    PROVE  PhaseStep(w, Cancel(w)) /\ BudgetStep(w, Cancel(w))
<1> DEFINE v == Cancel(w)
<1>1. w \in WorkflowRecord /\ ReturnPoint(w)
    BY DEF Sound, WorkflowInv
<1>2. /\ v.state = "Cancelled"
      /\ v.mode = w.mode
      /\ v.repair_cycles = w.repair_cycles
      /\ v.max_repair_cycles = w.max_repair_cycles
    BY <1>1 DEF Cancel, WorkflowRecord
<1>3. Phase(v) = "Cancelled"
    BY <1>2 DEF Phase
<1>4. w.state \in Working \union {"Paused", "Blocked"}
    BY <1>1, Fields DEF CanCancel, WorkflowState, Suspended
<1>5. Phase(w) \in Working \union {"Blocked"}
    BY <1>1, <1>4 DEF Phase, ReturnPoint, Pausable
<1>6. <<Phase(w), "Cancelled">> \in PhaseEdge(w.mode)
    BY <1>5 DEF PhaseEdge
<1>7. PhaseStep(w, v)
    BY <1>2, <1>3, <1>6 DEF PhaseStep
<1> QED BY <1>1, <1>2, <1>7, SameBudget

LEMMA SuspensionInOrder ==
    ASSUME NEW w, Sound(w)
    PROVE  /\ CanPause(w) => PhaseStep(w, Pause(w)) /\ BudgetStep(w, Pause(w))
           /\ CanResume(w) => PhaseStep(w, Resume(w)) /\ BudgetStep(w, Resume(w))
           /\ CanBlockInfrastructure(w) =>
                  /\ PhaseStep(w, BlockInfrastructure(w))
                  /\ BudgetStep(w, BlockInfrastructure(w))
           /\ CanResumeInfrastructure(w) =>
                  /\ PhaseStep(w, ResumeInfrastructure(w))
                  /\ BudgetStep(w, ResumeInfrastructure(w))
<1>1. w \in WorkflowRecord
    BY DEF Sound
<1>2. /\ Pause(w).repair_cycles = w.repair_cycles
      /\ Pause(w).max_repair_cycles = w.max_repair_cycles
      /\ Resume(w).repair_cycles = w.repair_cycles
      /\ Resume(w).max_repair_cycles = w.max_repair_cycles
    BY <1>1 DEF Pause, Resume, WorkflowRecord
<1>3. /\ BlockInfrastructure(w).repair_cycles = w.repair_cycles
      /\ BlockInfrastructure(w).max_repair_cycles = w.max_repair_cycles
      /\ ResumeInfrastructure(w).repair_cycles = w.repair_cycles
      /\ ResumeInfrastructure(w).max_repair_cycles = w.max_repair_cycles
    BY <1>1 DEF BlockInfrastructure, ResumeInfrastructure, WorkflowRecord
<1>4. CanPause(w) => PhaseStep(w, Pause(w)) /\ BudgetStep(w, Pause(w))
    BY <1>1, <1>2, PauseSound, SameBudget DEF PhaseStep
<1>5. CanResume(w) => PhaseStep(w, Resume(w)) /\ BudgetStep(w, Resume(w))
    BY <1>1, <1>2, ResumeSound, SameBudget DEF PhaseStep
<1>6. CanBlockInfrastructure(w) =>
          PhaseStep(w, BlockInfrastructure(w)) /\ BudgetStep(w, BlockInfrastructure(w))
    BY <1>1, <1>3, BlockInfrastructureSound, SameBudget DEF PhaseStep
<1>7. CanResumeInfrastructure(w) =>
          PhaseStep(w, ResumeInfrastructure(w)) /\ BudgetStep(w, ResumeInfrastructure(w))
    BY <1>1, <1>3, ResumeInfrastructureSound, SameBudget DEF PhaseStep
<1> QED BY <1>4, <1>5, <1>6, <1>7

LEMMA ResumeBlockedInOrder ==
    ASSUME NEW w, Sound(w), NEW additional \in 0..U8Max, CanResumeBlocked(w, additional)
    PROVE  /\ PhaseStep(w, ResumeBlocked(w, additional))
           /\ BudgetStep(w, ResumeBlocked(w, additional))
<1> DEFINE v == ResumeBlocked(w, additional)
<1>1. w \in WorkflowRecord /\ Phase(w) = "Blocked" /\ additional \in 1..U8Max
    BY BudgetAssumption DEF CanResumeBlocked, Sound, Phase
<1>2. w.repair_cycles \in Int /\ w.max_repair_cycles \in Int
    BY <1>1, Fields, BudgetAssumption
<1>3. /\ v.state = "Repair"
      /\ v.mode = w.mode
      /\ v.repair_cycles = w.repair_cycles
      /\ v.max_repair_cycles = w.max_repair_cycles + additional
    BY <1>1 DEF ResumeBlocked, WorkflowRecord
<1>4. Phase(v) = "Repair"
    BY <1>3 DEF Phase
<1>5. <<"Blocked", "Repair">> \in PhaseEdge(w.mode)
    BY DEF PhaseEdge
<1>6. PhaseStep(w, v)
    BY <1>1, <1>3, <1>4, <1>5 DEF PhaseStep
<1>7. BudgetStep(w, v)
    BY <1>1, <1>2, <1>3, BudgetAssumption DEF BudgetStep
<1> QED BY <1>6, <1>7

LEMMA StepInOrder ==
    Sound(workflow) /\ AggregateNext => PhaseStep(workflow, workflow') /\ BudgetStep(workflow, workflow')
<1> DEFINE Goal == PhaseStep(workflow, workflow') /\ BudgetStep(workflow, workflow')
<1> SUFFICES ASSUME Sound(workflow), AggregateNext PROVE Goal
    OBVIOUS
<1>1. CASE DoCompleteIntake
    BY <1>1, CompleteIntakeInOrder DEF DoCompleteIntake
<1>2. ASSUME NEW mode \in Mode, DoRoute(mode) PROVE Goal
    BY <1>2, RouteInOrder DEF DoRoute
<1>3. CASE DoArchitectureAccepted
    BY <1>3, ArchitectureAcceptedInOrder DEF DoArchitectureAccepted
<1>4. CASE DoReplanExecution
    BY <1>4, ReplanExecutionInOrder DEF DoReplanExecution
<1>5. ASSUME NEW c \in Candidate, DoCandidateReady(c) PROVE Goal
    BY <1>5, CandidateReadyInOrder DEF DoCandidateReady
<1>6. CASE DoVerificationPassed
    BY <1>6, VerificationPassedInOrder DEF DoVerificationPassed
<1>7. CASE DoReviewsReady
    BY <1>7, ReviewsReadyInOrder DEF DoReviewsReady
<1>8. CASE DoApprove
    BY <1>8, ApproveInOrder DEF DoApprove
<1>9. CASE DoDeliver
    BY <1>9, DeliverInOrder DEF DoDeliver
<1>10. ASSUME NEW target \in RepairTarget, DoReject(target) PROVE Goal
    BY <1>10, RejectInOrder DEF DoReject
<1>11. CASE DoBeginRepair
    BY <1>11, BeginRepairInOrder DEF DoBeginRepair
<1>12. CASE DoPause
    BY <1>12, SuspensionInOrder DEF DoPause
<1>13. CASE DoResume
    BY <1>13, SuspensionInOrder DEF DoResume
<1>14. CASE DoCancel
    BY <1>14, CancelInOrder DEF DoCancel
<1>15. CASE DoBlockInfrastructure
    BY <1>15, SuspensionInOrder DEF DoBlockInfrastructure
<1>16. CASE DoResumeInfrastructure
    BY <1>16, SuspensionInOrder DEF DoResumeInfrastructure
<1>17. ASSUME NEW additional \in 0..U8Max, DoResumeBlocked(additional) PROVE Goal
    BY <1>17, ResumeBlockedInOrder DEF DoResumeBlocked
<1> QED BY <1>1, <1>2, <1>3, <1>4, <1>5, <1>6, <1>7, <1>8, <1>9, <1>10, <1>11, <1>12,
           <1>13, <1>14, <1>15, <1>16, <1>17 DEF AggregateNext

(* The work moves only along the documented edges of its mode; pausing,    *)
(* blocking on infrastructure and resuming never move it, and what ended   *)
(* never restarts (workflow.rs:183-312).                                   *)
THEOREM OrderCorrect == AggregateSpec => PhasesInOrder
<1>1. Sound(workflow) /\ [AggregateNext]_workflow =>
          [Phase(workflow') # Phase(workflow) =>
              <<Phase(workflow), Phase(workflow')>> \in PhaseEdge(workflow'.mode)]_workflow
    BY StepInOrder DEF PhaseStep
<1> QED BY <1>1, AlwaysSound, PTL DEF AggregateSpec, PhasesInOrder

(* Cycles are spent one at a time and never refunded, and only a workflow  *)
(* that has spent its budget gets a larger one (workflow.rs:276-293).      *)
THEOREM ExtensionCorrect == AggregateSpec => BudgetOnlyExtendedWhenSpent
<1>1. Sound(workflow) /\ [AggregateNext]_workflow =>
          [/\ workflow'.repair_cycles - workflow.repair_cycles \in {0, 1}
           /\ workflow'.max_repair_cycles # workflow.max_repair_cycles =>
                  /\ Phase(workflow) = "Blocked"
                  /\ workflow'.max_repair_cycles > workflow.max_repair_cycles]_workflow
    BY StepInOrder DEF BudgetStep
<1> QED BY <1>1, AlwaysSound, PTL DEF AggregateSpec, BudgetOnlyExtendedWhenSpent

-----------------------------------------------------------------------------
(* What a handler applies is a command of the aggregate.                   *)
LEMMA Commands ==
    ASSUME NEW w, Sound(w)
    PROVE  /\ CanCompleteIntake(w) => Sound(CompleteIntake(w))
           /\ \A mode \in Modes : CanRoute(w) => Sound(Route(w, mode))
           /\ CanArchitectureAccepted(w) => Sound(ArchitectureAccepted(w))
           /\ CanReplanExecution(w) => Sound(ReplanExecution(w))
           /\ \A c \in Candidate : CanCandidateReady(w) => Sound(CandidateReady(w, c))
           /\ CanVerificationPassed(w) => Sound(VerificationPassed(w))
           /\ CanReviewsReady(w) => Sound(ReviewsReady(w))
           /\ CanApprove(w) => Sound(Approve(w))
           /\ CanDeliver(w) => Sound(Deliver(w))
           /\ \A t \in RepairTarget : CanReject(w) => Sound(Reject(w, t))
           /\ CanBeginRepair(w) => Sound(BeginRepair(w))
           /\ CanCancel(w) => Sound(Cancel(w))
           /\ CanResumeBlocked(w, AdditionalCycles) => Sound(ResumeBlocked(w, AdditionalCycles))
<1>1. Modes \subseteq Mode /\ AdditionalCycles \in 0..U8Max
    BY LifecycleAssumption, BudgetAssumption
<1>2. /\ CanCompleteIntake(w) => Sound(CompleteIntake(w))
      /\ \A mode \in Modes : CanRoute(w) => Sound(Route(w, mode))
      /\ CanArchitectureAccepted(w) => Sound(ArchitectureAccepted(w))
      /\ CanReplanExecution(w) => Sound(ReplanExecution(w))
      /\ \A c \in Candidate : CanCandidateReady(w) => Sound(CandidateReady(w, c))
      /\ CanVerificationPassed(w) => Sound(VerificationPassed(w))
    BY <1>1, CompleteIntakeSound, RouteSound, ArchitectureAcceptedSound, ReplanExecutionSound,
       CandidateReadySound, VerificationPassedSound
<1>3. /\ CanReviewsReady(w) => Sound(ReviewsReady(w))
      /\ CanApprove(w) => Sound(Approve(w))
      /\ CanDeliver(w) => Sound(Deliver(w))
      /\ \A t \in RepairTarget : CanReject(w) => Sound(Reject(w, t))
      /\ CanBeginRepair(w) => Sound(BeginRepair(w))
      /\ CanCancel(w) => Sound(Cancel(w))
      /\ CanResumeBlocked(w, AdditionalCycles) => Sound(ResumeBlocked(w, AdditionalCycles))
    BY <1>1, ReviewsReadySound, ApproveSound, DeliverSound, RejectSound, BeginRepairSound,
       CancelSound, ResumeBlockedSound
<1> QED BY <1>2, <1>3

(* Suspending and resuming keep the phase.                                 *)
LEMMA Suspensions ==
    ASSUME NEW w, Sound(w)
    PROVE  /\ CanPause(w) => Sound(Pause(w)) /\ Phase(Pause(w)) = Phase(w)
           /\ CanResume(w) => Sound(Resume(w)) /\ Phase(Resume(w)) = Phase(w)
           /\ CanBlockInfrastructure(w) =>
                Sound(BlockInfrastructure(w)) /\ Phase(BlockInfrastructure(w)) = Phase(w)
           /\ CanResumeInfrastructure(w) =>
                Sound(ResumeInfrastructure(w)) /\ Phase(ResumeInfrastructure(w)) = Phase(w)
BY PauseSound, ResumeSound, BlockInfrastructureSound, ResumeInfrastructureSound

-----------------------------------------------------------------------------
(* What a command does to the work.  A calm one judges nothing: it leaves  *)
(* the candidate and the budget alone, and enters no phase that a verdict  *)
(* has to open, except that quick work is not reviewed.                    *)
Early == {"Intake", "Routing", "QuickExecution", "Architecture", "Execution"}

Calm(w, v) ==
    /\ v.current_candidate = w.current_candidate
    /\ v.repair_cycles = w.repair_cycles
    /\ \/ Phase(v) = Phase(w) /\ v.mode = w.mode
       \/ Phase(v) = "Cancelled" /\ Phase(w) # "Completed"
       \/ Phase(w) \in Early /\ Phase(v) \in Early
       \/ Phase(w) = "Blocked" /\ Phase(v) = "Repair" /\ v.mode = w.mode
       \/ /\ Phase(w) = "Verification" /\ v.mode = w.mode
          /\ Phase(v) = IF w.mode = "Quick" THEN "Arbitration" ELSE "IndependentReviews"

LEMMA PhaseOfWork ==
    ASSUME NEW w, w.state \notin Suspended
    PROVE  Phase(w) = w.state
BY DEF Phase, Suspended

LEMMA CalmEarly ==
    ASSUME NEW w, Sound(w)
    PROVE  /\ CanCompleteIntake(w) => Calm(w, CompleteIntake(w))
           /\ \A mode \in Modes : CanRoute(w) => Calm(w, Route(w, mode))
           /\ CanArchitectureAccepted(w) => Calm(w, ArchitectureAccepted(w))
           /\ CanReplanExecution(w) => Calm(w, ReplanExecution(w))
           /\ CanVerificationPassed(w) => Calm(w, VerificationPassed(w))
<1>1. w \in WorkflowRecord
    BY DEF Sound
<1>2. CanCompleteIntake(w) => Calm(w, CompleteIntake(w))
    BY <1>1, PhaseOfWork DEF CanCompleteIntake, CompleteIntake, MoveTo, WorkflowRecord,
                             Calm, Early, Suspended
<1>3. ASSUME NEW mode \in Modes, CanRoute(w)
      PROVE  Calm(w, Route(w, mode))
    <2> DEFINE v == Route(w, mode)
    <2>1. /\ v.current_candidate = w.current_candidate
          /\ v.repair_cycles = w.repair_cycles
          /\ v.state \in {"QuickExecution", "Architecture"}
          /\ w.state = "Routing"
        BY <1>1, <1>3 DEF CanRoute, Route, WorkflowRecord
    <2> HIDE DEF v
    <2>2. Phase(v) = v.state /\ Phase(w) = w.state
        BY <2>1, PhaseOfWork DEF Suspended
    <2>3. Calm(w, v)
        BY <2>1, <2>2 DEF Calm, Early
    <2> QED BY <2>3 DEF v
<1>4. CanArchitectureAccepted(w) => Calm(w, ArchitectureAccepted(w))
    BY <1>1, PhaseOfWork DEF CanArchitectureAccepted, ArchitectureAccepted, MoveTo,
                             WorkflowRecord, Calm, Early, Suspended
<1>5. CanReplanExecution(w) => Calm(w, ReplanExecution(w))
    BY <1>1, PhaseOfWork DEF CanReplanExecution, ReplanExecution, MoveTo,
                             WorkflowRecord, Calm, Early, Suspended
<1>6. CanVerificationPassed(w) => Calm(w, VerificationPassed(w))
    BY <1>1, PhaseOfWork DEF CanVerificationPassed, VerificationPassed, MoveTo,
                             WorkflowRecord, Calm, Suspended
<1> QED BY <1>2, <1>3, <1>4, <1>5, <1>6

LEMMA CalmSuspension ==
    ASSUME NEW w, Sound(w)
    PROVE  /\ CanPause(w) => Calm(w, Pause(w))
           /\ CanResume(w) => Calm(w, Resume(w))
           /\ CanBlockInfrastructure(w) => Calm(w, BlockInfrastructure(w))
           /\ CanResumeInfrastructure(w) => Calm(w, ResumeInfrastructure(w))
           /\ CanCancel(w) => Calm(w, Cancel(w))
           /\ CanResumeBlocked(w, AdditionalCycles)
                => Calm(w, ResumeBlocked(w, AdditionalCycles))
<1>1. w \in WorkflowRecord
    BY DEF Sound
<1>2. CanPause(w) => Calm(w, Pause(w))
    BY <1>1, Suspensions DEF Pause, WorkflowRecord, Calm
<1>3. CanResume(w) => Calm(w, Resume(w))
    BY <1>1, Suspensions DEF Resume, WorkflowRecord, Calm
<1>4. CanBlockInfrastructure(w) => Calm(w, BlockInfrastructure(w))
    BY <1>1, Suspensions DEF BlockInfrastructure, WorkflowRecord, Calm
<1>5. CanResumeInfrastructure(w) => Calm(w, ResumeInfrastructure(w))
    BY <1>1, Suspensions DEF ResumeInfrastructure, WorkflowRecord, Calm
<1>6. ASSUME CanCancel(w)
      PROVE  Calm(w, Cancel(w))
    <2>1. Phase(w) # "Completed"
        BY <1>6 DEF CanCancel, Terminal, Phase, Sound, WorkflowInv, ReturnPoint,
                    Pausable, Working
    <2> QED BY <1>1, <2>1, PhaseOfWork DEF Cancel, WorkflowRecord, Calm, Suspended
<1>7. ASSUME CanResumeBlocked(w, AdditionalCycles)
      PROVE  Calm(w, ResumeBlocked(w, AdditionalCycles))
    <2>1. Phase(w) = "Blocked"
        BY <1>7 DEF CanResumeBlocked, Phase
    <2> QED BY <1>1, <2>1, PhaseOfWork DEF ResumeBlocked, WorkflowRecord, Calm, Suspended
<1> QED BY <1>2, <1>3, <1>4, <1>5, <1>6, <1>7

-----------------------------------------------------------------------------
(* The inductive invariant, part one: what the store holds.  Proposing a   *)
(* candidate uses up its key, so it is judged once; and what was judged is *)
(* current until a repair begins, or for good.                             *)
Proposed(c) == <<"candidate", c>> \in applied
Opened(c) == <<"reviews-ready", c>> \in applied
Reviewed(c) == \E r \in Role : reviews[c][r] # None

StoreInv ==
    /\ Sound(workflow)
    /\ Current # None => Proposed(Current)
    /\ \A c \in RejectedCandidates \union ApprovedCandidates : Proposed(c)
    /\ IsFiniteSet(RejectedCandidates) /\ BudgetCountsRejections
    /\ RejectedIsFinal
    /\ CurrentPhase \in {"Repair", "Blocked"} => Current \in RejectedCandidates
    /\ \A c \in ApprovedCandidates :
         c = Current /\ CurrentPhase \in {"Delivery", "Completed", "Cancelled"}
    /\ CurrentPhase \in {"Delivery", "Completed"} => Current \in ApprovedCandidates
    /\ \A c \in DeliveredCandidates : c = Current /\ CurrentPhase = "Completed"
    /\ \A c \in Candidate : Reviewed(c) /\ ~Opened(c) =>
         c = Current /\ CurrentPhase \in {"IndependentReviews", "Cancelled"}
    /\ ReviewsBeforeVerdict
    /\ OnlyArbiterApproves
    /\ ReservationIsCurrent

LEMMA PhaseNext == CurrentPhase' = Phase(workflow')
BY DEF CurrentPhase, Phase

NoJudgement ==
    /\ RejectedCandidates' = RejectedCandidates
    /\ ApprovedCandidates' = ApprovedCandidates
    /\ DeliveredCandidates' = DeliveredCandidates
    /\ \A c : (Proposed(c) => Proposed(c)') /\ (Opened(c) => Opened(c)')

LEMMA SameKeys ==
    ASSUME UNCHANGED applied
    PROVE  NoJudgement
BY DEF NoJudgement, RejectedCandidates, ApprovedCandidates, DeliveredCandidates, Proposed, Opened

(* The keys of the steps that do not judge.                                *)
LEMMA OtherKeys ==
    ASSUME \/ applied' = applied \union {<<"complete-intake">>}
           \/ applied' = applied \union {<<"route">>}
           \/ \E p : applied' = applied \union {<<"architecture-accepted", p>>}
           \/ \E kind \in {"candidate", "verification-passed", "verification-blocked",
                            "reviews-ready"} : \E c :
                 applied' = applied \union {<<kind, c>>}
           \/ \E c, n : applied' = applied \union {<<"begin-repair", c, n>>}
    PROVE  NoJudgement
BY DEF NoJudgement, RejectedCandidates, ApprovedCandidates, DeliveredCandidates, Proposed, Opened

LEMMA CalmStep ==
    ASSUME StoreInv, NoJudgement, Sound(workflow'), Calm(workflow, workflow'),
           UNCHANGED <<reviews, arbitration, reservation>>,
           reservation = None \/ workflow' = workflow
    PROVE  StoreInv'
<1>1. /\ Current' = Current
      /\ workflow'.repair_cycles = workflow.repair_cycles
      /\ \/ CurrentPhase' = CurrentPhase /\ workflow'.mode = workflow.mode
         \/ CurrentPhase' = "Cancelled" /\ CurrentPhase # "Completed"
         \/ CurrentPhase \in Early /\ CurrentPhase' \in Early
         \/ CurrentPhase = "Blocked" /\ CurrentPhase' = "Repair" /\ workflow'.mode = workflow.mode
         \/ /\ CurrentPhase = "Verification" /\ workflow'.mode = workflow.mode
            /\ CurrentPhase' = IF workflow.mode = "Quick" THEN "Arbitration" ELSE "IndependentReviews"
    BY PhaseNext DEF Calm, CurrentPhase, Current
<1>2. Sound(workflow)'
    BY DEF Sound
<1>3. (Current # None => Proposed(Current))'
    BY <1>1 DEF StoreInv, NoJudgement
<1>4. (\A c \in RejectedCandidates \union ApprovedCandidates : Proposed(c))'
    BY DEF StoreInv, NoJudgement
<1>5. (IsFiniteSet(RejectedCandidates) /\ BudgetCountsRejections)'
    BY <1>1 DEF StoreInv, NoJudgement, BudgetCountsRejections
<1>6. RejectedIsFinal'
    BY <1>1 DEF StoreInv, NoJudgement, RejectedIsFinal, Early
<1>7. (CurrentPhase \in {"Repair", "Blocked"} => Current \in RejectedCandidates)'
    BY <1>1 DEF StoreInv, NoJudgement, Early
<1>8. (\A c \in ApprovedCandidates :
         c = Current /\ CurrentPhase \in {"Delivery", "Completed", "Cancelled"})'
    BY <1>1 DEF StoreInv, NoJudgement, Early
<1>9. (CurrentPhase \in {"Delivery", "Completed"} => Current \in ApprovedCandidates)'
    BY <1>1 DEF StoreInv, NoJudgement, Early
<1>10. (\A c \in DeliveredCandidates : c = Current /\ CurrentPhase = "Completed")'
    BY <1>1 DEF StoreInv, NoJudgement, Early
<1>11. (\A c \in Candidate : Reviewed(c) /\ ~Opened(c) =>
          c = Current /\ CurrentPhase \in {"IndependentReviews", "Cancelled"})'
    BY <1>1 DEF StoreInv, NoJudgement, Reviewed, Early
<1>12. ReviewsBeforeVerdict'
    BY <1>1 DEF StoreInv, ReviewsBeforeVerdict, BothReviewed, BothApproved, Early
<1>13. OnlyArbiterApproves'
    BY <1>1 DEF StoreInv, OnlyArbiterApproves, Early
<1>14. ReservationIsCurrent'
    BY <1>1 DEF StoreInv, ReservationIsCurrent
<1> QED BY <1>2, <1>3, <1>4, <1>5, <1>6, <1>7, <1>8, <1>9, <1>10, <1>11, <1>12, <1>13, <1>14
        DEF StoreInv

-----------------------------------------------------------------------------
(* The steps that judge, or that open or end a judgement: first what each   *)
(* does to the work and the keys, then that it keeps the invariant.        *)
Judges(keys, phases) ==
    /\ Sound(workflow')
    /\ workflow'.mode = workflow.mode
    /\ CurrentPhase' \in phases
    /\ applied' = applied \union keys
    /\ UNCHANGED <<reviews, arbitration>>
    /\ reservation' = None

LEMMA NewCandidate ==
    ASSUME StoreInv, reservation = None, NEW c \in Candidate, ~Proposed(c),
           CanCandidateReady(workflow), workflow' = CandidateReady(workflow, c),
           applied' = applied \union {<<"candidate", c>>},
           UNCHANGED <<reviews, arbitration, reservation>>
    PROVE  /\ Judges({<<"candidate", c>>}, {"Verification"}) /\ NoJudgement
           /\ CurrentPhase \in {"QuickExecution", "Execution"} /\ Current = None /\ Current' = c
           /\ workflow'.repair_cycles = workflow.repair_cycles
<1>1. Sound(workflow) /\ workflow \in WorkflowRecord
    BY DEF StoreInv, Sound
<1>2. Sound(workflow')
    BY <1>1, Commands
<1>3. /\ workflow'.state = "Verification" /\ workflow'.current_candidate = c
      /\ workflow'.mode = workflow.mode
      /\ workflow'.repair_cycles = workflow.repair_cycles
    BY <1>1 DEF CandidateReady, WorkflowRecord
<1>4. CurrentPhase' = "Verification"
    BY <1>3, PhaseNext, PhaseOfWork DEF Suspended
<1>5. CurrentPhase \in {"QuickExecution", "Execution"}
    BY PhaseOfWork DEF CanCandidateReady, Suspended, CurrentPhase
<1>6. Current = None
    BY <1>1, <1>5 DEF Sound, WorkflowInv, CandidateWhileJudged, JudgingPhase, CurrentPhase, Current
<1>7. NoJudgement
    BY OtherKeys
<1> QED BY <1>2, <1>3, <1>4, <1>5, <1>6, <1>7 DEF Judges, Current

LEMMA ProposeStep ==
    ASSUME StoreInv, reservation = None, NEW c \in Candidate, ~Proposed(c),
           CanCandidateReady(workflow), workflow' = CandidateReady(workflow, c),
           applied' = applied \union {<<"candidate", c>>},
           UNCHANGED <<reviews, arbitration, reservation>>
    PROVE  StoreInv'
<1>1. /\ Judges({<<"candidate", c>>}, {"Verification"}) /\ NoJudgement
      /\ CurrentPhase \in {"QuickExecution", "Execution"} /\ Current = None /\ Current' = c
      /\ workflow'.repair_cycles = workflow.repair_cycles
    BY NewCandidate
<1>2. CurrentPhase' = "Verification" /\ Sound(workflow)' /\ reservation' = None
    BY <1>1 DEF Judges, Sound
<1>3. (Current # None => Proposed(Current))'
    BY <1>1 DEF Proposed
<1>4. (\A d \in RejectedCandidates \union ApprovedCandidates : Proposed(d))'
    BY <1>1 DEF StoreInv, NoJudgement
<1>5. (IsFiniteSet(RejectedCandidates) /\ BudgetCountsRejections)'
    BY <1>1 DEF StoreInv, NoJudgement, BudgetCountsRejections
<1>6. RejectedIsFinal'
    BY <1>1 DEF StoreInv, NoJudgement, RejectedIsFinal
<1>7. (\A d \in ApprovedCandidates :
         d = Current /\ CurrentPhase \in {"Delivery", "Completed", "Cancelled"})'
    BY <1>1 DEF StoreInv, NoJudgement
<1>8. (\A d \in DeliveredCandidates : d = Current /\ CurrentPhase = "Completed")'
    BY <1>1 DEF StoreInv, NoJudgement
<1>9. (\A d \in Candidate : Reviewed(d) /\ ~Opened(d) =>
          d = Current /\ CurrentPhase \in {"IndependentReviews", "Cancelled"})'
    BY <1>1 DEF StoreInv, NoJudgement, Reviewed
<1>10. (ReviewsBeforeVerdict /\ OnlyArbiterApproves /\ ReservationIsCurrent)'
    BY <1>2 DEF ReviewsBeforeVerdict, OnlyArbiterApproves, ReservationIsCurrent
<1> QED BY <1>2, <1>3, <1>4, <1>5, <1>6, <1>7, <1>8, <1>9, <1>10 DEF StoreInv

LEMMA Rejection ==
    ASSUME StoreInv, reservation = None, NEW target \in RepairTarget, Current \in Candidate,
           CanReject(workflow), workflow' = Reject(workflow, target),
           applied' = applied \union {<<"reject", Current, target>>},
           UNCHANGED <<reviews, arbitration, reservation>>
    PROVE  /\ Judges({<<"reject", Current, target>>}, {"Repair", "Blocked"})
           /\ CurrentPhase \in {"Verification", "Arbitration"} /\ Current' = Current
           /\ workflow'.repair_cycles = workflow.repair_cycles + 1
           /\ RejectedCandidates' = RejectedCandidates \union {Current}
           /\ Current \notin RejectedCandidates
           /\ ApprovedCandidates' = {} /\ ApprovedCandidates = {}
           /\ DeliveredCandidates' = {} /\ DeliveredCandidates = {}
<1>1. Sound(workflow) /\ workflow \in WorkflowRecord
    BY DEF StoreInv, Sound
<1>2. Sound(workflow')
    BY <1>1, Commands
<1>3. /\ workflow'.state \in {"Repair", "Blocked"}
      /\ workflow'.current_candidate = workflow.current_candidate
      /\ workflow'.mode = workflow.mode
      /\ workflow'.repair_cycles = workflow.repair_cycles + 1
      /\ workflow'.infrastructure_blocked_from = workflow.infrastructure_blocked_from
    BY <1>1 DEF Reject, WorkflowRecord
<1>4. workflow.state \in {"Verification", "Arbitration"}
    BY DEF CanReject
<1>5. workflow.infrastructure_blocked_from = None
    BY <1>1, <1>4 DEF Sound, WorkflowInv, ReturnPoint
<1>6. CurrentPhase' \in {"Repair", "Blocked"}
    BY <1>3, <1>5, PhaseNext DEF Phase
<1>7. CurrentPhase \in {"Verification", "Arbitration"}
    BY <1>4, PhaseOfWork DEF Suspended, CurrentPhase
<1>8. Current \notin RejectedCandidates /\ ApprovedCandidates = {} /\ DeliveredCandidates = {}
    BY <1>7 DEF StoreInv, RejectedIsFinal
<1>9. /\ RejectedCandidates' = RejectedCandidates \union {Current}
      /\ ApprovedCandidates' = ApprovedCandidates
      /\ DeliveredCandidates' = DeliveredCandidates
    BY DEF RejectedCandidates, ApprovedCandidates, DeliveredCandidates
<1> QED BY <1>2, <1>3, <1>6, <1>7, <1>8, <1>9 DEF Judges, Current

LEMMA RejectStep ==
    ASSUME StoreInv, reservation = None, NEW target \in RepairTarget, Current \in Candidate,
           CanReject(workflow), workflow' = Reject(workflow, target),
           applied' = applied \union {<<"reject", Current, target>>},
           UNCHANGED <<reviews, arbitration, reservation>>
    PROVE  StoreInv'
<1>1. /\ Judges({<<"reject", Current, target>>}, {"Repair", "Blocked"})
      /\ CurrentPhase \in {"Verification", "Arbitration"} /\ Current' = Current
      /\ workflow'.repair_cycles = workflow.repair_cycles + 1
      /\ RejectedCandidates' = RejectedCandidates \union {Current}
      /\ Current \notin RejectedCandidates
      /\ ApprovedCandidates' = {} /\ DeliveredCandidates' = {}
    BY Rejection
<1>2. /\ CurrentPhase' \in {"Repair", "Blocked"} /\ Sound(workflow)' /\ reservation' = None
      /\ \A d : (Proposed(d) => Proposed(d)') /\ (Opened(d) => Opened(d)')
    BY <1>1 DEF Judges, Sound, Proposed, Opened
<1>3. Current # None /\ Proposed(Current)
    BY NoneAssumption DEF StoreInv
<1>4. (Current # None => Proposed(Current))'
    BY <1>1, <1>2, <1>3
<1>5. (\A d \in RejectedCandidates \union ApprovedCandidates : Proposed(d))'
    BY <1>1, <1>2, <1>3 DEF StoreInv
<1>6. (IsFiniteSet(RejectedCandidates) /\ BudgetCountsRejections)'
    <2>1. IsFiniteSet(RejectedCandidates)
        BY DEF StoreInv
    <2>2. /\ IsFiniteSet(RejectedCandidates \union {Current})
          /\ Cardinality(RejectedCandidates \union {Current})
               = Cardinality(RejectedCandidates) + 1
        BY <1>1, <2>1, FS_AddElement
    <2> QED BY <1>1, <2>2 DEF StoreInv, BudgetCountsRejections
<1>7. RejectedIsFinal'
    BY <1>2 DEF RejectedIsFinal
<1>8. (\A d \in Candidate : Reviewed(d) /\ ~Opened(d) =>
          d = Current /\ CurrentPhase \in {"IndependentReviews", "Cancelled"})'
    BY <1>1, <1>2 DEF StoreInv, Reviewed, Judges
<1>9. (ReviewsBeforeVerdict /\ OnlyArbiterApproves /\ ReservationIsCurrent)'
    BY <1>2 DEF ReviewsBeforeVerdict, OnlyArbiterApproves, ReservationIsCurrent
<1> QED BY <1>1, <1>2, <1>4, <1>5, <1>6, <1>7, <1>8, <1>9 DEF StoreInv

(* A repair begins: the candidate that was rejected is set aside.          *)
LEMMA SettingAside ==
    ASSUME StoreInv, reservation = None, NoJudgement,
           CanBeginRepair(workflow), workflow' = BeginRepair(workflow),
           UNCHANGED <<reviews, arbitration, reservation>>
    PROVE  /\ Sound(workflow') /\ workflow'.mode = workflow.mode
           /\ CurrentPhase = "Repair" /\ CurrentPhase' \in {"Execution", "Architecture"}
           /\ Current \in RejectedCandidates /\ Current' = None
           /\ workflow'.repair_cycles = workflow.repair_cycles
<1>1. Sound(workflow) /\ workflow \in WorkflowRecord
    BY DEF StoreInv, Sound
<1>2. Sound(workflow')
    BY <1>1, Commands
<1>3. /\ workflow'.state = workflow.repair_target /\ workflow'.current_candidate = None
      /\ workflow'.mode = workflow.mode
      /\ workflow'.repair_cycles = workflow.repair_cycles
    BY <1>1 DEF BeginRepair, WorkflowRecord
<1>4. workflow.repair_target \in {"Execution", "Architecture"}
    BY <1>1 DEF CanBeginRepair, WorkflowRecord, RepairTarget
<1>5. CurrentPhase' \in {"Execution", "Architecture"}
    BY <1>3, <1>4, PhaseNext, PhaseOfWork DEF Suspended
<1>6. CurrentPhase = "Repair"
    BY PhaseOfWork DEF CanBeginRepair, Suspended, CurrentPhase
<1> QED BY <1>2, <1>3, <1>5, <1>6 DEF StoreInv, Current

LEMMA BeginRepairStep ==
    ASSUME StoreInv, reservation = None, NoJudgement,
           CanBeginRepair(workflow), workflow' = BeginRepair(workflow),
           UNCHANGED <<reviews, arbitration, reservation>>
    PROVE  StoreInv'
<1>1. /\ Sound(workflow)' /\ workflow'.mode = workflow.mode
      /\ CurrentPhase = "Repair" /\ CurrentPhase' \in {"Execution", "Architecture"}
      /\ Current' = None
      /\ workflow'.repair_cycles = workflow.repair_cycles
    BY SettingAside DEF Sound
<1>2. (\A d \in RejectedCandidates \union ApprovedCandidates : Proposed(d))'
    BY DEF StoreInv, NoJudgement
<1>3. (IsFiniteSet(RejectedCandidates) /\ BudgetCountsRejections)'
    BY <1>1 DEF StoreInv, NoJudgement, BudgetCountsRejections
<1>4. RejectedIsFinal'
    BY <1>1, NoneAssumption DEF RejectedIsFinal, RejectedCandidates
<1>5. ApprovedCandidates' = {} /\ DeliveredCandidates' = {}
    BY <1>1 DEF StoreInv, NoJudgement
<1>6. (\A d \in Candidate : Reviewed(d) /\ ~Opened(d) =>
          d = Current /\ CurrentPhase \in {"IndependentReviews", "Cancelled"})'
    BY <1>1 DEF StoreInv, NoJudgement, Reviewed
<1>7. (ReviewsBeforeVerdict /\ OnlyArbiterApproves /\ ReservationIsCurrent)'
    BY <1>1 DEF ReviewsBeforeVerdict, OnlyArbiterApproves, ReservationIsCurrent
<1> QED BY <1>1, <1>2, <1>3, <1>4, <1>5, <1>6, <1>7 DEF StoreInv

(* The reviews are complete.  They may be those of an earlier candidate,   *)
(* sent again: then the key is known, for an earlier candidate that was    *)
(* reviewed left the reviews by this step.                                 *)
LEMMA ReviewsReadyStep ==
    ASSUME StoreInv, reservation = None, NEW c \in Candidate, BothReviewed(c), ~Opened(c),
           CanReviewsReady(workflow), workflow' = ReviewsReady(workflow),
           applied' = applied \union {<<"reviews-ready", c>>},
           UNCHANGED <<reviews, arbitration, reservation>>
    PROVE  StoreInv'
<1>1. Sound(workflow) /\ workflow \in WorkflowRecord
    BY DEF StoreInv, Sound
<1>2. Sound(workflow)'
    BY <1>1, Commands DEF Sound
<1>3. /\ workflow'.state = "Arbitration" /\ Current' = Current
      /\ workflow'.mode = workflow.mode
      /\ workflow'.repair_cycles = workflow.repair_cycles
    BY <1>1 DEF ReviewsReady, MoveTo, WorkflowRecord, Current
<1>4. CurrentPhase' = "Arbitration"
    BY <1>3, PhaseNext, PhaseOfWork DEF Suspended
<1>5. CurrentPhase = "IndependentReviews"
    BY PhaseOfWork DEF CanReviewsReady, Suspended, CurrentPhase
<1>6. NoJudgement
    BY OtherKeys
<1>7. c = Current /\ Opened(c)'
    BY DEF StoreInv, Reviewed, BothReviewed, Role, Opened
<1>8. (Current # None => Proposed(Current))'
    BY <1>3, <1>6 DEF StoreInv, NoJudgement
<1>9. (\A d \in RejectedCandidates \union ApprovedCandidates : Proposed(d))'
    BY <1>6 DEF StoreInv, NoJudgement
<1>10. (IsFiniteSet(RejectedCandidates) /\ BudgetCountsRejections)'
    BY <1>3, <1>6 DEF StoreInv, NoJudgement, BudgetCountsRejections
<1>11. RejectedIsFinal'
    BY <1>3, <1>5, <1>6 DEF StoreInv, NoJudgement, RejectedIsFinal
<1>12. ApprovedCandidates' = {} /\ DeliveredCandidates' = {}
    BY <1>5, <1>6 DEF StoreInv, NoJudgement
<1>13. (\A d \in Candidate : Reviewed(d) /\ ~Opened(d) =>
          d = Current /\ CurrentPhase \in {"IndependentReviews", "Cancelled"})'
    BY <1>6, <1>7 DEF StoreInv, NoJudgement, Reviewed
<1>14. ReviewsBeforeVerdict'
    BY <1>3, <1>4, <1>7 DEF ReviewsBeforeVerdict, BothReviewed
<1>15. (OnlyArbiterApproves /\ ReservationIsCurrent)'
    BY <1>4 DEF OnlyArbiterApproves, ReservationIsCurrent
<1> QED BY <1>2, <1>4, <1>8, <1>9, <1>10, <1>11, <1>12, <1>13, <1>14, <1>15 DEF StoreInv

LEMMA Approval ==
    ASSUME StoreInv, reservation = None, Current \in Candidate,
           CanApprove(workflow), workflow' = Approve(workflow),
           applied' = applied \union {<<"approved", Current>>},
           UNCHANGED <<reviews, arbitration, reservation>>
    PROVE  /\ Judges({<<"approved", Current>>}, {"Delivery"})
           /\ CurrentPhase = "Arbitration" /\ Current' = Current
           /\ workflow'.repair_cycles = workflow.repair_cycles
           /\ ApprovedCandidates' = {Current} /\ ApprovedCandidates = {}
           /\ RejectedCandidates' = RejectedCandidates
           /\ Current \notin RejectedCandidates
           /\ DeliveredCandidates' = {} /\ DeliveredCandidates = {}
<1>1. Sound(workflow) /\ workflow \in WorkflowRecord
    BY DEF StoreInv, Sound
<1>2. Sound(workflow')
    BY <1>1, Commands
<1>3. /\ workflow'.state = "Delivery" /\ Current' = Current
      /\ workflow'.mode = workflow.mode
      /\ workflow'.repair_cycles = workflow.repair_cycles
    BY <1>1 DEF Approve, MoveTo, WorkflowRecord, Current
<1>4. CurrentPhase' = "Delivery"
    BY <1>3, PhaseNext, PhaseOfWork DEF Suspended
<1>5. CurrentPhase = "Arbitration"
    BY PhaseOfWork DEF CanApprove, Suspended, CurrentPhase
<1>6. Current \notin RejectedCandidates /\ ApprovedCandidates = {} /\ DeliveredCandidates = {}
    BY <1>5 DEF StoreInv, RejectedIsFinal
<1>7. /\ RejectedCandidates' = RejectedCandidates
      /\ ApprovedCandidates' = ApprovedCandidates \union {Current}
      /\ DeliveredCandidates' = DeliveredCandidates
    BY DEF RejectedCandidates, ApprovedCandidates, DeliveredCandidates
<1> QED BY <1>2, <1>3, <1>4, <1>5, <1>6, <1>7 DEF Judges

LEMMA ApproveStep ==
    ASSUME StoreInv, reservation = None, Current \in Candidate,
           CanApprove(workflow), workflow' = Approve(workflow),
           applied' = applied \union {<<"approved", Current>>},
           UNCHANGED <<reviews, arbitration, reservation>>,
           arbitration[Current] = "Approved", workflow.mode = "Full" => BothApproved(Current)
    PROVE  StoreInv'
<1>1. /\ Judges({<<"approved", Current>>}, {"Delivery"})
      /\ CurrentPhase = "Arbitration" /\ Current' = Current
      /\ workflow'.repair_cycles = workflow.repair_cycles
      /\ ApprovedCandidates' = {Current}
      /\ RejectedCandidates' = RejectedCandidates
      /\ Current \notin RejectedCandidates
      /\ DeliveredCandidates' = {}
    BY Approval
<1>2. /\ CurrentPhase' = "Delivery" /\ Sound(workflow)' /\ reservation' = None
      /\ workflow'.mode = workflow.mode
      /\ \A d : (Proposed(d) => Proposed(d)') /\ (Opened(d) => Opened(d)')
    BY <1>1 DEF Judges, Sound, Proposed, Opened
<1>3. Current # None /\ Proposed(Current)
    BY NoneAssumption DEF StoreInv
<1>4. (Current # None => Proposed(Current))'
    BY <1>1, <1>2, <1>3
<1>5. (\A d \in RejectedCandidates \union ApprovedCandidates : Proposed(d))'
    BY <1>1, <1>2, <1>3 DEF StoreInv
<1>6. (IsFiniteSet(RejectedCandidates) /\ BudgetCountsRejections)'
    BY <1>1 DEF StoreInv, BudgetCountsRejections
<1>7. RejectedIsFinal'
    BY <1>1 DEF RejectedIsFinal
<1>8. (\A d \in Candidate : Reviewed(d) /\ ~Opened(d) =>
          d = Current /\ CurrentPhase \in {"IndependentReviews", "Cancelled"})'
    BY <1>1, <1>2 DEF StoreInv, Reviewed, Judges
<1>9. ReviewsBeforeVerdict'
    BY <1>1, <1>2 DEF StoreInv, ReviewsBeforeVerdict, BothReviewed, BothApproved, Judges
<1>10. (OnlyArbiterApproves /\ ReservationIsCurrent)'
    BY <1>1, <1>2 DEF OnlyArbiterApproves, ReservationIsCurrent, Judges
<1> QED BY <1>1, <1>2, <1>4, <1>5, <1>6, <1>7, <1>8, <1>9, <1>10 DEF StoreInv

LEMMA Delivering ==
    ASSUME StoreInv, Current \in Candidate, workflow.state = "Delivery",
           workflow' = Deliver(workflow),
           applied' = applied \union {<<"delivery", Current>>},
           UNCHANGED <<reviews, arbitration>>, reservation' = None
    PROVE  /\ Judges({<<"delivery", Current>>}, {"Completed"})
           /\ CurrentPhase = "Delivery" /\ Current' = Current
           /\ workflow'.repair_cycles = workflow.repair_cycles
           /\ CanDeliver(workflow)
           /\ RejectedCandidates' = RejectedCandidates
           /\ ApprovedCandidates' = ApprovedCandidates /\ Current \in ApprovedCandidates
           /\ DeliveredCandidates' = {Current} /\ DeliveredCandidates = {}
<1>1. Sound(workflow) /\ workflow \in WorkflowRecord
    BY DEF StoreInv, Sound
<1>2. CanDeliver(workflow)
    BY NoneAssumption DEF CanDeliver, Current
<1>3. Sound(workflow')
    BY <1>1, <1>2, Commands
<1>4. /\ workflow'.state = "Completed" /\ Current' = Current
      /\ workflow'.mode = workflow.mode
      /\ workflow'.repair_cycles = workflow.repair_cycles
    BY <1>1 DEF Deliver, MoveTo, WorkflowRecord, Current
<1>5. CurrentPhase' = "Completed"
    BY <1>4, PhaseNext, PhaseOfWork DEF Suspended
<1>6. CurrentPhase = "Delivery"
    BY PhaseOfWork DEF Suspended, CurrentPhase
<1>7. Current \in ApprovedCandidates /\ DeliveredCandidates = {}
    BY <1>6 DEF StoreInv
<1>8. /\ RejectedCandidates' = RejectedCandidates
      /\ ApprovedCandidates' = ApprovedCandidates
      /\ DeliveredCandidates' = DeliveredCandidates \union {Current}
    BY DEF RejectedCandidates, ApprovedCandidates, DeliveredCandidates
<1> QED BY <1>2, <1>3, <1>4, <1>5, <1>6, <1>7, <1>8 DEF Judges

LEMMA DeliverStep ==
    ASSUME StoreInv, Current \in Candidate, workflow.state = "Delivery",
           workflow' = Deliver(workflow),
           applied' = applied \union {<<"delivery", Current>>},
           UNCHANGED <<reviews, arbitration>>, reservation' = None
    PROVE  StoreInv'
<1>1. /\ Judges({<<"delivery", Current>>}, {"Completed"})
      /\ CurrentPhase = "Delivery" /\ Current' = Current
      /\ workflow'.repair_cycles = workflow.repair_cycles
      /\ RejectedCandidates' = RejectedCandidates
      /\ ApprovedCandidates' = ApprovedCandidates /\ Current \in ApprovedCandidates
      /\ DeliveredCandidates' = {Current}
    BY Delivering
<1>2. /\ CurrentPhase' = "Completed" /\ Sound(workflow)' /\ reservation' = None
      /\ workflow'.mode = workflow.mode
      /\ \A d : (Proposed(d) => Proposed(d)') /\ (Opened(d) => Opened(d)')
    BY <1>1 DEF Judges, Sound, Proposed, Opened
<1>3. (Current # None => Proposed(Current))'
    BY <1>1, <1>2 DEF StoreInv
<1>4. (\A d \in RejectedCandidates \union ApprovedCandidates : Proposed(d))'
    BY <1>1, <1>2 DEF StoreInv
<1>5. (IsFiniteSet(RejectedCandidates) /\ BudgetCountsRejections)'
    BY <1>1 DEF StoreInv, BudgetCountsRejections
<1>6. RejectedIsFinal'
    BY <1>1 DEF StoreInv, RejectedIsFinal
<1>7. (\A d \in ApprovedCandidates :
         d = Current /\ CurrentPhase \in {"Delivery", "Completed", "Cancelled"})'
    BY <1>1, <1>2 DEF StoreInv
<1>8. (\A d \in Candidate : Reviewed(d) /\ ~Opened(d) =>
          d = Current /\ CurrentPhase \in {"IndependentReviews", "Cancelled"})'
    BY <1>1, <1>2 DEF StoreInv, Reviewed, Judges
<1>9. ReviewsBeforeVerdict'
    BY <1>1, <1>2 DEF StoreInv, ReviewsBeforeVerdict, BothReviewed, BothApproved, Judges
<1>10. (OnlyArbiterApproves /\ ReservationIsCurrent)'
    BY <1>1, <1>2 DEF StoreInv, OnlyArbiterApproves, ReservationIsCurrent, Judges
<1> QED BY <1>1, <1>2, <1>3, <1>4, <1>5, <1>6, <1>7, <1>8, <1>9, <1>10 DEF StoreInv

-----------------------------------------------------------------------------
(* Every step of the daemon is one of these steps of the store.            *)
Settled == reservation = None /\ UNCHANGED <<reviews, arbitration, reservation>>

\* Nothing happens to the aggregate; reviews and verdicts are only added, and
\* only a delivery that is due is reserved.
RecordStep ==
    /\ UNCHANGED <<workflow, applied>>
    /\ \A c \in Candidate : \A r \in Role :
         \/ reviews'[c][r] = reviews[c][r]
         \/ reviews[c][r] = None /\ c = Current /\ workflow.state = "IndependentReviews"
    /\ \A c \in Candidate : arbitration[c] # None => arbitration'[c] = arbitration[c]
    /\ \/ reservation' \in {reservation, None}
       \/ /\ workflow.state \in {"Delivery", "Completed"}
          /\ reservation' = Current /\ arbitration'[Current] = "Approved"

CalmCommand ==
    \/ DoCompleteIntake \/ \E mode \in Modes : DoRoute(mode)
    \/ DoArchitectureAccepted \/ DoReplanExecution \/ DoVerificationPassed
    \/ DoPause \/ DoResume \/ DoCancel
    \/ DoBlockInfrastructure \/ DoResumeInfrastructure
    \/ DoResumeBlocked(AdditionalCycles)

Propose(c) ==
    /\ Settled /\ ~Proposed(c) /\ DoCandidateReady(c)
    /\ applied' = applied \union {<<"candidate", c>>}
RejectCurrent(target) ==
    /\ Settled /\ Current \in Candidate /\ DoReject(target)
    /\ applied' = applied \union {<<"reject", Current, target>>}
SetAside == Settled /\ NoJudgement /\ DoBeginRepair
Open(c) ==
    /\ Settled /\ BothReviewed(c) /\ ~Opened(c) /\ DoReviewsReady
    /\ applied' = applied \union {<<"reviews-ready", c>>}
ApproveCurrent ==
    /\ Settled /\ Current \in Candidate /\ DoApprove
    /\ arbitration[Current] = "Approved" /\ (workflow.mode = "Full" => BothApproved(Current))
    /\ applied' = applied \union {<<"approved", Current>>}
DeliverCurrent ==
    /\ Current \in Candidate /\ workflow.state = "Delivery"
    /\ workflow' = Deliver(workflow)
    /\ applied' = applied \union {<<"delivery", Current>>}
    /\ UNCHANGED <<reviews, arbitration>> /\ reservation' = None

StoreStep ==
    \/ RecordStep
    \/ Settled /\ NoJudgement /\ CalmCommand
    \/ \E c \in Candidate : Propose(c) \/ Open(c)
    \/ \E target \in RepairTarget : RejectCurrent(target)
    \/ SetAside \/ ApproveCurrent \/ DeliverCurrent

LEMMA RecordStepKeeps ==
    ASSUME StoreInv, RecordStep
    PROVE  StoreInv'
<1>1. NoJudgement /\ Current' = Current /\ CurrentPhase' = CurrentPhase /\ Sound(workflow)'
    BY SameKeys DEF RecordStep, Current, CurrentPhase, Phase, StoreInv, Sound
<1>2. \A c \in Candidate : (BothReviewed(c) => BothReviewed(c)')
                           /\ (BothApproved(c) => BothApproved(c)')
    BY NoneAssumption DEF RecordStep, BothReviewed, BothApproved, Decision
<1>3. (\A c \in RejectedCandidates \union ApprovedCandidates : Proposed(c))'
    BY <1>1 DEF StoreInv, NoJudgement
<1>4. (IsFiniteSet(RejectedCandidates) /\ BudgetCountsRejections)'
    BY <1>1 DEF StoreInv, NoJudgement, BudgetCountsRejections, RecordStep
<1>5. RejectedIsFinal'
    BY <1>1 DEF StoreInv, NoJudgement, RejectedIsFinal
<1>6. (\A c \in Candidate : Reviewed(c) /\ ~Opened(c) =>
          c = Current /\ CurrentPhase \in {"IndependentReviews", "Cancelled"})'
    <2> SUFFICES ASSUME NEW c \in Candidate, Reviewed(c)', ~Opened(c)'
                 PROVE  c = Current /\ CurrentPhase \in {"IndependentReviews", "Cancelled"}
        BY <1>1
    <2>1. CASE Reviewed(c)
        BY <1>1, <2>1 DEF StoreInv, NoJudgement
    <2>2. CASE ~Reviewed(c)
        <3>1. c = Current /\ workflow.state = "IndependentReviews"
            BY <2>2 DEF Reviewed, RecordStep
        <3> QED BY <3>1, PhaseOfWork DEF CurrentPhase, Suspended
    <2> QED BY <2>1, <2>2
<1>7. (CurrentPhase \in {"Arbitration", "Delivery", "Completed"}) => Current \in Candidate
    <2>1. Sound(workflow)
        BY DEF StoreInv
    <2> QED BY <2>1 DEF Sound, WorkflowInv, CandidateWhileJudged, JudgingPhase,
                        WorkflowRecord, CurrentPhase, Current
<1>8. ReviewsBeforeVerdict'
    BY <1>1, <1>2, <1>7 DEF StoreInv, ReviewsBeforeVerdict, RecordStep
<1>9. OnlyArbiterApproves'
    BY <1>1, <1>7, NoneAssumption DEF StoreInv, OnlyArbiterApproves, RecordStep, Verdict
<1>10. ReservationIsCurrent'
    <2>1. CASE reservation' \in {reservation, None}
        <3>1. reservation # None => CurrentPhase \in {"Delivery", "Completed"}
            BY PhaseOfWork DEF StoreInv, ReservationIsCurrent, CurrentPhase, Suspended
        <3> QED BY <1>1, <1>9, <2>1, <3>1
                DEF StoreInv, ReservationIsCurrent, OnlyArbiterApproves, RecordStep
    <2>2. CASE ~ (reservation' \in {reservation, None})
        BY <1>1, <2>2 DEF RecordStep, ReservationIsCurrent
    <2> QED BY <2>1, <2>2
<1> QED BY <1>1, <1>3, <1>4, <1>5, <1>6, <1>8, <1>9, <1>10 DEF StoreInv, NoJudgement

LEMMA CalmCommands ==
    ASSUME StoreInv, CalmCommand
    PROVE  Sound(workflow') /\ Calm(workflow, workflow')
BY Commands, Suspensions, CalmEarly, CalmSuspension
   DEF CalmCommand, StoreInv, DoCompleteIntake, DoRoute, DoArchitectureAccepted,
       DoReplanExecution, DoVerificationPassed, DoPause, DoResume, DoCancel,
       DoBlockInfrastructure, DoResumeInfrastructure, DoResumeBlocked

LEMMA StoreStepKeeps ==
    ASSUME StoreInv, StoreStep
    PROVE  StoreInv'
<1>1. CASE RecordStep
    BY <1>1, RecordStepKeeps
<1>2. CASE Settled /\ NoJudgement /\ CalmCommand
    BY <1>2, CalmCommands, CalmStep DEF Settled
<1>3. ASSUME NEW c \in Candidate, Propose(c) PROVE StoreInv'
    BY <1>3, ProposeStep DEF Propose, Settled, DoCandidateReady
<1>4. ASSUME NEW c \in Candidate, Open(c) PROVE StoreInv'
    BY <1>4, ReviewsReadyStep DEF Open, Settled, DoReviewsReady
<1>5. ASSUME NEW target \in RepairTarget, RejectCurrent(target) PROVE StoreInv'
    BY <1>5, RejectStep DEF RejectCurrent, Settled, DoReject
<1>6. CASE SetAside
    BY <1>6, BeginRepairStep DEF SetAside, Settled, DoBeginRepair
<1>7. CASE ApproveCurrent
    BY <1>7, ApproveStep DEF ApproveCurrent, Settled, DoApprove
<1>8. CASE DeliverCurrent
    BY <1>8, DeliverStep DEF DeliverCurrent
<1> QED BY <1>1, <1>2, <1>3, <1>4, <1>5, <1>6, <1>7, <1>8 DEF StoreStep

-----------------------------------------------------------------------------
(* What each step of the store is to the aggregate, and to module Release. *)
LEMMA StoreStepIsCommand ==
    ASSUME StoreInv, StoreStep
    PROVE  [AggregateNext]_workflow
<1>1. CASE RecordStep
    BY <1>1 DEF RecordStep
<1>2. CASE Settled /\ NoJudgement /\ CalmCommand
    <2>1. AdditionalCycles \in 0..U8Max /\ Modes \subseteq Mode
        BY LifecycleAssumption
    <2> QED BY <1>2, <2>1 DEF CalmCommand, AggregateNext
<1>3. ASSUME NEW c \in Candidate, Propose(c) \/ Open(c) PROVE AggregateNext
    BY <1>3 DEF Propose, Open, AggregateNext
<1>4. ASSUME NEW target \in RepairTarget, RejectCurrent(target) PROVE AggregateNext
    BY <1>4 DEF RejectCurrent, AggregateNext
<1>5. CASE SetAside \/ ApproveCurrent
    BY <1>5 DEF SetAside, ApproveCurrent, AggregateNext
<1>6. CASE DeliverCurrent
    BY <1>6, Delivering DEF DeliverCurrent, AggregateNext, DoDeliver
<1> QED BY <1>1, <1>2, <1>3, <1>4, <1>5, <1>6 DEF StoreStep

LEMMA StoreStepIsRelease ==
    ASSUME StoreInv, StoreStep
    PROVE  [R!Next]_(R!releaseVars)
<1> DEFINE Same == /\ Current' = Current /\ RejectedCandidates' = RejectedCandidates
                   /\ ApprovedCandidates' = ApprovedCandidates /\ Released' = Released
<1>1. NoJudgement => Released' = Released
    BY DEF NoJudgement, Released
<1>2. Same => UNCHANGED R!releaseVars
    BY DEF R!releaseVars
<1>3. CASE RecordStep
    BY <1>1, <1>2, <1>3, SameKeys DEF RecordStep, NoJudgement, Current
<1>4. CASE Settled /\ NoJudgement /\ CalmCommand
    BY <1>1, <1>2, <1>4, CalmCommands DEF NoJudgement, Calm, Current
<1>5. ASSUME NEW c \in Candidate, Open(c) PROVE UNCHANGED R!releaseVars
    <2>1. Current' = Current
        BY <1>5 DEF Open, DoReviewsReady, ReviewsReady, MoveTo, WorkflowRecord, Current,
                    StoreInv, Sound
    <2>2. NoJudgement
        BY <1>5, OtherKeys DEF Open
    <2> QED BY <1>1, <1>2, <2>1, <2>2 DEF NoJudgement
<1>6. ASSUME NEW c \in Candidate, Propose(c) PROVE R!Next
    <2>1. NoJudgement /\ Current = None /\ Current' = c
        BY <1>6, NewCandidate DEF Propose, Settled, DoCandidateReady
    <2>2. c \notin RejectedCandidates \union ApprovedCandidates
        BY <1>6 DEF StoreInv, Propose
    <2> QED BY <1>1, <2>1, <2>2 DEF NoJudgement, R!Next, R!Propose, R!judged
<1>7. ASSUME NEW target \in RepairTarget, RejectCurrent(target) PROVE R!Next
    <2>1. /\ Current' = Current
          /\ RejectedCandidates' = RejectedCandidates \union {Current}
          /\ Current \notin RejectedCandidates
          /\ ApprovedCandidates' = {} /\ ApprovedCandidates = {}
          /\ DeliveredCandidates' = {} /\ DeliveredCandidates = {}
        BY <1>7, Rejection DEF RejectCurrent, Settled, DoReject
    <2>2. Current # None
        BY <1>7, NoneAssumption DEF RejectCurrent
    <2> QED BY <2>1, <2>2 DEF Released, R!Next, R!Reject, R!judged
<1>8. CASE SetAside
    <2>1. Current \in RejectedCandidates /\ Current' = None
        BY <1>8, SettingAside DEF SetAside, Settled, DoBeginRepair
    <2> QED BY <1>1, <1>8, <2>1 DEF SetAside, NoJudgement, R!Next, R!SetAside
<1>9. CASE ApproveCurrent
    <2>1. /\ Current' = Current
          /\ ApprovedCandidates' = {Current} /\ ApprovedCandidates = {}
          /\ RejectedCandidates' = RejectedCandidates
          /\ Current \notin RejectedCandidates
          /\ DeliveredCandidates' = {} /\ DeliveredCandidates = {}
        BY <1>9, Approval DEF ApproveCurrent, Settled, DoApprove
    <2>2. Current # None
        BY <1>9, NoneAssumption DEF ApproveCurrent
    <2> QED BY <2>1, <2>2 DEF Released, R!Next, R!Approve, R!judged
<1>10. CASE DeliverCurrent
    <2>1. /\ Current' = Current
          /\ RejectedCandidates' = RejectedCandidates
          /\ ApprovedCandidates' = ApprovedCandidates /\ Current \in ApprovedCandidates
          /\ DeliveredCandidates' = {Current} /\ DeliveredCandidates = {}
        BY <1>10, Delivering DEF DeliverCurrent
    <2>2. Released = None /\ Released' = Current
        BY <2>1 DEF Released
    <2> QED BY <2>1, <2>2 DEF R!Next, R!Deliver
<1> QED BY <1>3, <1>4, <1>5, <1>6, <1>7, <1>8, <1>9, <1>10 DEF StoreStep

LEMMA StoreStepIsExclusive ==
    ASSUME StoreInv, StoreStep, reservation # None, workflow' # workflow
    PROVE  workflow'.state = "Completed" /\ reservation' = None
<1>1. DeliverCurrent
    BY DEF StoreStep, RecordStep, Settled, Propose, Open, RejectCurrent, SetAside, ApproveCurrent
<1>2. workflow \in WorkflowRecord
    BY DEF StoreInv, Sound
<1> QED BY <1>1, <1>2 DEF DeliverCurrent, Deliver, MoveTo, WorkflowRecord

-----------------------------------------------------------------------------
(* The inductive invariant, part two: the handlers.  One that is between   *)
(* two transactions of a piece holds the mutex; in particular nothing      *)
(* happens between the verdict that approves and the command it leads to.  *)
Holds(t) ==
    \/ t.op \in {"start", "architecture", "ready", "reject", "begin_repair", "review", "approve"}
    \/ t.op = "verify" /\ t.saved > 0

Approves(c) ==
    /\ workflow.state = "Arbitration" /\ c = Current /\ arbitration[c] = "Approved"
    /\ workflow.mode = "Full" => BothApproved(c)

RunIsSound(t) ==
    t.op = "verify" => IF t.ran THEN t.results \in [1..Len(Gates) -> Status] ELSE t.saved = 0

TaskSound(s) ==
    /\ Holds(task[s]) => lock = s
    /\ RunIsSound(task[s])
    /\ task[s].op = "approve" => Approves(task[s].candidate)

TaskInv == \A s \in Slot : TaskSound(s)

Typed ==
    /\ applied \subseteq Key
    /\ requested \in BOOLEAN
    /\ plan \in Plan \union {None}
    /\ planned \subseteq Candidate
    /\ frozen \in [Candidate -> Content \union {None}]
    /\ evidence \in [Candidate -> [1..Len(Gates) -> Status \union {None}]]
    /\ reviews \in [Candidate -> [Role -> Decision \union {None}]]
    /\ arbitration \in [Candidate -> Verdict \union {None}]
    /\ reservation \in Candidate \union {None}
    /\ worktree \in Content
    /\ lock \in Slot \union {None}
    /\ task \in [Slot -> Task]
    /\ faults \in 0..MaxFaults

IInv == StoreInv /\ TaskInv /\ Typed

LEMMA GatesCount == Len(Gates) \in Nat \ {0}
BY LifecycleAssumption DEF Gates

LEMMA TaskFields ==
    ASSUME NEW t \in Task
    PROVE  /\ t.op \in {"plan", "review", "approve", "ready", "begin_repair", "reject", "freeze",
                        "verify", "promote"} => t.candidate \in Candidate
           /\ t.op = "architecture" => t.plan \in Plan
           /\ t.op = "reject" => t.target \in RepairTarget
           /\ t.op = "freeze" => t.content \in Content
           /\ t.op = "verify" => t.saved \in 0..Len(Gates) /\ t.ran \in BOOLEAN
BY DEF Task, Idle

(* A step of one handler, while no other is inside a piece.                *)
Moves(s, t) ==
    /\ lock \in {None, s} /\ lock' \in {None, s}
    /\ task' = [task EXCEPT ![s] = t]
    /\ Holds(t) => lock' = s

LEMMA TaskMove ==
    ASSUME IInv, NEW s \in Slot, NEW t \in Task, Moves(s, t), RunIsSound(t),
           t.op = "approve" => Approves(t.candidate)'
    PROVE  TaskInv' /\ task' \in [Slot -> Task] /\ lock' \in Slot \union {None}
<1>1. task \in [Slot -> Task] /\ None \notin Slot
    BY NoneAssumption DEF IInv, Typed
<1>2. \A r \in Slot : task'[r] = IF r = s THEN t ELSE task[r]
    BY <1>1 DEF Moves
<1>3. ASSUME NEW r \in Slot, r # s
      PROVE  ~Holds(task[r]) /\ RunIsSound(task[r]) /\ task[r].op # "approve"
    BY <1>1, <1>3 DEF IInv, TaskInv, TaskSound, Moves, Holds
<1>4. ASSUME NEW r \in Slot
      PROVE  TaskSound(r)'
    <2>1. CASE r = s
        BY <1>2, <2>1 DEF Moves, TaskSound, Holds, RunIsSound, Approves
    <2>2. CASE r # s
        BY <1>2, <1>3, <2>2 DEF TaskSound, Holds, RunIsSound
    <2> QED BY <2>1, <2>2
<1> QED BY <1>1, <1>4 DEF Moves, TaskInv

(* A step of a handler outside any piece leaves the store alone.           *)
LEMMA TaskAside ==
    ASSUME IInv, NEW s \in Slot, NEW t \in Task, UNCHANGED <<durable, lock, faults>>,
           task' = [task EXCEPT ![s] = t], ~Holds(t), RunIsSound(t)
    PROVE  StoreStep /\ TaskInv' /\ Typed'
<1>1. task \in [Slot -> Task]
    BY DEF IInv, Typed
<1>2. \A r \in Slot : task'[r] = IF r = s THEN t ELSE task[r]
    BY <1>1
<1>3. t.op # "approve"
    BY DEF Holds
<1>4. UNCHANGED <<workflow, arbitration, reviews, lock>>
    BY DEF durable, records
<1>5. ASSUME NEW r \in Slot
      PROVE  TaskSound(r)'
    <2>1. CASE r = s
        BY <1>2, <1>3, <2>1 DEF TaskSound, Holds, RunIsSound
    <2>2. CASE r # s
        BY <1>2, <1>4, <2>2
           DEF IInv, TaskInv, TaskSound, Holds, RunIsSound, Approves, Current, BothApproved
    <2> QED BY <2>1, <2>2
<1>6. RecordStep
    BY DEF RecordStep, durable, records
<1>7. Typed'
    BY <1>1 DEF IInv, Typed, durable, records
<1> QED BY <1>5, <1>6, <1>7 DEF StoreStep, TaskInv

(* A request that is one transaction: no handler is inside a piece.        *)
LEMMA NoTaskKeeps ==
    ASSUME IInv, lock = None, NoTask
    PROVE  TaskInv'
<1>1. \A r \in Slot : ~Holds(task[r])
    BY NoneAssumption DEF IInv, TaskInv, TaskSound
<1> QED BY <1>1 DEF IInv, TaskInv, TaskSound, NoTask, Holds, RunIsSound

(* How a transaction of a handler ends.                                    *)
TasksKept ==
    /\ TaskInv' /\ task' \in [Slot -> Task] /\ lock' \in Slot \union {None}
    /\ faults' = faults

LEMMA Inside ==
    ASSUME IInv, NEW s \in Slot, Holds(task[s])
    PROVE  lock = s
BY DEF IInv, TaskInv, TaskSound

LEMMA Answers ==
    ASSUME IInv, NEW s \in Slot, lock \in {None, s}, Answer(s)
    PROVE  TasksKept
<1>1. Idle \in Task /\ Idle.op = "idle"
    BY DEF Task, Idle
<1>2. Moves(s, Idle) /\ RunIsSound(Idle)
    BY <1>1 DEF Answer, Detach, Moves, Holds, RunIsSound
<1> QED BY <1>1, <1>2, TaskMove DEF TasksKept, Answer, Detach

LEMMA Detaches ==
    ASSUME IInv, NEW s \in Slot, lock \in {None, s}, NEW t \in Task, Detach(s, t),
           ~Holds(t), RunIsSound(t)
    PROVE  TasksKept
<1>1. Moves(s, t) /\ t.op # "approve"
    BY DEF Detach, Moves, Holds
<1> QED BY <1>1, TaskMove DEF TasksKept, Detach

LEMMA Continues ==
    ASSUME IInv, NEW s \in Slot, lock \in {None, s}, NEW t \in Task, Continue(s, t),
           RunIsSound(t), t.op = "approve" => Approves(t.candidate)'
    PROVE  TasksKept
<1>1. Moves(s, t)
    BY DEF Continue, Moves
<1> QED BY <1>1, TaskMove DEF TasksKept, Continue

LEMMA CalmIsStep ==
    ASSUME UNCHANGED <<reviews, arbitration, reservation>>,
           \/ UNCHANGED <<workflow, applied>>
           \/ reservation = None /\ CalmCommand /\ NoJudgement
    PROVE  StoreStep
BY DEF StoreStep, RecordStep, Settled

-----------------------------------------------------------------------------
(* One lemma per handler or piece of one.                                  *)
LEMMA StartWorkflowStep ==
    ASSUME IInv, NEW s \in Slot, StartWorkflow(s)
    PROVE  StoreStep /\ TaskInv' /\ Typed'
<1>1. StoreStep
    BY CalmIsStep DEF StartWorkflow
<1> DEFINE t == [op |-> "start", pc |-> "intake"]
<1>2. t \in Task /\ t.op = "start"
    BY DEF Task
<1>3. TasksKept
    BY <1>2, Continues DEF StartWorkflow, Free, RunIsSound
<1> QED BY <1>1, <1>3 DEF StartWorkflow, TasksKept, IInv, Typed

LEMMA CompleteIntakeStep ==
    ASSUME IInv, NEW s \in Slot, ApplyIntake(s)
    PROVE  StoreStep /\ TaskInv' /\ Typed'
<1>1. \/ UNCHANGED <<workflow, applied>>
      \/ /\ reservation = None /\ DoCompleteIntake
         /\ applied' = applied \union {<<"complete-intake">>}
    BY DEF ApplyIntake, Apply, Commits, DoCompleteIntake
<1>2. StoreStep
    BY <1>1, OtherKeys, CalmIsStep DEF ApplyIntake, records, CalmCommand
<1>3. lock = s
    BY Inside DEF ApplyIntake, Serving, Holds
<1> DEFINE t == [op |-> "start", pc |-> "route"]
<1>4. t \in Task /\ t.op = "start"
    BY DEF Task
<1>5. TasksKept
    BY <1>3, <1>4, Continues DEF ApplyIntake, RunIsSound
<1>6. applied' \subseteq Key
    BY <1>1 DEF Key, IInv, Typed
<1> QED BY <1>2, <1>5, <1>6 DEF ApplyIntake, records, TasksKept, IInv, Typed

LEMMA RouteWorkflowStep ==
    ASSUME IInv, NEW s \in Slot, NEW mode \in Modes, RouteWorkflow(s, mode)
    PROVE  StoreStep /\ TaskInv' /\ Typed'
<1>1. \/ UNCHANGED <<workflow, applied>>
      \/ /\ reservation = None /\ DoRoute(mode)
         /\ applied' = applied \union {<<"route">>}
    BY DEF RouteWorkflow, Apply, Commits, DoRoute
<1>2. StoreStep
    BY <1>1, OtherKeys, CalmIsStep DEF RouteWorkflow, records, CalmCommand
<1>3. lock = s
    BY Inside DEF RouteWorkflow, Serving, Holds
<1>4. TasksKept
    BY <1>3, Answers DEF RouteWorkflow
<1>5. applied' \subseteq Key
    BY <1>1 DEF Key, IInv, Typed
<1> QED BY <1>2, <1>4, <1>5 DEF RouteWorkflow, records, TasksKept, IInv, Typed

LEMMA SaveArchitectureStep ==
    ASSUME IInv, NEW s \in Slot, NEW p \in Plan, SaveArchitecture(s, p)
    PROVE  StoreStep /\ TaskInv' /\ Typed'
<1>1. StoreStep
    BY CalmIsStep DEF SaveArchitecture
<1> DEFINE t == [op |-> "architecture", plan |-> p]
<1>2. t \in Task /\ t.op = "architecture"
    BY DEF Task
<1>3. TasksKept
    BY <1>2, Continues DEF SaveArchitecture, Free, RunIsSound
<1> QED BY <1>1, <1>3 DEF SaveArchitecture, TasksKept, IInv, Typed

LEMMA AcceptArchitectureStep ==
    ASSUME IInv, NEW s \in Slot, AcceptArchitecture(s)
    PROVE  StoreStep /\ TaskInv' /\ Typed'
<1>1. \/ UNCHANGED <<workflow, applied>>
      \/ /\ reservation = None /\ DoArchitectureAccepted
         /\ applied' = applied \union {<<"architecture-accepted", task[s].plan>>}
    BY DEF AcceptArchitecture, Apply, Commits, DoArchitectureAccepted
<1>2. StoreStep
    BY <1>1, OtherKeys, CalmIsStep DEF AcceptArchitecture, records, CalmCommand
<1>3. lock = s /\ task[s].plan \in Plan
    BY Inside, TaskFields DEF AcceptArchitecture, Serving, Holds, IInv, Typed
<1>4. TasksKept
    BY <1>3, Answers DEF AcceptArchitecture
<1>5. applied' \subseteq Key
    BY <1>1, <1>3 DEF Key, IInv, Typed
<1> QED BY <1>2, <1>4, <1>5 DEF AcceptArchitecture, records, TasksKept, IInv, Typed

(* Requests of one transaction with a fresh key: reports and controls.     *)
LEMMA ControlStep ==
    ASSUME IInv, NoTask, lock = None, CalmCommand, reservation = None,
           UNCHANGED <<applied, records, reservation, worktree>>
    PROVE  StoreStep /\ TaskInv' /\ Typed'
<1>1. StoreStep
    BY SameKeys, CalmIsStep DEF records
<1>2. Typed'
    BY DEF IInv, Typed, records, NoTask
<1> QED BY <1>1, <1>2, NoTaskKeeps

LEMMA ReportStep ==
    ASSUME IInv, ReportBlocked \/ ReportPlanDefect
    PROVE  StoreStep /\ TaskInv' /\ Typed'
<1>1. CalmCommand
    BY DEF ReportBlocked, ReportPlanDefect, ApplyFresh, CalmCommand, DoBlockInfrastructure,
           DoReplanExecution
<1> QED BY <1>1, ControlStep DEF ReportBlocked, ReportPlanDefect, ApplyFresh

LEMMA ControlRequestStep ==
    ASSUME IInv, ControlRequest
    PROVE  StoreStep /\ TaskInv' /\ Typed'
<1>1. CalmCommand
    BY DEF ControlRequest, PauseWorkflow, ResumeWorkflow, CancelWorkflow, RetryInfrastructure,
           RetryBlocked, Control, ApplyFresh, CalmCommand, DoPause, DoResume, DoCancel,
           DoResumeInfrastructure, DoResumeBlocked
<1>2. /\ lock = None /\ NoTask /\ reservation = None
      /\ UNCHANGED <<applied, records, reservation, worktree>>
    BY DEF ControlRequest, PauseWorkflow, ResumeWorkflow, CancelWorkflow, RetryInfrastructure,
           RetryBlocked, Control, ApplyFresh
<1> QED BY <1>1, <1>2, ControlStep

LEMMA DiscoverGatesStep ==
    ASSUME IInv, NEW s \in Slot, NEW c \in Candidate, DiscoverGates(s, c)
    PROVE  StoreStep /\ TaskInv' /\ Typed'
<1>1. StoreStep
    BY CalmIsStep DEF DiscoverGates, durable, records
<1> DEFINE t == [op |-> "plan", candidate |-> c]
<1>2. t \in Task /\ t.op = "plan"
    BY DEF Task
<1>3. TasksKept
    BY <1>2, Detaches DEF DiscoverGates, Free, RunIsSound, Holds
<1> QED BY <1>1, <1>3 DEF DiscoverGates, durable, records, TasksKept, IInv, Typed

LEMMA SavePlanStep ==
    ASSUME IInv, NEW s \in Slot, SavePlan(s)
    PROVE  StoreStep /\ TaskInv' /\ Typed'
<1>1. StoreStep
    BY CalmIsStep DEF SavePlan
<1>2. task[s].candidate \in Candidate
    BY TaskFields DEF SavePlan, Serving, IInv, Typed
<1>3. TasksKept
    BY Answers DEF SavePlan
<1> QED BY <1>1, <1>2, <1>3 DEF SavePlan, TasksKept, IInv, Typed

LEMMA ReadWorktreeStep ==
    ASSUME IInv, NEW s \in Slot, NEW c \in Candidate, ReadWorktree(s, c)
    PROVE  StoreStep /\ TaskInv' /\ Typed'
<1>1. StoreStep
    BY CalmIsStep DEF ReadWorktree, durable, records
<1> DEFINE t == [op |-> "freeze", candidate |-> c, content |-> worktree]
<1>2. t \in Task /\ t.op = "freeze"
    BY DEF Task, IInv, Typed
<1>3. TasksKept
    BY <1>2, Detaches DEF ReadWorktree, Free, RunIsSound, Holds
<1> QED BY <1>1, <1>3 DEF ReadWorktree, durable, records, TasksKept, IInv, Typed

LEMMA SaveCandidateStep ==
    ASSUME IInv, NEW s \in Slot, SaveCandidate(s)
    PROVE  StoreStep /\ TaskInv' /\ Typed'
<1>1. StoreStep
    BY CalmIsStep DEF SaveCandidate
<1>2. task[s].candidate \in Candidate /\ task[s].content \in Content /\ lock = None
    BY TaskFields DEF SaveCandidate, Serving, IInv, Typed
<1> DEFINE t == [op |-> "ready", candidate |-> task[s].candidate]
<1>3. t \in Task /\ t.op = "ready"
    BY <1>2 DEF Task
<1>4. TasksKept
    <2>1. CASE Continue(s, t)
        BY <1>2, <1>3, <2>1, Continues DEF RunIsSound
    <2>2. CASE Answer(s)
        BY <1>2, <2>2, Answers
    <2> QED BY <2>1, <2>2 DEF SaveCandidate
<1>5. frozen' \in [Candidate -> Content \union {None}]
    BY <1>2 DEF SaveCandidate, IInv, Typed
<1> QED BY <1>1, <1>4, <1>5 DEF SaveCandidate, TasksKept, IInv, Typed

LEMMA CandidateReadyStep ==
    ASSUME IInv, NEW s \in Slot, ApplyReady(s)
    PROVE  StoreStep /\ TaskInv' /\ Typed'
<1> DEFINE c == task[s].candidate
<1>1. lock = s /\ c \in Candidate
    BY Inside, TaskFields DEF ApplyReady, Serving, Holds, IInv, Typed
<1>2. \/ UNCHANGED <<workflow, applied>>
      \/ Propose(c)
    BY DEF ApplyReady, Apply, Commits, records, Propose, Settled, Proposed,
           DoCandidateReady
<1>3. StoreStep
    BY <1>1, <1>2, CalmIsStep DEF ApplyReady, records, StoreStep
<1>4. TasksKept
    BY <1>1, Answers DEF ApplyReady
<1>5. applied' \subseteq Key
    BY <1>1, <1>2 DEF Propose, Key, IInv, Typed
<1> QED BY <1>3, <1>4, <1>5 DEF ApplyReady, records, TasksKept, IInv, Typed

LEMMA FreezeAgainStep ==
    ASSUME IInv, NEW c \in Candidate, FreezeAgain(c)
    PROVE  StoreStep /\ TaskInv' /\ Typed'
<1>1. \/ UNCHANGED <<workflow, applied>>
      \/ Propose(c)
    BY DEF FreezeAgain, Apply, Commits, records, Propose, Settled, Proposed,
           DoCandidateReady
<1>2. StoreStep
    BY <1>1, CalmIsStep DEF FreezeAgain, records, StoreStep
<1>3. TaskInv'
    BY NoTaskKeeps DEF FreezeAgain
<1>4. applied' \subseteq Key
    BY <1>1 DEF Propose, Key, IInv, Typed
<1> QED BY <1>2, <1>3, <1>4 DEF FreezeAgain, records, NoTask, IInv, Typed

-----------------------------------------------------------------------------
LEMMA VerifyCandidateStep ==
    ASSUME IInv, NEW s \in Slot, NEW c \in Candidate, VerifyCandidate(s, c)
    PROVE  StoreStep /\ TaskInv' /\ Typed'
<1>1. StoreStep
    BY CalmIsStep DEF VerifyCandidate, durable, records
<1> DEFINE t == [op |-> "verify", candidate |-> c, ran |-> FALSE, results |-> <<>>, saved |-> 0]
<1>2. t \in Task /\ t.op = "verify" /\ t.saved = 0 /\ t.ran = FALSE
    BY GatesCount DEF Task
<1>3. TasksKept
    BY <1>2, Detaches DEF VerifyCandidate, Free, RunIsSound, Holds
<1> QED BY <1>1, <1>3 DEF VerifyCandidate, durable, records, TasksKept, IInv, Typed

LEMMA RunGatesStep ==
    ASSUME IInv, NEW s \in Slot, RunGates(s)
    PROVE  StoreStep /\ TaskInv' /\ Typed'
<1>1. /\ task[s] \in [op : {"verify"}, candidate : Candidate, ran : BOOLEAN,
                      results : [1..Len(Gates) -> Status] \union {<<>>}, saved : 0..Len(Gates)]
      /\ task[s].saved = 0 /\ task \in [Slot -> Task]
    BY DEF RunGates, Serving, IInv, Typed, TaskInv, TaskSound, RunIsSound, Task, Idle
<1>2. PICK r \in [1..Len(Gates) -> Status] :
        task' = [task EXCEPT ![s].ran = TRUE, ![s].results = r]
    BY DEF RunGates, GateResults
<1> DEFINE t == [task[s] EXCEPT !.ran = TRUE, !.results = r]
<1>3. t \in Task /\ t.op = "verify" /\ t.ran = TRUE /\ t.results = r /\ t.saved = 0
    BY <1>1 DEF Task
<1>4. task' = [task EXCEPT ![s] = t]
    BY <1>1, <1>2
<1> HIDE DEF t
<1>5. ~Holds(t) /\ RunIsSound(t)
    BY <1>3 DEF Holds, RunIsSound
<1> QED BY <1>3, <1>4, <1>5, TaskAside DEF RunGates

LEMMA AbandonRunStep ==
    ASSUME IInv, NEW s \in Slot, AbandonRun(s)
    PROVE  StoreStep /\ TaskInv' /\ Typed'
<1>1. Idle \in Task /\ Idle.op = "idle"
    BY DEF Task, Idle
<1> QED BY <1>1, TaskAside DEF AbandonRun, Holds, RunIsSound

LEMMA SaveEvidenceStep ==
    ASSUME IInv, NEW s \in Slot, SaveEvidence(s)
    PROVE  StoreStep /\ TaskInv' /\ Typed'
<1>1. /\ task[s] \in [op : {"verify"}, candidate : Candidate, ran : BOOLEAN,
                      results : [1..Len(Gates) -> Status] \union {<<>>}, saved : 0..Len(Gates)]
      /\ task[s].results \in [1..Len(Gates) -> Status]
    <2>1. task[s].op = "verify" /\ task[s].ran /\ task[s] \in Task
        BY DEF SaveEvidence, Serving, IInv, Typed
    <2>2. RunIsSound(task[s])
        BY DEF IInv, TaskInv, TaskSound
    <2> QED BY <2>1, <2>2 DEF RunIsSound, Task, Idle
<1> DEFINE next == task[s].saved + 1
           t == [task[s] EXCEPT !.saved = next]
<1>2. next \in 1..Len(Gates)
    BY <1>1, GatesCount DEF SaveEvidence
<1>3. t \in Task /\ RunIsSound(t) /\ t.op # "approve"
    <2>1. /\ t \in [op : {"verify"}, candidate : Candidate, ran : BOOLEAN,
                   results : [1..Len(Gates) -> Status] \union {<<>>}, saved : 0..Len(Gates)]
          /\ t.op = "verify" /\ t.ran = task[s].ran /\ t.results = task[s].results
        BY <1>1, <1>2, GatesCount
    <2>2. task[s].ran
        BY DEF SaveEvidence
    <2> HIDE DEF t
    <2> QED BY <1>1, <2>1, <2>2 DEF Task, RunIsSound
<1>4. StoreStep
    BY CalmIsStep DEF SaveEvidence
<1>5. TasksKept
    BY <1>3, Continues DEF SaveEvidence, CanHold
<1>6. evidence' \in [Candidate -> [1..Len(Gates) -> Status \union {None}]]
    <2>1. evidence \in [Candidate -> [1..Len(Gates) -> Status \union {None}]]
        BY DEF IInv, Typed
    <2>2. task[s].results[next] \in Status /\ task[s].candidate \in Candidate
        BY <1>1, <1>2
    <2>3. [evidence[task[s].candidate] EXCEPT ![next] = task[s].results[next]]
            \in [1..Len(Gates) -> Status \union {None}]
        BY <2>1, <2>2
    <2> QED BY <2>1, <2>3 DEF SaveEvidence
<1> QED BY <1>4, <1>5, <1>6 DEF SaveEvidence, TasksKept, IInv, Typed

LEMMA ApplyResultsStep ==
    ASSUME IInv, NEW s \in Slot, ApplyResults(s)
    PROVE  StoreStep /\ TaskInv' /\ Typed'
<1> DEFINE c == task[s].candidate
<1>1. c \in Candidate /\ lock = s
    BY Inside, TaskFields, GatesCount DEF ApplyResults, Serving, Holds, Saved, IInv, Typed
<1>2. \/ UNCHANGED <<workflow, applied>>
      \/ /\ reservation = None /\ DoVerificationPassed
         /\ applied' = applied \union {<<"verification-passed", c>>}
      \/ /\ reservation = None /\ DoBlockInfrastructure
         /\ applied' = applied \union {<<"verification-blocked", c>>}
    BY DEF ApplyResults, Apply, Commits, DoVerificationPassed, DoBlockInfrastructure
<1>3. StoreStep
    BY <1>2, OtherKeys, CalmIsStep DEF ApplyResults, records, CalmCommand
<1> DEFINE t == [op |-> "reject", candidate |-> c, target |-> "Execution"]
<1>4. t \in Task /\ t.op = "reject"
    BY <1>1 DEF Task, RepairTarget
<1>5. TasksKept
    <2>1. CASE Answer(s)
        BY <1>1, <2>1, Answers
    <2>2. CASE Continue(s, t)
        BY <1>1, <1>4, <2>2, Continues DEF RunIsSound
    <2> QED BY <2>1, <2>2 DEF ApplyResults
<1>6. applied' \subseteq Key
    BY <1>1, <1>2 DEF Key, IInv, Typed
<1> QED BY <1>3, <1>5, <1>6 DEF ApplyResults, records, TasksKept, IInv, Typed

LEMMA RejectCandidateStep ==
    ASSUME IInv, NEW s \in Slot, RejectCandidate(s)
    PROVE  StoreStep /\ TaskInv' /\ Typed'
<1> DEFINE c == task[s].candidate
           target == task[s].target
           t == [op |-> "begin_repair", candidate |-> c]
<1>1. c \in Candidate /\ target \in RepairTarget /\ lock = s
    BY Inside, TaskFields DEF RejectCandidate, Serving, Holds, IInv, Typed
<1>2. UNCHANGED <<workflow, applied>> \/ (RejectCurrent(target) /\ c = Current)
    BY <1>1 DEF RejectCandidate, Routable, Commits, RejectCurrent, Settled, DoReject, Current,
                records
<1>3. StoreStep
    BY <1>1, <1>2, CalmIsStep DEF RejectCandidate, records, StoreStep
<1>4. t \in Task /\ t.op = "begin_repair"
    BY <1>1 DEF Task
<1>5. TasksKept
    <2>1. CASE Answer(s)
        BY <1>1, <2>1, Answers
    <2>2. CASE Continue(s, t)
        BY <1>1, <1>4, <2>2, Continues DEF RunIsSound
    <2> QED BY <2>1, <2>2 DEF RejectCandidate
<1>6. applied' \subseteq Key
    BY <1>1, <1>2 DEF RejectCurrent, Key, IInv, Typed
<1> QED BY <1>3, <1>5, <1>6 DEF RejectCandidate, records, TasksKept, IInv, Typed

LEMMA BeginRepairIsStep ==
    ASSUME IInv, NEW s \in Slot, ApplyRepair(s)
    PROVE  StoreStep /\ TaskInv' /\ Typed'
<1> DEFINE key == <<"begin-repair", task[s].candidate, workflow.repair_cycles>>
<1>1. lock = s /\ task[s].candidate \in Candidate
    BY Inside, TaskFields DEF ApplyRepair, Serving, Holds, IInv, Typed
<1>2. \/ UNCHANGED <<workflow, applied>>
      \/ reservation = None /\ DoBeginRepair /\ applied' = applied \union {key}
    BY DEF ApplyRepair, Apply, Commits, DoBeginRepair
<1>3. StoreStep
    <2>1. CASE UNCHANGED <<workflow, applied>>
        BY <2>1, CalmIsStep DEF ApplyRepair, records
    <2>2. CASE reservation = None /\ DoBeginRepair /\ applied' = applied \union {key}
        BY <2>2, OtherKeys DEF ApplyRepair, records, StoreStep, SetAside, Settled
    <2> QED BY <1>2, <2>1, <2>2
<1>4. TasksKept
    BY <1>1, Answers DEF ApplyRepair
<1>5. CanBeginRepair(workflow) => workflow.repair_cycles \in 1..U8Max
    <2> SUFFICES ASSUME CanBeginRepair(workflow) PROVE workflow.repair_cycles \in 1..U8Max
        OBVIOUS
    <2>1. CurrentPhase = "Repair"
        BY PhaseOfWork DEF CanBeginRepair, Suspended, CurrentPhase
    <2>2. RejectedCandidates # {} /\ IsFiniteSet(RejectedCandidates)
          /\ workflow.repair_cycles = Cardinality(RejectedCandidates)
        BY <2>1 DEF IInv, StoreInv, BudgetCountsRejections
    <2>3. workflow.repair_cycles # 0
        BY <2>2, FS_EmptySet
    <2>4. workflow.repair_cycles \in 0..U8Max
        BY DEF IInv, StoreInv, Sound, WorkflowRecord
    <2> QED BY <2>3, <2>4, LifecycleAssumption
<1>6. applied' \subseteq Key
    BY <1>1, <1>2, <1>5 DEF Key, IInv, Typed, DoBeginRepair
<1> QED BY <1>3, <1>4, <1>6 DEF ApplyRepair, records, TasksKept, IInv, Typed

-----------------------------------------------------------------------------
LEMMA SubmitReviewStep ==
    ASSUME IInv, NEW s \in Slot, NEW c \in Candidate, NEW role \in Role,
           NEW decision \in Decision, SubmitReview(s, c, role, decision)
    PROVE  StoreStep /\ TaskInv' /\ Typed'
<1>1. reviews \in [Candidate -> [Role -> Decision \union {None}]]
    BY DEF IInv, Typed
<1>2. \/ UNCHANGED reviews
      \/ /\ reviews[c][role] = None /\ c = Current /\ workflow.state = "IndependentReviews"
         /\ reviews' = [reviews EXCEPT ![c][role] = decision]
    BY DEF SubmitReview, Current
<1>3. RecordStep
    BY <1>1, <1>2 DEF SubmitReview, RecordStep
<1> DEFINE t == [op |-> "review", candidate |-> c]
<1>4. t \in Task /\ t.op = "review"
    BY DEF Task
<1>5. TasksKept
    BY <1>4, Continues DEF SubmitReview, Free, RunIsSound
<1>6. reviews' \in [Candidate -> [Role -> Decision \union {None}]]
    <2>1. [reviews[c] EXCEPT ![role] = decision] \in [Role -> Decision \union {None}]
        BY <1>1
    <2> QED BY <1>1, <1>2, <2>1
<1> QED BY <1>3, <1>5, <1>6 DEF SubmitReview, StoreStep, TasksKept, IInv, Typed

LEMMA ReviewsReadyIsStep ==
    ASSUME IInv, NEW s \in Slot, ApplyReviews(s)
    PROVE  StoreStep /\ TaskInv' /\ Typed'
<1> DEFINE c == task[s].candidate
<1>1. lock = s /\ c \in Candidate
    BY Inside, TaskFields DEF ApplyReviews, Serving, Holds, IInv, Typed
<1>2. UNCHANGED <<workflow, applied>> \/ Open(c)
    BY DEF ApplyReviews, Apply, Commits, records, Open, Settled, Opened, DoReviewsReady
<1>3. StoreStep
    BY <1>1, <1>2, CalmIsStep DEF ApplyReviews, records, StoreStep
<1>4. TasksKept
    BY <1>1, Answers DEF ApplyReviews
<1>5. applied' \subseteq Key
    BY <1>1, <1>2 DEF Open, Key, IInv, Typed
<1> QED BY <1>3, <1>4, <1>5 DEF ApplyReviews, records, TasksKept, IInv, Typed

LEMMA SubmitArbitrationStep ==
    ASSUME IInv, NEW s \in Slot, NEW c \in Candidate, NEW verdict \in Verdict,
           SubmitArbitration(s, c, verdict)
    PROVE  StoreStep /\ TaskInv' /\ Typed'
<1>1. /\ arbitration \in [Candidate -> Verdict \union {None}] /\ lock = None
      /\ arbitration' = [arbitration EXCEPT ![c] = verdict]
      /\ UNCHANGED <<workflow, applied, reviews, reservation>>
    BY DEF IInv, Typed, SubmitArbitration, Free
<1>2. RecordStep
    BY <1>1 DEF SubmitArbitration, RecordStep
<1> DEFINE t == IF verdict = "Approved"
                THEN [op |-> "approve", candidate |-> c]
                ELSE [op |-> "reject", candidate |-> c, target |-> verdict]
<1>3. /\ t \in Task /\ t.op \in {"approve", "reject"} /\ t.candidate = c
      /\ t.op = "approve" => verdict = "Approved"
    BY DEF Task, Verdict
<1>4. verdict = "Approved" => Approves(c)'
    BY <1>1 DEF SubmitArbitration, Approvable, Approves, Current, BothApproved
<1>5. Continue(s, t)
    BY DEF SubmitArbitration
<1>6. TasksKept
    <2> HIDE DEF t
    <2>1. (t.op = "approve") => Approves(t.candidate)'
        BY <1>3, <1>4 DEF Approves
    <2> QED BY <1>1, <1>3, <1>5, <2>1, Continues DEF RunIsSound
<1>7. arbitration' \in [Candidate -> Verdict \union {None}]
    BY <1>1
<1> QED BY <1>2, <1>6, <1>7 DEF SubmitArbitration, StoreStep, TasksKept, IInv, Typed

LEMMA ApproveCandidateStep ==
    ASSUME IInv, NEW s \in Slot, ApproveCandidate(s)
    PROVE  StoreStep /\ TaskInv' /\ Typed'
<1> DEFINE c == task[s].candidate
<1>1. lock = s /\ c \in Candidate
    BY Inside, TaskFields DEF ApproveCandidate, Serving, Holds, IInv, Typed
<1>2. Approves(c)
    BY DEF ApproveCandidate, Serving, IInv, TaskInv, TaskSound
<1>3. UNCHANGED <<workflow, applied>> \/ ApproveCurrent
    BY <1>1, <1>2 DEF ApproveCandidate, Apply, Commits, records, Approves, ApproveCurrent,
                      Settled, DoApprove
<1>4. StoreStep
    BY <1>3, CalmIsStep DEF ApproveCandidate, records, StoreStep
<1>5. TasksKept
    BY <1>1, Answers DEF ApproveCandidate
<1>6. applied' \subseteq Key
    BY <1>3 DEF ApproveCurrent, Key, IInv, Typed
<1> QED BY <1>4, <1>5, <1>6 DEF ApproveCandidate, records, TasksKept, IInv, Typed

-----------------------------------------------------------------------------
LEMMA ReserveDeliveryStep ==
    ASSUME IInv, NEW s \in Slot, NEW c \in Candidate, ReserveDelivery(s, c)
    PROVE  StoreStep /\ TaskInv' /\ Typed'
<1>1. RecordStep
    BY DEF ReserveDelivery, records, Promotable, RecordStep, Current
<1> DEFINE t == [op |-> "promote", candidate |-> c, pc |-> "apply"]
<1>2. t \in Task /\ t.op = "promote"
    BY DEF Task
<1>3. TasksKept
    BY <1>2, Detaches DEF ReserveDelivery, Free, RunIsSound, Holds
<1> QED BY <1>1, <1>3 DEF ReserveDelivery, records, StoreStep, TasksKept, IInv, Typed

LEMMA PromoteFilesStep ==
    ASSUME IInv, NEW s \in Slot, PromoteFiles(s)
    PROVE  StoreStep /\ TaskInv' /\ Typed'
<1>1. /\ task[s] \in [op : {"promote"}, candidate : Candidate,
                      pc : {"apply", "release", "deliver"}]
      /\ task \in [Slot -> Task]
    BY DEF PromoteFiles, Serving, IInv, Typed, Task, Idle
<1>2. CASE task' = [task EXCEPT ![s] = Idle]
    <2>1. Idle \in Task /\ ~Holds(Idle) /\ RunIsSound(Idle)
        BY DEF Task, Idle, Holds, RunIsSound
    <2> QED BY <1>2, <2>1, TaskAside DEF PromoteFiles
<1>3. ASSUME NEW pc \in {"deliver", "release"}, task' = [task EXCEPT ![s].pc = pc]
      PROVE  StoreStep /\ TaskInv' /\ Typed'
    <2> DEFINE t == [task[s] EXCEPT !.pc = pc]
    <2>1. t \in Task /\ t.op = "promote"
        BY <1>1 DEF Task
    <2>2. task' = [task EXCEPT ![s] = t]
        BY <1>1, <1>3
    <2> HIDE DEF t
    <2>3. ~Holds(t) /\ RunIsSound(t)
        BY <2>1 DEF Holds, RunIsSound
    <2> QED BY <2>1, <2>2, <2>3, TaskAside DEF PromoteFiles
<1> QED BY <1>2, <1>3 DEF PromoteFiles

LEMMA ReleaseDeliveryStep ==
    ASSUME IInv, NEW s \in Slot, ReleaseDelivery(s)
    PROVE  StoreStep /\ TaskInv' /\ Typed'
<1>1. RecordStep
    BY DEF ReleaseDelivery, records, RecordStep
<1>2. TasksKept
    BY Answers DEF ReleaseDelivery
<1> QED BY <1>1, <1>2 DEF ReleaseDelivery, records, StoreStep, TasksKept, IInv, Typed

LEMMA DeliverCandidateStep ==
    ASSUME IInv, NEW s \in Slot, DeliverCandidate(s)
    PROVE  StoreStep /\ TaskInv' /\ Typed'
<1> DEFINE c == task[s].candidate
<1>1. c \in Candidate
    BY TaskFields DEF DeliverCandidate, Serving, IInv, Typed
<1>2. \/ /\ UNCHANGED <<workflow, applied>> /\ reservation' \in {reservation, None}
      \/ DeliverCurrent /\ c = Current
    BY <1>1 DEF DeliverCandidate, Promotable, DeliverCurrent, Current, records
<1>3. StoreStep
    BY <1>2 DEF DeliverCandidate, records, StoreStep, RecordStep
<1>4. TasksKept
    BY Answers DEF DeliverCandidate
<1>5. applied' \subseteq Key /\ reservation' \in Candidate \union {None}
    BY <1>1, <1>2 DEF DeliverCurrent, Key, IInv, Typed
<1> QED BY <1>3, <1>4, <1>5 DEF DeliverCandidate, records, TasksKept, IInv, Typed

-----------------------------------------------------------------------------
LEMMA FaultStep ==
    ASSUME IInv, Crash \/ \E s \in Slot : StoreError(s)
    PROVE  StoreStep /\ TaskInv' /\ Typed'
<1>1. UNCHANGED durable /\ faults' \in 0..MaxFaults /\ lock' = None
    BY LifecycleAssumption DEF Crash, StoreError, IInv, Typed
<1>2. RecordStep
    BY <1>1 DEF durable, records, RecordStep
<1>3. Idle \in Task /\ Idle.op = "idle"
    BY DEF Task, Idle
<1>4. \A r \in Slot : task'[r] = Idle \/ (task'[r] = task[r] /\ ~Holds(task[r]))
    BY NoneAssumption DEF Crash, StoreError, IInv, Typed, TaskInv, TaskSound
<1>5. task' \in [Slot -> Task]
    BY <1>3 DEF Crash, StoreError, IInv, Typed
<1>6. ASSUME NEW r \in Slot PROVE TaskSound(r)'
    <2>1. CASE task'[r] = Idle
        BY <1>3, <2>1 DEF TaskSound, Holds, RunIsSound
    <2>2. CASE task'[r] = task[r] /\ ~Holds(task[r])
        BY <2>2 DEF TaskSound, Holds, RunIsSound, IInv, TaskInv
    <2> QED BY <1>4, <2>1, <2>2
<1> QED BY <1>1, <1>2, <1>5, <1>6 DEF durable, records, StoreStep, TaskInv, IInv, Typed

LEMMA EditWorktreeStep ==
    ASSUME IInv, EditWorktree
    PROVE  StoreStep /\ TaskInv' /\ Typed'
<1>1. RecordStep
    BY DEF EditWorktree, records, RecordStep
<1>2. TaskInv'
    BY DEF EditWorktree, records, IInv, TaskInv, TaskSound, Holds, RunIsSound, Approves, Current,
           BothApproved
<1> QED BY <1>1, <1>2 DEF EditWorktree, records, StoreStep, IInv, Typed

-----------------------------------------------------------------------------
LEMMA ServeStep ==
    ASSUME IInv, NEW s \in Slot, Serve(s)
    PROVE  StoreStep /\ TaskInv' /\ Typed'
<1>1. ASSUME NEW mode \in Modes, RouteWorkflow(s, mode)
      PROVE  StoreStep /\ TaskInv' /\ Typed'
    BY <1>1, RouteWorkflowStep
<1>2. CASE ApplyIntake(s) \/ AcceptArchitecture(s) \/ SavePlan(s) \/ SaveCandidate(s)
    BY <1>2, CompleteIntakeStep, AcceptArchitectureStep, SavePlanStep, SaveCandidateStep
<1>3. CASE ApplyReady(s) \/ RunGates(s) \/ AbandonRun(s) \/ SaveEvidence(s)
    BY <1>3, CandidateReadyStep, RunGatesStep, AbandonRunStep, SaveEvidenceStep
<1>4. CASE ApplyResults(s) \/ RejectCandidate(s) \/ ApplyRepair(s) \/ ApplyReviews(s)
    BY <1>4, ApplyResultsStep, RejectCandidateStep, BeginRepairIsStep, ReviewsReadyIsStep
<1>5. CASE ApproveCandidate(s) \/ PromoteFiles(s) \/ ReleaseDelivery(s) \/ DeliverCandidate(s)
    BY <1>5, ApproveCandidateStep, PromoteFilesStep, ReleaseDeliveryStep, DeliverCandidateStep
<1> QED BY <1>1, <1>2, <1>3, <1>4, <1>5 DEF Serve

LEMMA RequestStep ==
    ASSUME IInv, NEW s \in Slot, Request(s)
    PROVE  StoreStep /\ TaskInv' /\ Typed'
<1>1. CASE StartWorkflow(s) \/ \E p \in Plan : SaveArchitecture(s, p)
    BY <1>1, StartWorkflowStep, SaveArchitectureStep
<1>2. ASSUME NEW c \in Candidate,
             DiscoverGates(s, c) \/ ReadWorktree(s, c) \/ VerifyCandidate(s, c)
             \/ ReserveDelivery(s, c)
      PROVE  StoreStep /\ TaskInv' /\ Typed'
    BY <1>2, DiscoverGatesStep, ReadWorktreeStep, VerifyCandidateStep, ReserveDeliveryStep
<1>3. ASSUME NEW c \in Candidate, NEW role \in Role, NEW decision \in Decision,
             SubmitReview(s, c, role, decision)
      PROVE  StoreStep /\ TaskInv' /\ Typed'
    BY <1>3, SubmitReviewStep
<1>4. ASSUME NEW c \in Candidate, NEW verdict \in Verdict, SubmitArbitration(s, c, verdict)
      PROVE  StoreStep /\ TaskInv' /\ Typed'
    BY <1>4, SubmitArbitrationStep
<1> QED BY <1>1, <1>2, <1>3, <1>4 DEF Request

LEMMA NextStep ==
    ASSUME IInv, Next
    PROVE  StoreStep /\ TaskInv' /\ Typed'
<1>1. CASE \E s \in Slot : Request(s) \/ Serve(s)
    BY <1>1, RequestStep, ServeStep
<1>2. CASE Crash \/ \E s \in Slot : StoreError(s)
    BY <1>2, FaultStep
<1>3. CASE \E c \in Candidate : FreezeAgain(c)
    BY <1>3, FreezeAgainStep
<1>4. CASE ReportBlocked \/ ReportPlanDefect \/ ControlRequest
    BY <1>4, ReportStep, ControlRequestStep
<1>5. CASE EditWorktree
    BY <1>5, EditWorktreeStep
<1> QED BY <1>1, <1>2, <1>3, <1>4, <1>5 DEF Next

LEMMA StutterStep ==
    ASSUME IInv, UNCHANGED vars
    PROVE  StoreStep /\ TaskInv' /\ Typed'
<1>1. RecordStep
    BY DEF vars, durable, records, RecordStep
<1>2. TaskInv'
    BY DEF vars, durable, records, IInv, TaskInv, TaskSound, Holds, RunIsSound, Approves,
           Current, BothApproved
<1> QED BY <1>1, <1>2 DEF vars, durable, records, StoreStep, IInv, Typed

LEMMA InitIInv == Init => IInv
<1> SUFFICES ASSUME Init PROVE IInv
    OBVIOUS
<1>1. Sound(workflow)
    BY NewSound DEF Init
<1>2. CurrentPhase = "Intake" /\ Current = None /\ workflow.repair_cycles = 0
    BY DEF Init, NewWorkflow, CurrentPhase, Phase, Current
<1>3. /\ RejectedCandidates = {} /\ ApprovedCandidates = {} /\ DeliveredCandidates = {}
    BY DEF Init, RejectedCandidates, ApprovedCandidates, DeliveredCandidates
<1>4. IsFiniteSet(RejectedCandidates) /\ BudgetCountsRejections
    BY <1>2, <1>3, FS_EmptySet DEF BudgetCountsRejections
<1>5. \A c \in Candidate : ~Reviewed(c)
    BY DEF Init, Reviewed
<1>6. RejectedIsFinal /\ ReviewsBeforeVerdict /\ OnlyArbiterApproves /\ ReservationIsCurrent
    BY <1>2, <1>3 DEF RejectedIsFinal, ReviewsBeforeVerdict, OnlyArbiterApproves,
                      ReservationIsCurrent, Init
<1>7. StoreInv
    BY <1>1, <1>2, <1>3, <1>4, <1>5, <1>6 DEF StoreInv
<1>8. Idle \in Task /\ Idle.op = "idle"
    BY DEF Task, Idle
<1>9. TaskInv
    BY <1>8 DEF Init, TaskInv, TaskSound, Holds, RunIsSound
<1>10. /\ frozen \in [Candidate -> Content \union {None}]
       /\ evidence \in [Candidate -> [1..Len(Gates) -> Status \union {None}]]
       /\ reviews \in [Candidate -> [Role -> Decision \union {None}]]
       /\ arbitration \in [Candidate -> Verdict \union {None}]
    BY DEF Init
<1>11. task \in [Slot -> Task]
    BY <1>8 DEF Init
<1>12. faults \in 0..MaxFaults
    BY LifecycleAssumption DEF Init
<1>13. /\ applied \subseteq Key /\ requested \in BOOLEAN /\ plan \in Plan \union {None}
       /\ planned \subseteq Candidate /\ reservation \in Candidate \union {None}
       /\ worktree \in Content /\ lock \in Slot \union {None}
    BY DEF Init
<1>14. Typed
    BY <1>10, <1>11, <1>12, <1>13 DEF Typed
<1> QED BY <1>7, <1>9, <1>14 DEF IInv

(* Every state the daemon can reach satisfies the inductive invariant.     *)
LEMMA Inductive == Spec => []IInv
<1>1. Init => IInv
    BY InitIInv
<1>2. IInv /\ [Next]_vars => IInv'
    BY NextStep, StutterStep, StoreStepKeeps DEF IInv
<1> QED BY <1>1, <1>2, PTL DEF Spec

(* Whichever requests overlap and wherever the daemon stops, the store is  *)
(* well typed, the budget counts rejected candidates, and delivery is of a *)
(* candidate the arbiter approved (lifecycle.rs, repair.rs, workflows.rs). *)
THEOREM InvCorrect == Spec => []Inv
<1>1. IInv => Inv
    BY DEF IInv, StoreInv, Typed, Inv, TypeOK, Sound
<1> QED BY <1>1, Inductive, PTL

(* A rejected candidate is never judged again, however its freezing, its   *)
(* verification or its verdict is repeated (lifecycle.rs, repair.rs).      *)
THEOREM RejectionCorrect == Spec => []RejectedIsFinal
<1>1. IInv => RejectedIsFinal
    BY DEF IInv, StoreInv
<1> QED BY <1>1, Inductive, PTL

(* In full mode a candidate is arbitrated on its own two reviews and       *)
(* delivered on two approving ones (lifecycle.rs submit_review and         *)
(* submit_arbitration).                                                    *)
THEOREM ReviewsCorrect == Spec => []ReviewsBeforeVerdict
<1>1. IInv => ReviewsBeforeVerdict
    BY DEF IInv, StoreInv
<1> QED BY <1>1, Inductive, PTL

LEMMA StepKinds ==
    ASSUME IInv, [Next]_vars
    PROVE  StoreInv /\ StoreStep
BY NextStep, StutterStep DEF IInv

(* While a delivery is reserved nothing moves the workflow but completing  *)
(* that delivery (workflows.rs, control.rs).                               *)
THEOREM ExclusiveCorrect == Spec => DeliveryIsExclusive
<1>1. IInv /\ [Next]_vars =>
        [reservation # None /\ workflow' # workflow =>
           workflow'.state = "Completed" /\ reservation' = None]_vars
    BY StepKinds, StoreStepIsExclusive
<1> QED BY <1>1, Inductive, PTL DEF Spec, DeliveryIsExclusive

(* The daemon implements the aggregate: it only ever changes a workflow by *)
(* one of the commands of workflow.rs.                                     *)
THEOREM WorkflowRefinement == Spec => ImplementsWorkflow
<1>1. Init => AggregateInit
    BY DEF Init, AggregateInit
<1>2. IInv /\ [Next]_vars => [AggregateNext]_workflow
    BY StepKinds, StoreStepIsCommand
<1> QED BY <1>1, <1>2, Inductive, PTL DEF Spec, ImplementsWorkflow

(* The daemon implements Release: one candidate at a time, judged at most  *)
(* once, and only an approved one released, once.                          *)
THEOREM ReleaseRefinement == Spec => ImplementsRelease
<1>1. Init => R!Init
    BY DEF Init, NewWorkflow, R!Init, Current, RejectedCandidates, ApprovedCandidates,
           DeliveredCandidates, Released
<1>2. IInv /\ [Next]_vars => [R!Next]_(R!releaseVars)
    BY StepKinds, StoreStepIsRelease
<1> QED BY <1>1, <1>2, Inductive, PTL DEF Spec, ImplementsRelease, R!Spec

-----------------------------------------------------------------------------
(* Verification.  The only overlap that spoils the order of verification   *)
(* and review is that of two runs (README, run lifecycle_stale_run): while *)
(* one run at a time is under way, whatever else is interleaved with it,   *)
(* the candidate of the run stays the current one.                         *)
OneRun == \A s \in Slot : \A r \in Slot : Serving(s, "verify") /\ Serving(r, "verify") => s = r

Examined == {"IndependentReviews", "Arbitration", "Delivery", "Completed"}
Waiting == CurrentPhase \in {"Verification", "Cancelled"}

GatesPassed ==
    CurrentPhase \in Examined => \A i \in 1..Len(Gates) : evidence[Current][i] = "Passed"

RunIsCurrent(s) ==
    Serving(s, "verify") =>
        /\ task[s].candidate = Current /\ Waiting
        /\ \A i \in 1..task[s].saved : evidence[Current][i] = task[s].results[i]
        /\ \A r \in Slot : ~Serving(r, "reject")

RunInv == GatesPassed /\ \A s \in Slot : RunIsCurrent(s)

\* The commands that wait for a verdict, or end the wait by a cancellation.
WaitCommand ==
    \/ DoCompleteIntake \/ \E mode \in Modes : DoRoute(mode)
    \/ DoArchitectureAccepted \/ DoReplanExecution
    \/ DoPause \/ DoResume \/ DoCancel
    \/ DoBlockInfrastructure \/ DoResumeInfrastructure
    \/ DoResumeBlocked(AdditionalCycles)

LEMMA WaitPhases ==
    ASSUME StoreInv, WaitCommand
    PROVE  /\ Current' = Current
           /\ CurrentPhase' \in Examined => CurrentPhase' = CurrentPhase
           /\ Waiting => Waiting'
<1>1. Sound(workflow) /\ workflow \in WorkflowRecord
    BY DEF StoreInv, Sound
<1>2. CalmCommand
    BY DEF WaitCommand, CalmCommand
<1>3. Calm(workflow, workflow') /\ CurrentPhase' = Phase(workflow')
    BY <1>2, CalmCommands, PhaseNext
<1>4. CurrentPhase = "Verification" => CurrentPhase' \in {"Verification", "Cancelled"}
    <2> SUFFICES ASSUME CurrentPhase = "Verification"
                 PROVE  CurrentPhase' \in {"Verification", "Cancelled"}
        OBVIOUS
    <2>1. workflow.state \notin {"Intake", "Routing", "Architecture", "Execution"}
        BY DEF CurrentPhase, Phase
    <2>2. CASE DoCancel
        <3>1. workflow'.state = "Cancelled"
            BY <1>1, <2>2 DEF DoCancel, Cancel, WorkflowRecord
        <3> QED BY <1>3, <3>1, PhaseOfWork DEF Suspended
    <2>3. CASE DoResumeBlocked(AdditionalCycles)
        BY <2>3 DEF DoResumeBlocked, CanResumeBlocked, CurrentPhase, Phase
    <2>4. CASE DoPause \/ DoResume \/ DoBlockInfrastructure \/ DoResumeInfrastructure
        BY <1>1, <1>3, <2>4, Suspensions
           DEF DoPause, DoResume, DoBlockInfrastructure, DoResumeInfrastructure, CurrentPhase
    <2>5. ~DoCompleteIntake /\ ~DoArchitectureAccepted /\ ~DoReplanExecution
          /\ \A mode \in Modes : ~DoRoute(mode)
        BY <2>1 DEF DoCompleteIntake, CanCompleteIntake, DoArchitectureAccepted,
                    CanArchitectureAccepted, DoReplanExecution, CanReplanExecution,
                    DoRoute, CanRoute
    <2> QED BY <2>2, <2>3, <2>4, <2>5 DEF WaitCommand
<1> QED BY <1>3, <1>4 DEF Calm, CurrentPhase, Current, Waiting, Examined, Early

\* What a step does to the aggregate, and which handler does it.
Passes(s) == ApplyResults(s) /\ Passed(task[s].results) /\ DoVerificationPassed
Moved ==
    \/ UNCHANGED workflow
    \/ WaitCommand
    \/ \E s \in Slot : Passes(s)
    \/ \E s \in Slot : Serving(s, "reject") /\ \E target \in RepairTarget : RejectCurrent(target)
    \/ \E c \in Candidate : Propose(c) \/ Open(c)
    \/ SetAside \/ ApproveCurrent \/ DeliverCurrent

LEMMA ServeMoves ==
    ASSUME IInv, NEW s \in Slot, Serve(s)
    PROVE  Moved
<1>1. CASE ApplyIntake(s)
    BY <1>1 DEF ApplyIntake, Apply, Commits, Moved, WaitCommand, DoCompleteIntake
<1>2. ASSUME NEW mode \in Modes, RouteWorkflow(s, mode)
      PROVE  Moved
    BY <1>2 DEF RouteWorkflow, Apply, Commits, Moved, WaitCommand, DoRoute
<1>3. CASE AcceptArchitecture(s)
    BY <1>3 DEF AcceptArchitecture, Apply, Commits, Moved, WaitCommand, DoArchitectureAccepted
<1>4. CASE SavePlan(s) \/ SaveCandidate(s) \/ RunGates(s) \/ AbandonRun(s) \/ SaveEvidence(s)
           \/ PromoteFiles(s) \/ ReleaseDelivery(s)
    BY <1>4 DEF SavePlan, SaveCandidate, RunGates, AbandonRun, SaveEvidence, PromoteFiles,
                ReleaseDelivery, durable, Moved
<1>5. CASE ApplyReady(s)
    <2>1. task[s].candidate \in Candidate
        BY <1>5, TaskFields DEF ApplyReady, Serving, IInv, Typed
    <2> QED BY <1>5, <2>1 DEF ApplyReady, Apply, Commits, records, Propose, Settled, Proposed,
                              DoCandidateReady, Moved
<1>6. CASE ApplyResults(s)
    BY <1>6 DEF ApplyResults, Apply, Commits, DoVerificationPassed, DoBlockInfrastructure,
                WaitCommand, Passes, Moved
<1>7. CASE RejectCandidate(s)
    <2>1. task[s].candidate \in Candidate /\ task[s].target \in RepairTarget
        BY <1>7, TaskFields DEF RejectCandidate, Serving, IInv, Typed
    <2>2. UNCHANGED workflow \/ RejectCurrent(task[s].target)
        BY <1>7, <2>1 DEF RejectCandidate, Routable, Commits, RejectCurrent, Settled, DoReject,
                          Current, records
    <2> QED BY <1>7, <2>1, <2>2 DEF RejectCandidate, Moved
<1>8. CASE ApplyRepair(s)
    <2>1. \/ UNCHANGED workflow
          \/ /\ reservation = None /\ DoBeginRepair
             /\ \E c, n : applied' = applied \union {<<"begin-repair", c, n>>}
        BY <1>8 DEF ApplyRepair, Apply, Commits, DoBeginRepair
    <2> QED BY <1>8, <2>1, OtherKeys DEF ApplyRepair, records, SetAside, Settled, Moved
<1>9. CASE ApplyReviews(s)
    <2>1. task[s].candidate \in Candidate
        BY <1>9, TaskFields DEF ApplyReviews, Serving, IInv, Typed
    <2> QED BY <1>9, <2>1 DEF ApplyReviews, Apply, Commits, records, Open, Settled, Opened,
                              DoReviewsReady, Moved
<1>10. CASE ApproveCandidate(s)
    <2>1. task[s].candidate \in Candidate
        BY <1>10, TaskFields DEF ApproveCandidate, Serving, IInv, Typed
    <2>2. Approves(task[s].candidate)
        BY <1>10 DEF ApproveCandidate, Serving, IInv, TaskInv, TaskSound
    <2> QED BY <1>10, <2>1, <2>2 DEF ApproveCandidate, Apply, Commits, records, Approves,
                                     ApproveCurrent, Settled, DoApprove, Moved
<1>11. CASE DeliverCandidate(s)
    <2>1. task[s].candidate \in Candidate
        BY <1>11, TaskFields DEF DeliverCandidate, Serving, IInv, Typed
    <2> QED BY <1>11, <2>1 DEF DeliverCandidate, Promotable, DeliverCurrent, Current, records,
                               Moved
<1> QED BY <1>1, <1>2, <1>3, <1>4, <1>5, <1>6, <1>7, <1>8, <1>9, <1>10, <1>11 DEF Serve

LEMMA NextMoves ==
    ASSUME IInv, Next
    PROVE  Moved
<1>1. ASSUME NEW s \in Slot, Request(s)
      PROVE  UNCHANGED workflow
    BY <1>1 DEF Request, StartWorkflow, SaveArchitecture, DiscoverGates, ReadWorktree,
                VerifyCandidate, SubmitReview, SubmitArbitration, ReserveDelivery, durable
<1>2. ASSUME NEW s \in Slot, Crash \/ StoreError(s) \/ EditWorktree
      PROVE  UNCHANGED workflow
    BY <1>2 DEF Crash, StoreError, EditWorktree, durable
<1>3. ASSUME NEW c \in Candidate, FreezeAgain(c)
      PROVE  Moved
    BY <1>3 DEF FreezeAgain, Apply, Commits, records, Propose, Settled, Proposed,
                DoCandidateReady, Moved
<1>4. CASE ReportBlocked \/ ReportPlanDefect
    BY <1>4 DEF ReportBlocked, ReportPlanDefect, ApplyFresh, DoBlockInfrastructure,
                DoReplanExecution, WaitCommand, Moved
<1>5. CASE ControlRequest
    BY <1>5 DEF ControlRequest, PauseWorkflow, ResumeWorkflow, CancelWorkflow,
                RetryInfrastructure, RetryBlocked, Control, ApplyFresh, WaitCommand, DoPause,
                DoResume, DoCancel, DoResumeInfrastructure, DoResumeBlocked, Moved
<1>6. CASE Crash \/ EditWorktree
    BY <1>6 DEF Crash, EditWorktree, durable, Moved
<1> QED BY <1>1, <1>2, <1>3, <1>4, <1>5, <1>6, ServeMoves DEF Next, Moved

\* Where a run and a rejection come from: a request, or the task as it was.
LEMMA TaskOrigins ==
    ASSUME IInv, Next, NEW r \in Slot, task'[r] # task[r],
           \A s \in Slot : /\ \A c \in Candidate : ~VerifyCandidate(s, c)
                           /\ ~RunGates(s) /\ ~SaveEvidence(s) /\ ~ApplyResults(s)
    PROVE  /\ task'[r].op # "verify"
           /\ task'[r].op = "reject" => workflow.state = "Arbitration"
<1> DEFINE Kept == \E s \in Slot : \E t :
                     /\ task' = [task EXCEPT ![s] = t] /\ t.op # "verify"
                     /\ t.op = "reject" => workflow.state = "Arbitration"
<1>1. task \in [Slot -> Task]
    BY DEF IInv, Typed
<1>2. Idle.op = "idle"
    BY DEF Idle
<1>3. Kept => task'[r].op # "verify" /\ (task'[r].op = "reject" => workflow.state = "Arbitration")
    BY <1>1
<1> HIDE DEF Kept
<1>4. ASSUME NEW s \in Slot, NEW t, Continue(s, t) \/ Detach(s, t), t.op \notin {"verify", "reject"}
      PROVE  Kept
    BY <1>4 DEF Continue, Detach, Kept
<1>5. ASSUME NEW s \in Slot, Answer(s)
      PROVE  Kept
    BY <1>2, <1>4, <1>5 DEF Answer
<1>6. ASSUME NEW s \in Slot, Serve(s)
      PROVE  Kept
    <2>1. CASE ApplyIntake(s)
        BY <1>4, <2>1 DEF ApplyIntake
    <2>2. CASE SaveCandidate(s)
        BY <1>4, <1>5, <2>2 DEF SaveCandidate
    <2>3. CASE RejectCandidate(s)
        BY <1>4, <1>5, <2>3 DEF RejectCandidate
    <2>4. CASE AbandonRun(s)
        BY <1>2, <2>4 DEF AbandonRun, Kept
    <2>5. CASE PromoteFiles(s)
        <3>1. ASSUME NEW pc, task' = [task EXCEPT ![s].pc = pc]
              PROVE  Kept
            <4> DEFINE t == [task[s] EXCEPT !.pc = pc]
            <4>1. task[s] \in [op : {"promote"}, candidate : Candidate,
                               pc : {"apply", "release", "deliver"}]
                BY <1>1, <2>5 DEF PromoteFiles, Serving, Task, Idle
            <4>2. task' = [task EXCEPT ![s] = t] /\ t.op = "promote"
                BY <1>1, <3>1, <4>1
            <4> QED BY <4>2 DEF Kept
        <3> QED BY <1>2, <2>5, <3>1 DEF PromoteFiles, Kept
    <2>6. CASE \/ \E mode \in Modes : RouteWorkflow(s, mode)
               \/ AcceptArchitecture(s) \/ SavePlan(s) \/ ApplyReady(s) \/ ApplyRepair(s)
               \/ ApplyReviews(s) \/ ApproveCandidate(s) \/ ReleaseDelivery(s)
               \/ DeliverCandidate(s)
        BY <1>5, <2>6 DEF RouteWorkflow, AcceptArchitecture, SavePlan, ApplyReady,
                          ApplyRepair, ApplyReviews, ApproveCandidate, ReleaseDelivery,
                          DeliverCandidate
    <2> QED BY <1>6, <2>1, <2>2, <2>3, <2>4, <2>5, <2>6 DEF Serve
<1>7. ASSUME NEW s \in Slot, Request(s)
      PROVE  Kept
    <2>1. CASE StartWorkflow(s) \/ \E p \in Plan : SaveArchitecture(s, p)
        BY <1>4, <2>1 DEF StartWorkflow, SaveArchitecture
    <2>2. ASSUME NEW c \in Candidate,
                 \/ DiscoverGates(s, c) \/ ReadWorktree(s, c) \/ ReserveDelivery(s, c)
                 \/ \E role \in Role, decision \in Decision : SubmitReview(s, c, role, decision)
          PROVE  Kept
        BY <1>4, <2>2 DEF DiscoverGates, ReadWorktree, ReserveDelivery, SubmitReview
    <2>3. ASSUME NEW c \in Candidate, NEW verdict \in Verdict, SubmitArbitration(s, c, verdict)
          PROVE  Kept
        <3>1. PICK t : Continue(s, t) /\ t.op # "verify"
            BY <2>3 DEF SubmitArbitration
        <3>2. workflow.state = "Arbitration"
            BY <2>3 DEF SubmitArbitration
        <3> QED BY <3>1, <3>2 DEF Continue, Kept
    <2> QED BY <1>7, <2>1, <2>2, <2>3 DEF Request
<1>8. ASSUME NEW s \in Slot, StoreError(s)
      PROVE  Kept
    BY <1>2, <1>8 DEF StoreError, Kept
<1>9. CASE Crash
    BY <1>2, <1>9 DEF Crash
<1>10. CASE ReportBlocked \/ ReportPlanDefect \/ ControlRequest \/ EditWorktree
            \/ \E c \in Candidate : FreezeAgain(c)
    BY <1>10 DEF ReportBlocked, ReportPlanDefect, ControlRequest, PauseWorkflow, ResumeWorkflow,
                 CancelWorkflow, RetryInfrastructure, RetryBlocked, Control, EditWorktree,
                 FreezeAgain, NoTask
<1> QED BY <1>3, <1>6, <1>7, <1>8, <1>9, <1>10 DEF Next

LEMMA EvidenceKept ==
    ASSUME Next, \A s \in Slot : ~SaveEvidence(s)
    PROVE  UNCHANGED evidence
<1>1. ASSUME NEW s \in Slot, Request(s)
      PROVE  UNCHANGED evidence
    BY <1>1 DEF Request, StartWorkflow, SaveArchitecture, DiscoverGates, ReadWorktree,
                VerifyCandidate, SubmitReview, SubmitArbitration, ReserveDelivery, durable, records
<1>2. ASSUME NEW s \in Slot, Serve(s)
      PROVE  UNCHANGED evidence
    <2>1. CASE ApplyIntake(s) \/ (\E mode \in Modes : RouteWorkflow(s, mode))
               \/ AcceptArchitecture(s) \/ SavePlan(s) \/ SaveCandidate(s) \/ ApplyReady(s)
        BY <2>1 DEF ApplyIntake, RouteWorkflow, AcceptArchitecture, SavePlan, SaveCandidate,
                    ApplyReady, records
    <2>2. CASE RunGates(s) \/ AbandonRun(s) \/ ApplyResults(s) \/ RejectCandidate(s)
               \/ ApplyRepair(s) \/ ApplyReviews(s)
        BY <2>2 DEF RunGates, AbandonRun, ApplyResults, RejectCandidate, ApplyRepair,
                    ApplyReviews, durable, records
    <2>3. CASE ApproveCandidate(s) \/ PromoteFiles(s) \/ ReleaseDelivery(s) \/ DeliverCandidate(s)
        BY <2>3 DEF ApproveCandidate, PromoteFiles, ReleaseDelivery, DeliverCandidate, durable,
                    records
    <2> QED BY <1>2, <2>1, <2>2, <2>3 DEF Serve
<1>3. ASSUME NEW s \in Slot, StoreError(s)
      PROVE  UNCHANGED evidence
    BY <1>3 DEF StoreError, durable, records
<1>4. CASE \/ Crash \/ ReportBlocked \/ ReportPlanDefect \/ ControlRequest \/ EditWorktree
           \/ \E c \in Candidate : FreezeAgain(c)
    BY <1>4 DEF Crash, ReportBlocked, ReportPlanDefect, ControlRequest, PauseWorkflow,
                ResumeWorkflow, CancelWorkflow, RetryInfrastructure, RetryBlocked, Control,
                EditWorktree, FreezeAgain, durable, records
<1> QED BY <1>1, <1>2, <1>3, <1>4 DEF Next

\* A run is at the current candidate, so nothing but the run itself moves on.
LEMMA RunMeansWaiting ==
    ASSUME RunInv, NEW s \in Slot, Serving(s, "verify")
    PROVE  Waiting /\ \A r \in Slot : ~Serving(r, "reject")
BY DEF RunInv, RunIsCurrent

LEMMA WaitingStays ==
    ASSUME StoreInv, Moved, Waiting, \A s \in Slot : ~Serving(s, "reject") /\ ~Passes(s)
    PROVE  Current' = Current /\ Waiting'
<1>1. workflow.state \notin {"Arbitration", "IndependentReviews", "QuickExecution", "Execution",
                             "Repair", "Delivery"}
    BY PhaseOfWork DEF Waiting, CurrentPhase, Suspended
<1>2. CASE UNCHANGED workflow
    BY <1>2 DEF Current, Waiting, CurrentPhase, Phase
<1>3. CASE WaitCommand
    BY <1>3, WaitPhases
<1>4. ~SetAside /\ ~ApproveCurrent /\ ~DeliverCurrent
      /\ \A c \in Candidate : ~Propose(c) /\ ~Open(c)
    BY <1>1 DEF SetAside, DoBeginRepair, CanBeginRepair, ApproveCurrent, DoApprove,
                CanApprove, DeliverCurrent, Propose, DoCandidateReady, CanCandidateReady,
                Open, DoReviewsReady, CanReviewsReady
<1> QED BY <1>2, <1>3, <1>4 DEF Moved

\* The candidate is examined only after a run passed; then it stays current
\* as long as it is examined.
LEMMA ExaminedBefore ==
    ASSUME StoreInv, Moved, \A s \in Slot : ~Passes(s), CurrentPhase' \in Examined
    PROVE  Current' = Current /\ CurrentPhase \in Examined
<1>1. CASE UNCHANGED workflow
    BY <1>1 DEF Current, CurrentPhase, Phase
<1>2. CASE WaitCommand
    BY <1>2, WaitPhases
<1>3. ASSUME NEW target \in RepairTarget, RejectCurrent(target)
      PROVE  FALSE
    <2>1. CurrentPhase' \in {"Repair", "Blocked"}
        BY <1>3, Rejection DEF RejectCurrent, Settled, DoReject, Judges
    <2> QED BY <2>1 DEF Examined
<1>4. ASSUME NEW c \in Candidate, Propose(c)
      PROVE  FALSE
    <2>1. CurrentPhase' = "Verification"
        BY <1>4, NewCandidate DEF Propose, Settled, DoCandidateReady, Judges
    <2> QED BY <2>1 DEF Examined
<1>5. ASSUME NEW c \in Candidate, Open(c)
      PROVE  Current' = Current /\ CurrentPhase \in Examined
    <2>1. workflow.state = "IndependentReviews" /\ Current' = Current
        BY <1>5 DEF Open, DoReviewsReady, CanReviewsReady, ReviewsReady, MoveTo,
                    WorkflowRecord, Current, StoreInv, Sound
    <2> QED BY <2>1, PhaseOfWork DEF CurrentPhase, Suspended, Examined
<1>6. CASE SetAside
    <2>1. CurrentPhase' \in {"Execution", "Architecture"}
        BY <1>6, SettingAside DEF SetAside, Settled, DoBeginRepair
    <2> QED BY <2>1 DEF Examined
<1>7. CASE ApproveCurrent
    BY <1>7, Approval DEF ApproveCurrent, Settled, DoApprove, Examined
<1>8. CASE DeliverCurrent
    BY <1>8, Delivering DEF DeliverCurrent, Examined
<1> QED BY <1>1, <1>2, <1>3, <1>4, <1>5, <1>6, <1>7, <1>8 DEF Moved

LEMMA RunFields ==
    ASSUME IInv, NEW s \in Slot, Serving(s, "verify")
    PROVE  /\ task[s] \in [op : {"verify"}, candidate : Candidate, ran : BOOLEAN,
                      results : [1..Len(Gates) -> Status] \union {<<>>}, saved : 0..Len(Gates)]
           /\ IF task[s].ran THEN task[s].results \in [1..Len(Gates) -> Status]
              ELSE task[s].saved = 0
<1>1. task[s].op = "verify" /\ task[s] \in Task
    BY DEF Serving, IInv, Typed
<1>2. RunIsSound(task[s])
    BY DEF IInv, TaskInv, TaskSound
<1> QED BY <1>1, <1>2 DEF RunIsSound, Task, Idle

LEMMA VerifyRun ==
    ASSUME IInv, RunInv, OneRun', NEW s \in Slot, NEW c \in Candidate, VerifyCandidate(s, c)
    PROVE  RunInv'
<1> DEFINE t == [op |-> "verify", candidate |-> c, ran |-> FALSE, results |-> <<>>, saved |-> 0]
<1>1. /\ lock = None /\ workflow.state = "Verification" /\ Current = c
      /\ task' = [task EXCEPT ![s] = t] /\ UNCHANGED <<workflow, evidence>>
    BY DEF VerifyCandidate, Free, Detach, Current, durable, records
<1>2. task \in [Slot -> Task] /\ \A r \in Slot : ~Serving(r, "reject")
    BY <1>1, NoneAssumption DEF IInv, Typed, TaskInv, TaskSound, Holds, Serving
<1>3. /\ task'[s].op = "verify" /\ task'[s].candidate = c /\ task'[s].saved = 0
      /\ \A r \in Slot : r # s => task'[r] = task[r]
    BY <1>1, <1>2
<1>4. CurrentPhase = "Verification" /\ CurrentPhase' = CurrentPhase /\ Current' = Current
    BY <1>1, PhaseOfWork DEF Suspended, CurrentPhase, Phase, Current
<1>5. ASSUME NEW r \in Slot
      PROVE  RunIsCurrent(r)'
    <2>1. Serving(r, "verify")' => r = s
        BY <1>3 DEF OneRun, Serving
    <2>2. \A q \in Slot : ~Serving(q, "reject")'
        BY <1>2, <1>3 DEF Serving
    <2> QED BY <1>1, <1>3, <1>4, <2>1, <2>2 DEF RunIsCurrent, Waiting
<1>6. GatesPassed'
    BY <1>4 DEF GatesPassed, Examined
<1> QED BY <1>5, <1>6 DEF RunInv

LEMMA RunGatesRun ==
    ASSUME IInv, RunInv, NEW s \in Slot, RunGates(s)
    PROVE  RunInv'
<1>1. UNCHANGED <<workflow, evidence>> /\ task \in [Slot -> Task]
    BY DEF RunGates, durable, records, IInv, Typed
<1>2. PICK results : task' = [task EXCEPT ![s].ran = TRUE, ![s].results = results]
    BY DEF RunGates
<1>3. task[s] \in [op : {"verify"}, candidate : Candidate, ran : BOOLEAN,
                   results : [1..Len(Gates) -> Status] \union {<<>>}, saved : 0..Len(Gates)]
      /\ task[s].saved = 0
    BY RunFields DEF RunGates
<1>4. /\ task'[s].op = "verify" /\ task'[s].candidate = task[s].candidate /\ task'[s].saved = 0
      /\ \A r \in Slot : r # s => task'[r] = task[r]
    BY <1>1, <1>2, <1>3
<1>5. CurrentPhase' = CurrentPhase /\ Current' = Current
    BY <1>1 DEF CurrentPhase, Phase, Current
<1>6. ASSUME NEW r \in Slot
      PROVE  RunIsCurrent(r)'
    BY <1>1, <1>3, <1>4, <1>5 DEF RunInv, RunIsCurrent, Serving, Waiting
<1>7. GatesPassed'
    BY <1>1, <1>5 DEF RunInv, GatesPassed
<1> QED BY <1>6, <1>7 DEF RunInv

LEMMA SaveEvidenceRun ==
    ASSUME IInv, RunInv, OneRun, NEW s \in Slot, SaveEvidence(s)
    PROVE  RunInv'
<1> DEFINE next == task[s].saved + 1
           t == [task[s] EXCEPT !.saved = next]
<1>1. /\ Serving(s, "verify") /\ task[s].ran /\ next <= Len(Gates) /\ UNCHANGED workflow
      /\ evidence' = [evidence EXCEPT ![task[s].candidate][next] = task[s].results[next]]
      /\ task' = [task EXCEPT ![s] = t]
    BY DEF SaveEvidence, Continue
<1>2. task[s] \in [op : {"verify"}, candidate : Candidate, ran : BOOLEAN,
                   results : [1..Len(Gates) -> Status] \union {<<>>}, saved : 0..Len(Gates)]
    BY <1>1, RunFields
<1>3. /\ task[s].candidate = Current /\ Waiting
      /\ \A i \in 1..task[s].saved : evidence[Current][i] = task[s].results[i]
      /\ \A r \in Slot : ~Serving(r, "reject")
    BY <1>1 DEF RunInv, RunIsCurrent
<1>4. /\ task \in [Slot -> Task] /\ Current \in Candidate /\ next \in 1..Len(Gates)
      /\ evidence \in [Candidate -> [1..Len(Gates) -> Status \union {None}]]
    BY <1>1, <1>2, <1>3, GatesCount DEF IInv, Typed
<1>5. /\ t.op = "verify" /\ t.candidate = Current /\ t.saved = next
      /\ t.results = task[s].results
    BY <1>2, <1>3
<1>6. CurrentPhase' = CurrentPhase /\ Current' = Current
    BY <1>1 DEF CurrentPhase, Phase, Current
<1> HIDE DEF t
<1>7. \A r \in Slot : task'[r] = IF r = s THEN t ELSE task[r]
    BY <1>1, <1>4
<1>8. \A i \in 1..next : evidence'[Current][i] = t.results[i]
    <2>1. \A i \in 1..Len(Gates) : evidence'[Current][i]
             = IF i = next THEN task[s].results[next] ELSE evidence[Current][i]
        BY <1>1, <1>3, <1>4
    <2> QED BY <1>2, <1>3, <1>4, <1>5, <2>1, GatesCount
<1>9. ASSUME NEW r \in Slot
      PROVE  RunIsCurrent(r)'
    <2>1. Serving(r, "verify")' => r = s
        BY <1>1, <1>7 DEF OneRun, Serving
    <2>2. \A q \in Slot : ~Serving(q, "reject")'
        BY <1>3, <1>5, <1>7 DEF Serving
    <2> QED BY <1>3, <1>5, <1>6, <1>7, <1>8, <2>1, <2>2 DEF RunIsCurrent, Waiting
<1>10. GatesPassed'
    BY <1>3, <1>6 DEF GatesPassed, Waiting, Examined
<1> QED BY <1>9, <1>10 DEF RunInv

LEMMA ApplyResultsRun ==
    ASSUME IInv, RunInv, OneRun, Next, NEW s \in Slot, ApplyResults(s)
    PROVE  RunInv'
<1>1. Serving(s, "verify") /\ task[s].saved = Len(Gates)
    BY DEF ApplyResults, Saved
<1>2. UNCHANGED evidence /\ task \in [Slot -> Task]
    BY DEF ApplyResults, records, IInv, Typed
<1>3. ASSUME NEW r \in Slot
      PROVE  ~Serving(r, "verify")'
    <2>1. PICK t : task' = [task EXCEPT ![s] = t] /\ t.op # "verify"
        <3>1. Answer(s) \/ \E t : Continue(s, t) /\ t.op = "reject"
            BY DEF ApplyResults
        <3>2. Idle.op = "idle"
            BY DEF Idle
        <3> QED BY <3>1, <3>2 DEF Answer, Continue, Detach
    <2>2. CASE r = s
        BY <1>2, <2>1, <2>2 DEF Serving
    <2>3. CASE r # s
        BY <1>1, <1>2, <2>1, <2>3 DEF Serving, OneRun
    <2> QED BY <2>2, <2>3
<1>4. GatesPassed'
    <2>1. task[s].results \in [1..Len(Gates) -> Status]
        BY <1>1, RunFields, GatesCount
    <2>2. \A i \in 1..Len(Gates) : evidence[Current][i] = task[s].results[i]
        BY <1>1 DEF RunInv, RunIsCurrent
    <2>3. CASE Passed(task[s].results)
        <3>1. Current' = Current
            <4>1. workflow \in WorkflowRecord
                BY DEF IInv, StoreInv, Sound
            <4> QED BY <2>3, <4>1 DEF ApplyResults, Apply, VerificationPassed, MoveTo,
                                       WorkflowRecord, Current
        <3> QED BY <1>2, <2>1, <2>2, <2>3, <3>1 DEF Passed, GatesPassed
    <2>4. CASE ~Passed(task[s].results)
        <3>1. UNCHANGED workflow \/ WaitCommand
            BY <2>4 DEF ApplyResults, Apply, Commits, DoBlockInfrastructure, WaitCommand
        <3>2. Current' = Current /\ (CurrentPhase' \in Examined => CurrentPhase' = CurrentPhase)
            BY <3>1, WaitPhases DEF IInv, Current, CurrentPhase, Phase
        <3> QED BY <1>2, <3>2 DEF RunInv, GatesPassed
    <2> QED BY <2>3, <2>4
<1> QED BY <1>3, <1>4 DEF RunInv, RunIsCurrent

LEMMA RunStep ==
    ASSUME IInv, RunInv, OneRun, OneRun', Next
    PROVE  RunInv'
<1>1. ASSUME NEW s \in Slot, NEW c \in Candidate, VerifyCandidate(s, c) PROVE RunInv'
    BY <1>1, VerifyRun
<1>2. ASSUME NEW s \in Slot, RunGates(s) \/ SaveEvidence(s) \/ ApplyResults(s) PROVE RunInv'
    BY <1>2, RunGatesRun, SaveEvidenceRun, ApplyResultsRun
<1>3. ASSUME \A s \in Slot : /\ \A c \in Candidate : ~VerifyCandidate(s, c)
                             /\ ~RunGates(s) /\ ~SaveEvidence(s) /\ ~ApplyResults(s)
      PROVE  RunInv'
    <2>1. UNCHANGED evidence /\ Moved /\ StoreInv /\ \A s \in Slot : ~Passes(s)
        BY <1>3, EvidenceKept, NextMoves DEF IInv, Passes
    <2>2. GatesPassed'
        BY <2>1, ExaminedBefore DEF RunInv, GatesPassed
    <2>3. ASSUME NEW r \in Slot, Serving(r, "verify")'
          PROVE  RunIsCurrent(r)'
        <3>1. task'[r] = task[r]
            BY <1>3, <2>3, TaskOrigins DEF Serving
        <3>2. /\ Serving(r, "verify") /\ Waiting
              /\ \A q \in Slot : ~Serving(q, "reject")
            BY <2>3, <3>1, RunMeansWaiting DEF Serving
        <3>3. Current' = Current /\ Waiting'
            BY <2>1, <3>2, WaitingStays
        <3>4. workflow.state # "Arbitration"
            BY <3>2, PhaseOfWork DEF Waiting, CurrentPhase, Suspended
        <3>5. \A q \in Slot : ~Serving(q, "reject")'
            BY <1>3, <3>2, <3>4, TaskOrigins DEF Serving
        <3> QED BY <2>1, <3>1, <3>2, <3>3, <3>5 DEF RunInv, RunIsCurrent
    <2> QED BY <2>2, <2>3 DEF RunInv, RunIsCurrent
<1> QED BY <1>1, <1>2, <1>3

LEMMA RunStutter ==
    ASSUME RunInv, UNCHANGED vars
    PROVE  RunInv'
BY DEF vars, durable, records, RunInv, GatesPassed, RunIsCurrent, Serving, Waiting, CurrentPhase,
       Phase, Current

LEMMA InitRun == Init => RunInv
BY DEF Init, NewWorkflow, RunInv, GatesPassed, RunIsCurrent, Serving, Idle, CurrentPhase, Phase,
       Examined

LEMMA RunInductive == Spec /\ []OneRun => []RunInv
<1>1. Init => RunInv
    BY InitRun
<1>2. IInv /\ RunInv /\ OneRun /\ OneRun' /\ [Next]_vars => RunInv'
    BY RunStep, RunStutter
<1> QED BY <1>1, <1>2, Inductive, PTL DEF Spec

LEMMA ArbitrationKept ==
    ASSUME IInv, Next, NEW c \in Candidate, arbitration'[c] # arbitration[c]
    PROVE  \E s \in Slot : \E verdict \in Verdict : SubmitArbitration(s, c, verdict)
<1>1. ASSUME NEW s \in Slot, Serve(s) \/ StoreError(s)
      PROVE  FALSE
    <2>1. CASE ApplyIntake(s) \/ (\E mode \in Modes : RouteWorkflow(s, mode))
               \/ AcceptArchitecture(s) \/ SavePlan(s) \/ SaveCandidate(s) \/ ApplyReady(s)
               \/ SaveEvidence(s)
        BY <2>1 DEF ApplyIntake, RouteWorkflow, AcceptArchitecture, SavePlan, SaveCandidate,
                    ApplyReady, SaveEvidence, records
    <2>2. CASE RunGates(s) \/ AbandonRun(s) \/ ApplyResults(s) \/ RejectCandidate(s)
               \/ ApplyRepair(s) \/ ApplyReviews(s)
        BY <2>2 DEF RunGates, AbandonRun, ApplyResults, RejectCandidate, ApplyRepair,
                    ApplyReviews, durable, records
    <2>3. CASE ApproveCandidate(s) \/ PromoteFiles(s) \/ ReleaseDelivery(s)
               \/ DeliverCandidate(s) \/ StoreError(s)
        BY <2>3 DEF ApproveCandidate, PromoteFiles, ReleaseDelivery, DeliverCandidate,
                    StoreError, durable, records
    <2> QED BY <1>1, <2>1, <2>2, <2>3 DEF Serve
<1>2. ~Crash /\ ~ReportBlocked /\ ~ReportPlanDefect /\ ~ControlRequest /\ ~EditWorktree
      /\ \A d \in Candidate : ~FreezeAgain(d)
    BY DEF Crash, ReportBlocked, ReportPlanDefect, ControlRequest, PauseWorkflow,
           ResumeWorkflow, CancelWorkflow, RetryInfrastructure, RetryBlocked, Control,
           EditWorktree, FreezeAgain, durable, records
<1>3. PICK s \in Slot : Request(s)
    BY <1>1, <1>2 DEF Next
<1>4. ~StartWorkflow(s) /\ (\A p \in Plan : ~SaveArchitecture(s, p))
      /\ \A d \in Candidate : /\ ~DiscoverGates(s, d) /\ ~ReadWorktree(s, d)
                              /\ ~VerifyCandidate(s, d) /\ ~ReserveDelivery(s, d)
                              /\ \A role \in Role, decision \in Decision :
                                    ~SubmitReview(s, d, role, decision)
    BY DEF StartWorkflow, SaveArchitecture, DiscoverGates, ReadWorktree, VerifyCandidate,
           SubmitReview, ReserveDelivery, durable, records
<1>5. PICK d \in Candidate, verdict \in Verdict : SubmitArbitration(s, d, verdict)
    BY <1>3, <1>4 DEF Request
<1>6. d = c
    BY <1>5 DEF SubmitArbitration, IInv, Typed
<1> QED BY <1>5, <1>6

(* As long as one verification runs at a time, whatever else overlaps it   *)
(* and wherever the daemon stops, a candidate is reviewed, arbitrated and  *)
(* delivered only with evidence of every gate (lifecycle.rs                *)
(* verify_candidate).                                                      *)
THEOREM VerifiedCorrect == Spec /\ []OneRun => []VerifiedBeforeReview
<1>1. IInv /\ RunInv => VerifiedBeforeReview
    BY NoneAssumption DEF RunInv, GatesPassed, VerifiedBeforeReview, Examined, Status
<1> QED BY <1>1, Inductive, RunInductive, PTL

(* And then an approving verdict is recorded only when every gate of the   *)
(* candidate has passed (lifecycle.rs submit_arbitration).                 *)
THEOREM ApprovalCorrect == Spec /\ []OneRun => ApprovalNeedsEveryGate
<1>1. ASSUME IInv, RunInv, Next, NEW c \in Candidate, arbitration[c] = None,
             arbitration'[c] = "Approved"
      PROVE  \A i \in 1..Len(Gates) : evidence[c][i] = "Passed"
    <2>1. PICK s \in Slot : \E verdict \in Verdict : SubmitArbitration(s, c, verdict)
        BY <1>1, ArbitrationKept, NoneAssumption DEF Verdict
    <2>2. workflow.state = "Arbitration" /\ Current = c
        BY <2>1 DEF SubmitArbitration, Current
    <2>3. CurrentPhase \in Examined
        BY <2>2, PhaseOfWork DEF CurrentPhase, Suspended, Examined
    <2> QED BY <1>1, <2>2, <2>3 DEF RunInv, GatesPassed
<1>2. IInv /\ RunInv /\ [Next]_vars =>
        [\A c \in Candidate : arbitration[c] = None /\ arbitration'[c] = "Approved" =>
           \A i \in 1..Len(Gates) : evidence[c][i] = "Passed"]_vars
    BY <1>1
<1> QED BY <1>2, Inductive, RunInductive, PTL DEF Spec, ApprovalNeedsEveryGate
=============================================================================
