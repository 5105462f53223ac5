----------------------------- MODULE Lifecycle -----------------------------
(***************************************************************************)
(* One governed workflow inside the daemon workflowd: the request handlers *)
(* of crates/workflowd/src/lifecycle.rs, control.rs and repair.rs, running *)
(* concurrently on the records that crates/workflow-store keeps in SQLite. *)
(*                                                                         *)
(* A handler is a task.  It runs under the store mutex (`lock'), and some  *)
(* handlers give the mutex up to do slow work (running gates, reading the  *)
(* worktree, promoting files) and take it again.  An action is one SQLite  *)
(* transaction or one piece of unlocked work, so that the daemon can stop  *)
(* between any two of them; a request that is refused before its first     *)
(* transaction changes nothing and is no step.                             *)
(*                                                                         *)
(* The record of the workflow and the commands on it are those of the      *)
(* module Workflow; the steps here decide which command is applied when.   *)
(*                                                                         *)
(* Definitions whose name starts with Faulty are plausible slips in the    *)
(* definition that follows them, used only by the mutation runs.           *)
(***************************************************************************)
EXTENDS Workflow, Sequences, FiniteSets

CONSTANTS
    Slot,             \* connections a request may be served on
    Plan,             \* architecture plans clients may submit
    Content,          \* bytes the worktree may hold
    CommandGates,     \* sequence of the plan's gates before the integrity gate
    GateStatus,       \* statuses a command gate may end with
    Modes,            \* modes the router may choose
    AdditionalCycles, \* cycles that a retry of a blocked workflow adds, 5
    MaxFaults         \* bound on crashes and store errors

VARIABLES
    applied,      \* command_deduplication, the idempotency keys
    requested,    \* workflow_requests has the row
    plan,         \* workflow_architecture
    planned,      \* candidates that have a verification plan
    frozen,       \* workflow_candidates: bytes of each frozen candidate
    evidence,     \* latest workflow_evidence status of each gate
    reviews,      \* workflow_reviews: decision of each role
    arbitration,  \* workflow_arbitration: verdict on each candidate
    reservation,  \* candidate_delivery_reservations
    worktree,     \* bytes in the managed worktree
    lock,         \* slot that holds the store mutex
    task,         \* request each slot is serving
    faults        \* crashes and store errors so far

records == <<requested, plan, planned, frozen, evidence, reviews, arbitration>>
durable == <<workflow, applied, records, reservation, worktree>>
vars == <<durable, lock, task, faults>>

-----------------------------------------------------------------------------
Gates == Append(CommandGates, "integrity")
Role == {"FunctionalReviewer", "SecurityArchitectureReviewer"}
Status == {"Passed", "Failed", "Skipped"}
Decision == {"Approved", "Rejected"}
Verdict == {"Approved"} \union RepairTarget  \* a rejection names its target

ASSUME LifecycleAssumption ==
    /\ CommandGates \in Seq(STRING)
    /\ GateStatus \subseteq Status
    /\ Modes \subseteq Mode
    /\ AdditionalCycles \in 1..U8Max
    /\ MaxFaults \in Nat

ASSUME NoneAssumption ==
    None \notin Slot \union Candidate \union Plan \union Content \union Status
                \union Decision \union Verdict \union WorkflowState \union Mode

Idle == [op |-> "idle"]
Task ==
    {Idle}
    \union [op : {"start"}, pc : {"intake", "route"}]
    \union [op : {"architecture"}, plan : Plan]
    \union [op : {"plan", "review", "approve", "ready", "begin_repair"},
            candidate : Candidate]
    \union [op : {"reject"}, candidate : Candidate, target : RepairTarget]
    \union [op : {"freeze"}, candidate : Candidate, content : Content]
    \union [op : {"verify"}, candidate : Candidate, ran : BOOLEAN,
            results : [1..Len(Gates) -> Status] \union {<<>>}, saved : 0..Len(Gates)]
    \union [op : {"promote"}, candidate : Candidate,
            pc : {"apply", "release", "deliver"}]

Executing == {"QuickExecution", "Execution"}

\* Every workflow has a row once intake is complete (start_workflow is the
\* only handler that creates it); the other handlers refuse without a row.
Exists == workflow.state # "Intake"

Idles(s) == task[s] = Idle
Free(s) == Idles(s) /\ lock = None
Serving(s, op) == task[s].op = op
\* The mutex is free, or this task has kept it since an earlier transaction.
CanHold(s) == lock \in {None, s}

\* A task goes on under the mutex, goes on without it, or answers.
Continue(s, t) == lock' = s /\ task' = [task EXCEPT ![s] = t] /\ UNCHANGED faults
Detach(s, t) == lock' = None /\ task' = [task EXCEPT ![s] = t] /\ UNCHANGED faults
Answer(s) == Detach(s, Idle)
NoTask == UNCHANGED <<lock, task, faults>>

FaultyCommits(key, can) == key \notin applied /\ can
\* Store::apply_workflow_command commits: nothing is reserved for delivery,
\* the key is new, and the aggregate accepts the command.
Commits(key, can) == reservation = None /\ key \notin applied /\ can

FaultyApply(key, can, after) ==
    IF reservation = None /\ can
    THEN workflow' = after /\ applied' = applied \union {key}
    ELSE UNCHANGED <<workflow, applied>>
FaultyApplyUnchecked(key, can, after) ==
    IF reservation = None /\ key \notin applied
    THEN workflow' = after /\ applied' = applied \union {key}
    ELSE UNCHANGED <<workflow, applied>>
\* A known key answers with the persisted result, a refusal with an error:
\* both leave the store alone.
Apply(key, can, after) ==
    IF Commits(key, can)
    THEN workflow' = after /\ applied' = applied \union {key}
    ELSE UNCHANGED <<workflow, applied>>

\* Control operations and execution reports carry an identifier of their own:
\* their keys never repeat and are not kept here.
ApplyFresh(can, after) ==
    reservation = None /\ can /\ workflow' = after /\ UNCHANGED applied

-----------------------------------------------------------------------------
(* start_workflow: request, intake and routing in three transactions.      *)

StartWorkflow(s) ==
    /\ Free(s)
    /\ workflow.state \in {"Intake", "Routing"}
    /\ requested' = TRUE
    /\ Continue(s, [op |-> "start", pc |-> "intake"])
    /\ UNCHANGED <<workflow, applied, plan, planned, frozen, evidence, reviews,
                   arbitration, reservation, worktree>>

ApplyIntake(s) ==
    /\ Serving(s, "start") /\ task[s].pc = "intake"
    /\ IF Exists THEN UNCHANGED <<workflow, applied>>
       ELSE Apply(<<"complete-intake">>, CanCompleteIntake(workflow),
                  CompleteIntake(workflow))
    /\ Continue(s, [op |-> "start", pc |-> "route"])
    /\ UNCHANGED <<records, reservation, worktree>>

RouteWorkflow(s, mode) ==
    /\ Serving(s, "start") /\ task[s].pc = "route"
    /\ IF workflow.state = "Routing"
       THEN Apply(<<"route">>, CanRoute(workflow), Route(workflow, mode))
       ELSE UNCHANGED <<workflow, applied>>
    /\ Answer(s)
    /\ UNCHANGED <<records, reservation, worktree>>

-----------------------------------------------------------------------------
(* accept_architecture: the plan is saved, then the state decides.         *)

AcceptsPlan(p) ==
    \/ plan \in {None, p}
    \/ workflow.state = "Architecture" /\ workflow.repair_cycles > 0

SaveArchitecture(s, p) ==
    /\ Free(s)
    /\ requested
    /\ AcceptsPlan(p)
    /\ plan' = p
    /\ Continue(s, [op |-> "architecture", plan |-> p])
    /\ UNCHANGED <<workflow, applied, requested, planned, frozen, evidence,
                   reviews, arbitration, reservation, worktree>>

AcceptArchitecture(s) ==
    /\ Serving(s, "architecture")
    /\ IF workflow.state = "Architecture"
       THEN Apply(<<"architecture-accepted", task[s].plan>>,
                  CanArchitectureAccepted(workflow), ArchitectureAccepted(workflow))
       ELSE UNCHANGED <<workflow, applied>>
    /\ Answer(s)
    /\ UNCHANGED <<records, reservation, worktree>>

\* report_execution: the executor is blocked, or found a defect in the plan.
ReportBlocked ==
    /\ lock = None
    /\ Exists
    /\ workflow.state \notin Suspended \union Terminal
    /\ ApplyFresh(CanBlockInfrastructure(workflow), BlockInfrastructure(workflow))
    /\ NoTask
    /\ UNCHANGED <<records, reservation, worktree>>

ReportPlanDefect ==
    /\ lock = None
    /\ Exists
    /\ ApplyFresh(CanReplanExecution(workflow), ReplanExecution(workflow))
    /\ NoTask
    /\ UNCHANGED <<records, reservation, worktree>>

-----------------------------------------------------------------------------
(* plan_verification and freeze_candidate.  A verification plan names the  *)
(* evidence of one candidate, so plans are identified with candidates.     *)

DiscoverGates(s, c) ==
    /\ Free(s)
    /\ workflow.state \in Executing
    /\ plan # None
    /\ c \notin planned
    /\ Detach(s, [op |-> "plan", candidate |-> c])
    /\ UNCHANGED durable

SavePlan(s) ==
    /\ Serving(s, "plan")
    /\ lock = None
    /\ planned' = planned \union {task[s].candidate}
    /\ Answer(s)
    /\ UNCHANGED <<workflow, applied, requested, plan, frozen, evidence, reviews,
                   arbitration, reservation, worktree>>

\* validate_candidate_state
MayFreeze(c) ==
    \/ workflow.state \in Executing
    \/ workflow.state = "Verification" /\ workflow.current_candidate = c

ReadWorktree(s, c) ==
    /\ Free(s)
    /\ c \in planned
    /\ frozen[c] = None
    /\ MayFreeze(c)
    /\ Detach(s, [op |-> "freeze", candidate |-> c, content |-> worktree])
    /\ UNCHANGED durable

\* The state is validated again: the mutex was free while files were read.
SaveCandidate(s) ==
    LET c == task[s].candidate IN
    /\ Serving(s, "freeze")
    /\ lock = None
    /\ IF MayFreeze(c) /\ frozen[c] \in {None, task[s].content}
       THEN /\ frozen' = [frozen EXCEPT ![c] = task[s].content]
            /\ Continue(s, [op |-> "ready", candidate |-> c])
       ELSE UNCHANGED frozen /\ Answer(s)
    /\ UNCHANGED <<workflow, applied, requested, plan, planned, evidence, reviews,
                   arbitration, reservation, worktree>>

ApplyReady(s) ==
    LET c == task[s].candidate IN
    /\ Serving(s, "ready")
    /\ Apply(<<"candidate", c>>, CanCandidateReady(workflow),
             CandidateReady(workflow, c))
    /\ Answer(s)
    /\ UNCHANGED <<records, reservation, worktree>>

\* A repeated freeze of a candidate that is already stored.
FreezeAgain(c) ==
    /\ lock = None
    /\ c \in planned
    /\ frozen[c] # None
    /\ workflow.state \in Executing
    /\ Apply(<<"candidate", c>>, CanCandidateReady(workflow),
             CandidateReady(workflow, c))
    /\ NoTask
    /\ UNCHANGED <<records, reservation, worktree>>

-----------------------------------------------------------------------------
(* verify_candidate: gates run without the mutex, then their evidence is   *)
(* saved gate by gate and the run's result is applied to the workflow as   *)
(* it is by then.                                                          *)

VerifyCandidate(s, c) ==
    /\ Free(s)
    /\ workflow.state = "Verification"
    /\ workflow.current_candidate = c
    /\ Detach(s, [op |-> "verify", candidate |-> c, ran |-> FALSE,
                  results |-> <<>>, saved |-> 0])
    /\ UNCHANGED durable

\* The integrity gate compares the worktree with the frozen bytes.
GateResults(c) ==
    {r \in [1..Len(Gates) -> Status] :
        /\ \A i \in 1..Len(CommandGates) : r[i] \in GateStatus
        /\ r[Len(Gates)] = IF worktree = frozen[c] THEN "Passed" ELSE "Failed"}

RunGates(s) ==
    /\ Serving(s, "verify") /\ ~task[s].ran
    /\ \E r \in GateResults(task[s].candidate) :
          task' = [task EXCEPT ![s].ran = TRUE, ![s].results = r]
    /\ UNCHANGED <<durable, lock, faults>>

\* CandidateChanged: the worktree differs when the run begins or cannot be read.
AbandonRun(s) ==
    /\ Serving(s, "verify") /\ ~task[s].ran
    /\ worktree # frozen[task[s].candidate]
    /\ task' = [task EXCEPT ![s] = Idle]
    /\ UNCHANGED <<durable, lock, faults>>

SaveEvidence(s) ==
    LET next == task[s].saved + 1 IN
    /\ Serving(s, "verify") /\ task[s].ran
    /\ CanHold(s)
    /\ next <= Len(Gates)
    /\ evidence' = [evidence EXCEPT ![task[s].candidate][next] = task[s].results[next]]
    /\ Continue(s, [task[s] EXCEPT !.saved = next])
    /\ UNCHANGED <<workflow, applied, requested, plan, planned, frozen, reviews,
                   arbitration, reservation, worktree>>

Passed(results) == \A i \in DOMAIN results : results[i] = "Passed"
InfrastructureBlocked(results) == \E i \in DOMAIN results : results[i] = "Skipped"
FaultySaved(s) == task[s].saved > 0
Saved(s) == task[s].saved = Len(Gates)

ApplyResults(s) ==
    LET c == task[s].candidate
        results == task[s].results
    IN
    /\ Serving(s, "verify") /\ Saved(s)
    /\ \/ /\ Passed(results)
          /\ Apply(<<"verification-passed", c>>, CanVerificationPassed(workflow),
                   VerificationPassed(workflow))
          /\ Answer(s)
       \/ /\ ~Passed(results) /\ InfrastructureBlocked(results)
          /\ Apply(<<"verification-blocked", c>>, CanBlockInfrastructure(workflow),
                   BlockInfrastructure(workflow))
          /\ Answer(s)
       \/ /\ ~Passed(results) /\ ~InfrastructureBlocked(results)
          /\ Continue(s, [op |-> "reject", candidate |-> c, target |-> "Execution"])
          /\ UNCHANGED <<workflow, applied>>
    /\ UNCHANGED <<records, reservation, worktree>>

-----------------------------------------------------------------------------
(* repair::route: the rejection and the start of the repair are two        *)
(* transactions.  A rejection whose key is known would answer with the     *)
(* persisted state; its candidate is no longer routable (RejectedIsFinal). *)

Routable(c) ==
    /\ workflow.current_candidate = c
    /\ workflow.state \in {"Verification", "Arbitration"}

RejectCandidate(s) ==
    LET c == task[s].candidate
        target == task[s].target
        key == <<"reject", c, target>>
        commits == Routable(c) /\ Commits(key, CanReject(workflow))
        rejected == Reject(workflow, target)
    IN
    /\ Serving(s, "reject")
    /\ IF commits
       THEN workflow' = rejected /\ applied' = applied \union {key}
       ELSE UNCHANGED <<workflow, applied>>
    /\ IF commits /\ rejected.state = "Repair"
       THEN Continue(s, [op |-> "begin_repair", candidate |-> c])
       ELSE Answer(s)
    /\ UNCHANGED <<records, reservation, worktree>>

ApplyRepair(s) ==
    /\ Serving(s, "begin_repair")
    /\ Apply(<<"begin-repair", task[s].candidate, workflow.repair_cycles>>,
             CanBeginRepair(workflow), BeginRepair(workflow))
    /\ Answer(s)
    /\ UNCHANGED <<records, reservation, worktree>>

-----------------------------------------------------------------------------
(* submit_review and submit_arbitration.                                   *)

HasEvidence(c) == \E i \in 1..Len(Gates) : evidence[c][i] # None
BothReviewed(c) == \A r \in Role : reviews[c][r] # None
BothApproved(c) == \A r \in Role : reviews[c][r] = "Approved"

\* save_review_once: the stored review wins, a new one must be awaited and
\* cite evidence that exists.
SubmitReview(s, c, role, decision) ==
    /\ Free(s)
    /\ \/ /\ reviews[c][role] = decision
          /\ UNCHANGED reviews
       \/ /\ reviews[c][role] = None
          /\ workflow.state = "IndependentReviews"
          /\ workflow.current_candidate = c
          /\ plan # None
          /\ HasEvidence(c)
          /\ reviews' = [reviews EXCEPT ![c][role] = decision]
    /\ Continue(s, [op |-> "review", candidate |-> c])
    /\ UNCHANGED <<workflow, applied, requested, plan, planned, frozen, evidence,
                   arbitration, reservation, worktree>>

FaultyApplyReviews(s) ==
    LET c == task[s].candidate IN
    /\ Serving(s, "review")
    /\ IF workflow.state = "IndependentReviews"
       THEN Apply(<<"reviews-ready", c>>, CanReviewsReady(workflow),
                  ReviewsReady(workflow))
       ELSE UNCHANGED <<workflow, applied>>
    /\ Answer(s)
    /\ UNCHANGED <<records, reservation, worktree>>
ApplyReviews(s) ==
    LET c == task[s].candidate IN
    /\ Serving(s, "review")
    /\ IF BothReviewed(c) /\ workflow.state = "IndependentReviews"
       THEN Apply(<<"reviews-ready", c>>, CanReviewsReady(workflow),
                  ReviewsReady(workflow))
       ELSE UNCHANGED <<workflow, applied>>
    /\ Answer(s)
    /\ UNCHANGED <<records, reservation, worktree>>

\* What an approval needs besides an approving verdict: both reviews in full
\* mode, and no recorded mandatory gate that did not pass.
Approvable(c) ==
    /\ workflow.mode = "Full" => BothApproved(c)
    /\ \A i \in 1..Len(Gates) : evidence[c][i] \in {"Passed", None}

SubmitArbitration(s, c, verdict) ==
    /\ Free(s)
    /\ arbitration[c] = None
    /\ workflow.state = "Arbitration"
    /\ workflow.current_candidate = c
    /\ plan # None
    /\ HasEvidence(c)
    /\ workflow.mode = "Full" => BothReviewed(c)
    /\ workflow.mode = "Quick" => \A r \in Role : reviews[c][r] = None
    /\ verdict = "Approved" => Approvable(c)
    /\ arbitration' = [arbitration EXCEPT ![c] = verdict]
    /\ Continue(s, IF verdict = "Approved"
                   THEN [op |-> "approve", candidate |-> c]
                   ELSE [op |-> "reject", candidate |-> c, target |-> verdict])
    /\ UNCHANGED <<workflow, applied, requested, plan, planned, frozen, evidence,
                   reviews, reservation, worktree>>

ApproveCandidate(s) ==
    /\ Serving(s, "approve")
    /\ Apply(<<"approved", task[s].candidate>>, CanApprove(workflow), Approve(workflow))
    /\ Answer(s)
    /\ UNCHANGED <<records, reservation, worktree>>

-----------------------------------------------------------------------------
(* PromoteCandidate: reserve, promote the files without the mutex (module  *)
(* Delivery), then record the outcome.  The delivery gate admits one       *)
(* promotion at a time.                                                    *)

Promotable(c) ==
    /\ workflow.state \in {"Delivery", "Completed"}
    /\ workflow.current_candidate = c

ReserveDelivery(s, c) ==
    /\ Free(s)
    /\ \A other \in Slot : ~Serving(other, "promote")
    /\ Promotable(c)
    /\ arbitration[c] = "Approved"
    /\ reservation' = c
    /\ Detach(s, [op |-> "promote", candidate |-> c, pc |-> "apply"])
    /\ UNCHANGED <<workflow, applied, records, worktree>>

\* Success, a clean failure, or a failure that left a journal to recover from:
\* the last keeps the reservation (module Delivery says which happens when).
PromoteFiles(s) ==
    /\ Serving(s, "promote") /\ task[s].pc = "apply"
    /\ \/ \E pc \in {"deliver", "release"} : task' = [task EXCEPT ![s].pc = pc]
       \/ task' = [task EXCEPT ![s] = Idle]
    /\ UNCHANGED <<durable, lock, faults>>

ReleaseDelivery(s) ==
    /\ Serving(s, "promote") /\ task[s].pc = "release"
    /\ lock = None
    /\ reservation' = None
    /\ Answer(s)
    /\ UNCHANGED <<workflow, applied, records, worktree>>

\* deliver_reserved_candidate, or only the release when already completed.
DeliverCandidate(s) ==
    LET c == task[s].candidate IN
    /\ Serving(s, "promote") /\ task[s].pc = "deliver"
    /\ lock = None
    /\ IF Promotable(c) /\ reservation = c
       THEN /\ IF workflow.state = "Completed" THEN UNCHANGED <<workflow, applied>>
               ELSE /\ workflow' = Deliver(workflow)
                    /\ applied' = applied \union {<<"delivery", c>>}
            /\ reservation' = None
       ELSE UNCHANGED <<workflow, applied, reservation>>
    /\ Answer(s)
    /\ UNCHANGED <<records, worktree>>

-----------------------------------------------------------------------------
(* Control operations (control.rs): one transaction each, refused while a  *)
(* delivery is reserved.                                                   *)

FaultyControl(can, after) ==
    /\ lock = None
    /\ Exists
    /\ can /\ workflow' = after /\ UNCHANGED applied
    /\ NoTask
    /\ UNCHANGED <<records, reservation, worktree>>
Control(can, after) ==
    /\ lock = None
    /\ Exists
    /\ ApplyFresh(can, after)
    /\ NoTask
    /\ UNCHANGED <<records, reservation, worktree>>

PauseWorkflow == Control(CanPause(workflow), Pause(workflow))
ResumeWorkflow == Control(CanResume(workflow), Resume(workflow))
CancelWorkflow == Control(CanCancel(workflow), Cancel(workflow))
\* A retry resumes an infrastructure block; if that is refused it extends the
\* budget of a workflow that is blocked on it.  Elsewhere it changes nothing.
RetryInfrastructure ==
    Control(CanResumeInfrastructure(workflow), ResumeInfrastructure(workflow))
RetryBlocked ==
    Control(CanResumeBlocked(workflow, AdditionalCycles),
            ResumeBlocked(workflow, AdditionalCycles))

-----------------------------------------------------------------------------
(* The executor, and what may go wrong.                                    *)

EditWorktree ==
    /\ workflow.state \in Executing
    /\ worktree' \in Content
    /\ UNCHANGED <<workflow, applied, records, reservation, lock, task, faults>>

\* The daemon stops: every task and the mutex are gone, the store remains.
Crash ==
    /\ faults < MaxFaults
    /\ faults' = faults + 1
    /\ task' = [s \in Slot |-> Idle]
    /\ lock' = None
    /\ UNCHANGED durable

\* The next transaction, or the audit record between two of them, fails: the
\* handler answers with an error after having committed the earlier ones.
StoreError(s) ==
    /\ lock = s
    /\ faults < MaxFaults
    /\ faults' = faults + 1
    /\ task' = [task EXCEPT ![s] = Idle]
    /\ lock' = None
    /\ UNCHANGED durable

-----------------------------------------------------------------------------
Init ==
    /\ workflow = NewWorkflow
    /\ applied = {}
    /\ requested = FALSE
    /\ plan = None
    /\ planned = {}
    /\ frozen = [c \in Candidate |-> None]
    /\ evidence = [c \in Candidate |-> [i \in 1..Len(Gates) |-> None]]
    /\ reviews = [c \in Candidate |-> [r \in Role |-> None]]
    /\ arbitration = [c \in Candidate |-> None]
    /\ reservation = None
    /\ worktree \in Content
    /\ lock = None
    /\ task = [s \in Slot |-> Idle]
    /\ faults = 0

\* Requests a client may send on slot s.
Request(s) ==
    \/ StartWorkflow(s)
    \/ \E p \in Plan : SaveArchitecture(s, p)
    \/ \E c \in Candidate :
          \/ DiscoverGates(s, c)
          \/ ReadWorktree(s, c)
          \/ VerifyCandidate(s, c)
          \/ \E role \in Role, decision \in Decision : SubmitReview(s, c, role, decision)
          \/ \E verdict \in Verdict : SubmitArbitration(s, c, verdict)
          \/ ReserveDelivery(s, c)

\* Steps the daemon takes by itself once a request is being served.
Serve(s) ==
    \/ ApplyIntake(s)
    \/ \E mode \in Modes : RouteWorkflow(s, mode)
    \/ AcceptArchitecture(s)
    \/ SavePlan(s)
    \/ SaveCandidate(s)
    \/ ApplyReady(s)
    \/ RunGates(s)
    \/ AbandonRun(s)
    \/ SaveEvidence(s)
    \/ ApplyResults(s)
    \/ RejectCandidate(s)
    \/ ApplyRepair(s)
    \/ ApplyReviews(s)
    \/ ApproveCandidate(s)
    \/ PromoteFiles(s)
    \/ ReleaseDelivery(s)
    \/ DeliverCandidate(s)

ControlRequest ==
    \/ PauseWorkflow
    \/ ResumeWorkflow
    \/ CancelWorkflow
    \/ RetryInfrastructure
    \/ RetryBlocked

Next ==
    \/ \E s \in Slot : Request(s) \/ Serve(s) \/ StoreError(s)
    \/ \E c \in Candidate : FreezeAgain(c)
    \/ ReportBlocked
    \/ ReportPlanDefect
    \/ ControlRequest
    \/ EditWorktree
    \/ Crash

Spec == Init /\ [][Next]_vars

-----------------------------------------------------------------------------
(* Types.                                                                  *)

Key ==
    {<<"complete-intake">>, <<"route">>}
    \union ({"architecture-accepted"} \X Plan)
    \union ({"candidate", "verification-passed", "verification-blocked",
             "reviews-ready", "approved", "delivery"} \X Candidate)
    \union ({"reject"} \X Candidate \X RepairTarget)
    \union ({"begin-repair"} \X Candidate \X (1..U8Max))

(* Every record of the store and every task holds a value of its type.     *)
TypeOK ==
    /\ workflow \in WorkflowRecord
    /\ applied \subseteq Key
    /\ requested \in BOOLEAN
    /\ plan \in Plan \union {None}
    /\ planned \subseteq Candidate
    /\ frozen \in [Candidate -> Content \union {None}]
    /\ evidence \in [Candidate -> [1..Len(Gates) -> Status \union {None}]]
    /\ reviews \in [Candidate -> [Role -> Decision \union {None}]]
    /\ arbitration \in [Candidate -> Verdict \union {None}]
    /\ reservation \in Candidate \union {None}
    /\ worktree \in Content
    /\ lock \in Slot \union {None}
    /\ task \in [Slot -> Task]
    /\ faults \in 0..MaxFaults

-----------------------------------------------------------------------------
(* Safety.                                                                 *)

CurrentPhase == Phase(workflow)
Current == workflow.current_candidate
RejectedCandidates == {c \in Candidate : \E t \in RepairTarget : <<"reject", c, t>> \in applied}

(* The budget counts rejected candidates: no interleaving of a verification *)
(* run, an arbitration, a crash and a retry charges a candidate twice or   *)
(* rejects one for free (repair.rs:20-82, workflow.rs:315-333).            *)
BudgetCountsRejections ==
    workflow.repair_cycles = Cardinality(RejectedCandidates)

(* A rejected candidate is never judged again: it is current only until    *)
(* the repair begins, and freezing it again cannot bring it back           *)
(* (lifecycle.rs:1520-1551, repair.rs:20-82).                              *)
RejectedIsFinal ==
    Current \in RejectedCandidates => CurrentPhase \in {"Repair", "Blocked", "Cancelled"}

(* A candidate in arbitration in full mode has its own two reviews, and    *)
(* one in delivery was approved by the arbiter on two approving reviews:   *)
(* a late or repeated review of an earlier candidate never opens the gate  *)
(* (lifecycle.rs:1062-1083, 1202-1223).                                    *)
ReviewsBeforeVerdict ==
    workflow.mode = "Full" =>
        /\ CurrentPhase \in {"Arbitration", "Delivery", "Completed"} => BothReviewed(Current)
        /\ CurrentPhase \in {"Delivery", "Completed"} => BothApproved(Current)

(* Only the arbiter opens delivery: the current candidate of a workflow in *)
(* delivery or completed carries an approving verdict, which no crash      *)
(* between the verdict and the transition can fake (lifecycle.rs:1084-1135).*)
OnlyArbiterApproves ==
    CurrentPhase \in {"Delivery", "Completed"} => arbitration[Current] = "Approved"

(* A reservation is only held for the approved current candidate of a      *)
(* workflow that is still in delivery, or delivered already.               *)
ReservationIsCurrent ==
    reservation # None =>
        /\ workflow.state \in {"Delivery", "Completed"}
        /\ Current = reservation
        /\ arbitration[reservation] = "Approved"

(* Whichever two requests overlap, and wherever one of them fails or the   *)
(* daemon stops: the store is well typed, the budget counts rejections, and *)
(* delivery, reserved or not, is of an approved candidate.                 *)
Inv == TypeOK /\ BudgetCountsRejections /\ OnlyArbiterApproves /\ ReservationIsCurrent

(* While a delivery is reserved nothing moves the workflow but completing  *)
(* that delivery: no pause, cancel, retry or late verification, and this   *)
(* outlives a crash (workflows.rs:36-46, control.rs:99-104).               *)
DeliveryIsExclusive ==
    [][reservation # None /\ workflow' # workflow =>
          workflow'.state = "Completed" /\ reservation' = None]_vars

(* An approving verdict is only recorded when every planned gate of the    *)
(* candidate has passed (lifecycle.rs:1042-1083, 1400-1432).               *)
ApprovalNeedsEveryGate ==
    [][\A c \in Candidate : arbitration[c] = None /\ arbitration'[c] = "Approved" =>
          \A i \in 1..Len(Gates) : evidence[c][i] = "Passed"]_vars

(* Verification comes before review and arbitration: a candidate under     *)
(* review or arbitration has evidence of every gate.                       *)
VerifiedBeforeReview ==
    CurrentPhase \in {"IndependentReviews", "Arbitration", "Delivery", "Completed"} =>
        \A i \in 1..Len(Gates) : evidence[Current][i] # None

-----------------------------------------------------------------------------
(* Refinement.                                                             *)

(* The store only ever changes the aggregate by one of its commands.       *)
ImplementsWorkflow == AggregateInit /\ [][AggregateNext]_workflow

(* The candidates of the workflow are released as module Release says; the *)
(* judgements are read from the idempotency keys, which are never deleted. *)
ApprovedCandidates == {c \in Candidate : <<"approved", c>> \in applied}
DeliveredCandidates == {c \in Candidate : <<"delivery", c>> \in applied}
Released ==
    IF DeliveredCandidates = {} THEN None ELSE CHOOSE c \in DeliveredCandidates : TRUE

R == INSTANCE Release WITH
        current <- Current,
        rejected <- RejectedCandidates,
        approved <- ApprovedCandidates,
        released <- Released
ImplementsRelease == R!Spec
=============================================================================
