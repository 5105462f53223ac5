------------------------------- MODULE Goals -------------------------------
(***************************************************************************)
(* The goals of one project: the aggregate crates/workflow-core/src/       *)
(* goal.rs, its tables in crates/workflow-store/src/goals.rs and the       *)
(* requests of crates/workflowd/src/goal.rs.  A request holds the store    *)
(* mutex from its first to its last statement, so one action is one        *)
(* request; a daemon that stops or a statement that fails between two      *)
(* statements leaves the effect of the first.  Clients may repeat any      *)
(* request at any time.                                                    *)
(*                                                                         *)
(* The texts of a goal, the project that owns it and the audit record of a *)
(* request are left out.  Definitions whose name starts with Faulty are    *)
(* slips in the definition that follows, used only by the mutation runs.   *)
(***************************************************************************)
EXTENDS Integers, FiniteSets, SequencesExt

CONSTANTS
    None,
    GoalId,
    WorkflowId,
    Milestone,
    Content,    \* plans that may be saved
    Session,
    Operation,  \* identifiers of continuations and amendments
    Limits,     \* continuation limits that goals are created with
    U8Max       \* largest u8, 255 in the code

ASSUME LimitsAssumption == U8Max \in Nat /\ Limits \subseteq 1..U8Max

VARIABLES
    goal,        \* goals.goal_json of each goal, without its amendments
    amendments,  \* and these, as the operations that appended them
    plans,       \* goal_plans in the order of their revisions
    link,        \* goal_workflows: goal and milestone of each workflow
    focus,       \* goal_focus: goal of each session
    applied,     \* command_deduplication
    workflow     \* state of each workflow, as far as goals read it

records == <<amendments, plans, link, focus>>
vars == <<goal, records, applied, workflow>>

-----------------------------------------------------------------------------
GoalState == {"Draft", "Planning", "Ready", "Active", "Paused", "Blocked",
              "Completing", "Completed", "Aborted"}
Terminal == {"Completed", "Aborted"}

GoalRecord ==
    [state : GoalState, max_continuations : 1..U8Max, continuations : 0..U8Max,
     paused_from : GoalState \union {None}, blocked_from : GoalState \union {None}]

ASSUME NoneAssumption == None \notin GoalState /\ None \notin GoalRecord

WorkflowStatus == {"Absent", "Requested", "Running", "Completed", "Cancelled"}

NewGoal(limit) ==
    [state |-> "Draft", max_continuations |-> limit, continuations |-> 0,
     paused_from |-> None, blocked_from |-> None]

FaultyLoads(g) == goal[g] # None
\* A stored goal is validated when it is read: Goal::try_from.
Loads(g) == goal[g] # None /\ goal[g].continuations <= goal[g].max_continuations

\* Commands that only change the state, with the states they lead from and to.
Edge ==
    [StartPlanning |-> <<"Draft", "Planning">>,
     MarkReady |-> <<"Planning", "Ready">>,
     Activate |-> <<"Ready", "Active">>,
     RequestCompletion |-> <<"Active", "Completing">>,
     ApproveCompletion |-> <<"Completing", "Completed">>,
     RejectCompletion |-> <<"Completing", "Active">>]

Transition(g, command) ==
    /\ goal[g].state = Edge[command][1]
    /\ goal' = [goal EXCEPT ![g].state = Edge[command][2]]

Pause(g) ==
    /\ goal[g].state \in {"Planning", "Ready", "Active"}
    /\ goal' = [goal EXCEPT ![g].state = "Paused", ![g].paused_from = goal[g].state]
Resume(g) ==
    /\ goal[g].state = "Paused" /\ goal[g].paused_from # None
    /\ goal' = [goal EXCEPT ![g].state = goal[g].paused_from, ![g].paused_from = None]
Block(g) ==
    /\ goal[g].state \in {"Planning", "Active", "Completing"}
    /\ goal' = [goal EXCEPT ![g].state = "Blocked", ![g].blocked_from = goal[g].state]
ResumeBlocked(g) ==
    /\ goal[g].state = "Blocked" /\ goal[g].blocked_from # None
    /\ goal' = [goal EXCEPT ![g].state = goal[g].blocked_from, ![g].blocked_from = None]
Abort(g) ==
    /\ goal[g].state \notin Terminal
    /\ goal' = [goal EXCEPT ![g].state = "Aborted", ![g].paused_from = None,
                            ![g].blocked_from = None]

\* continue_goal: checked_add, and the limit blocks the goal.
ContinueGoal(g) ==
    LET count == goal[g].continuations + 1
        spent == count >= goal[g].max_continuations
    IN
    /\ goal[g].state = "Active"
    /\ count <= U8Max
    /\ goal' = [goal EXCEPT
                  ![g].continuations = count,
                  ![g].state = IF spent THEN "Blocked" ELSE "Active",
                  ![g].blocked_from = IF spent THEN "Active" ELSE goal[g].blocked_from]

-----------------------------------------------------------------------------
(* The requests.                                                           *)

\* save_goal_once, then focus_goal, which reads the goal.
CreateGoal(g, limit, s) ==
    /\ \/ goal[g] = None /\ goal' = [goal EXCEPT ![g] = NewGoal(limit)]
       \/ /\ goal[g] = NewGoal(limit) /\ amendments[g] = <<>>
          /\ UNCHANGED goal
    /\ focus' \in {focus, [focus EXCEPT ![s] = g]}
    /\ UNCHANGED <<amendments, plans, link, applied, workflow>>

Amend(g, op) ==
    /\ Loads(g)
    /\ <<"amend", g, op>> \notin applied
    /\ goal[g].state \notin Terminal
    /\ amendments' = [amendments EXCEPT ![g] = Append(@, op)]
    /\ applied' = applied \union {<<"amend", g, op>>}
    /\ UNCHANGED <<goal, plans, link, focus, workflow>>

Links(g) == {w \in WorkflowId : link[w] # None /\ link[w].goal = g}

\* validate_control: every linked workflow has ended, and every milestone has
\* a completed one.
Completable(g) ==
    /\ Links(g) # {}
    /\ \A w \in Links(g) :
          /\ workflow[w] \in {"Completed", "Cancelled"}
          /\ \E v \in Links(g) :
                link[v].milestone = link[w].milestone /\ workflow[v] = "Completed"

FaultyValidated(g, command) ==
    /\ command = "MarkReady" => plans[g] # <<>>
    /\ command = "RequestCompletion" => Completable(g)
Validated(g, command) ==
    /\ command = "MarkReady" => plans[g] # <<>>
    /\ command \in {"RequestCompletion", "ApproveCompletion"} => Completable(g)

\* A transition has an operation of its own: its key never repeats, and a
\* repeated one answers from command_deduplication without a change.
Control(g) ==
    /\ Loads(g)
    /\ \/ \E command \in DOMAIN Edge : Validated(g, command) /\ Transition(g, command)
       \/ Pause(g) \/ Resume(g) \/ Block(g) \/ ResumeBlocked(g) \/ Abort(g)
    /\ UNCHANGED <<records, applied, workflow>>

FaultyContinue(g, op) ==
    /\ Loads(g)
    /\ ContinueGoal(g)
    /\ applied' = applied \union {<<"control", g, op>>}
    /\ UNCHANGED <<records, workflow>>
Continue(g, op) ==
    /\ Loads(g)
    /\ <<"control", g, op>> \notin applied
    /\ ContinueGoal(g)
    /\ applied' = applied \union {<<"control", g, op>>}
    /\ UNCHANGED <<records, workflow>>

FocusGoal(g, s) ==
    /\ Loads(g)
    /\ focus' = [focus EXCEPT ![s] = g]
    /\ UNCHANGED <<goal, amendments, plans, link, applied, workflow>>

\* A link is kept for good; neither goal nor workflow needs to be in any state.
LinkWorkflow(g, w, milestone) ==
    /\ Loads(g)
    /\ workflow[w] # "Absent"
    /\ link[w] = None
    /\ link' = [link EXCEPT ![w] = [goal |-> g, milestone |-> milestone]]
    /\ UNCHANGED <<goal, amendments, plans, focus, applied, workflow>>

FaultySavePlan(g, content) ==
    /\ Loads(g)
    /\ goal[g].state \notin Terminal
    /\ goal' = [goal EXCEPT ![g].state = IF @ = "Draft" THEN "Planning" ELSE @]
    /\ plans' = [plans EXCEPT ![g] = IF Contains(@, content) THEN @ ELSE Append(@, content)]
    /\ UNCHANGED <<amendments, link, focus, applied, workflow>>
\* The first plan starts the planning; a saved content keeps its revision.
SavePlan(g, content) ==
    /\ Loads(g)
    /\ goal[g].state \in {"Draft", "Planning"}
    /\ goal' = [goal EXCEPT ![g].state = "Planning"]
    /\ \/ plans' = [plans EXCEPT ![g] =
                       IF Contains(@, content) THEN @ ELSE Append(@, content)]
       \/ goal[g].state = "Draft" /\ UNCHANGED plans
    /\ UNCHANGED <<amendments, link, focus, applied, workflow>>

\* The workflows, of which goals see whether they are requested, whether they
\* have a state and how they ended.
AdvanceWorkflow(w) ==
    /\ \/ workflow[w] = "Absent" /\ workflow' = [workflow EXCEPT ![w] = "Requested"]
       \/ workflow[w] = "Requested" /\ workflow' = [workflow EXCEPT ![w] = "Running"]
       \/ /\ workflow[w] = "Running"
          /\ \E end \in {"Completed", "Cancelled"} :
                workflow' = [workflow EXCEPT ![w] = end]
    /\ UNCHANGED <<goal, records, applied>>

Init ==
    /\ goal = [g \in GoalId |-> None]
    /\ amendments = [g \in GoalId |-> <<>>]
    /\ plans = [g \in GoalId |-> <<>>]
    /\ link = [w \in WorkflowId |-> None]
    /\ focus = [s \in Session |-> None]
    /\ applied = {}
    /\ workflow = [w \in WorkflowId |-> "Absent"]

Next ==
    \/ \E g \in GoalId :
          \/ \E limit \in Limits, s \in Session : CreateGoal(g, limit, s)
          \/ \E op \in Operation : Amend(g, op) \/ Continue(g, op)
          \/ Control(g)
          \/ \E s \in Session : FocusGoal(g, s)
          \/ \E w \in WorkflowId, milestone \in Milestone : LinkWorkflow(g, w, milestone)
          \/ \E content \in Content : SavePlan(g, content)
    \/ \E w \in WorkflowId : AdvanceWorkflow(w)

Spec == Init /\ [][Next]_vars

-----------------------------------------------------------------------------
(* Every row holds a value of its type.                                    *)
TypeOK ==
    /\ goal \in [GoalId -> GoalRecord \union {None}]
    /\ amendments \in [GoalId -> Seq(Operation)]
    /\ plans \in [GoalId -> Seq(Content)]
    /\ link \in [WorkflowId -> [goal : GoalId, milestone : Milestone] \union {None}]
    /\ focus \in [Session -> GoalId \union {None}]
    /\ applied \subseteq {"amend", "control"} \X GoalId \X Operation
    /\ workflow \in [WorkflowId -> WorkflowStatus]

Exists(g) == goal[g] # None

\* The work of a goal, seen through a pause or a block.
Work(r) ==
    CASE r.state = "Paused" -> r.paused_from
      [] r.state = "Blocked" -> r.blocked_from
      [] OTHER -> r.state

ReturnPoint(r) ==
    /\ r.paused_from \in IF r.state = "Paused" THEN {"Planning", "Ready", "Active"}
                                                ELSE {None}
    /\ r.blocked_from \in IF r.state = "Blocked" THEN {"Planning", "Active", "Completing"}
                                                  ELSE {None}

(* A suspended goal knows the working state it returns to, and the return  *)
(* point of a suspension never outlives it (goal.rs:246-292).              *)
SuspensionInv == \A g \in GoalId : Exists(g) => ReturnPoint(goal[g])

Planned == {"Ready", "Active", "Completing", "Completed"}

(* Work that was marked ready follows a saved plan, in every later state,  *)
(* suspensions included (workflowd goal.rs:204-216, 276-283).              *)
PlanBeforeWork ==
    \A g \in GoalId : Exists(g) /\ Work(goal[g]) \in Planned => plans[g] # <<>>

(* Once the goal is ready its plan is what was reviewed: revisions are     *)
(* only appended, without repetition, while the goal is being planned.     *)
PlanIsFinal ==
    [][\A g \in GoalId : plans'[g] # plans[g] =>
          /\ goal[g].state \in {"Draft", "Planning"}
          /\ \E content \in Content :
                plans'[g] = Append(plans[g], content) /\ ~Contains(plans[g], content)]_vars

(* A repeated request takes effect once: the continuations of a goal are   *)
(* counted once each, and each amendment is appended once                  *)
(* (goals.rs:123-141, 204-217).                                            *)
AppliedOnce ==
    \A g \in GoalId :
        LET done(kind) == {op \in Operation : <<kind, g, op>> \in applied} IN
        /\ Exists(g) => goal[g].continuations = Cardinality(done("control"))
        /\ Len(amendments[g]) = Cardinality(done("amend"))
        /\ \A op \in done("amend") : Contains(amendments[g], op)

(* A goal completes only when every workflow linked to it by then has      *)
(* ended and every milestone has a completed one, although links and       *)
(* workflows move between the request for completion and its approval      *)
(* (workflowd goal.rs:284-320).                                            *)
CompletionIsEarned ==
    [][\A g \in GoalId : Exists(g) /\ goal[g].state # "Completed" /\ goal'[g].state = "Completed" =>
          /\ Links(g) # {}
          /\ \A w \in Links(g) :
                /\ workflow[w] \notin {"Requested", "Running"}
                /\ \E v \in Links(g) :
                      workflow[v] = "Completed" /\ link[v].milestone = link[w].milestone]_vars

(* A goal that was blocked by its limit may be resumed, but it is continued *)
(* at most once past the limit, however often it is resumed                *)
(* (workflow-core goal.rs:119, 297-314).                                   *)
ContinuationsBounded ==
    \A g \in GoalId : Exists(g) =>
        goal[g].continuations <= goal[g].max_continuations + 1

(* Whatever requests come, in whatever order: rows of their type, return   *)
(* points that fit, no work without a plan, continuations within bounds.   *)
Inv == TypeOK /\ SuspensionInv /\ PlanBeforeWork /\ ContinuationsBounded
=============================================================================
