---------------------------- MODULE Goals_proofs ----------------------------
(***************************************************************************)
(* Proofs about goals, for every set of goals, workflows and operations,   *)
(* every limit and every width of the counter.                             *)
(***************************************************************************)
EXTENDS Goals, FiniteSetTheorems, TLAPS

(* What every stored goal keeps.  A resume needs the return point to know  *)
(* the work it returns to, and the work decides whether a plan is needed.  *)
Sound(r) ==
    /\ r \in GoalRecord
    /\ ReturnPoint(r)
    /\ r.continuations <= r.max_continuations + 1

Covered(r, saved) == Work(r) \in Planned => saved # <<>>

GoalInv ==
    /\ goal \in [GoalId -> GoalRecord \union {None}]
    /\ \A g \in GoalId : Exists(g) => Sound(goal[g]) /\ Covered(goal[g], plans[g])

-----------------------------------------------------------------------------
(* A step that replaces one goal by a sound one and leaves the rest alone. *)
LEMMA GoalStep ==
    ASSUME GoalInv, NEW g \in GoalId, NEW r,
           goal' = [goal EXCEPT ![g] = r],
           Sound(r), Covered(r, plans[g]),
           UNCHANGED plans
    PROVE  GoalInv' /\ goal'[g] \in GoalRecord
BY DEF GoalInv, Sound, Covered, Exists

LEMMA TransitionSound ==
    ASSUME GoalInv, NEW g \in GoalId, Exists(g), NEW command \in DOMAIN Edge,
           Validated(g, command), Transition(g, command), UNCHANGED plans
    PROVE  GoalInv' /\ goal'[g] \in GoalRecord
<1> DEFINE r == goal[g]
           q == [r EXCEPT !.state = Edge[command][2]]
<1>1. Sound(r) /\ Covered(r, plans[g])
    BY DEF GoalInv
<1>2. /\ Edge[command][1] \in GoalState \ {"Paused", "Blocked"}
      /\ Edge[command][2] \in GoalState \ {"Paused", "Blocked"}
      /\ Edge[command][2] \in Planned => Edge[command][1] \in Planned \/ command = "MarkReady"
    BY DEF Edge, GoalState, Planned
<1>3. r.state = Edge[command][1] /\ goal' = [goal EXCEPT ![g] = q]
    BY DEF Transition, GoalInv
<1>4. /\ q \in GoalRecord /\ q.state = Edge[command][2]
      /\ q.paused_from = r.paused_from /\ q.blocked_from = r.blocked_from
      /\ q.continuations = r.continuations /\ q.max_continuations = r.max_continuations
    BY <1>1, <1>2 DEF Sound, GoalRecord
<1>5. Work(r) = r.state /\ Work(q) = q.state
    BY <1>2, <1>3, <1>4 DEF Work
<1>6. ReturnPoint(q)
    BY <1>1, <1>2, <1>3, <1>4, <1>5 DEF Sound, ReturnPoint
<1>7. Covered(q, plans[g])
    BY <1>1, <1>2, <1>3, <1>4, <1>5 DEF Covered, Validated
<1> QED BY <1>1, <1>3, <1>4, <1>6, <1>7, GoalStep DEF Sound

LEMMA PauseSound ==
    ASSUME GoalInv, NEW g \in GoalId, Exists(g), Pause(g), UNCHANGED plans
    PROVE  GoalInv' /\ goal'[g] \in GoalRecord
<1> DEFINE r == goal[g]
           q == [r EXCEPT !.state = "Paused", !.paused_from = r.state]
<1>1. Sound(r) /\ Covered(r, plans[g])
    BY DEF GoalInv
<1>2. r.state \in {"Planning", "Ready", "Active"} /\ goal' = [goal EXCEPT ![g] = q]
    BY DEF Pause, GoalInv
<1>3. /\ q \in GoalRecord /\ q.state = "Paused"
      /\ q.paused_from = r.state /\ q.blocked_from = r.blocked_from
      /\ q.continuations = r.continuations /\ q.max_continuations = r.max_continuations
    BY <1>1, <1>2 DEF Sound, GoalRecord, GoalState
<1>4. Work(r) = r.state /\ Work(q) = r.state
    BY <1>2, <1>3 DEF Work
<1>5. ReturnPoint(q)
    BY <1>1, <1>2, <1>3, <1>4, NoneAssumption DEF Sound, ReturnPoint, GoalState
<1>6. Covered(q, plans[g])
    BY <1>1, <1>4 DEF Covered
<1> QED BY <1>1, <1>2, <1>3, <1>5, <1>6, GoalStep DEF Sound

LEMMA ResumeSound ==
    ASSUME GoalInv, NEW g \in GoalId, Exists(g), Resume(g), UNCHANGED plans
    PROVE  GoalInv' /\ goal'[g] \in GoalRecord
<1> DEFINE r == goal[g]
           q == [r EXCEPT !.state = r.paused_from, !.paused_from = None]
<1>1. Sound(r) /\ Covered(r, plans[g])
    BY DEF GoalInv
<1>2. r.state = "Paused" /\ r.paused_from # None /\ goal' = [goal EXCEPT ![g] = q]
    BY DEF Resume, GoalInv
<1>3. /\ q \in GoalRecord
      /\ q.state = r.paused_from /\ q.paused_from = None /\ q.blocked_from = r.blocked_from
      /\ q.continuations = r.continuations /\ q.max_continuations = r.max_continuations
    BY <1>1, <1>2, NoneAssumption DEF Sound, GoalRecord, GoalState
<1>4. Work(r) = r.paused_from /\ Work(q) = r.paused_from
    BY <1>1, <1>2, <1>3 DEF Work, Sound, ReturnPoint
<1>5. ReturnPoint(q)
    BY <1>1, <1>2, <1>3, <1>4, NoneAssumption DEF Sound, ReturnPoint, GoalState
<1>6. Covered(q, plans[g])
    BY <1>1, <1>4 DEF Covered, Planned
<1> QED BY <1>1, <1>2, <1>3, <1>5, <1>6, GoalStep DEF Sound

LEMMA BlockSound ==
    ASSUME GoalInv, NEW g \in GoalId, Exists(g), Block(g), UNCHANGED plans
    PROVE  GoalInv' /\ goal'[g] \in GoalRecord
<1> DEFINE r == goal[g]
           q == [r EXCEPT !.state = "Blocked", !.blocked_from = r.state]
<1>1. Sound(r) /\ Covered(r, plans[g])
    BY DEF GoalInv
<1>2. r.state \in {"Planning", "Active", "Completing"} /\ goal' = [goal EXCEPT ![g] = q]
    BY DEF Block, GoalInv
<1>3. /\ q \in GoalRecord
      /\ q.state = "Blocked" /\ q.blocked_from = r.state /\ q.paused_from = r.paused_from
      /\ q.continuations = r.continuations /\ q.max_continuations = r.max_continuations
    BY <1>1, <1>2, NoneAssumption DEF Sound, GoalRecord, GoalState
<1>4. Work(r) = r.state /\ Work(q) = r.state
    BY <1>2, <1>3 DEF Work, Sound, ReturnPoint
<1>5. ReturnPoint(q)
    BY <1>1, <1>2, <1>3, <1>4, NoneAssumption DEF Sound, ReturnPoint, GoalState
<1>6. Covered(q, plans[g])
    BY <1>1, <1>4 DEF Covered, Planned
<1> QED BY <1>1, <1>2, <1>3, <1>5, <1>6, GoalStep DEF Sound

LEMMA ResumeBlockedSound ==
    ASSUME GoalInv, NEW g \in GoalId, Exists(g), ResumeBlocked(g), UNCHANGED plans
    PROVE  GoalInv' /\ goal'[g] \in GoalRecord
<1> DEFINE r == goal[g]
           q == [r EXCEPT !.state = r.blocked_from, !.blocked_from = None]
<1>1. Sound(r) /\ Covered(r, plans[g])
    BY DEF GoalInv
<1>2. r.state = "Blocked" /\ r.blocked_from # None /\ goal' = [goal EXCEPT ![g] = q]
    BY DEF ResumeBlocked, GoalInv
<1>3. /\ q \in GoalRecord
      /\ q.state = r.blocked_from /\ q.blocked_from = None /\ q.paused_from = r.paused_from
      /\ q.continuations = r.continuations /\ q.max_continuations = r.max_continuations
    BY <1>1, <1>2, NoneAssumption DEF Sound, GoalRecord, GoalState
<1>4. Work(r) = r.blocked_from /\ Work(q) = r.blocked_from
    BY <1>1, <1>2, <1>3 DEF Work, Sound, ReturnPoint
<1>5. ReturnPoint(q)
    BY <1>1, <1>2, <1>3, <1>4, NoneAssumption DEF Sound, ReturnPoint, GoalState
<1>6. Covered(q, plans[g])
    BY <1>1, <1>4 DEF Covered, Planned
<1> QED BY <1>1, <1>2, <1>3, <1>5, <1>6, GoalStep DEF Sound

LEMMA AbortSound ==
    ASSUME GoalInv, NEW g \in GoalId, Exists(g), Abort(g), UNCHANGED plans
    PROVE  GoalInv' /\ goal'[g] \in GoalRecord
<1> DEFINE r == goal[g]
           q == [r EXCEPT !.state = "Aborted", !.paused_from = None, !.blocked_from = None]
<1>1. Sound(r) /\ Covered(r, plans[g])
    BY DEF GoalInv
<1>2. r.state \notin Terminal /\ goal' = [goal EXCEPT ![g] = q]
    BY DEF Abort, GoalInv
<1>3. /\ q \in GoalRecord
      /\ q.state = "Aborted" /\ q.paused_from = None /\ q.blocked_from = None
      /\ q.continuations = r.continuations /\ q.max_continuations = r.max_continuations
    BY <1>1, <1>2, NoneAssumption DEF Sound, GoalRecord, GoalState
<1>4. Work(q) = "Aborted"
    BY <1>2, <1>3 DEF Work, Sound, ReturnPoint
<1>5. ReturnPoint(q)
    BY <1>1, <1>2, <1>3, <1>4, NoneAssumption DEF Sound, ReturnPoint, GoalState
<1>6. Covered(q, plans[g])
    BY <1>1, <1>4 DEF Covered, Planned
<1> QED BY <1>1, <1>2, <1>3, <1>5, <1>6, GoalStep DEF Sound

LEMMA ContinueSound ==
    ASSUME GoalInv, NEW g \in GoalId, Loads(g), ContinueGoal(g), UNCHANGED plans
    PROVE  GoalInv' /\ goal'[g] \in GoalRecord
<1> DEFINE r == goal[g]
           count == r.continuations + 1
           spent == count >= r.max_continuations
           s == IF spent THEN "Blocked" ELSE "Active"
           b == IF spent THEN "Active" ELSE r.blocked_from
           q == [r EXCEPT !.continuations = count, !.state = s, !.blocked_from = b]
<1>1. Sound(r) /\ Covered(r, plans[g]) /\ r.continuations <= r.max_continuations
    BY DEF GoalInv, Loads, Exists
<1>2. r.state = "Active" /\ count <= U8Max /\ goal' = [goal EXCEPT ![g] = q]
    BY DEF ContinueGoal, GoalInv
<1>3. /\ q \in GoalRecord /\ q.state = s /\ q.blocked_from = b
      /\ q.paused_from = r.paused_from
      /\ q.continuations = count /\ q.max_continuations = r.max_continuations
  <2>1. s \in GoalState /\ b \in GoalState \union {None} /\ count \in 0..U8Max
      BY <1>1, <1>2, LimitsAssumption DEF Sound, GoalRecord, GoalState
  <2> HIDE DEF s, b, count
  <2> QED BY <1>1, <2>1 DEF Sound, GoalRecord
<1>4. Work(r) = "Active" /\ Work(q) = "Active"
  <2> HIDE DEF q, spent, count
  <2>1. CASE spent
      BY <2>1, <1>2, <1>3 DEF Work
  <2>2. CASE ~spent
      BY <2>2, <1>2, <1>3 DEF Work
  <2> QED BY <2>1, <2>2
<1>5. ReturnPoint(q)
    BY <1>1, <1>2, <1>3, <1>4, NoneAssumption DEF Sound, ReturnPoint, GoalState
<1>6. Covered(q, plans[g])
    BY <1>1, <1>4 DEF Covered
<1>7. q.continuations <= q.max_continuations + 1
    BY <1>1, <1>3, LimitsAssumption DEF Sound, GoalRecord
<1> QED BY <1>2, <1>3, <1>5, <1>6, <1>7, GoalStep DEF Sound

-----------------------------------------------------------------------------
(* A request that changes no goal and removes no plan.                     *)
LEMMA RecordStep ==
    ASSUME GoalInv, UNCHANGED goal,
           \A g \in GoalId : plans[g] # <<>> => plans'[g] # <<>>
    PROVE  GoalInv'
BY DEF GoalInv, Sound, Covered, Exists

LEMMA AppendIsPlan ==
    ASSUME NEW seq \in Seq(Content), NEW content \in Content
    PROVE  Append(seq, content) \in Seq(Content) /\ Append(seq, content) # <<>>
<1>1. Append(seq, content) \in Seq(Content)
    OBVIOUS
<1>2. Len(Append(seq, content)) = Len(seq) + 1 /\ Len(seq) \in Nat
    OBVIOUS
<1>3. Len(<<>>) = 0
    OBVIOUS
<1>4. Append(seq, content) # <<>>
    BY <1>2, <1>3
<1> QED BY <1>1, <1>4

LEMMA CreateSound ==
    ASSUME GoalInv, NEW g \in GoalId, NEW limit \in Limits, NEW s \in Session,
           CreateGoal(g, limit, s)
    PROVE  GoalInv'
<1>1. CASE goal' = [goal EXCEPT ![g] = NewGoal(limit)]
  <2>1. NewGoal(limit) \in GoalRecord
      BY LimitsAssumption DEF NewGoal, GoalRecord, GoalState
  <2>2. Work(NewGoal(limit)) = "Draft"
      BY DEF NewGoal, Work
  <2>3. ReturnPoint(NewGoal(limit)) /\ Covered(NewGoal(limit), plans[g])
      BY <2>2 DEF NewGoal, ReturnPoint, Covered, Planned
  <2>4. NewGoal(limit).continuations <= NewGoal(limit).max_continuations + 1
      BY LimitsAssumption DEF NewGoal
  <2> QED BY <1>1, <2>1, <2>3, <2>4, GoalStep DEF CreateGoal, Sound
<1>2. CASE UNCHANGED goal
    BY <1>2, RecordStep DEF CreateGoal
<1> QED BY <1>1, <1>2 DEF CreateGoal

LEMMA SavePlanSound ==
    ASSUME TypeOK, GoalInv, NEW g \in GoalId, NEW content \in Content, SavePlan(g, content)
    PROVE  GoalInv' /\ plans' \in [GoalId -> Seq(Content)]
<1> DEFINE r == goal[g]
           q == [r EXCEPT !.state = "Planning"]
           saved == IF Contains(plans[g], content) THEN plans[g] ELSE Append(plans[g], content)
<1>1. Sound(r)
    BY DEF GoalInv, SavePlan, Loads, Exists
<1>2. r.state \in {"Draft", "Planning"} /\ goal' = [goal EXCEPT ![g] = q]
    BY DEF SavePlan, GoalInv
<1>3. /\ q \in GoalRecord /\ q.state = "Planning"
      /\ q.paused_from = r.paused_from /\ q.blocked_from = r.blocked_from
      /\ q.continuations = r.continuations /\ q.max_continuations = r.max_continuations
    BY <1>1, <1>2 DEF Sound, GoalRecord, GoalState
<1>4. Work(q) = "Planning"
    BY <1>3 DEF Work
<1>5. Sound(q) /\ \A p : Covered(q, p)
    BY <1>1, <1>2, <1>3, <1>4 DEF Sound, ReturnPoint, Covered, Planned
<1>6. saved \in Seq(Content) /\ (plans[g] # <<>> => saved # <<>>)
    BY AppendIsPlan DEF TypeOK
<1>7. plans' = [plans EXCEPT ![g] = saved] \/ plans' = plans
    BY DEF SavePlan
<1>8. /\ plans' \in [GoalId -> Seq(Content)]
      /\ \A h \in GoalId : plans[h] # <<>> => plans'[h] # <<>>
  <2> HIDE DEF saved
  <2> QED BY <1>6, <1>7 DEF TypeOK
<1>9. GoalInv'
  <2> HIDE DEF q, saved
  <2>1. goal' \in [GoalId -> GoalRecord \union {None}]
      BY <1>2, <1>5 DEF GoalInv, Sound
  <2>2. ASSUME NEW h \in GoalId, goal'[h] # None
        PROVE  Sound(goal'[h]) /\ Covered(goal'[h], plans'[h])
    <3>1. CASE h = g
        BY <1>2, <1>5, <3>1 DEF GoalInv
    <3>2. CASE h # g
        BY <1>2, <1>8, <2>2, <3>2 DEF GoalInv, Exists, Covered
    <3> QED BY <3>1, <3>2
  <2> QED BY <2>1, <2>2 DEF GoalInv, Exists
<1> QED BY <1>8, <1>9

LEMMA ControlSound ==
    ASSUME GoalInv, NEW g \in GoalId, Control(g)
    PROVE  GoalInv' /\ goal'[g] \in GoalRecord
<1>1. Exists(g) /\ UNCHANGED plans
    BY DEF Control, Loads, Exists, records
<1>2. CASE \E command \in DOMAIN Edge : Validated(g, command) /\ Transition(g, command)
    BY <1>1, <1>2, TransitionSound
<1>3. CASE Pause(g)
    BY <1>1, <1>3, PauseSound
<1>4. CASE Resume(g)
    BY <1>1, <1>4, ResumeSound
<1>5. CASE Block(g)
    BY <1>1, <1>5, BlockSound
<1>6. CASE ResumeBlocked(g)
    BY <1>1, <1>6, ResumeBlockedSound
<1>7. CASE Abort(g)
    BY <1>1, <1>7, AbortSound
<1> QED BY <1>2, <1>3, <1>4, <1>5, <1>6, <1>7 DEF Control

(* The rows no goal invariant is about keep their types.                   *)
Rows ==
    /\ amendments \in [GoalId -> Seq(Operation)]
    /\ link \in [WorkflowId -> [goal : GoalId, milestone : Milestone] \union {None}]
    /\ focus \in [Session -> GoalId \union {None}]
    /\ applied \subseteq {"amend", "control"} \X GoalId \X Operation
    /\ workflow \in [WorkflowId -> WorkflowStatus]

IInv == GoalInv /\ plans \in [GoalId -> Seq(Content)] /\ Rows

LEMMA TypeFromInv == IInv => TypeOK
BY DEF IInv, GoalInv, Rows, TypeOK

LEMMA InitInv == Init => IInv
BY DEF Init, IInv, GoalInv, Rows, Exists, WorkflowStatus

LEMMA StepInv == IInv /\ [Next]_vars => IInv'
<1> SUFFICES ASSUME IInv, [Next]_vars PROVE IInv'
    OBVIOUS
<1> USE DEF IInv
<1>1. ASSUME NEW g \in GoalId, NEW limit \in Limits, NEW s \in Session,
             CreateGoal(g, limit, s)
      PROVE  IInv'
    BY <1>1, CreateSound DEF CreateGoal, Rows
<1>2. ASSUME NEW g \in GoalId, NEW op \in Operation, Amend(g, op)
      PROVE  IInv'
  <2>1. GoalInv'
      BY <1>2, RecordStep DEF Amend
  <2> QED BY <1>2, <2>1 DEF Amend, Rows
<1>3. ASSUME NEW g \in GoalId, NEW op \in Operation, Continue(g, op)
      PROVE  IInv'
  <2>1. GoalInv'
      BY <1>3, ContinueSound DEF Continue, records
  <2> QED BY <1>3, <2>1 DEF Continue, Rows, records
<1>4. ASSUME NEW g \in GoalId, Control(g)
      PROVE  IInv'
    BY <1>4, ControlSound DEF Control, Rows, records
<1>5. ASSUME NEW g \in GoalId, NEW s \in Session, FocusGoal(g, s)
      PROVE  IInv'
  <2>1. GoalInv'
      BY <1>5, RecordStep DEF FocusGoal
  <2> QED BY <1>5, <2>1 DEF FocusGoal, Rows
<1>6. ASSUME NEW g \in GoalId, NEW w \in WorkflowId, NEW milestone \in Milestone,
             LinkWorkflow(g, w, milestone)
      PROVE  IInv'
  <2>1. GoalInv'
      BY <1>6, RecordStep DEF LinkWorkflow
  <2> QED BY <1>6, <2>1 DEF LinkWorkflow, Rows
<1>7. ASSUME NEW g \in GoalId, NEW content \in Content, SavePlan(g, content)
      PROVE  IInv'
    BY <1>7, SavePlanSound, TypeFromInv DEF SavePlan, Rows
<1>8. ASSUME NEW w \in WorkflowId, AdvanceWorkflow(w)
      PROVE  IInv'
  <2>1. GoalInv'
      BY <1>8, RecordStep DEF AdvanceWorkflow, records
  <2>2. workflow' \in [WorkflowId -> WorkflowStatus]
      BY <1>8 DEF AdvanceWorkflow, Rows, WorkflowStatus
  <2> QED BY <1>8, <2>1, <2>2 DEF AdvanceWorkflow, Rows, records
<1>9. CASE UNCHANGED vars
  <2>1. GoalInv'
      BY <1>9, RecordStep DEF vars, records
  <2> QED BY <1>9, <2>1 DEF Rows, vars, records
<1> QED BY <1>1, <1>2, <1>3, <1>4, <1>5, <1>6, <1>7, <1>8, <1>9 DEF Next

-----------------------------------------------------------------------------
LEMMA AlwaysInv == Spec => []IInv
BY InitInv, StepInv, PTL DEF Spec

(* Every reachable row has the type the code gives it, the counter of      *)
(* continuations within its u8 (goal.rs:56-68, 298-301).                   *)
THEOREM TypeCorrect == Spec => []TypeOK
BY AlwaysInv, TypeFromInv, PTL

(* A pause or a block, nested in any order and repeated, never loses the   *)
(* state it returns to and never leaves one behind (goal.rs:246-292).      *)
THEOREM SuspensionCorrect == Spec => []SuspensionInv
<1>1. IInv => SuspensionInv
    BY DEF IInv, GoalInv, Sound, SuspensionInv
<1> QED BY <1>1, AlwaysInv, PTL

(* No goal is ready, active, completing or completed, or suspended from    *)
(* there, without a saved plan (workflowd goal.rs:276-283).                *)
THEOREM PlanCorrect == Spec => []PlanBeforeWork
<1>1. IInv => PlanBeforeWork
    BY DEF IInv, GoalInv, Covered, PlanBeforeWork
<1> QED BY <1>1, AlwaysInv, PTL

(* Whatever the width of the counter and however often a blocked goal is   *)
(* resumed, it is continued at most once past its limit: the validation of *)
(* a stored goal stops what the command does not (goal.rs:119, 297-314).   *)
THEOREM ContinuationsCorrect == Spec => []ContinuationsBounded
<1>1. IInv => ContinuationsBounded
    BY DEF IInv, GoalInv, Sound, ContinuationsBounded
<1> QED BY <1>1, AlwaysInv, PTL

(* All of this together, which the run checks on its instance, for every   *)
(* number of goals, workflows, sessions, plans and requests.               *)
THEOREM InvCorrect == Spec => []Inv
BY TypeCorrect, SuspensionCorrect, PlanCorrect, ContinuationsCorrect, PTL DEF Inv

-----------------------------------------------------------------------------
LEMMA PlanStep ==
    ASSUME IInv, [Next]_vars, NEW g \in GoalId, plans'[g] # plans[g]
    PROVE  /\ goal[g].state \in {"Draft", "Planning"}
           /\ \E content \in Content :
                 plans'[g] = Append(plans[g], content) /\ ~Contains(plans[g], content)
<1>1. PICK h \in GoalId, content \in Content : SavePlan(h, content)
    BY DEF Next, vars, records, CreateGoal, Amend, Continue, Control, FocusGoal,
           LinkWorkflow, AdvanceWorkflow
<1>2. plans' = [plans EXCEPT ![h] = IF Contains(plans[h], content) THEN plans[h]
                                                           ELSE Append(plans[h], content)]
    BY <1>1 DEF SavePlan
<1>3. h = g /\ ~Contains(plans[g], content) /\ plans'[g] = Append(plans[g], content)
    BY <1>2 DEF IInv
<1> QED BY <1>1, <1>3 DEF SavePlan

(* After a goal is ready its plans never change; before, they are only     *)
(* appended, each once (workflowd goal.rs:204-216, goals.rs:329-357).      *)
THEOREM PlanFinal == Spec => PlanIsFinal
<1>1. IInv /\ [Next]_vars =>
        [\A g \in GoalId : plans'[g] # plans[g] =>
            /\ goal[g].state \in {"Draft", "Planning"}
            /\ \E content \in Content :
                  plans'[g] = Append(plans[g], content) /\ ~Contains(plans[g], content)]_vars
    BY PlanStep
<1> QED BY <1>1, AlwaysInv, PTL DEF Spec, PlanIsFinal

LEMMA CompletionStep ==
    ASSUME IInv, [Next]_vars, NEW g \in GoalId,
           Exists(g), goal[g].state # "Completed", goal'[g].state = "Completed"
    PROVE  Completable(g)
<1> DEFINE r == goal[g]
<1>1. /\ goal \in [GoalId -> GoalRecord \union {None}] /\ r \in GoalRecord /\ ReturnPoint(r)
    BY DEF IInv, GoalInv, Sound, Exists
<1>2. ASSUME NEW h \in GoalId, Control(h) PROVE Completable(g)
  <2>1. ASSUME NEW command \in DOMAIN Edge, Validated(h, command), Transition(h, command)
        PROVE  Completable(g)
    <3>1. h = g /\ Edge[command][2] = "Completed"
        BY <1>1, <2>1 DEF Transition, GoalRecord
    <3>2. command = "ApproveCompletion"
        BY <3>1 DEF Edge
    <3> QED BY <2>1, <3>1, <3>2 DEF Validated
  <2>2. ~Pause(h) /\ ~Block(h) /\ ~Abort(h)
      BY <1>1 DEF Pause, Block, Abort, GoalRecord
  <2>3. ~Resume(h)
      BY <1>1 DEF Resume, GoalRecord, ReturnPoint
  <2>4. ~ResumeBlocked(h)
      BY <1>1 DEF ResumeBlocked, GoalRecord, ReturnPoint
  <2> QED BY <1>2, <2>1, <2>2, <2>3, <2>4 DEF Control
<1>3. ASSUME NEW h \in GoalId, NEW op \in Operation PROVE ~Continue(h, op)
    BY <1>1 DEF Continue, ContinueGoal, GoalRecord
<1>4. ASSUME NEW h \in GoalId, NEW content \in Content PROVE ~SavePlan(h, content)
    BY <1>1 DEF SavePlan, GoalRecord
<1>5. ASSUME NEW h \in GoalId, NEW limit \in Limits, NEW s \in Session
      PROVE  ~CreateGoal(h, limit, s)
    BY <1>1 DEF CreateGoal, NewGoal, Exists
<1>6. goal' # goal
    OBVIOUS
<1> QED BY <1>2, <1>3, <1>4, <1>5, <1>6
        DEF Next, vars, Amend, FocusGoal, LinkWorkflow, AdvanceWorkflow

(* A goal is never completed by a resume, a repetition or an approval that *)
(* was overtaken by a new link: at the step that completes it every linked *)
(* workflow has ended and every milestone was reached                      *)
(* (workflowd goal.rs:284-320).                                            *)
THEOREM CompletionCorrect == Spec => CompletionIsEarned
<1>1. ASSUME NEW g \in GoalId, Completable(g)
      PROVE  /\ Links(g) # {}
             /\ \A w \in Links(g) :
                   /\ workflow[w] \notin {"Requested", "Running"}
                   /\ \E v \in Links(g) :
                         workflow[v] = "Completed" /\ link[v].milestone = link[w].milestone
    BY <1>1 DEF Completable
<1>2. IInv /\ [Next]_vars =>
        [\A g \in GoalId :
            Exists(g) /\ goal[g].state # "Completed" /\ goal'[g].state = "Completed" =>
              /\ Links(g) # {}
              /\ \A w \in Links(g) :
                    /\ workflow[w] \notin {"Requested", "Running"}
                    /\ \E v \in Links(g) :
                          workflow[v] = "Completed" /\ link[v].milestone = link[w].milestone]_vars
    BY <1>1, CompletionStep
<1> QED BY <1>2, AlwaysInv, PTL DEF Spec, CompletionIsEarned

-----------------------------------------------------------------------------
(* Repeated requests.                                                      *)

Done(kind, g) == {op \in Operation : <<kind, g, op>> \in applied}

\* What one goal has in common with the keys of the requests it has answered.
Counted(g) ==
    /\ IsFiniteSet(Done("control", g)) /\ IsFiniteSet(Done("amend", g))
    /\ goal[g] # None => goal[g].continuations = Cardinality(Done("control", g))
    /\ goal[g] = None => Done("control", g) = {}
    /\ Len(amendments[g]) = Cardinality(Done("amend", g))
    /\ \A op \in Done("amend", g) : Contains(amendments[g], op)

KeyInv == \A g \in GoalId : Counted(g)

LEMMA DoneGrows ==
    ASSUME NEW kind, NEW g, NEW op \in Operation, IsFiniteSet(Done(kind, g)),
           <<kind, g, op>> \notin applied, applied' = applied \union {<<kind, g, op>>}
    PROVE  /\ IsFiniteSet(Done(kind, g)')
           /\ Done(kind, g)' = Done(kind, g) \union {op}
           /\ Cardinality(Done(kind, g)') = Cardinality(Done(kind, g)) + 1
           /\ \A k, h : k # kind \/ h # g => Done(k, h)' = Done(k, h)
<1>1. Done(kind, g)' = Done(kind, g) \union {op} /\ op \notin Done(kind, g)
    BY DEF Done
<1>2. \A k, h : k # kind \/ h # g => Done(k, h)' = Done(k, h)
    BY DEF Done
<1> QED BY <1>1, <1>2, FS_AddElement

\* A step that answers nothing new keeps what is counted, if it keeps the rows.
LEMMA CountedKept ==
    ASSUME KeyInv, UNCHANGED <<applied, amendments>>,
           \A g \in GoalId :
               \/ goal'[g] = goal[g]
               \/ goal[g] = None /\ goal'[g] # None /\ goal'[g].continuations = 0
               \/ /\ goal[g] # None /\ goal'[g] # None
                  /\ goal'[g].continuations = goal[g].continuations
    PROVE  KeyInv'
<1>1. \A k, h : Done(k, h)' = Done(k, h)
    BY DEF Done
<1>2. ASSUME NEW g \in GoalId PROVE Counted(g)'
  <2>1. Cardinality({}) = 0
      BY FS_EmptySet
  <2> QED BY <1>1, <2>1 DEF KeyInv, Counted
<1> QED BY <1>2 DEF KeyInv

LEMMA AppendCounts ==
    ASSUME NEW seq \in Seq(Operation), NEW op \in Operation
    PROVE  /\ Len(Append(seq, op)) = Len(seq) + 1
           /\ Contains(Append(seq, op), op)
           /\ \A x : Contains(seq, x) => Contains(Append(seq, op), x)
<1>1. Len(Append(seq, op)) = Len(seq) + 1 /\ Len(seq) \in Nat
    OBVIOUS
<1>2. /\ DOMAIN seq = 1..Len(seq) /\ DOMAIN Append(seq, op) = 1..(Len(seq) + 1)
      /\ Append(seq, op)[Len(seq) + 1] = op
      /\ \A i \in 1..Len(seq) : Append(seq, op)[i] = seq[i]
    OBVIOUS
<1>3. Contains(Append(seq, op), op)
    BY <1>1, <1>2 DEF Contains
<1>4. ASSUME NEW x, Contains(seq, x) PROVE Contains(Append(seq, op), x)
    BY <1>1, <1>2, <1>4 DEF Contains
<1> QED BY <1>1, <1>3, <1>4

LEMMA AmendCounts ==
    ASSUME IInv, KeyInv, NEW g \in GoalId, NEW op \in Operation, Amend(g, op)
    PROVE  KeyInv'
<1>1. /\ Done("amend", g)' = Done("amend", g) \union {op}
      /\ IsFiniteSet(Done("amend", g)')
      /\ Cardinality(Done("amend", g)') = Cardinality(Done("amend", g)) + 1
      /\ \A h \in GoalId : Done("control", h)' = Done("control", h)
      /\ \A h \in GoalId : h # g => Done("amend", h)' = Done("amend", h)
    BY DoneGrows DEF Amend, KeyInv, Counted
<1>2. amendments' = [amendments EXCEPT ![g] = Append(amendments[g], op)] /\ goal' = goal
    BY DEF Amend
<1>3. ASSUME NEW h \in GoalId, h # g PROVE Counted(h)'
    BY <1>1, <1>2, <1>3 DEF KeyInv, Counted, IInv, Rows
<1>4. Counted(g)'
  <2>1. /\ amendments'[g] = Append(amendments[g], op)
        /\ amendments[g] \in Seq(Operation)
      BY <1>2 DEF IInv, Rows
  <2>2. \A x \in Done("amend", g)' : Contains(amendments'[g], x)
      BY <1>1, <2>1, AppendCounts DEF KeyInv, Counted
  <2>3. Len(amendments'[g]) = Cardinality(Done("amend", g)')
      BY <1>1, <2>1, AppendCounts DEF KeyInv, Counted
  <2> QED BY <1>1, <1>2, <2>2, <2>3 DEF KeyInv, Counted
<1> QED BY <1>3, <1>4 DEF KeyInv

LEMMA ContinueCounts ==
    ASSUME IInv, KeyInv, NEW g \in GoalId, NEW op \in Operation, Continue(g, op)
    PROVE  KeyInv'
<1>1. /\ IsFiniteSet(Done("control", g)')
      /\ Cardinality(Done("control", g)') = Cardinality(Done("control", g)) + 1
      /\ \A h \in GoalId : Done("amend", h)' = Done("amend", h)
      /\ \A h \in GoalId : h # g => Done("control", h)' = Done("control", h)
    BY DoneGrows DEF Continue, KeyInv, Counted
<1>2. /\ amendments' = amendments
      /\ goal[g] # None /\ goal'[g].continuations = goal[g].continuations + 1
      /\ \A h \in GoalId : h # g => goal'[h] = goal[h]
      /\ goal'[g] # None
  <2>1. goal[g] \in GoalRecord /\ UNCHANGED <<plans, amendments>>
      BY DEF Continue, Loads, IInv, GoalInv, records
  <2>2. goal'[g] # None
      BY <2>1, ContinueSound, NoneAssumption DEF Continue, IInv
  <2> QED BY <2>1, <2>2 DEF Continue, ContinueGoal, Loads, IInv, GoalInv, GoalRecord
<1>3. ASSUME NEW h \in GoalId PROVE Counted(h)'
    BY <1>1, <1>2 DEF KeyInv, Counted
<1> QED BY <1>3 DEF KeyInv

LEMMA ControlCounts ==
    ASSUME IInv, KeyInv, NEW g \in GoalId, Control(g)
    PROVE  KeyInv'
<1> DEFINE r == goal[g]
<1>1. /\ r \in GoalRecord /\ r # None /\ goal \in [GoalId -> GoalRecord \union {None}]
      /\ ReturnPoint(r)
    BY DEF Control, Loads, IInv, GoalInv, Exists, Sound
<1>2. \A h \in GoalId : h # g => goal'[h] = goal[h]
    BY <1>1 DEF Control, Transition, Pause, Resume, Block, ResumeBlocked, Abort
<1>3. goal'[g].continuations = r.continuations
    BY <1>1 DEF Control, Transition, Pause, Resume, Block, ResumeBlocked, Abort, GoalRecord
<1>4. goal'[g] # None
    BY ControlSound, NoneAssumption DEF IInv
<1>5. UNCHANGED <<applied, amendments>>
    BY DEF Control, records
<1> QED BY <1>1, <1>2, <1>3, <1>4, <1>5, CountedKept

LEMMA CreateCounts ==
    ASSUME IInv, KeyInv, NEW g \in GoalId, NEW limit \in Limits, NEW s \in Session,
           CreateGoal(g, limit, s)
    PROVE  KeyInv'
<1>1. NewGoal(limit) # None /\ NewGoal(limit).continuations = 0
  <2>1. NewGoal(limit) \in GoalRecord
      BY LimitsAssumption DEF NewGoal, GoalRecord, GoalState
  <2> QED BY <2>1, NoneAssumption DEF NewGoal
<1>2. \A h \in GoalId : \/ goal'[h] = goal[h]
                        \/ /\ goal[h] = None /\ goal'[h] # None
                           /\ goal'[h].continuations = 0
    BY <1>1 DEF CreateGoal, IInv, GoalInv
<1>3. UNCHANGED <<applied, amendments>>
    BY DEF CreateGoal
<1> QED BY <1>2, <1>3, CountedKept

LEMMA SavePlanCounts ==
    ASSUME IInv, KeyInv, NEW g \in GoalId, NEW content \in Content, SavePlan(g, content)
    PROVE  KeyInv'
<1>1. goal[g] \in GoalRecord /\ goal \in [GoalId -> GoalRecord \union {None}]
    BY DEF SavePlan, Loads, IInv, GoalInv
<1>2. goal' = [goal EXCEPT ![g] = [goal[g] EXCEPT !.state = "Planning"]]
    BY <1>1 DEF SavePlan
<1>3. /\ [goal[g] EXCEPT !.state = "Planning"] \in GoalRecord
      /\ [goal[g] EXCEPT !.state = "Planning"].continuations = goal[g].continuations
    BY <1>1 DEF GoalRecord, GoalState
<1>4. \A h \in GoalId : \/ goal'[h] = goal[h]
                        \/ /\ goal[h] # None /\ goal'[h] # None
                           /\ goal'[h].continuations = goal[h].continuations
    BY <1>1, <1>2, <1>3, NoneAssumption
<1>5. UNCHANGED <<applied, amendments>>
    BY DEF SavePlan
<1> QED BY <1>4, <1>5, CountedKept

LEMMA InitCounts == Init => KeyInv
<1> SUFFICES ASSUME Init, NEW g \in GoalId PROVE Counted(g)
    BY DEF KeyInv
<1>1. Done("control", g) = {} /\ Done("amend", g) = {}
    BY DEF Init, Done
<1>2. goal[g] = None /\ amendments[g] = <<>>
    BY DEF Init
<1>3. Len(<<>>) = 0
    OBVIOUS
<1> QED BY <1>1, <1>2, <1>3, FS_EmptySet DEF Counted

LEMMA StepCounts == IInv /\ KeyInv /\ [Next]_vars => KeyInv'
<1> SUFFICES ASSUME IInv, KeyInv, [Next]_vars PROVE KeyInv'
    OBVIOUS
<1>1. CASE UNCHANGED <<applied, amendments, goal>>
    BY <1>1, CountedKept
<1>2. CASE \E g \in GoalId, limit \in Limits, s \in Session : CreateGoal(g, limit, s)
    BY <1>2, CreateCounts
<1>3. CASE \E g \in GoalId, op \in Operation : Amend(g, op)
    BY <1>3, AmendCounts
<1>4. CASE \E g \in GoalId, op \in Operation : Continue(g, op)
    BY <1>4, ContinueCounts
<1>5. CASE \E g \in GoalId : Control(g)
    BY <1>5, ControlCounts
<1>6. CASE \E g \in GoalId, content \in Content : SavePlan(g, content)
    BY <1>6, SavePlanCounts
<1> QED BY <1>1, <1>2, <1>3, <1>4, <1>5, <1>6
        DEF Next, vars, records, FocusGoal, LinkWorkflow, AdvanceWorkflow

(* A request that is repeated, in any order with others, is applied once:  *)
(* a goal counts every continuation and holds every amendment exactly once *)
(* (goals.rs:123-141, 204-217).                                            *)
THEOREM RequestsAppliedOnce == Spec => []AppliedOnce
<1>1. KeyInv => AppliedOnce
    BY DEF KeyInv, Counted, Done, AppliedOnce, Exists
<1>2. Spec => []KeyInv
    BY InitCounts, StepCounts, AlwaysInv, PTL DEF Spec
<1> QED BY <1>1, <1>2, PTL
=============================================================================
