----------------------------- MODULE Admission -----------------------------
(***************************************************************************)
(* Which workflows may run at a time: crates/workflowd/src/admission.rs    *)
(* with the resource controller of resources/policy.rs, and the request    *)
(* and control handlers of lifecycle.rs that call it.  Workflows of every  *)
(* project ask for one of a few slots, wait in a fair queue, and hold a    *)
(* slot or a place in the queue by a lease that each request renews.       *)
(*                                                                         *)
(* Times are what remains of a lease and what has passed of a tick, so the *)
(* clock needs no bound; it is taken not to go back.  A request reads the  *)
(* state of its workflow and samples the resources before it takes the     *)
(* mutex of admission, so Ask and Execute are two steps.  Definitions      *)
(* whose name starts with Faulty are slips in the definition that follows, *)
(* used only by the mutation runs.                                         *)
(***************************************************************************)
EXTENDS Integers, FiniteSets, SequencesExt, Retain

CONSTANTS
    None,
    WorkflowId,
    ProjectId,
    ProjectOf,           \* the project each workflow was requested for
    MaximumActive,       \* largest number of slots, 8 in the code
    Lease,               \* LEASE_MILLIS
    TickTime,            \* the 1 000 milliseconds of a tick
    RecoveryAdmissions,  \* recovery_admissions_per_tick
    U16Max,
    Controlled,          \* the workflows that other handlers stop: a bound
    Watched,             \* the workflows WaitingEnds follows: a bound
    Samples              \* what sampling the resources may find

Resource == {"memory", "disk", "cpu"}
Level == {"enough", "short", "unknown"}

ASSUME ConstantsAssumption ==
    /\ ProjectOf \in [WorkflowId -> ProjectId]
    /\ {MaximumActive, Lease, TickTime, RecoveryAdmissions, U16Max} \subseteq Nat \ {0}
    /\ RecoveryAdmissions <= U16Max
    /\ Controlled \subseteq WorkflowId
    /\ Samples \subseteq [Resource -> Level]
ASSUME NoneAssumption == None \notin 0..Lease /\ None \notin ProjectId

VARIABLES
    admission,       \* RuntimeAdmission, shared by all connections
    maximum_active,  \* its limit, from the number of processors
    debug,           \* whether the build evaluates debug_assert_eq!
    state,           \* of each workflow, as far as admission reads it
    asking           \* requests that passed the check and sample resources

vars == <<admission, maximum_active, debug, state, asking>>

-----------------------------------------------------------------------------
RunState == {"runnable", "paused", "cancelling", "ended"}

ControllerRecord ==
    [admitted_this_tick : 0..U16Max, pressured_last_tick : BOOLEAN, recovery_tick : BOOLEAN]

AdmissionRecord ==
    [active : [WorkflowId -> 0..Lease \union {None}],
     waiting : [WorkflowId -> 0..Lease \union {None}],
     workflow_projects : [WorkflowId -> ProjectId \union {None}],
     projects : [ProjectId -> Seq(WorkflowId)],
     rotation : Seq(ProjectId),
     controller : ControllerRecord,
     since_tick : 0..TickTime]

\* A map is a function that is None, or empty, outside its keys.
NewAdmission ==
    [active |-> [w \in WorkflowId |-> None],
     waiting |-> [w \in WorkflowId |-> None],
     workflow_projects |-> [w \in WorkflowId |-> None],
     projects |-> [p \in ProjectId |-> <<>>],
     rotation |-> <<>>,
     controller |-> [admitted_this_tick |-> 0, pressured_last_tick |-> FALSE,
                     recovery_tick |-> FALSE],
     since_tick |-> TickTime]

Active(a) == {w \in WorkflowId : a.active[w] # None}

\* remove, of every workflow of a set.
Removed(a, gone) ==
    LET known == {w \in gone : a.workflow_projects[w] # None}
        queues == [p \in ProjectId |->
                     Retained(a.projects[p],
                              {w \in WorkflowId : w \notin known \/ a.workflow_projects[w] # p})]
        emptied == {p \in ProjectId : a.projects[p] # <<>> /\ queues[p] = <<>>}
    IN [a EXCEPT
          !.active = [w \in WorkflowId |-> IF w \in gone THEN None ELSE a.active[w]],
          !.workflow_projects =
              [w \in WorkflowId |-> IF w \in gone THEN None ELSE a.workflow_projects[w]],
          !.waiting = [w \in WorkflowId |-> IF w \in known THEN None ELSE a.waiting[w]],
          !.projects = queues,
          !.rotation = Retained(a.rotation, ProjectId \ emptied)]

FaultyReap(a) ==
    Removed([a EXCEPT !.active = [w \in WorkflowId |-> IF @[w] = 0 THEN None ELSE @[w]]],
            {w \in WorkflowId : a.waiting[w] = 0})
\* reap: leases that ran out and workflows that stopped asking go, and
\* repair_queue_invariants drops what the maps do not agree on.
Reap(a) ==
    LET stay(p) == {w \in WorkflowId : a.waiting[w] \notin {None, 0} /\ a.workflow_projects[w] = p}
        queued == {w \in WorkflowId :
                     \E p \in ProjectId : w \in stay(p) /\ Contains(a.projects[p], w)}
        living == {p \in ProjectId : \E w \in stay(p) : Contains(a.projects[p], w)}
        turns == Retained([i \in DOMAIN a.rotation |-> i],
                          {i \in DOMAIN a.rotation :
                             /\ a.rotation[i] \in living
                             /\ \A j \in 1..(i - 1) : a.rotation[j] # a.rotation[i]})
        missing == living \ ToSet(a.rotation)
    IN [a EXCEPT
          !.active = [w \in WorkflowId |->
                        IF @[w] = 0 \/ a.waiting[w] = 0 THEN None ELSE @[w]],
          !.projects = [p \in ProjectId |-> Retained(a.projects[p], stay(p))],
          !.waiting = [w \in WorkflowId |-> IF w \in queued THEN @[w] ELSE None],
          !.workflow_projects = [w \in WorkflowId |-> IF w \in queued THEN @[w] ELSE None],
          !.rotation = [i \in DOMAIN turns |-> a.rotation[turns[i]]] \o SetToSeq(missing)]

Enqueue(a, w) ==
    LET p == ProjectOf[w]
    IN IF a.waiting[w] # None THEN [a EXCEPT !.waiting[w] = Lease]
       ELSE [a EXCEPT !.waiting[w] = Lease,
                      !.projects[p] = Append(@, w),
                      !.workflow_projects[w] = p,
                      !.rotation = IF a.projects[p] = <<>> THEN Append(@, p) ELSE @]

FaultyDequeueFront(a, w) ==
    LET p == ProjectOf[w]
        queue == IF debug THEN Tail(a.projects[p]) ELSE a.projects[p]
    IN [a EXCEPT !.projects[p] = queue,
                 !.waiting[w] = None,
                 !.workflow_projects[w] = None,
                 !.rotation = IF queue = <<>> THEN Tail(@) ELSE @]
\* The head of the queue is popped inside debug_assert_eq!: a release build
\* leaves it there, without an entry in the maps, until the next request.
DequeueFront(a, w) ==
    LET p == ProjectOf[w]
        queue == IF debug THEN Tail(a.projects[p]) ELSE a.projects[p]
    IN [a EXCEPT !.projects[p] = queue,
                 !.waiting[w] = None,
                 !.workflow_projects[w] = None,
                 !.rotation = IF queue = <<>> THEN Tail(@) ELSE Append(Tail(@), p)]

-----------------------------------------------------------------------------
(* The resource controller.  Work of a remote model is all it is asked for,*)
(* which never gives way to verification.                                  *)

BeginTick(a) ==
    IF a.since_tick < TickTime THEN a
    ELSE [a EXCEPT !.since_tick = 0,
                   !.controller = [admitted_this_tick |-> 0,
                                   pressured_last_tick |-> FALSE,
                                   recovery_tick |-> @.pressured_last_tick]]

Decision(c, sample) ==
    IF \E r \in Resource : sample[r] = "unknown" THEN "DeferMetricsUnavailable"
    ELSE IF \E r \in Resource : sample[r] = "short" THEN "DeferPressure"
    ELSE IF c.recovery_tick /\ c.admitted_this_tick >= RecoveryAdmissions
         THEN "DeferRecoveryBackpressure"
    ELSE "Admit"

Evaluate(c, sample) ==
    CASE Decision(c, sample) = "DeferPressure" -> [c EXCEPT !.pressured_last_tick = TRUE]
      [] Decision(c, sample) = "Admit" ->
           [c EXCEPT !.admitted_this_tick = IF @ = U16Max THEN @ ELSE @ + 1]
      [] OTHER -> c

FaultyFirst(a, w) == Head(a.projects[ProjectOf[w]]) = w
First(a, w) ==
    /\ Head(a.rotation) = ProjectOf[w]
    /\ Head(a.projects[ProjectOf[w]]) = w

Full(a) == Cardinality(Active(a)) >= maximum_active

\* execute with Acquire or Renew, which it does not tell apart.
Executed(w, sample, reaped, queued, ticked) ==
    \/ /\ reaped.active[w] # None
       /\ admission' = [reaped EXCEPT !.active[w] = Lease]
    \/ /\ reaped.active[w] = None
       /\ Full(queued) \/ ~First(queued, w)
       /\ admission' = queued
    \/ /\ reaped.active[w] = None
       /\ ~Full(queued) /\ First(queued, w)
       /\ admission' =
            LET judged == [ticked EXCEPT !.controller = Evaluate(@, sample)]
            IN IF Decision(ticked.controller, sample) # "Admit" THEN judged
               ELSE [DequeueFront(judged, w) EXCEPT !.active[w] = Lease]

-----------------------------------------------------------------------------
FaultyAllowed(w) == state[w] # "paused"
Allowed(w) == state[w] = "runnable"

\* A request to acquire or to renew reads the state of the workflow.  One that
\* may not run loses what it has.
Ask(w) ==
    /\ w \notin asking
    /\ IF Allowed(w)
       THEN asking' = asking \union {w} /\ UNCHANGED admission
       ELSE admission' = Removed(admission, {w}) /\ UNCHANGED asking
    /\ UNCHANGED <<maximum_active, debug, state>>

ExecuteWith(w, sample) ==
    /\ w \in asking
    /\ asking' = asking \ {w}
    /\ \E reaped \in {Reap(admission)} : \E queued \in {Enqueue(reaped, w)} :
         Executed(w, sample, reaped, queued, BeginTick(queued))
    /\ UNCHANGED <<maximum_active, debug, state>>

Execute(w) == \E sample \in Samples : ExecuteWith(w, sample)

\* A request to release, when the client has finished or given up.
Release(w) ==
    /\ UNCHANGED <<maximum_active, debug, state, asking>>
    /\ \E reaped \in {Reap(admission)} : admission' = Removed(reaped, {w})

\* Cancel is stored first; then the handler releases the slot.
Cancel(w) ==
    /\ state[w] \in {"runnable", "paused"}
    /\ state' = [state EXCEPT ![w] = "cancelling"]
    /\ UNCHANGED <<admission, maximum_active, debug, asking>>

ReleaseCancelled(w) ==
    /\ state[w] = "cancelling"
    /\ state' = [state EXCEPT ![w] = "ended"]
    /\ admission' = Removed(admission, {w})
    /\ UNCHANGED <<maximum_active, debug, asking>>

\* Other handlers pause, block, resume and complete workflows.
Suspend(w) ==
    /\ state[w] = "runnable"
    /\ state' = [state EXCEPT ![w] = "paused"]
    /\ UNCHANGED <<admission, maximum_active, debug, asking>>

Resume(w) ==
    /\ state[w] = "paused"
    /\ state' = [state EXCEPT ![w] = "runnable"]
    /\ UNCHANGED <<admission, maximum_active, debug, asking>>

Complete(w) ==
    /\ state[w] = "runnable"
    /\ state' = [state EXCEPT ![w] = "ended"]
    /\ UNCHANGED <<admission, maximum_active, debug, asking>>

\* Time passes.
Elapsed(lease) == IF lease \in 1..Lease THEN lease - 1 ELSE lease
Tick ==
    /\ admission' =
         [admission EXCEPT
            !.active = [w \in WorkflowId |-> Elapsed(@[w])],
            !.waiting = [w \in WorkflowId |-> Elapsed(@[w])],
            !.since_tick = IF @ < TickTime THEN @ + 1 ELSE @]
    /\ UNCHANGED <<maximum_active, debug, state, asking>>

\* The daemon restarts: admission lives in memory only.  A cancellation
\* that was stored is done.
Restart ==
    /\ admission' = NewAdmission
    /\ asking' = {}
    /\ state' = [w \in WorkflowId |-> IF state[w] = "cancelling" THEN "ended" ELSE state[w]]
    /\ UNCHANGED <<maximum_active, debug>>

Init ==
    /\ admission = NewAdmission
    /\ maximum_active \in 1..MaximumActive
    /\ debug \in BOOLEAN
    /\ state \in [WorkflowId -> {"runnable"}]
    /\ asking = {}

Next ==
    \/ \E w \in WorkflowId : Ask(w) \/ Execute(w) \/ Release(w)
    \/ \E w \in Controlled :
         \/ Cancel(w) \/ ReleaseCancelled(w) \/ Suspend(w) \/ Resume(w) \/ Complete(w)
    \/ Tick
    \/ Restart

Spec == Init /\ [][Next]_vars

\* Time passes, connections are served, whoever is first and asks again and
\* again finds the resources free at last, and work on a slot ends.
Admits(w) ==
    /\ admission.active[w] \in {None, 0}
    /\ \E sample \in Samples : Decision(NewAdmission.controller, sample) = "Admit"
                               /\ ExecuteWith(w, sample)
    /\ admission'.active[w] # None
Finishes(w) == admission.active[w] # None /\ Release(w)
FairSpec ==
    /\ Spec
    /\ WF_vars(Tick)
    /\ SF_vars(\E w \in WorkflowId : Admits(w))
    /\ WF_vars(\E w \in WorkflowId : Finishes(w))
    /\ WF_vars(\E w \in Controlled : ReleaseCancelled(w))

-----------------------------------------------------------------------------
TypeOK ==
    /\ admission \in AdmissionRecord
    /\ maximum_active \in 1..MaximumActive
    /\ debug \in BOOLEAN
    /\ state \in [WorkflowId -> RunState]
    /\ asking \subseteq WorkflowId

\* Leases that ran out and were not reaped yet are no longer held.
Holds(w) == admission.active[w] \in 1..Lease
Waits(w) == admission.waiting[w] \in 1..Lease

\* RuntimeAdmission::execute: whatever leases run out, are renewed late or are
\* released twice, no more workflows than the limit hold a slot.
WithinLimit == Cardinality(Active(admission)) <= maximum_active

\* The three maps and the rotation agree (repair_queue_invariants): a workflow
\* waits once, in the queue of its project, or holds a slot, and exactly the
\* projects with a queue are in the rotation, once each.  The only exception is
\* the head that a release build does not pop, until the next request.
QueuesAgree ==
    LET a == admission
        ghosts == {w \in WorkflowId : a.waiting[w] = None
                                      /\ \E p \in ProjectId : Contains(a.projects[p], w)}
    IN
    /\ \A w \in WorkflowId :
         /\ a.workflow_projects[w] = IF a.waiting[w] = None THEN None ELSE ProjectOf[w]
         /\ a.waiting[w] # None => a.active[w] = None /\ Contains(a.projects[ProjectOf[w]], w)
    /\ \A p \in ProjectId :
         /\ IsInjective(a.projects[p])
         /\ \A w \in ToSet(a.projects[p]) : ProjectOf[w] = p
         /\ a.projects[p] # <<>> <=> Contains(a.rotation, p)
    /\ IsInjective(a.rotation)
    /\ \A w \in ghosts : ~debug /\ ghosts = {w} /\ Head(a.projects[ProjectOf[w]]) = w

\* Leases that run out, late renewals, repeated releases, controls and restarts
\* leave the limit kept and the maps and queues in agreement, in both builds.
Inv == TypeOK /\ WithinLimit /\ QueuesAgree

\* Without the ghosts of a release build, the structure takes the turns of
\* FairTurns.
Queue(a) ==
    LET lines == [p \in ProjectId |->
                    Retained(a.projects[p], {w \in WorkflowId : a.waiting[w] # None})]
    IN [line |-> lines,
        turn |-> Retained(a.rotation, {p \in ProjectId : lines[p] # <<>>}),
        running |-> Active(a)]
Turns == INSTANCE FairTurns WITH
    slots <- maximum_active,
    queue <- Queue(admission)
ImplementsTurns == Turns!Spec

\* A workflow that keeps asking is not starved by others of its own or of other
\* projects: unless workflows drop out of the queue again and again without
\* being served, whoever waits gets a slot.
DropsOut(w) == /\ Waits(w) /\ ~Waits(w)'
               /\ admission'.active[w] = None
WaitingEnds ==
    \/ []<><<\E w \in WorkflowId : DropsOut(w)>>_vars
    \/ \A w \in Watched : Waits(w) ~> ~Waits(w)

\* A workflow that ended gets a slot again at most by a request that was let in
\* before, while it sampled the resources (lifecycle.rs: the check and execute).
EndedLetsGo ==
    [][\A w \in Controlled : state[w] = "ended" /\ w \notin asking /\ ~Holds(w)
         => w \notin asking' /\ ~Holds(w)']_vars
=============================================================================
