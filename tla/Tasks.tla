-------------------------------- MODULE Tasks --------------------------------
(***************************************************************************)
(* The tasks of an accepted plan and the leases under which sessions work  *)
(* on them: task.rs and lease.rs of workflow-core, tasks.rs and leases.rs  *)
(* of workflow-store.  Each operation of the store is one transaction.     *)
(*                                                                         *)
(* The store offers these operations; the daemon of this commit only reads *)
(* tasks.  The caller assumed here is the one the API is made for: it says *)
(* that dependencies are satisfied when TaskDag::ready_tasks lists a task, *)
(* works on a task only while it believes to hold its lease, repeats a     *)
(* command with its key, loses replies and crashes.  Times are what        *)
(* remains of a lease; the clock is taken not to go back.                  *)
(***************************************************************************)
EXTENDS TaskGraph, Integers

CONSTANTS
    None,
    Plans,     \* what an architect may submit
    Executed,  \* the plans whose tasks are followed: a bound
    Leased,    \* the tasks whose leases are followed: a bound
    Stopped,   \* the tasks that are blocked and cancelled: a bound
    Session,
    LeaseId,
    Key,       \* idempotency keys of Start; the others are not repeated
    Duration   \* of a lease

ASSUME TasksAssumption ==
    /\ Executed \subseteq Plans
    /\ \A p \in Plans :
         Ids(p) \subseteq TaskId /\ DOMAIN p.tasks = 1..Len(p.tasks) \* a list
    /\ Leased \subseteq TaskId /\ Stopped \subseteq TaskId
    /\ IsFiniteSet(Key)
    /\ Duration \in Nat \ {0}

VARIABLES
    plan,      \* the submitted plan
    task,      \* the rows of tasks, Task::new() where there is none
    recorded,  \* command_deduplication: the task each key started
    hurried,   \* history: tasks blocked before they were ready, then unblocked
    lease,     \* the rows of leases
    believed   \* the leases sessions were given, as they last heard

vars == <<plan, task, recorded, hurried, lease, believed>>

-----------------------------------------------------------------------------
TaskState == {"Pending", "Ready", "Leased", "Running", "Verifying", "Completed", "Failed",
              "Blocked", "Cancelled"}
Terminal == {"Completed", "Failed", "Cancelled"}
Safety == {"Idempotent", "NonIdempotent"}

Task == [state : TaskState, attempts : 0..Cardinality(Key)]
Held == [id : LeaseId, left : -1..Duration]
Lease == [id : LeaseId, left : -1..Duration, safety : Safety,
          status : {"active", "uncertain"}]

ASSUME NoneAssumption == None \notin TaskId /\ None \notin Held /\ None \notin Lease

\* apply: the states a command is legal in, and the state it leads to.
Transition ==
    [dependencies_satisfied |-> [from |-> {"Pending"}, to |-> "Ready"],
     lease     |-> [from |-> {"Ready"}, to |-> "Leased"],
     start     |-> [from |-> {"Leased"}, to |-> "Running"],
     submit    |-> [from |-> {"Running"}, to |-> "Verifying"],
     passed    |-> [from |-> {"Verifying"}, to |-> "Completed"],
     retryable |-> [from |-> {"Verifying"}, to |-> "Ready"],
     failed    |-> [from |-> {"Verifying"}, to |-> "Failed"],
     block     |-> [from |-> TaskState \ (Terminal \union {"Blocked"}), to |-> "Blocked"],
     unblock   |-> [from |-> {"Blocked"}, to |-> "Ready"],
     cancel    |-> [from |-> TaskState \ Terminal, to |-> "Cancelled"]]

Apply(t, command) ==
    /\ task[t].state \in Transition[command].from
    /\ task' = [task EXCEPT
                  ![t].state = Transition[command].to,
                  ![t].attempts = IF command = "start" THEN @ + 1 ELSE @]

Completed == {t \in Ids(plan) : task[t].state = "Completed"}

\* A session may use a lease until the time it expires, that time included.
Believes(s, t) == believed[s][t] # None /\ believed[s][t].left >= 0
MayWork(t) == t \in Leased => \E s \in Session : Believes(s, t)

-----------------------------------------------------------------------------
Schedule(t) ==
    /\ t \in ReadyTasks(plan, Completed)
    /\ Apply(t, "dependencies_satisfied")
    /\ UNCHANGED <<plan, recorded, hurried, lease, believed>>

Work(t, command) ==
    /\ MayWork(t)
    /\ Apply(t, command)
    /\ UNCHANGED <<plan, recorded, hurried, lease, believed>>

\* A key that was recorded answers what it answered before, or is refused
\* for another task: only a new one does something.
Start(t, key) ==
    /\ recorded[key] = None
    /\ MayWork(t)
    /\ Apply(t, "start")
    /\ recorded' = [recorded EXCEPT ![key] = t]
    /\ UNCHANGED <<plan, hurried, lease, believed>>

Stop(t, command) ==
    /\ Apply(t, command)
    /\ hurried' = IF command = "block" /\ task[t].state = "Pending"
                  THEN hurried \union {t} ELSE hurried
    /\ UNCHANGED <<plan, recorded, lease, believed>>

-----------------------------------------------------------------------------
FaultyReconcile(row) ==
    IF row.left > 0 THEN "Active"
    ELSE IF row.safety = "Idempotent" THEN "Replayable" ELSE "ManualReviewRequired"
Reconcile(row) ==
    IF row.left >= 0 THEN "Active"
    ELSE IF row.safety = "Idempotent" THEN "Replayable" ELSE "ManualReviewRequired"

\* The reply to a session, or none when it is lost.
Reply(s, t, row) ==
    \/ believed' = [believed EXCEPT ![s][t] = [id |-> row.id, left |-> row.left]]
    \/ UNCHANGED believed

\* acquire_lease inserts a row, or replaces one that may be replayed.
Grant(s, t, row, id, safety) ==
    /\ row # None => row.status = "active" /\ Reconcile(row) = "Replayable"
    /\ lease' = [lease EXCEPT ![t] = [id |-> id, left |-> Duration, safety |-> safety,
                                      status |-> "active"]]
    /\ Reply(s, t, lease'[t])

\* An identifier is new.
Fresh(id) ==
    /\ \A t \in TaskId : lease[t] # None => lease[t].id # id
    /\ \A s \in Session, t \in TaskId : believed[s][t] # None => believed[s][t].id # id

AcquireLease(s, t) ==
    /\ \/ \E id \in {i \in LeaseId : Fresh(i)}, safety \in Safety :
            Grant(s, t, lease[t], id, safety)
       \/ /\ lease[t] # None
          /\ \/ lease[t].status = "uncertain"
             \/ Reconcile(lease[t]) = "ManualReviewRequired"
          /\ lease' = [lease EXCEPT ![t].status = "uncertain"]
          /\ UNCHANGED believed
    /\ UNCHANGED <<plan, task, recorded, hurried>>

FaultyHeartbeatLease(s, t) ==
    /\ believed[s][t] # None /\ lease[t] # None
    /\ lease[t].id = believed[s][t].id /\ lease[t].status = "active"
    /\ lease' = [lease EXCEPT ![t].left = Duration]
    /\ Reply(s, t, lease'[t])
    /\ UNCHANGED <<plan, task, recorded, hurried>>
HeartbeatLease(s, t) ==
    /\ believed[s][t] # None /\ lease[t] # None
    /\ lease[t].id = believed[s][t].id /\ lease[t].status = "active"
    /\ lease[t].left >= 0
    /\ lease' = [lease EXCEPT ![t].left = Duration]
    /\ Reply(s, t, lease'[t])
    /\ UNCHANGED <<plan, task, recorded, hurried>>

\* A session releases the lease it was given, whoever holds the task now.
ReleaseLease(s, t) ==
    /\ believed[s][t] # None
    /\ lease' = IF lease[t] # None /\ lease[t].id = believed[s][t].id
                THEN [lease EXCEPT ![t] = None] ELSE lease
    /\ believed' = [believed EXCEPT ![s][t] = None]
    /\ UNCHANGED <<plan, task, recorded, hurried>>

\* Somebody reviews a lease that was reported uncertain, and releases it.
Review(t) ==
    /\ lease[t] # None /\ lease[t].status = "uncertain"
    /\ lease' = [lease EXCEPT ![t] = None]
    /\ UNCHANGED <<plan, task, recorded, hurried, believed>>

Crash(s) ==
    /\ believed' = [believed EXCEPT ![s] = [t \in TaskId |-> None]]
    /\ UNCHANGED <<plan, task, recorded, hurried, lease>>

Elapsed(held) == IF held = None \/ held.left = -1 THEN held ELSE [held EXCEPT !.left = @ - 1]
Tick ==
    /\ lease' = [t \in TaskId |-> Elapsed(lease[t])]
    /\ believed' = [s \in Session |-> [t \in TaskId |-> Elapsed(believed[s][t])]]
    /\ UNCHANGED <<plan, task, recorded, hurried>>

Init ==
    /\ plan \in Plans
    /\ task = [t \in TaskId |-> [state |-> "Pending", attempts |-> 0]]
    /\ recorded = [k \in Key |-> None]
    /\ hurried = {}
    /\ lease = [t \in TaskId |-> None]
    /\ believed = [s \in Session |-> [t \in TaskId |-> None]]

Next ==
    /\ plan \in Executed /\ Accepted(plan)
    /\ \/ \E t \in Ids(plan) :
            \/ Schedule(t)
            \/ \E command \in {"lease", "submit", "passed", "retryable", "failed"} :
                 Work(t, command)
            \/ \E key \in Key : Start(t, key)
       \/ \E t \in Ids(plan) \cap Stopped, command \in {"block", "unblock", "cancel"} :
            Stop(t, command)
       \/ \E s \in Session, t \in Leased :
            AcquireLease(s, t) \/ HeartbeatLease(s, t) \/ ReleaseLease(s, t)
       \/ \E t \in Leased : Review(t)
       \/ \E s \in Session : Crash(s)
       \/ Tick

Spec == Init /\ [][Next]_vars

-----------------------------------------------------------------------------
TypeOK ==
    /\ plan \in Plans
    /\ task \in [TaskId -> Task]
    /\ recorded \in [Key -> TaskId \union {None}]
    /\ hurried \subseteq TaskId
    /\ lease \in [TaskId -> Lease \union {None}]
    /\ believed \in [Session -> [TaskId -> Held \union {None}]]

\* The transitive closure of the dependencies: t is in every set that holds
\* what u depends on and, with each of its tasks, what that depends on.
Before(p, t, u) ==
    \A S \in SUBSET Ids(p) :
      Dependencies(p, u) \subseteq S /\ (\A v \in S : Dependencies(p, v) \subseteq S) => t \in S

\* ArchitecturePlan::validate and TaskDag: among well-formed plans, exactly
\* those are accepted whose dependencies have no cycle and order every two
\* tasks with overlapping scopes, in terms of the transitive closure; and the
\* order computed has every task once, after all it depends on.
PlansAreSound ==
    WellFormed(plan) /\ Covered(plan) =>
      LET ids == Ids(plan)
          overlap(t, u) == \E a \in Scopes(plan, t), b \in Scopes(plan, u) : Overlaps(a, b)
          within(t) == \E a, b \in DOMAIN Node(plan, t).write_scopes :
                         a # b /\ Overlaps(Node(plan, t).write_scopes[a],
                                           Node(plan, t).write_scopes[b])
          order == Sort(plan)
      IN
      /\ Accepted(plan) <=>
           /\ \A t \in ids : ~Before(plan, t, t) /\ ~within(t)
           /\ \A t, u \in ids : t # u /\ overlap(t, u) =>
                Before(plan, t, u) \/ Before(plan, u, t)
      /\ Accepted(plan) =>
           /\ ToSet(order) = ids /\ IsInjective(order)
           /\ \A i \in DOMAIN order : \A t \in Dependencies(plan, order[i]) :
                t \in ToSet(SubSeq(order, 1, i - 1))

\* TaskDag::ready_tasks and the scope rule: tasks that are worked on at the
\* same time never write the same files, unless one of them, or a task one of
\* them comes after, was blocked before it was ready: unblock makes any blocked
\* task ready (task.rs).
UnderWay(t) == task[t].state \in {"Leased", "Running", "Verifying"}
InOrder(t) == t \notin hurried /\ \A v \in hurried : ~DependsOn(plan, t, v)
WorkIsDisjoint ==
    \A t, u \in Ids(plan) :
      t # u /\ UnderWay(t) /\ UnderWay(u) /\ InOrder(t) /\ InOrder(u)
        => \A a \in Scopes(plan, t), b \in Scopes(plan, u) : ~Overlaps(a, b)

\* apply_task_command: a Start that is repeated, however late and in whatever
\* state the task is by then, counts no second attempt.
AttemptsCountStarts ==
    \A t \in TaskId : task[t].attempts = Cardinality({k \in Key : recorded[k] = t})

\* acquire_lease, heartbeat_lease and reconcile: two sessions never both
\* believe to hold the lease of a task, whatever replies were lost.
OneBelievedHolder ==
    \A t \in TaskId : \A r, s \in Session : Believes(r, t) /\ Believes(s, t) => r = s

\* acquire_lease, heartbeat_lease and release_lease: a lease that expired is
\* never valid again, so whoever saw it expire may rely on that; and work that
\* may not be repeated is then given to no other session until it is released.
ExpiryIsFinal ==
    [][\A t \in TaskId : lease[t] # None /\ lease'[t] # None =>
         IF lease[t].id = lease'[t].id
         THEN lease[t].left < 0 => lease'[t].left < 0
         ELSE lease[t].safety = "Idempotent" /\ lease[t].status = "active"]_vars

\* The tasks of a plan, driven by sessions that repeat requests and crash:
\* well typed, counted once for each start, and never two at work on one file.
Inv == TypeOK /\ AttemptsCountStarts /\ WorkIsDisjoint
=============================================================================
