------------------------------ MODULE TaskGraph ------------------------------
(***************************************************************************)
(* What makes a plan of an architect acceptable, and which of its tasks    *)
(* may run: ArchitecturePlan::validate of workflow-core architecture.rs,   *)
(* TaskDag of dag.rs and the path rules of path.rs.  A path is the         *)
(* sequence of its segments; texts are left out.                           *)
(***************************************************************************)
EXTENDS Naturals, FiniteSets, SequencesExt

CONSTANTS
    TaskId,         \* numbers, in the order of the identifiers
    UnsafeSegment,  \* the empty segment, "." and ".."
    MaxItems        \* MAX_ITEMS of a list of a plan

ASSUME GraphAssumption ==
    /\ TaskId \subseteq Nat /\ IsFiniteSet(TaskId)
    /\ MaxItems \in Nat \ {0}

-----------------------------------------------------------------------------
IsSafeRelative(path) == path # <<>> /\ ToSet(path) \cap UnsafeSegment = {}

Overlaps(path, other) == IsPrefix(path, other) \/ IsPrefix(other, path)

\* A plan has requirements (their identifiers), tasks and a number of
\* integration checks.
Ids(plan) == {plan.tasks[i].id : i \in DOMAIN plan.tasks}
Node(plan, t) == plan.tasks[CHOOSE i \in DOMAIN plan.tasks : plan.tasks[i].id = t]
Dependencies(plan, t) == ToSet(Node(plan, t).dependencies)
Scopes(plan, t) == ToSet(Node(plan, t).write_scopes)

\* The tasks met after so many steps from a task.
Visited(plan, task) ==
    LET visited[n \in 0..Cardinality(Ids(plan))] ==
            IF n = 0 THEN Dependencies(plan, task)
            ELSE visited[n - 1] \union UNION {Dependencies(plan, t) : t \in visited[n - 1]}
    IN visited

FaultyDependsOn(plan, task, target) == target \in Dependencies(plan, task)
\* No path is longer than the number of tasks.
DependsOn(plan, task, target) == target \in Visited(plan, task)[Cardinality(Ids(plan))]

DependencyOrdered(plan, t, u) == DependsOn(plan, t, u) \/ DependsOn(plan, u, t)

\* Distinct scopes of one task must not overlap either, unless it depends on
\* itself, which sort refuses.
ScopesOrdered(plan) ==
    \A i, j \in DOMAIN plan.tasks :
      LET t == plan.tasks[i] u == plan.tasks[j]
      IN \A a \in DOMAIN t.write_scopes, b \in DOMAIN u.write_scopes :
           <<i, a>> # <<j, b>> /\ Overlaps(t.write_scopes[a], u.write_scopes[b])
             => DependencyOrdered(plan, t.id, u.id)

\* sort: of the tasks whose dependencies are in the order already, the least
\* is next.
Placed(plan, s) ==
    LET next == CHOOSE t \in s.ready : \A u \in s.ready : t <= u
        dependents == {u \in Ids(plan) : next \in Dependencies(plan, u)}
    IN [order |-> Append(s.order, next),
        indegrees |-> [u \in Ids(plan) |-> IF u \in dependents THEN s.indegrees[u] - 1
                                           ELSE s.indegrees[u]],
        ready |-> (s.ready \ {next}) \union {u \in dependents : s.indegrees[u] = 1}]

Sorting(plan) ==
    LET ids == Ids(plan)
        step[n \in 0..Cardinality(ids)] ==
            IF n = 0
            THEN [order |-> <<>>,
                  indegrees |-> [t \in ids |-> Cardinality(Dependencies(plan, t))],
                  ready |-> {t \in ids : Dependencies(plan, t) = {}}]
            ELSE IF step[n - 1].ready = {} THEN step[n - 1]
            ELSE Placed(plan, step[n - 1])
    IN step

Sort(plan) == Sorting(plan)[Cardinality(Ids(plan))].order

Acyclic(plan) == Len(Sort(plan)) = Cardinality(Ids(plan))

\* What is required of requirements and tasks apart from the graph.
WellFormed(plan) ==
    LET sizes == {Len(plan.requirements), Len(plan.tasks), plan.integration_checks}
    IN
    /\ sizes \subseteq 1..MaxItems
    /\ IsInjective(plan.requirements)
    /\ \A i \in DOMAIN plan.tasks : LET task == plan.tasks[i] IN
         /\ task.requirement_ids # <<>> /\ IsInjective(task.requirement_ids)
         /\ ToSet(task.requirement_ids) \subseteq ToSet(plan.requirements)
         /\ task.write_scopes # <<>>
         /\ \A s \in ToSet(task.write_scopes) : IsSafeRelative(s)
         /\ IsInjective(task.dependencies)
         /\ ToSet(task.dependencies) \subseteq Ids(plan)
    /\ Cardinality(Ids(plan)) = Len(plan.tasks)

Covered(plan) ==
    ToSet(plan.requirements)
      \subseteq UNION {ToSet(plan.tasks[i].requirement_ids) : i \in DOMAIN plan.tasks}

Accepted(plan) ==
    /\ WellFormed(plan)
    /\ ScopesOrdered(plan)
    /\ Acyclic(plan)
    /\ Covered(plan)

FaultyReadyTasks(plan, completed) ==
    {t \in Ids(plan) \ completed : Dependencies(plan, t) \cap completed # {}
                                   \/ Dependencies(plan, t) = {}}
ReadyTasks(plan, completed) ==
    {t \in Ids(plan) \ completed : Dependencies(plan, t) \subseteq completed}
=============================================================================
