----------------------------- MODULE FairTurns -----------------------------
(***************************************************************************)
(* What admission promises about turns, without leases, clocks, resources  *)
(* or builds: workflows stand in the line of their project, projects take  *)
(* turns, only the first workflow of the project whose turn it is starts,  *)
(* and a project that was served goes to the end.  Admission implements it.*)
(***************************************************************************)
EXTENDS Naturals, FiniteSets, SequencesExt, Retain

CONSTANTS WorkflowId, ProjectId, ProjectOf

VARIABLES
    slots,  \* how many workflows may run
    queue   \* line: who waits, by project; turn: the order of the projects;
            \* running: who holds a slot

vars == <<slots, queue>>

InLine(q) == UNION {ToSet(q.line[p]) : p \in ProjectId}

Init ==
    /\ slots \in Nat \ {0}
    /\ queue = [line |-> [p \in ProjectId |-> <<>>], turn |-> <<>>, running |-> {}]

\* Workflows leave their line or their slot at any time.
Left(q, gone) ==
    LET rest == [p \in ProjectId |-> Retained(q.line[p], WorkflowId \ gone)]
    IN [line |-> rest,
        turn |-> Retained(q.turn, {p \in ProjectId : rest[p] # <<>>}),
        running |-> q.running \ gone]

Joined(q, w) ==
    LET p == ProjectOf[w]
    IN IF w \in InLine(q) THEN q
       ELSE [line |-> [q.line EXCEPT ![p] = Append(@, w)],
             turn |-> IF q.line[p] = <<>> THEN Append(q.turn, p) ELSE q.turn,
             running |-> q.running]

First(q, w) == Head(q.turn) = ProjectOf[w] /\ Head(q.line[ProjectOf[w]]) = w

Served(q, w) ==
    LET p == ProjectOf[w]
    IN [line |-> [q.line EXCEPT ![p] = Tail(@)],
        turn |-> IF Tail(q.line[p]) = <<>> THEN Tail(q.turn) ELSE Append(Tail(q.turn), p),
        running |-> q.running \union {w}]

Next ==
    /\ UNCHANGED slots
    /\ \E gone \in SUBSET WorkflowId :
         LET rest == Left(queue, gone) IN
         \/ queue' = rest
         \/ \E w \in WorkflowId \ rest.running :
              LET asked == Joined(rest, w) IN
              \/ queue' = asked
              \/ /\ First(asked, w)
                 /\ Cardinality(asked.running) < slots
                 /\ queue' = Served(asked, w)

Spec == Init /\ [][Next]_vars
=============================================================================
