----------------------------- MODULE Verification -----------------------------
(***************************************************************************)
(* Freezing and verifying one candidate: the plan of gates                 *)
(* (workflowd verification/plan.rs), freeze and verify_frozen of           *)
(* candidate.rs, the gates one by one (verification/runner.rs), the        *)
(* evidence stored (workflow-store verification.rs) and what becomes of    *)
(* the workflow (verify_candidate of lifecycle.rs).  Lifecycle abstracts   *)
(* all of it to the results of a run.                                      *)
(*                                                                         *)
(* Requests run at the same time and share the worktree with the agent and *)
(* with the commands of the gates; a process may stay after its gate.  The *)
(* worktree is its head, a revision, and whether it differs from it: what  *)
(* freeze reads is the revision it was read at.  The agent only adds       *)
(* revisions.  The story ends when the candidate is verified or rejected.  *)
(***************************************************************************)
EXTENDS Integers, FiniteSets, SequencesExt, Retain

CONSTANTS
    None,
    Slot,            \* requests being served
    Projects,        \* what discovery may find
    Executed,        \* the projects whose candidate is followed: a bound
    ScriptCommands,  \* of the package manager, in the order they are looked up
    CargoCommands,
    Attestations,    \* what a request may bring: receipts of the browser, None
    Secrets,         \* revisions whose changes hold one
    Revisions        \* commits of the agent: a bound

\* A command is its text, the invocation its words amount to, the keywords its
\* text contains, and whether validate_command allows it.
Command == [text : STRING, words : STRING, has : SUBSET STRING, safe : BOOLEAN]
Project ==
    [commands : Seq(Command), scripts : SUBSET STRING, cargo : BOOLEAN, scopes : SUBSET STRING]
Receipt == [operations : Seq(STRING), matches : BOOLEAN]

ASSUME ConstantsAssumption ==
    /\ Revisions \in Nat \ {0}
    /\ Executed \subseteq Projects
    /\ \A p \in Projects : p \in Project
    /\ {ScriptCommands, CargoCommands} \subseteq Seq(Command)
    /\ \A a \in Attestations : a \in Receipt \/ a = None

VARIABLES
    project,    \* commands of the architecture, scripts, scopes
    plan,       \* workflow_verification_plans: the gates discovered in it
    head,       \* revision of the worktree
    dirty,      \* whether the worktree differs from it
    candidate,  \* workflow_candidates: the revisions its files and its state were read at
    workflow,   \* its state, and whether it is blocked in it
    keys,       \* command_deduplication, of the outcomes of this candidate
    evidence,   \* the latest attempt of each gate
    request,    \* what each slot is doing
    spoiled     \* history: the slots whose own gates changed the worktree

vars == <<project, plan, head, dirty, candidate, workflow, keys, evidence, request, spoiled>>

-----------------------------------------------------------------------------
(* Discovery.                                                              *)

Classes == <<"accessibility", "browser", "database", "package", "security", "lint", "build",
             "test">>

\* classify: the first class whose keywords the text contains.
Classify(command) ==
    LET found == {i \in DOMAIN Classes : Classes[i] \in command.has}
    IN IF found = {} THEN "command" ELSE Classes[Min(found)]

Kind(class) == IF class = "accessibility" THEN "browser" ELSE class

CommandGate(command) ==
    [executor |-> "command", class |-> Classify(command), kind |-> Kind(Classify(command)),
     name |-> command.text, has |-> command.has]
Gate(executor, class, kind, name) ==
    [executor |-> executor, class |-> class, kind |-> kind, name |-> name, has |-> {}]

Commands(p) ==
    p.commands
    \o Retained(ScriptCommands, {c \in ToSet(ScriptCommands) : c.text \in p.scripts})
    \o IF p.cargo THEN CargoCommands ELSE <<>>

\* add_command: of several with one invocation the first counts.
Distinct(commands) ==
    LET first == {i \in DOMAIN commands :
                    \A j \in 1..(i - 1) : commands[j].words # commands[i].words}
        order == Retained([i \in DOMAIN commands |-> i], first)
    IN [i \in DOMAIN order |-> commands[order[i]]]

CommandGates(p) ==
    LET commands == Distinct(Commands(p)) IN [i \in DOMAIN commands |-> CommandGate(commands[i])]

FixedFirst(p) ==
    CommandGates(p)
    \o <<Gate("secret_scan", "security", "security", "changed-content-secret-scan"),
         Gate("integrity", "candidate", "inspection", "immutable-bytes")>>

\* Checks that the scopes call for and no command provides.
FaultyMissing(p, gates) ==
    LET has(kind) == \E i \in DOMAIN gates : gates[i].kind = kind
        need(needed, class, kind, name) ==
            IF needed THEN <<Gate("unavailable", class, kind, name)>> ELSE <<>>
    IN need("database" \in p.scopes /\ ~has("database"), "database", "database", "real")
       \o need("ui" \in p.scopes /\ ~has("browser"), "browser", "browser", "flow")
Missing(p, gates) ==
    LET classes == {gates[i].class : i \in DOMAIN gates}
        kinds == {gates[i].kind : i \in DOMAIN gates}
        secured == {i \in DOMAIN gates :
                      gates[i].kind = "security" /\ gates[i].executor # "secret_scan"}
        need(needed, class, kind, name) ==
            IF needed THEN <<Gate("unavailable", class, kind, name)>> ELSE <<>>
    IN need("database" \in p.scopes /\ "database" \notin kinds,
            "database", "database", "real-integration")
       \o need("ui" \in p.scopes /\ "browser" \notin kinds,
               "browser", "browser", "affected-user-flow")
       \o need("ui" \in p.scopes /\ "accessibility" \notin classes,
               "accessibility", "browser", "affected-user-flow")
       \o need("dependency" \in p.scopes /\ secured = {},
               "security", "security", "dependency-vulnerability")
       \o need("dependency" \in p.scopes /\ \A i \in secured : "license" \notin gates[i].has,
               "security", "security", "dependency-license")
       \o need(p.scopes \cap {"dependency", "packaging"} # {} /\ "package" \notin kinds,
               "package", "package", "production-artifact")

\* discover_for; every gate is mandatory.
Discover(p) == FixedFirst(p) \o Missing(p, FixedFirst(p))

\* VerificationPlan::validate, and the commands add_command refuses.
Valid(p, gates) ==
    /\ \A command \in ToSet(Commands(p)) : command.safe
    /\ Len(gates) <= 256
    /\ IsInjective([i \in DOMAIN gates |-> <<gates[i].class, gates[i].name>>])

-----------------------------------------------------------------------------
(* The managed browser: a receipt for this candidate stands in for a check *)
(* that is not available, if its operations contain those the check needs. *)

Required(gate) ==
    CASE gate.executor = "unavailable" /\ gate.class = "browser" ->
           <<"open", "check", "screenshot", "logs", "close">>
      [] gate.executor = "unavailable" /\ gate.class = "accessibility" ->
           <<"open", "snapshot", "close">>
      [] OTHER -> None

\* How much of what is required the operations met, in this order.
Positions(required, operations) ==
    LET met[n \in 0..Len(operations)] ==
            IF n = 0 THEN 0
            ELSE IF met[n - 1] < Len(required) /\ operations[n] = required[met[n - 1] + 1]
            THEN met[n - 1] + 1 ELSE met[n - 1]
    IN met
Position(required, operations) == Positions(required, operations)[Len(operations)]

Attests(a, gate) ==
    /\ Required(gate) # None
    /\ a # None /\ a.matches /\ a.operations # <<>>
    /\ Last(a.operations) = "close"
    /\ Cardinality({i \in DOMAIN a.operations : a.operations[i] = "close"}) = 1
    /\ Position(Required(gate), a.operations) = Len(Required(gate))

-----------------------------------------------------------------------------
Idle == [step |-> "idle", read |-> <<>>, attestation |-> None, results |-> <<>>]

Step(s, step) == request' = [request EXCEPT ![s].step = step, ![s].read = <<>>]
Answer(s) == request' = [request EXCEPT ![s] = Idle]
Worktree == <<head, dirty, spoiled>>
Stored == <<project, plan, candidate, workflow, keys, evidence>>

\* freeze reads the files, with their diff, and then the state of the
\* worktree, between two checks that nothing is uncommitted.
Reading == {"freeze", "check", "integrity"}
ReadNext(s) ==
    /\ request[s].step \in Reading /\ Len(request[s].read) < 2
    /\ IF request[s].read = <<>> /\ dirty THEN Answer(s)
       ELSE request' = [request EXCEPT ![s].read = Append(@, head)]
    /\ UNCHANGED <<Stored, Worktree>>

Record(s, result) ==
    request' = [request EXCEPT ![s].step = "gates", ![s].read = <<>>,
                               ![s].results = Append(@, result)]

FaultyReadDone(s) ==
    /\ request[s].step \in {"check", "integrity"} /\ Len(request[s].read) = 2
    /\ IF dirty \/ (request[s].step = "check" /\ request[s].read[2] # candidate[2]) THEN Answer(s)
       ELSE IF request[s].step = "check" THEN Step(s, "gates")
       ELSE Record(s, IF request[s].read[2] = candidate[2] THEN "Passed" ELSE "Failed")
    /\ UNCHANGED <<Stored, Worktree>>
\* verify_frozen compares what it read; uncommitted changes are an error of
\* the whole run.
ReadDone(s) ==
    /\ request[s].step \in {"check", "integrity"} /\ Len(request[s].read) = 2
    /\ IF dirty \/ (request[s].step = "check" /\ request[s].read # candidate) THEN Answer(s)
       ELSE IF request[s].step = "check" THEN Step(s, "gates")
       ELSE Record(s, IF request[s].read = candidate THEN "Passed" ELSE "Failed")
    /\ UNCHANGED <<Stored, Worktree>>

-----------------------------------------------------------------------------
(* freeze_candidate                                                        *)

FreezeBegin(s) ==
    /\ request[s] = Idle
    /\ workflow = [at |-> "Execution", blocked |-> FALSE]
    /\ Step(s, "freeze")
    /\ UNCHANGED <<Stored, Worktree>>

\* A candidate that was stored meanwhile is kept.
SaveCandidate(s) ==
    /\ request[s].step = "freeze" /\ Len(request[s].read) = 2
    /\ Answer(s)
    /\ IF ~dirty /\ workflow = [at |-> "Execution", blocked |-> FALSE]
       THEN /\ candidate' = request[s].read
            /\ workflow' = [workflow EXCEPT !.at = "Verification"]
       ELSE UNCHANGED <<candidate, workflow>>
    /\ UNCHANGED <<project, plan, keys, evidence, Worktree>>

-----------------------------------------------------------------------------
(* run_with_attestations                                                   *)

VerifyBegin(s) ==
    /\ request[s] = Idle
    /\ workflow = [at |-> "Verification", blocked |-> FALSE]
    /\ \E a \in Attestations :
         request' = [request EXCEPT ![s].step = "check", ![s].attestation = a]
    /\ spoiled' = spoiled \ {s}
    /\ UNCHANGED <<Stored, head, dirty>>

\* secrets::scan reads the diff of the candidate and the files as they are now.
Scans ==
    CASE candidate[1] \in Secrets -> {"Failed"}
      [] candidate[1] \notin Secrets /\ dirty -> {"Passed", "Failed"}
      [] OTHER -> {IF head \in Secrets THEN "Failed" ELSE "Passed"}

RunGate(s) ==
    /\ request[s].step = "gates" /\ Len(request[s].results) < Len(plan)
    /\ LET gate == plan[Len(request[s].results) + 1] IN
       \/ gate.executor = "integrity" /\ Step(s, "integrity")
       \/ gate.executor = "command" /\ Step(s, "running")
       \/ /\ gate.executor = "secret_scan"
          /\ \E result \in Scans : Record(s, result)
       \/ /\ gate.executor = "unavailable"
          /\ Record(s, IF Attests(request[s].attestation, gate) THEN "Passed" ELSE "Skipped")
    /\ UNCHANGED <<Stored, Worktree>>

\* A command that cannot be started ends the run with an error.
SpawnError(s) ==
    /\ request[s].step = "running"
    /\ Answer(s)
    /\ UNCHANGED <<Stored, Worktree>>

\* Project code may change files, or even commit them.
Spoil(s) ==
    /\ request[s].step = "running"
    /\ \/ dirty' = TRUE /\ UNCHANGED head
       \/ head < Revisions /\ head' = head + 1 /\ UNCHANGED dirty
    /\ spoiled' = spoiled \union {s}
    /\ UNCHANGED <<Stored, request>>

\* The command exits and its pipes close.
Exit(s) ==
    /\ request[s].step = "running"
    /\ \E result \in {"Passed", "Failed"} : Record(s, result)
    /\ UNCHANGED <<Stored, Worktree>>

FaultyTimeout(s) ==
    /\ request[s].step = "running" /\ s \notin spoiled
    /\ Record(s, "Failed")
    /\ UNCHANGED <<Stored, Worktree>>
\* It runs too long, or leaves a process that keeps the pipes open.
Timeout(s) ==
    /\ request[s].step = "running"
    /\ Record(s, "Failed")
    /\ UNCHANGED <<Stored, Worktree>>

-----------------------------------------------------------------------------
(* The rest of verify_candidate.  It holds the mutex of the store from the *)
(* first evidence to the command, and nobody sees what is between: what an *)
(* error or a crash leaves is a prefix of the evidence.                    *)

Ran(s) == request[s].step = "gates" /\ Len(request[s].results) = Len(plan)

FaultySaved(s, n) ==
    [i \in DOMAIN plan |->
       IF i <= n /\ evidence[i] = None THEN request[s].results[i] ELSE evidence[i]]
Saved(s, n) ==
    [i \in DOMAIN plan |-> IF i <= n THEN request[s].results[i] ELSE evidence[i]]

SaveError(s) ==
    /\ Ran(s)
    /\ \E n \in 0..Len(plan) : evidence' = Saved(s, n)
    /\ Answer(s)
    /\ UNCHANGED <<project, plan, candidate, workflow, keys, Worktree>>

\* A key that was used answers what it answered, whatever has happened since;
\* a command that is not legal is an error.
Once(key, legal, next) ==
    IF key \notin keys /\ legal
    THEN keys' = keys \union {key} /\ workflow' = next
    ELSE UNCHANGED <<keys, workflow>>

ApplyResults(s) ==
    /\ Ran(s)
    /\ evidence' = Saved(s, Len(plan))
    /\ LET results == ToSet(request[s].results)
           unblocked == ~workflow.blocked
           verifying == unblocked /\ workflow.at = "Verification"
       IN
       \/ /\ results = {"Passed"}
          /\ Once("passed", verifying, [workflow EXCEPT !.at = "Review"])
       \/ /\ "Skipped" \in results
          /\ Once("blocked", unblocked, [workflow EXCEPT !.blocked = TRUE])
       \/ /\ results # {"Passed"} /\ "Skipped" \notin results
          /\ Once("rejected", verifying, [workflow EXCEPT !.at = "Repair"])
    /\ Answer(s)
    /\ UNCHANGED <<project, plan, candidate, Worktree>>

-----------------------------------------------------------------------------
\* The user retries a blocked workflow.
Retry ==
    /\ workflow.blocked
    /\ workflow' = [workflow EXCEPT !.blocked = FALSE]
    /\ UNCHANGED <<project, plan, candidate, keys, evidence, request, Worktree>>

\* The agent edits files while the workflow is executed, and it, or a process
\* that stayed, commits them.
Edit ==
    /\ workflow.at = "Execution"
    /\ dirty' = TRUE
    /\ UNCHANGED <<Stored, head, spoiled, request>>
Commit ==
    /\ head < Revisions
    /\ head' = head + 1 /\ dirty' = FALSE
    /\ UNCHANGED <<Stored, spoiled, request>>

\* The daemon stops, and the requests are gone.
Crash ==
    /\ request' = [s \in Slot |-> Idle]
    /\ UNCHANGED <<Stored, Worktree>>

Init ==
    /\ project \in Projects
    /\ plan = Discover(project)
    /\ head = 1 /\ dirty = FALSE
    /\ candidate = None
    /\ workflow = [at |-> "Execution", blocked |-> FALSE]
    /\ keys = {}
    /\ evidence = [i \in DOMAIN plan |-> None]
    /\ request = [s \in Slot |-> Idle]
    /\ spoiled = {}

Serve(s) ==
    \/ ReadNext(s) \/ ReadDone(s) \/ SaveCandidate(s)
    \/ RunGate(s) \/ Timeout(s)
    \/ ApplyResults(s)

Next ==
    /\ project \in Executed
    /\ \/ \E s \in Slot :
            \/ FreezeBegin(s) \/ VerifyBegin(s) \/ Serve(s)
            \/ SpawnError(s) \/ Spoil(s) \/ Exit(s) \/ SaveError(s)
       \/ Retry
       \/ Edit \/ Commit
       \/ Crash

Spec == Init /\ [][Next]_vars

\* A request is served to its end.
FairSpec == Spec /\ \A s \in Slot : WF_vars(Serve(s))

-----------------------------------------------------------------------------
Status == {"Passed", "Failed", "Skipped"}
TypeOK ==
    /\ head \in 1..Revisions /\ dirty \in BOOLEAN
    /\ candidate \in [1..2 -> 1..Revisions] \union {None}
    /\ workflow \in [at : {"Execution", "Verification", "Review", "Repair"}, blocked : BOOLEAN]
    /\ keys \subseteq {"passed", "blocked", "rejected"}
    /\ evidence \in [DOMAIN plan -> Status \union {None}]
    /\ request \in [Slot -> [step : Reading \union {"idle", "gates", "running"},
                             read : Seq(1..Revisions),
                             attestation : Attestations \union {None},
                             results : Seq(Status)]]
    /\ spoiled \subseteq Slot

\* discover_for: every command of the project is run once, whatever the texts;
\* every kind of file in the scopes has a gate that can fail; and the plan is
\* refused only for a command that is not safe.
DiscoveryCovers ==
    LET ran == {i \in DOMAIN plan : plan[i].executor = "command"}
        commands == ToSet(Commands(project))
        provided(kind) == \E i \in DOMAIN plan :
                            plan[i].kind = kind /\ plan[i].executor # "secret_scan"
    IN candidate = None =>
    /\ {plan[i].name : i \in ran} \subseteq {command.text : command \in commands}
    /\ Cardinality(ran) = Cardinality({command.words : command \in commands})
    /\ "database" \in project.scopes => provided("database")
    /\ "ui" \in project.scopes =>
         provided("browser") /\ \E i \in DOMAIN plan : plan[i].class = "accessibility"
    /\ "dependency" \in project.scopes => provided("security") /\ provided("package")
    /\ "packaging" \in project.scopes => provided("package")
    /\ (\A command \in commands : command.safe) => Valid(project, plan)

\* verify_candidate: a workflow leaves verification only when the evidence a
\* reader finds, the latest attempt of every gate, has passed, however many
\* runs overlapped, failed half-way through saving, or were repeated; and not
\* by a run whose own commands changed the worktree they judged.
Verified == workflow.at # "Review" /\ workflow'.at = "Review"
PassedOnEvidence ==
    [][Verified => /\ \A i \in DOMAIN evidence : evidence'[i] = "Passed"
                   /\ \A s \in spoiled : request'[s] = request[s]]_vars

\* freeze and verify_frozen: a candidate frozen while the head moved, so that
\* its files and its state are not of one revision, is never verified.
VerifiedIsOneRevision ==
    workflow.at = "Review" => \E r \in 1..Revisions : candidate = <<r, r>>

\* managed_browser_gate: a check that the project does not provide passes only
\* for the browser, and only if the receipt holds what is required in order.
UnavailableNeedsReceipt ==
    \A s \in Slot : \A i \in DOMAIN request[s].results :
      plan[i].executor = "unavailable" /\ request[s].results[i] = "Passed" =>
        LET needed == Required(plan[i])
            given == request[s].attestation.operations
        IN /\ request[s].attestation.matches
           /\ \E place \in [DOMAIN needed -> DOMAIN given] :
                \A k \in DOMAIN needed :
                  /\ given[place[k]] = needed[k]
                  /\ k > 1 => place[k - 1] < place[k]

\* Overlapping requests, a moving head and failures leave the state well typed,
\* nothing but one revision verified, and no unavailable gate passed for free.
Inv == TypeOK /\ VerifiedIsOneRevision /\ UnavailableNeedsReceipt

\* execute_command and finish_captures: a request is answered though a command
\* hangs or leaves a process behind that keeps its output open.
RequestsEnd == \A s \in Slot : request[s].step # "idle" ~> request[s].step = "idle"
=============================================================================
