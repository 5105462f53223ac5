------------------------------ MODULE Recovery ------------------------------
(***************************************************************************)
(* How a workflow is taken up again before its candidate is frozen: the    *)
(* worktree handler and freeze of workflowd (lifecycle.rs, worktree.rs),   *)
(* early_recovery of control.rs, and the client that runs a workflow       *)
(* (full-workflow.ts, retry-recovery.ts), over the audit ledger.           *)
(*                                                                         *)
(* The client prepares a worktree at the user's HEAD and records the       *)
(* revision in the ledger, in two requests; the commits of the executor    *)
(* move the worktree on; the candidate is what changed since the recorded  *)
(* revision.  The client and the daemon stop at any step, and what was     *)
(* left behind is refused by some of the requests that follow.  A revision *)
(* is a pair: a commit of the user, and how many commits of an executor    *)
(* are on top of it.  One client runs a workflow, in full mode, at a time. *)
(***************************************************************************)
EXTENDS Ledger

CONSTANTS
    Ours,        \* the project of the workflow
    MaxHead,     \* commits the user may have checked out: a bound
    MaxCommits,  \* of an executor: a bound
    MaxLosses,   \* of the client: a bound
    MaxRepairs   \* candidates that are sent back: a bound

ASSUME RecoveryAssumption ==
    /\ Ours \in Project
    /\ {MaxHead, MaxCommits, MaxLosses, MaxRepairs} \subseteq Nat
    /\ None \notin Nat \X Nat

VARIABLES
    worktree,  \* where the managed worktree is: its HEAD
    dirty,     \* whether files in it are not committed
    stage,     \* of the workflow
    plan,      \* the stored architecture: none, saved, or accepted before
    candidate, \* the base revision of the latest candidate
    rejected,  \* whether a candidate was rejected: repair_cycles > 0
    oversized, \* whether the feedback on the latest one is over 64 KiB
    repairs,   \* times the work was sent back, for whatever reason
    losses,    \* times the client was lost
    client     \* what it does next, and the base revision it holds

judged == <<candidate, rejected, oversized, repairs>>
workflow == <<worktree, dirty, stage, plan, judged, losses, client>>
vars == <<ledger, workflow>>

Gone == [step |-> "gone", base |-> None]
Doing(step, base) == [step |-> step, base |-> base]
Up == daemon = "up" /\ unsigned = None

\* The client is lost, or a request of it fails.
Lost ==
    /\ losses < MaxLosses
    /\ losses' = losses + 1
    /\ client' = Gone

\* load_worktree_base_revision: the newest revision recorded.
Recorded == {i \in DOMAIN rows : rows[i].event.project = Ours /\ rows[i].event.revision # None}
LedgerBase == IF Recorded = {} THEN None ELSE rows[Max(Recorded)].event.revision

\* early_recovery: the base revision, None, or no answer.
FaultyBase == candidate
Base == IF candidate # None THEN candidate ELSE LedgerBase
Consistent ==
    /\ candidate # None /\ LedgerBase # None => candidate = LedgerBase
    /\ (worktree # None) = (Base # None)

\* A retry: resumeEarlyStage runs the workflow with what early_recovery gives;
\* a later stage is resumed without the client's base.
FaultyTakeUp(base) ==
    IF stage = "architecture" THEN Doing("architect", base) ELSE Doing("prepare", base)
TakeUp(base) ==
    CASE stage = "architecture" -> Doing("architect", base)
      [] stage # "architecture" /\ base = None -> Doing("prepare", None)
      [] stage # "architecture" /\ base # None -> Doing("execute", base)
Retry ==
    /\ client = Gone /\ Up
    /\ \/ /\ stage \in {"architecture", "execution"}
          /\ Consistent /\ ~oversized
          /\ client' = TakeUp(Base)
       \/ /\ stage = "verification"
          /\ client' = Doing("verify", None)
    /\ UNCHANGED <<ledger, worktree, dirty, stage, plan, judged, losses>>

\* submitArchitecture: the plan is saved, then accepted under a key that names
\* it.  Only before the first plan and after a rejection may it be another one;
\* one that was accepted before is not accepted again, which the client is not
\* told.
MayChange == plan = "none" \/ rejected
Onward == IF client.base = None THEN Doing("prepare", None) ELSE Doing("execute", client.base)
Architect ==
    /\ client.step = "architect" /\ Up
    /\ \/ /\ MayChange \/ plan = "saved"
          /\ plan' = "accepted" /\ stage' = "execution"
          /\ client' = Onward
          /\ UNCHANGED losses
       \/ /\ MayChange
          /\ plan' = "saved" /\ Lost
          /\ UNCHANGED stage
       \/ /\ plan = "accepted" \/ rejected
          /\ plan' = "accepted"
          /\ client' = Onward
          /\ UNCHANGED <<stage, losses>>
       \/ /\ ~MayChange
          /\ client' = Gone
          /\ UNCHANGED <<plan, stage, losses>>
    /\ UNCHANGED <<ledger, worktree, dirty, judged>>

\* WorktreeManager::create: an existing worktree is answered as it is, and a new
\* one is at the user's HEAD, wherever that is by now.
Prepare ==
    /\ client.step = "prepare" /\ Up /\ stage = "execution"
    /\ \E head \in 0..MaxHead :
         worktree' = IF worktree = None THEN <<head, 0>> ELSE worktree
    /\ client' = Doing("audit", worktree')
    /\ UNCHANGED <<ledger, dirty, stage, plan, judged, losses>>

\* The audit of execution_worktree_prepared.
RecordBase ==
    /\ client.step = "audit"
    /\ Record(Ours, client.base)
    /\ client' = Doing("execute", client.base)
    /\ UNCHANGED <<worktree, dirty, stage, plan, judged, losses>>

\* runExecutionPlan.  A task starts in a clean worktree only, and its files are
\* committed when it is completed; tasks with disjoint scopes run in worktrees of
\* their own, and what they changed is committed in this one, whatever is left
\* there.
CompleteTask ==
    /\ worktree[2] < MaxCommits
    /\ worktree' = <<worktree[1], worktree[2] + 1>>
    /\ dirty' = FALSE
    /\ UNCHANGED client
RefuseTask ==
    /\ dirty
    /\ client' = Gone
    /\ UNCHANGED <<worktree, dirty>>
AllTasksDone ==
    /\ client' = [client EXCEPT !.step = "freeze"]
    /\ UNCHANGED <<worktree, dirty>>
Execute ==
    /\ client.step = "execute"
    /\ CompleteTask \/ RefuseTask \/ AllTasksDone
    /\ UNCHANGED <<ledger, stage, plan, judged, losses>>

\* Work in the worktree that ends before its files are committed.
LeavesFiles == dirty' \in {dirty, TRUE}

\* The executor reports a defect of the plan, or that it cannot go on.
GiveBack ==
    /\ client.step = "execute" /\ Up /\ LeavesFiles
    /\ repairs < MaxRepairs
    /\ repairs' = repairs + 1
    /\ \/ /\ stage = "execution" /\ stage' = "architecture"
          /\ client' = [client EXCEPT !.step = "architect"]
       \/ /\ client' = Gone
          /\ UNCHANGED stage
    /\ UNCHANGED <<ledger, worktree, plan, candidate, rejected, oversized, losses>>

\* freeze: the base must be an ancestor of the worktree's HEAD, and nothing left
\* uncommitted.  The candidate is saved before the workflow moves on.
Freezable ==
    /\ stage = "execution" /\ ~dirty
    /\ client.base[1] = worktree[1] /\ client.base[2] <= worktree[2]
Freeze ==
    /\ client.step = "freeze" /\ Up
    /\ \/ /\ Freezable
          /\ candidate' = client.base /\ oversized' = FALSE
          /\ \/ /\ stage' = "verification"
                /\ client' = [client EXCEPT !.step = "verify"]
                /\ UNCHANGED losses
             \/ Lost /\ UNCHANGED stage
       \/ /\ ~Freezable
          /\ client' = Gone
          /\ UNCHANGED <<stage, candidate, oversized, losses>>
    /\ UNCHANGED <<ledger, worktree, dirty, plan, rejected, repairs>>

\* The candidate is refused if the worktree is not clean, or passes, or is sent
\* back for repair: a client that froze it goes on with the worktree it has, one
\* that took it up later stops.  The gates may leave files behind; and a request
\* that fails after the rejection leaves the repair that nobody begins.
Verify ==
    /\ client.step = "verify" /\ Up
    /\ \/ /\ dirty
          /\ client' = Gone
          /\ UNCHANGED <<dirty, stage, rejected, oversized, repairs, losses>>
       \/ /\ ~dirty
          /\ stage' = "delivery"
          /\ client' = Gone
          /\ UNCHANGED <<dirty, rejected, oversized, repairs, losses>>
       \/ /\ ~dirty /\ repairs < MaxRepairs
          /\ repairs' = repairs + 1
          /\ rejected' = TRUE
          /\ oversized' \in BOOLEAN /\ LeavesFiles
          /\ \/ \E s \in {"execution", "architecture"} :
                  /\ stage' = s
                  /\ client' = IF client.base = None THEN Gone
                               ELSE Doing(IF s = "execution" THEN "execute" ELSE "architect",
                                          client.base)
                  /\ UNCHANGED losses
             \/ stage' = "repair" /\ Lost
    /\ UNCHANGED <<ledger, worktree, plan, candidate>>

\* Tasks and gates that were running leave their files behind.
LoseClient ==
    /\ client # Gone /\ Lost
    /\ IF client.step \in {"execute", "verify"} THEN LeavesFiles ELSE UNCHANGED dirty
    /\ UNCHANGED <<ledger, worktree, stage, plan, judged>>

-----------------------------------------------------------------------------
\* The other requests of the clients that are audited.
Audit ==
    \E p \in Project : Record(p, None) /\ UNCHANGED workflow

Init ==
    /\ LedgerInit
    /\ worktree = None /\ dirty = FALSE
    /\ stage = "architecture" /\ plan = "none"
    /\ candidate = None /\ rejected = FALSE /\ oversized = FALSE /\ repairs = 0
    /\ losses = 0 /\ client = Doing("architect", None)

Client == Retry \/ Architect \/ Prepare \/ RecordBase \/ Execute \/ Freeze \/ Verify
Daemon == Sign \/ Start

Next ==
    \/ Client \/ GiveBack \/ LoseClient \/ Audit
    \/ (Daemon \/ Stop \/ Damage \/ Query) /\ UNCHANGED workflow

Spec == Init /\ [][Next]_vars

\* A client and a daemon that can go on do, and the user retries.
FairSpec == Spec /\ WF_vars(Client) /\ WF_vars(Daemon /\ UNCHANGED workflow)

-----------------------------------------------------------------------------
Revision == (0..MaxHead) \X (0..MaxCommits)

TypeOK ==
    /\ LedgerTypeOK
    /\ {worktree, candidate, client.base} \subseteq Revision \union {None}
    /\ {dirty, rejected, oversized} \subseteq BOOLEAN
    /\ stage \in {"architecture", "execution", "verification", "repair", "delivery"}
    /\ plan \in {"none", "saved", "accepted"}
    /\ repairs \in 0..MaxRepairs /\ losses \in 0..MaxLosses
    /\ client.step = "execute" => worktree # None

\* prepareWorktree, the audit of it, early_recovery and freeze: whichever of
\* the clients of a workflow freezes its candidate, and however often it was
\* taken up again, the candidate is all that was committed in the worktree.
CandidateIsAllTheWork == candidate # None => candidate = <<worktree[1], 0>>

\* Wherever the client and the daemon stop: well typed, and no work left out.
Inv == TypeOK /\ CandidateIsAllTheWork

\* Where the code takes nobody further.  With no client: files that are not
\* committed (executor.ts:133, candidate.rs:222); feedback that is too long
\* (control.rs:335); a plan that may not be changed (architecture.rs:49).  With
\* or without: a plan given again that was accepted before (lifecycle.rs:1921);
\* a repair that was not begun (repair.rs:66).
Stranded ==
    \/ /\ client = Gone
       /\ \/ dirty
          \/ oversized /\ stage \in {"architecture", "execution"}
          \/ stage = "architecture" /\ ~MayChange
    \/ stage = "architecture" /\ client.step \in {"execute", "freeze"}
    \/ stage = "repair"

\* early_recovery: once the base revision of a worktree is in the ledger, a
\* workflow that is retried gets to delivery, wherever its clients and the
\* daemon stopped, unless the ledger was damaged or it is stranded.
RecordedIsTakenUp ==
    (client.step = "execute" /\ damage = 0) ~> (stage = "delivery" \/ damage > 0 \/ Stranded)
=============================================================================
