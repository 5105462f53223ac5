------------------------------ MODULE Delivery ------------------------------
(***************************************************************************)
(* Promotion of one approved candidate into the user's source tree:        *)
(* promote_bound and what it calls in crates/workflowd/src/candidate.rs,   *)
(* with the reservation that PromoteCandidate (lifecycle.rs) and           *)
(* crates/workflow-store/src/candidates.rs keep around it.  The delivery   *)
(* gate and the promotion lock admit one promotion at a time; the user     *)
(* edits the tree and moves HEAD whenever they like, and the daemon stops  *)
(* between any two file operations.                                        *)
(*                                                                         *)
(* A journal, published before the first change, names the original and    *)
(* the approved bytes of every file.  An original is moved to a backup     *)
(* beside the tree; until a committed marker exists recovery rolls back.   *)
(*                                                                         *)
(* Staged copies (incoming) are left out: they never decide anything.  So  *)
(* are directories replaced by files and files by directories.             *)
(* Definitions whose name starts with Faulty are slips in the definition   *)
(* that follows them, used only by the mutation runs.                      *)
(***************************************************************************)
EXTENDS Integers, FiniteSets

CONSTANTS
    None,          \* Option::None
    Files,         \* number of files of the candidate
    Kinds,         \* kinds a file of the candidate may have
    Version,       \* bytes the user may write, each once
    Nonce,         \* nonces of journals; a nonce is reused once it is forgotten
    HeadMoves,     \* the user may move HEAD
    RacingEdits,   \* the user may edit between a check of a file and the act on it
    MaxCrashes,    \* bound on crashes
    MaxErrors      \* bound on input/output errors

ASSUME DeliveryAssumption ==
    /\ Files \in Nat \ {0}
    /\ Kinds \subseteq {"Modified", "Added", "Deleted"}
    /\ Version \intersect {"original", "approved", "absent"} = {}
    /\ Cardinality(Nonce) > 1
    /\ None \notin Nonce \union {"payload", "unbound"}
    /\ {HeadMoves, RacingEdits} \subseteq BOOLEAN
    /\ {MaxCrashes, MaxErrors} \subseteq Nat

VARIABLES
    kind,         \* kind of each file in the candidate manifest
    path,         \* bytes at each destination
    backup,       \* bytes at each backup path of the current journal
    concurrent,   \* bytes at each preserved path of the current journal
    aside,        \* bytes preserved under the journals before it
    journal,      \* nonce in the published journal
    marker,       \* the committed marker exists
    head,         \* HEAD is the candidate's base revision
    reservation,  \* candidate_delivery_reservations: journal digest
    completed,    \* the workflow is Completed
    worker,       \* the promotion in progress
    live,         \* bytes the user wrote and did not replace
    written,      \* bytes the user wrote
    edit,         \* what the user did to each file last
    crashes, errors

tree == <<kind, path, backup, concurrent, aside>>
git == <<journal, marker>>
store == <<reservation, completed>>
user == <<head, live, written, edit>>
faults == <<crashes, errors>>
vars == <<tree, git, store, user, worker, faults>>

-----------------------------------------------------------------------------
File == 1..Files
Bytes == {"original", "approved"} \union Version
Entry == Bytes \union {"absent"}
Digest == Nonce \union {"payload"}   \* a journal's, or the delivered payload's

Base(f) == IF kind[f] = "Added" THEN "absent" ELSE "original"
Goal(f) == IF kind[f] = "Deleted" THEN "absent" ELSE "approved"
Pristine == \A f \in File : path[f] = Base(f)     \* validate_preimage
Verified == \A f \in File : path[f] = Goal(f)     \* verify_promoted_fs

\* matches_snapshot_cap and matches_approved_cap: never true of a missing digest.
IsSnapshot(f, bytes) == kind[f] # "Added" /\ bytes = "original"
IsApproved(f, bytes) == kind[f] # "Deleted" /\ bytes = "approved"

Stage == {"head", "recover", "verify", "bind_delivered", "capture", "bind",
          "write", "recheck"}
Apply == {"move", "check_moved", "put_back", "install", "verify_installed"}
Commit == {"mark", "clean", "clean_journal", "clean_marker", "deliver"}
Rollback == {"undo", "discard", "unlink", "restore", "drop", "undo_journal",
             "undo_marker"}
Failure == {"fail", "release"}
Idle == [pc |-> "idle", file |-> 1, expected |-> None, digest |-> None]
Worker == [pc : {"idle"} \union Stage \union Apply \union Commit \union Rollback
                 \union Failure,
           file : File, expected : Digest \union {None},
           digest : Digest \union {None}]

At(pc) == worker.pc = pc
Goto(pc) == worker' = [worker EXCEPT !.pc = pc, !.file = 1]
On(pc) == worker' = [worker EXCEPT !.pc = pc]          \* same file
NextFile(pc, last) ==
    worker' = IF worker.file < Files
              THEN [worker EXCEPT !.pc = pc, !.file = @ + 1]
              ELSE [worker EXCEPT !.pc = last, !.file = 1]

-----------------------------------------------------------------------------
(* PromoteCandidate: reserve, and check the source revision.               *)

Reserve ==
    /\ At("idle")
    /\ reservation' = IF reservation = None THEN "unbound" ELSE reservation
    /\ worker' = [Idle EXCEPT !.pc = "head",
                              !.expected = IF reservation \in Digest
                                           THEN reservation ELSE None]
    /\ UNCHANGED <<tree, git, completed, user, faults>>

CheckHead ==
    /\ At("head")
    /\ Goto(IF head THEN "recover" ELSE "fail")
    /\ UNCHANGED <<tree, git, store, user, faults>>

\* recover_delivery_bound: finish or undo what an earlier promotion left.
FaultyRecover ==
    /\ At("recover")
    /\ Goto(IF journal \notin {None, worker.expected} THEN "fail"
            ELSE IF marker /\ ~Verified THEN "fail"
            ELSE IF journal = None THEN IF marker THEN "clean_marker" ELSE "verify"
            ELSE IF marker THEN "clean" ELSE "undo_journal")
    /\ UNCHANGED <<tree, git, store, user, faults>>
Recover ==
    /\ At("recover")
    /\ Goto(IF journal \notin {None, worker.expected} THEN "fail"
            ELSE IF marker /\ ~Verified THEN "fail"
            ELSE IF journal = None THEN IF marker THEN "clean_marker" ELSE "verify"
            ELSE IF marker THEN "clean" ELSE "undo")
    /\ UNCHANGED <<tree, git, store, user, faults>>

\* A tree that holds the approved bytes already is delivered as it stands.
VerifyDelivered ==
    /\ At("verify")
    /\ Goto(IF Verified THEN "bind_delivered" ELSE "capture")
    /\ UNCHANGED <<tree, git, store, user, faults>>

\* bind_candidate_delivery_journal refuses if the digest moved meanwhile.
Bind(digest, next) ==
    IF reservation = IF worker.expected = None THEN "unbound" ELSE worker.expected
    THEN reservation' = digest /\ worker' = [worker EXCEPT !.pc = next, !.digest = digest]
    ELSE UNCHANGED reservation /\ Goto("fail")

BindDelivered ==
    /\ At("bind_delivered")
    /\ Bind(IF worker.expected = None THEN "payload" ELSE worker.expected, "deliver")
    /\ UNCHANGED <<tree, git, completed, user, faults>>

\* git apply --check, validate_preimage and capture_journal with a new nonce.
CaptureJournal ==
    /\ At("capture")
    /\ IF Pristine
       THEN \E nonce \in Nonce \ {worker.expected} :
               worker' = [worker EXCEPT !.pc = "bind", !.digest = nonce]
       ELSE Goto("fail")
    /\ UNCHANGED <<tree, git, store, user, faults>>

BindJournal ==
    /\ At("bind")
    /\ Bind(worker.digest, "write")
    /\ UNCHANGED <<tree, git, completed, user, faults>>

WriteJournal ==
    /\ At("write")
    /\ journal' = worker.digest
    /\ Goto("recheck")
    /\ UNCHANGED <<tree, marker, store, user, faults>>

\* The second git apply --check, which tolerates edits away from the patch; its
\* failure leaves the journal to recovery.
RecheckAndStage ==
    /\ At("recheck")
    /\ Goto("move") \/ (~Pristine /\ Goto("fail"))
    /\ UNCHANGED <<tree, git, store, user, faults>>

-----------------------------------------------------------------------------
(* apply_payload_staged: move every file away, then link the new ones in.  *)

MoveAway ==
    LET f == worker.file IN
    /\ At("move")
    /\ IF path[f] = "absent"
       THEN NextFile("move", "install") /\ UNCHANGED <<path, backup>>
       ELSE /\ backup' = [backup EXCEPT ![f] = path[f]]
            /\ path' = [path EXCEPT ![f] = "absent"]
            /\ On("check_moved")
    /\ UNCHANGED <<kind, concurrent, aside, git, store, user, faults>>

\* The bytes that were moved are compared, not those that were checked.
CheckMoved ==
    LET f == worker.file IN
    /\ At("check_moved")
    /\ IF IsSnapshot(f, backup[f]) THEN NextFile("move", "install")
       ELSE IF path[f] = "absent" THEN On("put_back")
       ELSE Goto("undo")
    /\ UNCHANGED <<tree, git, store, user, faults>>

\* The rename back replaces whatever is at the destination by now.
PutBack ==
    LET f == worker.file IN
    /\ At("put_back")
    /\ path' = [path EXCEPT ![f] = backup[f]]
    /\ backup' = [backup EXCEPT ![f] = "absent"]
    /\ Goto("undo")
    /\ UNCHANGED <<kind, concurrent, aside, git, store, user, faults>>

FaultyInstall ==
    LET f == worker.file IN
    /\ At("install")
    /\ path' = [path EXCEPT ![f] = IF kind[f] = "Deleted" THEN @ ELSE "approved"]
    /\ NextFile("install", "verify_installed")
    /\ UNCHANGED <<kind, backup, concurrent, aside, git, store, user, faults>>
\* A hard link never replaces a file that appeared meanwhile.
Install ==
    LET f == worker.file IN
    /\ At("install")
    /\ IF kind[f] = "Deleted"
       THEN NextFile("install", "verify_installed") /\ UNCHANGED path
       ELSE IF path[f] = "absent"
       THEN /\ path' = [path EXCEPT ![f] = "approved"]
            /\ NextFile("install", "verify_installed")
       ELSE Goto("undo") /\ UNCHANGED path
    /\ UNCHANGED <<kind, backup, concurrent, aside, git, store, user, faults>>

VerifyInstalled ==
    /\ At("verify_installed")
    /\ Goto(IF Verified THEN "mark" ELSE "undo")
    /\ UNCHANGED <<tree, git, store, user, faults>>

WriteMarker ==
    /\ At("mark")
    /\ marker' = TRUE
    /\ Goto("clean")
    /\ UNCHANGED <<tree, journal, store, user, faults>>

-----------------------------------------------------------------------------
(* cleanup_delivery: backups, then the journal, then the marker.           *)

CleanFile ==
    /\ At("clean")
    /\ backup' = [backup EXCEPT ![worker.file] = "absent"]
    /\ NextFile("clean", "clean_journal")
    /\ UNCHANGED <<kind, path, concurrent, aside, git, store, user, faults>>

\* Without its journal nothing refers to the preserved paths of its nonce.
ForgetJournal ==
    /\ journal' = None
    /\ aside' = aside \union ({concurrent[f] : f \in File} \ {"absent"})
    /\ concurrent' = [f \in File |-> "absent"]

CleanJournal ==
    /\ At("clean_journal")
    /\ ForgetJournal
    /\ Goto("clean_marker")
    /\ UNCHANGED <<kind, path, backup, marker, store, user, faults>>

\* A recovery, which has no digest yet, goes on with the promotion.
CleanMarker ==
    /\ At("clean_marker")
    /\ marker' = FALSE
    /\ Goto(IF worker.digest = None THEN "verify" ELSE "deliver")
    /\ UNCHANGED <<tree, journal, store, user, faults>>

-----------------------------------------------------------------------------
(* rollback_payload: clear every destination, then bring back the backups. *)

Undo ==
    LET f == worker.file IN
    /\ At("undo")
    /\ \/ /\ path[f] = "absent" \/ IsSnapshot(f, path[f])
          /\ NextFile("undo", "restore")
          /\ UNCHANGED concurrent
       \/ /\ IsApproved(f, path[f])
          /\ On("discard")
          /\ UNCHANGED concurrent
       \/ /\ path[f] # "absent" /\ ~IsSnapshot(f, path[f]) /\ ~IsApproved(f, path[f])
          /\ IF concurrent[f] = "absent"
             THEN concurrent' = [concurrent EXCEPT ![f] = path[f]] /\ On("unlink")
             ELSE Goto("fail") /\ UNCHANGED concurrent
    /\ UNCHANGED <<kind, path, backup, aside, git, store, user, faults>>

\* Removes the approved bytes, or the name of the preserved ones.
Remove ==
    /\ At("discard") \/ At("unlink")
    /\ path' = [path EXCEPT ![worker.file] = "absent"]
    /\ NextFile("undo", "restore")
    /\ UNCHANGED <<kind, backup, concurrent, aside, git, store, user, faults>>

\* A backup that is not the snapshot is linked back and stops the rollback.
Restore ==
    LET f == worker.file IN
    /\ At("restore")
    /\ path' = IF backup[f] # "absent" /\ path[f] = "absent"
               THEN [path EXCEPT ![f] = backup[f]] ELSE path
    /\ IF backup[f] = "absent" THEN NextFile("restore", "undo_journal")
       ELSE IF IsSnapshot(f, backup[f]) /\ IsSnapshot(f, path'[f]) THEN On("drop")
       ELSE Goto("fail")
    /\ UNCHANGED <<kind, backup, concurrent, aside, git, store, user, faults>>

DropBackup ==
    /\ At("drop")
    /\ backup' = [backup EXCEPT ![worker.file] = "absent"]
    /\ NextFile("restore", "undo_journal")
    /\ UNCHANGED <<kind, path, concurrent, aside, git, store, user, faults>>

UndoJournal ==
    /\ At("undo_journal")
    /\ ForgetJournal
    /\ Goto("undo_marker")
    /\ UNCHANGED <<kind, path, backup, marker, store, user, faults>>

FaultyUndoMarker ==
    /\ At("undo_marker")
    /\ marker' = FALSE
    /\ Goto(IF worker.digest = None THEN "verify" ELSE "deliver")
    /\ UNCHANGED <<tree, journal, store, user, faults>>
\* The error that caused the rollback is the answer.
UndoMarker ==
    /\ At("undo_marker")
    /\ marker' = FALSE
    /\ Goto(IF worker.digest = None THEN "verify" ELSE "fail")
    /\ UNCHANGED <<tree, journal, store, user, faults>>

-----------------------------------------------------------------------------
(* The outcome.                                                            *)

FaultyFail ==
    /\ At("fail")
    /\ worker' = [Idle EXCEPT !.pc = "release"]
    /\ UNCHANGED <<tree, git, store, user, faults>>
\* delivery_recovery_required: what is left to recover keeps the reservation.
Fail ==
    /\ At("fail")
    /\ worker' = IF journal # None \/ marker THEN Idle
                 ELSE [Idle EXCEPT !.pc = "release"]
    /\ UNCHANGED <<tree, git, store, user, faults>>

Release ==
    /\ At("release")
    /\ reservation' = None
    /\ worker' = Idle
    /\ UNCHANGED <<tree, git, completed, user, faults>>

\* deliver_reserved_candidate, or only the release when completed already.
Deliver ==
    /\ At("deliver")
    /\ IF completed \/ reservation = worker.digest
       THEN completed' = TRUE /\ reservation' = None
       ELSE UNCHANGED store
    /\ worker' = Idle
    /\ UNCHANGED <<tree, git, user, faults>>

-----------------------------------------------------------------------------
(* The user and the faults.                                                *)

\* Windows between a check of worker.file and the act on it.
InWindow(f) == worker.pc \in {"put_back", "discard", "unlink"} /\ f = worker.file

\* The user writes new bytes, restores the original or deletes the file.
Edit(f) ==
    /\ InWindow(f) => RacingEdits
    /\ \E v \in Version \ written :
          /\ written' = written \union {v}
          /\ path' \in {[path EXCEPT ![f] = b] : b \in {v, Base(f), "absent"}}
          /\ path' # path
          /\ live' = (live \ {path[f]}) \union ({path'[f]} \intersect Version)
    /\ edit' = [edit EXCEPT ![f] = IF path'[f] = "absent" THEN "deleted" ELSE "written"]
    /\ UNCHANGED <<kind, backup, concurrent, aside, git, store, head, worker, faults>>

MoveHead ==
    /\ HeadMoves
    /\ head' = ~head
    /\ UNCHANGED <<tree, git, store, live, written, edit, worker, faults>>

Crash ==
    /\ ~At("idle")
    /\ crashes < MaxCrashes
    /\ crashes' = crashes + 1
    /\ worker' = Idle
    /\ UNCHANGED <<tree, git, store, user, errors>>

\* A file operation fails: while files are applied the promotion rolls back,
\* elsewhere it answers with an error.
FileError ==
    /\ worker.pc \in (Stage \union Apply \union Commit \union Rollback) \ {"mark", "deliver"}
    /\ errors < MaxErrors
    /\ errors' = errors + 1
    /\ Goto(IF worker.pc \in Apply THEN "undo" ELSE "fail")
    /\ UNCHANGED <<tree, git, store, user, crashes>>

\* The journal or the marker is there, but making it durable failed.
WriteJournalError ==
    /\ At("write")
    /\ errors < MaxErrors
    /\ errors' = errors + 1
    /\ journal' = worker.digest
    /\ Goto("fail")
    /\ UNCHANGED <<tree, marker, store, user, crashes>>

WriteMarkerError ==
    /\ At("mark")
    /\ errors < MaxErrors
    /\ errors' = errors + 1
    /\ marker' \in BOOLEAN
    /\ Goto("undo")
    /\ UNCHANGED <<tree, journal, store, user, crashes>>

\* The marker is gone, but the directory could not be synchronised.
CleanMarkerError ==
    /\ At("clean_marker")
    /\ errors < MaxErrors
    /\ errors' = errors + 1
    /\ marker' = FALSE
    /\ Goto("fail")
    /\ UNCHANGED <<tree, journal, store, user, crashes>>

-----------------------------------------------------------------------------
Init ==
    /\ kind \in [File -> Kinds]
    /\ path = [f \in File |-> Base(f)]
    /\ backup = [f \in File |-> "absent"]
    /\ concurrent = [f \in File |-> "absent"]
    /\ aside = {}
    /\ journal = None
    /\ marker = FALSE
    /\ head = TRUE
    /\ reservation = None
    /\ completed = FALSE
    /\ worker = Idle
    /\ live = {}
    /\ written = {}
    /\ edit = [f \in File |-> "none"]
    /\ crashes = 0
    /\ errors = 0

Promote ==
    \/ CheckHead \/ Recover \/ VerifyDelivered \/ BindDelivered
    \/ CaptureJournal \/ BindJournal \/ WriteJournal \/ RecheckAndStage
    \/ MoveAway \/ CheckMoved \/ PutBack \/ Install \/ VerifyInstalled \/ WriteMarker
    \/ CleanFile \/ CleanJournal \/ CleanMarker
    \/ Undo \/ Remove \/ Restore \/ DropBackup \/ UndoJournal \/ UndoMarker
    \/ Fail \/ Release \/ Deliver

Next ==
    \/ Reserve
    \/ Promote
    \/ \E f \in File : Edit(f)
    \/ MoveHead
    \/ Crash
    \/ FileError \/ WriteJournalError \/ WriteMarkerError \/ CleanMarkerError

Spec == Init /\ [][Next]_vars

(* The promotion runs on, and the client repeats it until it completes.    *)
FairSpec == Spec /\ WF_vars(Promote) /\ WF_vars(~completed /\ Reserve)

-----------------------------------------------------------------------------
(* Every record, file and step of the promotion holds a value of its type. *)
TypeOK ==
    /\ kind \in [File -> Kinds]
    /\ path \in [File -> Entry]
    /\ backup \in [File -> Entry]
    /\ concurrent \in [File -> Entry]
    /\ aside \subseteq Bytes
    /\ journal \in Nonce \union {None}
    /\ reservation \in Digest \union {"unbound", None}
    /\ {marker, head, completed} \subseteq BOOLEAN
    /\ worker \in Worker
    /\ live \subseteq written
    /\ written \subseteq Version
    /\ edit \in [File -> {"none", "written", "deleted"}]
    /\ crashes \in 0..MaxCrashes
    /\ errors \in 0..MaxErrors

Untouched == {f \in File : edit[f] = "none"}

(* Whatever is left to recover is protected by the reservation, and the    *)
(* reservation is bound to exactly the journal that was published: after   *)
(* any crash the next promotion is allowed to recover it, and nothing else *)
(* may move the workflow first (candidate.rs:1022-1028, lifecycle.rs:634). *)
RecoveryIsBound ==
    /\ journal # None => reservation = journal
    /\ marker => reservation \in Digest

(* Until the marker is written the rollback can always bring back every    *)
(* original that the promotion moved away (candidate.rs:551-571, 772-873). *)
RollbackPossible ==
    journal # None /\ ~marker =>
        \A f \in Untouched : kind[f] # "Added" => "original" \in {path[f], backup[f]}

(* Wherever a promotion is interrupted: what it left has its type, can be  *)
(* rolled back, and is bound to the reservation.                           *)
Inv == TypeOK /\ RecoveryIsBound /\ RollbackPossible

(* Without a reservation the files that the user left alone are all as     *)
(* before or all as approved: no crash, edit or failed operation leaves a  *)
(* candidate half delivered and forgotten (lifecycle.rs:645-660).          *)
AllOrNothing ==
    reservation = None =>
        \/ \A f \in Untouched : path[f] = Base(f)
        \/ \A f \in Untouched : path[f] = Goal(f)

(* Completed means delivered: every file the user left alone is as         *)
(* approved (candidate.rs:753-757, workflows.rs:116-209).                  *)
CompletedIsDelivered ==
    completed => \A f \in Untouched : path[f] = Goal(f)

(* Bytes the user writes while the candidate is promoted are kept, at the  *)
(* destination or beside it (candidate.rs:662-675, 728-748, 783-808).      *)
UserBytesKept ==
    \A v \in live :
        v \in aside \/ \E f \in File : v \in {path[f], backup[f], concurrent[f]}

(* Wherever the daemon stopped, a client that repeats the promotion of an  *)
(* undisturbed source tree gets it completed (candidate.rs:1002-1039).     *)
DeliveryCompletes == [](written = {} /\ head /\ errors = 0) => <>completed
=============================================================================
