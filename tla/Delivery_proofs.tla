--------------------------- MODULE Delivery_proofs ---------------------------
(***************************************************************************)
(* Proofs about the promotion of a candidate, for every number of files,   *)
(* versions, nonces, crashes and errors, and whatever the user does to the *)
(* tree meanwhile.  What is known of each file depends on where the worker *)
(* is and which file it is at; all of it survives a crash in the form that *)
(* the journal and the marker record.                                      *)
(***************************************************************************)
EXTENDS Delivery, TLAPS

Pc == worker.pc
Here == worker.file

-----------------------------------------------------------------------------
(* The inductive invariant.  First, what the journal and the marker say of *)
(* the place where the worker is.                                          *)
Unpublished == {"verify", "bind_delivered", "capture", "bind", "write", "deliver", "release"}
Undoing == {"undo", "discard", "unlink"}
Restoring == {"restore", "drop"}

JournalAgrees ==
    /\ Pc \in Unpublished => journal = None /\ ~marker
    /\ Pc \in {"clean_marker", "undo_marker"} => journal = None
    /\ Pc \in {"recheck", "mark"} \union Apply => journal # None /\ ~marker
    /\ Pc \in {"clean", "clean_journal"} => journal # None /\ marker
    /\ Pc \in Undoing \union Restoring \union {"undo_journal"} => journal # None
    /\ Pc \in {"bind", "write"} => worker.digest \in Nonce
    /\ Pc = "write" => reservation = worker.digest

(* What is at the backup path of every file, whoever touched the file.     *)
Clear(f) == backup[f] = "absent"
Held(f) == backup[f] \in {"absent", "original"}

BackupSound(f) ==
    /\ journal = None \/ Pc \in {"recheck", "undo_journal", "clean_journal"} => Clear(f)
    /\ Pc \in Restoring \union {"clean"} /\ f < Here => Clear(f)
    /\ Pc = "move" /\ f >= Here => Clear(f)
    /\ Pc = "check_moved" /\ f > Here => Clear(f)
    /\ Pc \in {"move", "check_moved"} /\ f < Here => Held(f)
    /\ marker \/ Pc \in {"install", "verify_installed", "mark"} => Held(f)
    /\ Pc = "drop" /\ f = Here => backup[f] = "original"

(* The file the worker is at, if nobody writes between a check and an act. *)
WindowSound ==
    /\ Pc = "put_back" => path[Here] = "absent"
    /\ Pc = "discard" => path[Here] = "approved"
    /\ Pc = "unlink" => path[Here] = concurrent[Here]

(* A file that the user left alone.                                        *)
AsBase(f) == path[f] = Base(f)
AsGoal(f) == path[f] = Goal(f)
Restorable(f) == kind[f] # "Added" => "original" \in {path[f], backup[f]}

FileSound(f) ==
    /\ path[f] \in {Base(f), Goal(f), "absent"}
    /\ backup[f] \in {"absent", Base(f)}
    /\ journal # None /\ ~marker => Restorable(f)
    /\ Pc \in Apply \union {"mark"} \union Undoing \union Restoring => Restorable(f)
    /\ Pc \in {"bind", "write", "recheck", "undo_journal", "undo_marker"} => AsBase(f)
    /\ Pc = "move" /\ f >= Here => AsBase(f)
    /\ Pc = "check_moved" /\ f > Here => AsBase(f)
    /\ Pc = "check_moved" /\ f = Here => kind[f] # "Added" /\ backup[f] = "original"
    /\ Pc \in {"put_back", "unlink"} => f # Here
    /\ Pc = "discard" /\ f = Here => path[f] = "approved"
    /\ Pc \in Undoing /\ f < Here => path[f] # "approved"
    /\ Pc \in Restoring => path[f] # "approved" /\ (f < Here => AsBase(f))
    /\ Pc = "drop" /\ f = Here => AsBase(f)
    /\ Pc \in {"mark", "clean", "clean_journal", "clean_marker", "bind_delivered", "deliver"}
         => AsGoal(f)

(* All of them together.                                                   *)
TreeSound ==
    /\ journal = None => (\A f \in Untouched : AsBase(f)) \/ (\A f \in Untouched : AsGoal(f))
    /\ completed => \A f \in Untouched : AsGoal(f) /\ journal = None

IInv ==
    /\ TypeOK
    /\ RecoveryIsBound
    /\ JournalAgrees
    /\ \A f \in File : BackupSound(f)
    /\ \A f \in Untouched : FileSound(f)
    /\ TreeSound

-----------------------------------------------------------------------------
(* Typing.                                                                 *)
Step == {"idle"} \union Stage \union Apply \union Commit \union Rollback \union Failure

LEMMA WorkerFields ==
    /\ Worker = [pc : Step, file : File, expected : Digest \union {None},
                 digest : Digest \union {None}]
    /\ 1 \in File
BY DeliveryAssumption DEF Worker, Step, File

LEMMA GotoMoves ==
    ASSUME worker \in Worker, NEW pc \in Step, Goto(pc)
    PROVE  /\ worker' \in Worker /\ worker'.digest = worker.digest
           /\ Pc' = pc /\ Here' = 1
BY WorkerFields DEF Goto, Pc, Here

LEMMA OnMoves ==
    ASSUME worker \in Worker, NEW pc \in Step, On(pc)
    PROVE  /\ worker' \in Worker /\ worker'.digest = worker.digest
           /\ Pc' = pc /\ Here' = Here
BY WorkerFields DEF On, Pc, Here

LEMMA NextFileMoves ==
    ASSUME worker \in Worker, NEW pc \in Step, NEW last \in Step, NextFile(pc, last)
    PROVE  /\ worker' \in Worker /\ worker'.digest = worker.digest
           /\ \/ Here < Files /\ Pc' = pc /\ Here' = Here + 1
              \/ Here = Files /\ Pc' = last /\ Here' = 1
<1>1. Here \in 1..Files /\ Files \in Nat
    BY WorkerFields, DeliveryAssumption DEF Here, File
<1>2. Here < Files => Here + 1 \in File
    BY <1>1 DEF File
<1>3. CASE Here < Files
    <2>1. worker' = [worker EXCEPT !.pc = pc, !.file = worker.file + 1]
        BY <1>3 DEF NextFile, Here
    <2> QED BY <1>2, <1>3, <2>1, WorkerFields DEF Pc, Here
<1>4. CASE Here = Files
    <2>1. worker' = [worker EXCEPT !.pc = last, !.file = 1]
        BY <1>1, <1>4 DEF NextFile, Here
    <2> QED BY <1>4, <2>1, WorkerFields DEF Pc, Here
<1> QED BY <1>1, <1>3, <1>4 DEF File

LEMMA DigestMoves ==
    ASSUME worker \in Worker, NEW pc \in Step, NEW digest \in Digest,
           worker' = [worker EXCEPT !.pc = pc, !.digest = digest]
    PROVE  worker' \in Worker /\ worker'.digest = digest /\ Pc' = pc /\ Here' = Here
BY WorkerFields DEF Pc, Here

LEMMA IdleMoves ==
    ASSUME NEW pc \in Step, worker' = [Idle EXCEPT !.pc = pc]
    PROVE  worker' \in Worker /\ Pc' = pc /\ Here' = 1
BY WorkerFields DEF Pc, Here, Idle

-----------------------------------------------------------------------------
(* Steps of the worker that change no file and no record.                  *)
Quiet == UNCHANGED <<kind, path, backup, concurrent, aside, journal, marker, reservation,
                     completed, live, written, edit>>

LEMMA QuietStep ==
    ASSUME IInv, Quiet, worker' \in Worker, head' \in BOOLEAN, crashes' \in 0..MaxCrashes,
           errors' \in 0..MaxErrors, JournalAgrees', \A f \in File : BackupSound(f)',
           \A f \in Untouched : FileSound(f)'
    PROVE  IInv'
<1>1. Untouched' = Untouched
    BY DEF Quiet, Untouched, File
<1>2. TypeOK' /\ RecoveryIsBound'
    BY DEF IInv, TypeOK, RecoveryIsBound, Quiet
<1>3. TreeSound'
    BY <1>1 DEF IInv, TreeSound, Quiet, AsBase, AsGoal, Base, Goal
<1> QED BY <1>1, <1>2, <1>3 DEF IInv

(* Wherever the worker was, it may stop, give up or start over.            *)
LEMMA OutsideStep ==
    ASSUME IInv, Quiet, Pc' \in {"idle", "head", "recover", "fail"}, worker' \in Worker,
           head' \in BOOLEAN, crashes' \in 0..MaxCrashes, errors' \in 0..MaxErrors
    PROVE  IInv'
<1>1. JournalAgrees'
    BY DEF JournalAgrees, Unpublished, Undoing, Restoring, Apply
<1>2. ASSUME NEW f \in File PROVE BackupSound(f)'
    BY DEF IInv, Quiet, BackupSound, Restoring, Clear, Held
<1>3. ASSUME NEW f \in Untouched PROVE FileSound(f)'
    BY DEF IInv, Quiet, FileSound, Undoing, Restoring, Apply, Base, Goal, Restorable
<1> QED BY <1>1, <1>2, <1>3, QuietStep

LEMMA CheckHeadStep ==
    ASSUME IInv, CheckHead
    PROVE  IInv'
<1>1. worker' \in Worker /\ Pc' \in {"recover", "fail"}
    BY GotoMoves DEF CheckHead, IInv, TypeOK, Step, Stage, Failure
<1> QED BY <1>1, OutsideStep DEF CheckHead, IInv, TypeOK, Quiet, tree, git, store, user, faults

LEMMA RecoverStep ==
    ASSUME IInv, Recover
    PROVE  IInv'
<1> DEFINE next == IF journal \notin {None, worker.expected} THEN "fail"
                   ELSE IF marker /\ ~Verified THEN "fail"
                   ELSE IF journal = None THEN IF marker THEN "clean_marker" ELSE "verify"
                   ELSE IF marker THEN "clean" ELSE "undo"
<1>1. worker' \in Worker /\ Pc' = next /\ Here' = 1
    BY GotoMoves DEF Recover, IInv, TypeOK, Step, Stage, Commit, Rollback, Failure
<1>2. /\ Quiet /\ head' \in BOOLEAN /\ crashes' \in 0..MaxCrashes /\ errors' \in 0..MaxErrors
      /\ marker \in BOOLEAN
    BY DEF Recover, IInv, TypeOK, Quiet, tree, git, store, user, faults
<1>3. JournalAgrees'
    BY <1>1, <1>2 DEF Quiet, JournalAgrees, Unpublished, Undoing, Restoring, Apply
<1>4. ASSUME NEW f \in File PROVE BackupSound(f)'
    BY <1>1, <1>2 DEF IInv, Quiet, BackupSound, Restoring, Clear, Held, File
<1>5. ASSUME NEW f \in Untouched PROVE FileSound(f)'
    BY <1>1, <1>2 DEF IInv, Quiet, FileSound, Undoing, Restoring, Apply, Base, Goal, Restorable,
       Untouched, File, Verified, AsGoal
<1> QED BY <1>1, <1>2, <1>3, <1>4, <1>5, QuietStep

LEMMA VerifyDeliveredStep ==
    ASSUME IInv, VerifyDelivered
    PROVE  IInv'
<1>1. worker' \in Worker /\ Here' = 1 /\ Pc = "verify"
      /\ Pc' = IF Verified THEN "bind_delivered" ELSE "capture"
    BY GotoMoves DEF VerifyDelivered, IInv, TypeOK, Step, Stage, At, Pc
<1>2. /\ Quiet /\ head' \in BOOLEAN /\ crashes' \in 0..MaxCrashes /\ errors' \in 0..MaxErrors
      /\ marker \in BOOLEAN
    BY DEF VerifyDelivered, IInv, TypeOK, Quiet, tree, git, store, user, faults
<1>3. JournalAgrees'
    BY <1>1, <1>2 DEF IInv, Quiet, JournalAgrees, Unpublished, Undoing, Restoring, Apply
<1>4. ASSUME NEW f \in File PROVE BackupSound(f)'
    BY <1>1, <1>2 DEF IInv, Quiet, BackupSound, JournalAgrees, Unpublished, Restoring, Apply,
       Clear, Held, File
<1>5. ASSUME NEW f \in Untouched PROVE FileSound(f)'
    BY <1>1, <1>2 DEF IInv, Quiet, FileSound, JournalAgrees, Unpublished, Undoing, Restoring,
       Apply, Base, Goal, Restorable, AsBase, AsGoal, Untouched, File, Verified
<1> QED BY <1>1, <1>2, <1>3, <1>4, <1>5, QuietStep

LEMMA CaptureJournalStep ==
    ASSUME IInv, CaptureJournal
    PROVE  IInv'
<1>1. worker' \in Worker /\ Pc = "capture"
      /\ \/ Pc' = "bind" /\ worker'.digest \in Nonce /\ Pristine
         \/ Pc' = "fail"
    BY GotoMoves, DigestMoves DEF CaptureJournal, IInv, TypeOK, Step, Stage, Failure, Digest, At, Pc
<1>2. /\ Quiet /\ head' \in BOOLEAN /\ crashes' \in 0..MaxCrashes /\ errors' \in 0..MaxErrors
      /\ marker \in BOOLEAN
    BY DEF CaptureJournal, IInv, TypeOK, Quiet, tree, git, store, user, faults
<1>3. JournalAgrees'
    BY <1>1, <1>2 DEF IInv, Quiet, JournalAgrees, Unpublished, Undoing, Restoring, Apply
<1>4. ASSUME NEW f \in File PROVE BackupSound(f)'
    BY <1>1, <1>2 DEF IInv, Quiet, BackupSound, JournalAgrees, Unpublished, Restoring, Apply,
       Clear, Held, File
<1>5. ASSUME NEW f \in Untouched PROVE FileSound(f)'
    BY <1>1, <1>2 DEF IInv, Quiet, FileSound, JournalAgrees, Unpublished, Undoing, Restoring,
       Apply, Base, Goal, Restorable, AsBase, AsGoal, Untouched, File, Pristine
<1> QED BY <1>1, <1>2, <1>3, <1>4, <1>5, QuietStep

LEMMA RecheckAndStageStep ==
    ASSUME IInv, RecheckAndStage
    PROVE  IInv'
<1>1. worker' \in Worker /\ Here' = 1 /\ Pc = "recheck" /\ Pc' \in {"move", "fail"}
    BY GotoMoves DEF RecheckAndStage, IInv, TypeOK, Step, Apply, Failure, At, Pc
<1>2. /\ Quiet /\ head' \in BOOLEAN /\ crashes' \in 0..MaxCrashes /\ errors' \in 0..MaxErrors
      /\ marker \in BOOLEAN
    BY DEF RecheckAndStage, IInv, TypeOK, Quiet, tree, git, store, user, faults
<1>3. JournalAgrees'
    BY <1>1, <1>2 DEF IInv, Quiet, JournalAgrees, Unpublished, Undoing, Restoring, Apply
<1>4. ASSUME NEW f \in File PROVE BackupSound(f)'
    BY <1>1, <1>2 DEF IInv, Quiet, BackupSound, JournalAgrees, Unpublished, Restoring, Apply,
       Clear, Held, File
<1>5. ASSUME NEW f \in Untouched PROVE FileSound(f)'
    BY <1>1, <1>2 DEF IInv, Quiet, FileSound, JournalAgrees, Unpublished, Undoing, Restoring,
       Apply, Base, Goal, Restorable, AsBase, AsGoal, Untouched, File
<1> QED BY <1>1, <1>2, <1>3, <1>4, <1>5, QuietStep

LEMMA VerifyInstalledStep ==
    ASSUME IInv, VerifyInstalled
    PROVE  IInv'
<1>1. worker' \in Worker /\ Here' = 1 /\ Pc = "verify_installed"
      /\ Pc' = IF Verified THEN "mark" ELSE "undo"
    BY GotoMoves DEF VerifyInstalled, IInv, TypeOK, Step, Commit, Rollback, At, Pc
<1>2. /\ Quiet /\ head' \in BOOLEAN /\ crashes' \in 0..MaxCrashes /\ errors' \in 0..MaxErrors
      /\ marker \in BOOLEAN
    BY DEF VerifyInstalled, IInv, TypeOK, Quiet, tree, git, store, user, faults
<1>3. JournalAgrees'
    BY <1>1, <1>2 DEF IInv, Quiet, JournalAgrees, Unpublished, Undoing, Restoring, Apply
<1>4. ASSUME NEW f \in File PROVE BackupSound(f)'
    BY <1>1, <1>2 DEF IInv, Quiet, BackupSound, JournalAgrees, Unpublished, Restoring, Apply,
       Clear, Held, File
<1>5. ASSUME NEW f \in Untouched PROVE FileSound(f)'
    BY <1>1, <1>2 DEF IInv, Quiet, FileSound, JournalAgrees, Unpublished, Undoing, Restoring,
       Apply, Base, Goal, Restorable, AsBase, AsGoal, Untouched, File, Verified
<1> QED BY <1>1, <1>2, <1>3, <1>4, <1>5, QuietStep

LEMMA CheckMovedStep ==
    ASSUME IInv, CheckMoved
    PROVE  IInv'
<1>1. worker' \in Worker /\ Pc = "check_moved" /\ Here \in File
      /\ \/ IsSnapshot(Here, backup[Here]) /\ Here < Files /\ Pc' = "move" /\ Here' = Here + 1
         \/ IsSnapshot(Here, backup[Here]) /\ Here = Files /\ Pc' = "install" /\ Here' = 1
         \/ ~IsSnapshot(Here, backup[Here]) /\ Pc' = "put_back" /\ Here' = Here
         \/ ~IsSnapshot(Here, backup[Here]) /\ Pc' = "undo" /\ Here' = 1
    BY GotoMoves, OnMoves, NextFileMoves, WorkerFields DEF CheckMoved, IInv, TypeOK, Step, Apply, Rollback, At, Pc, Here
<1>2. /\ Quiet /\ head' \in BOOLEAN /\ crashes' \in 0..MaxCrashes /\ errors' \in 0..MaxErrors
      /\ marker \in BOOLEAN
    BY DEF CheckMoved, IInv, TypeOK, Quiet, tree, git, store, user, faults
<1>3. JournalAgrees'
    BY <1>1, <1>2 DEF IInv, Quiet, JournalAgrees, Unpublished, Undoing, Restoring, Apply
<1>4. ASSUME NEW f \in File PROVE BackupSound(f)'
    BY <1>1, <1>2 DEF IInv, Quiet, BackupSound, JournalAgrees, Unpublished, Restoring, Apply,
       Clear, Held, File, IsSnapshot
<1>5. ASSUME NEW f \in Untouched PROVE FileSound(f)'
    BY <1>1, <1>2 DEF IInv, Quiet, FileSound, JournalAgrees, Unpublished, Undoing, Restoring,
       Apply, Base, Goal, Restorable, AsBase, AsGoal, Untouched, File, IsSnapshot
<1> QED BY <1>1, <1>2, <1>3, <1>4, <1>5, QuietStep

LEMMA FailStep ==
    ASSUME IInv, Fail
    PROVE  IInv'
<1>1. worker' \in Worker /\ Pc = "fail"
      /\ Pc' = IF journal # None \/ marker THEN "idle" ELSE "release"
    BY WorkerFields DEF Fail, IInv, TypeOK, Step, Failure, At, Pc, Idle
<1>2. /\ Quiet /\ head' \in BOOLEAN /\ crashes' \in 0..MaxCrashes /\ errors' \in 0..MaxErrors
      /\ marker \in BOOLEAN
    BY DEF Fail, IInv, TypeOK, Quiet, tree, git, store, user, faults
<1>3. JournalAgrees'
    BY <1>1, <1>2 DEF IInv, Quiet, JournalAgrees, Unpublished, Undoing, Restoring, Apply
<1>4. ASSUME NEW f \in File PROVE BackupSound(f)'
    BY <1>1, <1>2 DEF IInv, Quiet, BackupSound, JournalAgrees, Unpublished, Restoring, Apply,
       Clear, Held, File
<1>5. ASSUME NEW f \in Untouched PROVE FileSound(f)'
    BY <1>1, <1>2 DEF IInv, Quiet, FileSound, JournalAgrees, Unpublished, Undoing, Restoring,
       Apply, Base, Goal, Restorable, AsBase, AsGoal, Untouched, File
<1> QED BY <1>1, <1>2, <1>3, <1>4, <1>5, QuietStep

LEMMA FaultStep ==
    ASSUME IInv, Crash \/ FileError \/ MoveHead
    PROVE  IInv'
<1>1. Quiet
    BY DEF Crash, FileError, MoveHead, Quiet, tree, git, store, user
<1>2. crashes' \in 0..MaxCrashes /\ errors' \in 0..MaxErrors /\ head' \in BOOLEAN
    <2>1. CASE MoveHead
        BY <2>1 DEF IInv, TypeOK, MoveHead, faults
    <2>2. CASE Crash \/ FileError
        BY <2>2, DeliveryAssumption DEF IInv, TypeOK, Crash, FileError, user
    <2> QED BY <2>1, <2>2
<1>3. CASE Crash
    <2>1. worker' \in Worker /\ Pc' = "idle"
        BY <1>3, WorkerFields DEF Crash, Idle, Pc, Step
    <2> QED BY <1>1, <1>2, <2>1, OutsideStep
<1>4. CASE MoveHead
    <2>1. worker' = worker /\ worker \in Worker
        BY <1>4 DEF MoveHead, IInv, TypeOK
    <2>2. JournalAgrees'
        BY <1>1, <2>1 DEF IInv, Quiet, JournalAgrees, Pc
    <2>3. ASSUME NEW f \in File PROVE BackupSound(f)'
        BY <1>1, <2>1 DEF IInv, Quiet, BackupSound, Clear, Held, Pc, Here
    <2>4. ASSUME NEW f \in Untouched PROVE FileSound(f)'
        BY <1>1, <2>1 DEF IInv, Quiet, FileSound, AsBase, AsGoal, Base, Goal, Restorable, Pc, Here
    <2> QED BY <1>1, <1>2, <2>1, <2>2, <2>3, <2>4, QuietStep
<1>5. CASE FileError
    <2>1. /\ worker' \in Worker /\ Here' = 1
          /\ Pc' = "fail" \/ (Pc \in Apply /\ Pc' = "undo")
        BY <1>5, GotoMoves DEF FileError, IInv, TypeOK, Pc, Step, Rollback, Failure
    <2>2. CASE Pc' = "fail"
        BY <1>1, <1>2, <2>1, <2>2, OutsideStep
    <2>3. CASE Pc \in Apply /\ Pc' = "undo"
        <3>1. JournalAgrees'
            BY <1>1, <2>1, <2>3 DEF IInv, Quiet, JournalAgrees, Unpublished, Undoing, Restoring,
               Apply
        <3>2. ASSUME NEW f \in File PROVE BackupSound(f)'
            BY <1>1, <2>1, <2>3 DEF IInv, Quiet, BackupSound, JournalAgrees, Restoring, Clear, Held
        <3>3. ASSUME NEW f \in Untouched PROVE FileSound(f)'
            BY <1>1, <2>1, <2>3 DEF IInv, Quiet, FileSound, Undoing, Restoring, Apply, Base, Goal,
               Restorable, AsBase, AsGoal, Untouched, File
        <3> QED BY <1>1, <1>2, <2>1, <3>1, <3>2, <3>3, QuietStep
    <2> QED BY <2>1, <2>2, <2>3
<1> QED BY <1>3, <1>4, <1>5

-----------------------------------------------------------------------------
(* Steps on the records: the reservation, the journal and the marker.      *)
SameFiles == UNCHANGED <<kind, path, backup, live, written, edit, head, crashes>>

LEMMA ReserveStep ==
    ASSUME IInv, Reserve
    PROVE  IInv'
<1>1. worker' \in Worker /\ Pc' = "head"
    BY WorkerFields DEF Reserve, Idle, Pc, Step, Stage
<1>2. SameFiles /\ UNCHANGED <<errors, concurrent, aside, journal, marker, completed>>
    BY DEF Reserve, SameFiles, tree, git, user, faults
<1>3. TypeOK'
    BY <1>1, <1>2 DEF IInv, TypeOK, Reserve, SameFiles
<1>4. RecoveryIsBound' /\ JournalAgrees'
    BY <1>1, <1>2, DeliveryAssumption DEF IInv, RecoveryIsBound, Reserve, JournalAgrees, Unpublished, Undoing, Restoring,
       Apply, TypeOK, Digest
<1>5. ASSUME NEW f \in File PROVE BackupSound(f)'
    BY <1>1, <1>2 DEF IInv, SameFiles, BackupSound, Restoring, Clear, Held
<1>6. Untouched' = Untouched /\ TreeSound'
    BY <1>2 DEF IInv, TreeSound, SameFiles, AsBase, AsGoal, Base, Goal, Untouched, File
<1>7. ASSUME NEW f \in Untouched PROVE FileSound(f)'
    BY <1>1, <1>2 DEF IInv, SameFiles, FileSound, Undoing, Restoring, Apply, Base, Goal, Restorable
<1> QED BY <1>3, <1>4, <1>5, <1>6, <1>7 DEF IInv

LEMMA BindStep ==
    ASSUME IInv, BindDelivered \/ BindJournal
    PROVE  IInv'
<1>1. /\ worker' \in Worker
      /\ \/ Pc' = "fail" /\ reservation' = reservation
         \/ Pc = "bind_delivered" /\ Pc' = "deliver" /\ reservation' \in Digest
         \/ Pc = "bind" /\ Pc' = "write" /\ reservation' \in Digest
            /\ worker'.digest \in Nonce /\ reservation' = worker'.digest
    BY GotoMoves, DigestMoves, WorkerFields DEF BindDelivered, BindJournal, Bind, IInv, TypeOK,
       Step, Stage, Commit, Failure, At, Pc, Digest, JournalAgrees
<1>2. SameFiles /\ UNCHANGED <<errors, concurrent, aside, journal, marker, completed>>
    BY DEF BindDelivered, BindJournal, SameFiles, tree, git, user, faults
<1>3. TypeOK'
    BY <1>1, <1>2 DEF IInv, TypeOK, SameFiles
<1>4. RecoveryIsBound' /\ JournalAgrees'
    BY <1>1, <1>2 DEF IInv, RecoveryIsBound, JournalAgrees, Unpublished, Undoing, Restoring, Apply
<1>5. ASSUME NEW f \in File PROVE BackupSound(f)'
    BY <1>1, <1>2 DEF IInv, SameFiles, BackupSound, Restoring, Clear, Held
<1>6. Untouched' = Untouched /\ TreeSound'
    BY <1>2 DEF IInv, TreeSound, SameFiles, AsBase, AsGoal, Base, Goal, Untouched, File
<1>7. ASSUME NEW f \in Untouched PROVE FileSound(f)'
    BY <1>1, <1>2 DEF IInv, SameFiles, FileSound, Undoing, Restoring, Apply, Base, Goal,
       Restorable, AsBase, AsGoal
<1> QED BY <1>3, <1>4, <1>5, <1>6, <1>7 DEF IInv

LEMMA WriteJournalStep ==
    ASSUME IInv, WriteJournal \/ WriteJournalError
    PROVE  IInv'
<1>1. /\ worker' \in Worker /\ Pc = "write" /\ Pc' \in {"recheck", "fail"}
      /\ journal' = worker.digest /\ journal' \in Nonce /\ errors' \in 0..MaxErrors
    BY GotoMoves, DeliveryAssumption DEF WriteJournal, WriteJournalError, IInv, TypeOK, Step,
       Stage, Failure, At, Pc, JournalAgrees, faults
<1>2. SameFiles /\ UNCHANGED <<concurrent, aside, marker, reservation, completed>>
    BY DEF WriteJournal, WriteJournalError, SameFiles, tree, store, user, faults
<1>3. TypeOK'
    BY <1>1, <1>2 DEF IInv, TypeOK, SameFiles
<1>4. RecoveryIsBound' /\ JournalAgrees'
    BY <1>1, <1>2, DeliveryAssumption DEF IInv, RecoveryIsBound, JournalAgrees, Unpublished,
       Undoing, Restoring, Apply
<1>5. ASSUME NEW f \in File PROVE BackupSound(f)'
    BY <1>1, <1>2 DEF IInv, SameFiles, BackupSound, JournalAgrees, Unpublished, Restoring, Clear,
       Held
<1>6. Untouched' = Untouched /\ \A f \in Untouched : AsBase(f)
    BY <1>1, <1>2 DEF IInv, SameFiles, Untouched, File, FileSound
<1>7. TreeSound'
    BY <1>1, <1>2, <1>6 DEF IInv, TreeSound, SameFiles, AsBase, AsGoal, Base, Goal
<1>8. ASSUME NEW f \in Untouched PROVE FileSound(f)'
    BY <1>1, <1>2, <1>6 DEF IInv, SameFiles, FileSound, Undoing, Restoring, Apply, Base, Goal,
       Restorable, AsBase
<1> QED BY <1>3, <1>4, <1>5, <1>6, <1>7, <1>8 DEF IInv

LEMMA WriteMarkerStep ==
    ASSUME IInv, WriteMarker \/ WriteMarkerError
    PROVE  IInv'
<1>1. /\ worker' \in Worker /\ Pc = "mark" /\ Here' = 1
      /\ (Pc' = "clean" /\ marker' = TRUE) \/ (Pc' = "undo" /\ marker' \in BOOLEAN)
      /\ errors' \in 0..MaxErrors
    <2>1. worker \in Worker /\ errors \in 0..MaxErrors /\ Pc = "mark"
        BY DEF IInv, TypeOK, WriteMarker, WriteMarkerError, At, Pc
    <2>2. CASE WriteMarker
        BY <2>1, <2>2, GotoMoves DEF WriteMarker, Step, Commit, faults
    <2>3. CASE WriteMarkerError
        BY <2>1, <2>3, GotoMoves, DeliveryAssumption DEF WriteMarkerError, Step, Rollback
    <2> QED BY <2>1, <2>2, <2>3
<1>2. SameFiles /\ UNCHANGED <<concurrent, aside, journal, reservation, completed>>
    BY DEF WriteMarker, WriteMarkerError, SameFiles, tree, store, user, faults
<1>3. TypeOK'
    BY <1>1, <1>2 DEF IInv, TypeOK, SameFiles
<1>4. RecoveryIsBound' /\ JournalAgrees'
    BY <1>1, <1>2 DEF IInv, TypeOK, RecoveryIsBound, JournalAgrees, Unpublished, Undoing,
       Restoring, Apply, Digest
<1>5. ASSUME NEW f \in File PROVE BackupSound(f)'
    BY <1>1, <1>2 DEF IInv, SameFiles, BackupSound, JournalAgrees, Restoring, Clear, Held, File
<1>6. Untouched' = Untouched /\ TreeSound'
    BY <1>2 DEF IInv, TreeSound, SameFiles, AsBase, AsGoal, Base, Goal, Untouched, File
<1>7. ASSUME NEW f \in Untouched PROVE FileSound(f)'
    BY <1>1, <1>2 DEF IInv, SameFiles, FileSound, Undoing, Restoring, Apply, Base, Goal,
       Restorable, AsBase, AsGoal, Untouched, File
<1> QED BY <1>3, <1>4, <1>5, <1>6, <1>7 DEF IInv

LEMMA ForgetJournalStep ==
    ASSUME IInv, CleanJournal \/ UndoJournal
    PROVE  IInv'
<1>1. /\ worker' \in Worker /\ journal' = None
      /\ \/ Pc = "clean_journal" /\ Pc' = "clean_marker"
         \/ Pc = "undo_journal" /\ Pc' = "undo_marker"
    BY GotoMoves DEF CleanJournal, UndoJournal, ForgetJournal, IInv, TypeOK, Step, Commit,
       Rollback, At, Pc
<1>2. SameFiles /\ UNCHANGED <<errors, marker, reservation, completed>>
    BY DEF CleanJournal, UndoJournal, SameFiles, store, user, faults
<1>3. concurrent' \in [File -> Entry] /\ aside' \subseteq Bytes
    BY DEF CleanJournal, UndoJournal, ForgetJournal, IInv, TypeOK, Entry
<1>4. TypeOK'
    BY <1>1, <1>2, <1>3 DEF IInv, TypeOK, SameFiles
<1>5. RecoveryIsBound' /\ JournalAgrees'
    BY <1>1, <1>2 DEF IInv, RecoveryIsBound, JournalAgrees, Unpublished, Undoing, Restoring, Apply
<1>6. ASSUME NEW f \in File PROVE BackupSound(f)'
    BY <1>1, <1>2 DEF IInv, SameFiles, BackupSound, Restoring, Clear, Held
<1>7. /\ Untouched' = Untouched
      /\ (\A f \in Untouched : AsBase(f)) \/ (\A f \in Untouched : AsGoal(f))
    BY <1>1, <1>2 DEF IInv, SameFiles, Untouched, File, FileSound
<1>8. TreeSound'
    BY <1>1, <1>2, <1>7 DEF IInv, TreeSound, SameFiles, AsBase, AsGoal, Base, Goal
<1>9. ASSUME NEW f \in Untouched PROVE FileSound(f)'
    BY <1>1, <1>2 DEF IInv, SameFiles, FileSound, Undoing, Restoring, Apply, Base, Goal,
       Restorable, AsBase, AsGoal, Untouched, File
<1> QED BY <1>4, <1>5, <1>6, <1>7, <1>8, <1>9 DEF IInv

LEMMA RemoveMarkerStep ==
    ASSUME IInv, CleanMarker \/ CleanMarkerError \/ UndoMarker
    PROVE  IInv'
<1>1. /\ worker' \in Worker /\ marker' = FALSE /\ errors' \in 0..MaxErrors
      /\ \/ Pc = "clean_marker" /\ Pc' \in {"verify", "deliver", "fail"}
         \/ Pc = "undo_marker" /\ Pc' \in {"verify", "fail"}
    BY GotoMoves, DeliveryAssumption DEF CleanMarker, CleanMarkerError, UndoMarker, IInv, TypeOK,
       Step, Stage, Commit, Failure, At, Pc, faults
<1>2. SameFiles /\ UNCHANGED <<concurrent, aside, journal, reservation, completed>>
    BY DEF CleanMarker, CleanMarkerError, UndoMarker, SameFiles, tree, store, user, faults
<1>3. TypeOK'
    BY <1>1, <1>2 DEF IInv, TypeOK, SameFiles
<1>4. RecoveryIsBound' /\ JournalAgrees'
    BY <1>1, <1>2 DEF IInv, RecoveryIsBound, JournalAgrees, Unpublished, Undoing, Restoring, Apply
<1>5. ASSUME NEW f \in File PROVE BackupSound(f)'
    BY <1>1, <1>2 DEF IInv, SameFiles, BackupSound, JournalAgrees, Restoring, Clear, Held
<1>6. Untouched' = Untouched /\ TreeSound'
    BY <1>2 DEF IInv, TreeSound, SameFiles, AsBase, AsGoal, Base, Goal, Untouched, File
<1>7. ASSUME NEW f \in Untouched PROVE FileSound(f)'
    BY <1>1, <1>2 DEF IInv, SameFiles, FileSound, JournalAgrees, Undoing, Restoring, Apply, Base,
       Goal, Restorable, AsBase, AsGoal
<1> QED BY <1>3, <1>4, <1>5, <1>6, <1>7 DEF IInv

LEMMA OutcomeStep ==
    ASSUME IInv, Release \/ Deliver
    PROVE  IInv'
<1>1. /\ worker' \in Worker /\ Pc' = "idle" /\ journal = None /\ ~marker
      /\ reservation' \in {reservation, None} /\ completed' \in BOOLEAN
      /\ (Pc = "release" /\ completed' = completed) \/ Pc = "deliver"
    <2>1. worker' = Idle /\ Pc \in {"release", "deliver"}
        BY DEF Release, Deliver, At, Pc
    <2>2. worker' \in Worker /\ Pc' = "idle"
        BY <2>1, WorkerFields DEF Idle, Step, Pc
    <2>3. journal = None /\ ~marker
        BY <2>1 DEF IInv, JournalAgrees, Unpublished
    <2>4. /\ reservation' \in {reservation, None} /\ completed' \in BOOLEAN
          /\ (Pc = "release" /\ completed' = completed) \/ Pc = "deliver"
        BY DEF Release, Deliver, IInv, TypeOK, At, Pc, store
    <2> QED BY <2>2, <2>3, <2>4
<1>2. SameFiles /\ UNCHANGED <<errors, concurrent, aside, journal, marker>>
    BY DEF Release, Deliver, SameFiles, tree, git, user, faults
<1>3. TypeOK'
    BY <1>1, <1>2 DEF IInv, TypeOK, SameFiles
<1>4. RecoveryIsBound' /\ JournalAgrees'
    BY <1>1, <1>2 DEF RecoveryIsBound, JournalAgrees, Unpublished, Undoing, Restoring, Apply
<1>5. ASSUME NEW f \in File PROVE BackupSound(f)'
    BY <1>1, <1>2 DEF IInv, SameFiles, BackupSound, Restoring, Clear, Held
<1>6. Untouched' = Untouched /\ TreeSound'
    BY <1>1, <1>2 DEF IInv, TreeSound, SameFiles, AsBase, AsGoal, Base, Goal, Untouched, File,
       FileSound
<1>7. ASSUME NEW f \in Untouched PROVE FileSound(f)'
    BY <1>1, <1>2 DEF IInv, SameFiles, FileSound, Undoing, Restoring, Apply, Base, Goal, Restorable
<1> QED BY <1>3, <1>4, <1>5, <1>6, <1>7 DEF IInv

-----------------------------------------------------------------------------
(* Steps on the files, which only a published journal allows.              *)
SameRecords == UNCHANGED <<kind, aside, journal, marker, reservation, completed, live, written,
                           edit, head, crashes, errors>>

LEMMA FileStep ==
    ASSUME IInv, SameRecords, journal # None, worker' \in Worker, path' \in [File -> Entry],
           backup' \in [File -> Entry], concurrent' \in [File -> Entry], JournalAgrees',
           \A f \in File : BackupSound(f)', \A f \in Untouched : FileSound(f)'
    PROVE  IInv'
<1>1. Untouched' = Untouched
    BY DEF SameRecords, Untouched, File
<1>2. TypeOK' /\ RecoveryIsBound'
    BY DEF IInv, TypeOK, RecoveryIsBound, SameRecords
<1>3. TreeSound'
    BY <1>1 DEF IInv, TreeSound, SameRecords
<1> QED BY <1>1, <1>2, <1>3 DEF IInv

LEMMA MoveAwayStep ==
    ASSUME IInv, MoveAway
    PROVE  IInv'
<1>1. /\ worker' \in Worker /\ Pc = "move" /\ Here \in File
      /\ \/ path[Here] = "absent" /\ Here < Files /\ Pc' = "move" /\ Here' = Here + 1
         \/ path[Here] = "absent" /\ Here = Files /\ Pc' = "install" /\ Here' = 1
         \/ path[Here] # "absent" /\ Pc' = "check_moved" /\ Here' = Here
    BY OnMoves, NextFileMoves, WorkerFields DEF MoveAway, IInv, TypeOK, Step, Apply, At, Pc, Here
<1>2. /\ SameRecords /\ concurrent' = concurrent
      /\ path' \in [File -> Entry] /\ backup' \in [File -> Entry]
      /\ \A f \in File :
           /\ f # Here => path'[f] = path[f] /\ backup'[f] = backup[f]
           /\ f = Here => path'[f] = "absent"
           /\ f = Here => backup'[f] = IF path[f] = "absent" THEN backup[f] ELSE path[f]
    BY <1>1 DEF MoveAway, SameRecords, IInv, TypeOK, Entry, git, store, user, faults, Here
<1>3. journal # None /\ ~marker /\ JournalAgrees'
    BY <1>1, <1>2 DEF IInv, SameRecords, JournalAgrees, Unpublished, Undoing, Restoring, Apply
<1>4. ASSUME NEW f \in File PROVE BackupSound(f)'
    BY <1>1, <1>2, <1>3 DEF IInv, SameRecords, BackupSound, Restoring, Clear, Held, File
<1>5. ASSUME NEW f \in Untouched PROVE FileSound(f)'
    <2>1. f \in File /\ FileSound(f) /\ BackupSound(f)
        BY DEF Untouched, IInv
    <2> QED BY <1>1, <1>2, <1>3, <2>1 DEF SameRecords, FileSound, BackupSound, Clear, Undoing,
               Restoring, Apply, Base, Goal, Restorable, AsBase, AsGoal, File
<1> QED BY <1>1, <1>2, <1>3, <1>4, <1>5, FileStep DEF IInv, TypeOK

LEMMA PutBackStep ==
    ASSUME IInv, PutBack
    PROVE  IInv'
<1>1. worker' \in Worker /\ Pc = "put_back" /\ Here \in File /\ Pc' = "undo" /\ Here' = 1
    BY GotoMoves, WorkerFields DEF PutBack, IInv, TypeOK, Step, Rollback, At, Pc, Here
<1>2. /\ SameRecords /\ concurrent' = concurrent
      /\ path' \in [File -> Entry] /\ backup' \in [File -> Entry]
      /\ \A f \in File :
           /\ f # Here => path'[f] = path[f] /\ backup'[f] = backup[f]
           /\ f = Here => backup'[f] = "absent"
    BY <1>1 DEF PutBack, SameRecords, IInv, TypeOK, Entry, git, store, user, faults, Here
<1>3. journal # None /\ ~marker /\ JournalAgrees'
    BY <1>1, <1>2 DEF IInv, SameRecords, JournalAgrees, Unpublished, Undoing, Restoring, Apply
<1>4. ASSUME NEW f \in File PROVE BackupSound(f)'
    BY <1>1, <1>2, <1>3 DEF IInv, SameRecords, BackupSound, Restoring, Clear, Held, File
<1>5. ASSUME NEW f \in Untouched PROVE FileSound(f)'
    <2>1. f \in File /\ FileSound(f) /\ f # Here
        BY <1>1 DEF Untouched, IInv, FileSound
    <2> QED BY <1>1, <1>2, <1>3, <2>1 DEF SameRecords, FileSound, Undoing, Restoring, Apply, Base,
               Goal, Restorable, AsBase, AsGoal, File
<1> QED BY <1>1, <1>2, <1>3, <1>4, <1>5, FileStep DEF IInv, TypeOK

LEMMA InstallStep ==
    ASSUME IInv, Install
    PROVE  IInv'
<1>1. /\ worker' \in Worker /\ Pc = "install" /\ Here \in File
      /\ \/ Pc' = "install" /\ Here < Files /\ Here' = Here + 1
         \/ Pc' \in {"verify_installed", "undo"} /\ Here' = 1
    BY GotoMoves, NextFileMoves, WorkerFields DEF Install, IInv, TypeOK, Step, Apply, Rollback, At,
       Pc, Here
<1>2. /\ SameRecords /\ UNCHANGED <<backup, concurrent>> /\ path' \in [File -> Entry]
      /\ \A f \in File : path'[f] = path[f] \/
           (kind[f] # "Deleted" /\ path[f] = "absent" /\ path'[f] = "approved")
    BY <1>1 DEF Install, SameRecords, IInv, TypeOK, Entry, Bytes, git, store, user, faults
<1>3. journal # None /\ ~marker /\ JournalAgrees'
    BY <1>1, <1>2 DEF IInv, SameRecords, JournalAgrees, Unpublished, Undoing, Restoring, Apply
<1>4. ASSUME NEW f \in File PROVE BackupSound(f)'
    BY <1>1, <1>2, <1>3 DEF IInv, SameRecords, BackupSound, Restoring, Clear, Held, File
<1>5. ASSUME NEW f \in Untouched PROVE FileSound(f)'
    <2>1. f \in File /\ FileSound(f)
        BY DEF Untouched, IInv
    <2> QED BY <1>1, <1>2, <1>3, <2>1 DEF SameRecords, FileSound, Undoing, Restoring, Apply, Base,
               Goal, Restorable, AsBase, AsGoal, File
<1> QED BY <1>1, <1>2, <1>3, <1>4, <1>5, FileStep DEF IInv, TypeOK

LEMMA ClearBackupStep ==
    ASSUME IInv, CleanFile \/ DropBackup
    PROVE  IInv'
<1>1. /\ worker' \in Worker /\ Here \in File
      /\ \/ Pc = "clean" /\ Pc' = "clean" /\ Here < Files /\ Here' = Here + 1
         \/ Pc = "clean" /\ Pc' = "clean_journal" /\ Here = Files
         \/ Pc = "drop" /\ Pc' = "restore" /\ Here < Files /\ Here' = Here + 1
         \/ Pc = "drop" /\ Pc' = "undo_journal" /\ Here = Files
    BY NextFileMoves, WorkerFields DEF CleanFile, DropBackup, IInv, TypeOK, Step, Commit, Rollback,
       At, Pc, Here
<1>2. /\ SameRecords /\ UNCHANGED <<path, concurrent>> /\ backup' \in [File -> Entry]
      /\ \A f \in File : backup'[f] = IF f = Here THEN "absent" ELSE backup[f]
    BY <1>1 DEF CleanFile, DropBackup, SameRecords, IInv, TypeOK, Entry, git, store, user, faults,
       Here
<1>3. journal # None /\ JournalAgrees' /\ (Pc = "clean" => marker)
    BY <1>1, <1>2 DEF IInv, SameRecords, JournalAgrees, Unpublished, Undoing, Restoring, Apply
<1>4. ASSUME NEW f \in File PROVE BackupSound(f)'
    BY <1>1, <1>2, <1>3 DEF IInv, SameRecords, BackupSound, Restoring, Clear, Held, File
<1>5. ASSUME NEW f \in Untouched PROVE FileSound(f)'
    <2>1. f \in File /\ FileSound(f)
        BY DEF Untouched, IInv
    <2> QED BY <1>1, <1>2, <1>3, <2>1 DEF SameRecords, FileSound, Undoing, Restoring, Apply, Base,
               Goal, Restorable, AsBase, AsGoal, File
<1> QED BY <1>1, <1>2, <1>3, <1>4, <1>5, FileStep DEF IInv, TypeOK

LEMMA UndoStep ==
    ASSUME IInv, Undo
    PROVE  IInv'
<1>1. /\ worker' \in Worker /\ Pc = "undo" /\ Here \in File
      /\ \/ (path[Here] = "absent" \/ IsSnapshot(Here, path[Here]))
            /\ \/ Here < Files /\ Pc' = "undo" /\ Here' = Here + 1
               \/ Here = Files /\ Pc' = "restore" /\ Here' = 1
         \/ IsApproved(Here, path[Here]) /\ Pc' = "discard" /\ Here' = Here
         \/ /\ path[Here] # "absent" /\ ~IsSnapshot(Here, path[Here])
            /\ ~IsApproved(Here, path[Here])
            /\ (Pc' = "unlink" /\ Here' = Here) \/ Pc' = "fail"
    <2>1. worker \in Worker /\ Pc = "undo" /\ Here \in File
        BY WorkerFields DEF Undo, IInv, TypeOK, At, Pc, Here
    <2>2. {"undo", "restore", "discard", "unlink", "fail"} \subseteq Step
        BY DEF Step, Rollback, Failure
    <2>3. CASE (path[Here] = "absent" \/ IsSnapshot(Here, path[Here]))
               /\ NextFile("undo", "restore")
        BY <2>1, <2>2, <2>3, NextFileMoves
    <2>4. CASE IsApproved(Here, path[Here]) /\ On("discard")
        BY <2>1, <2>2, <2>4, OnMoves
    <2>5. CASE /\ path[Here] # "absent" /\ ~IsSnapshot(Here, path[Here])
               /\ ~IsApproved(Here, path[Here])
               /\ On("unlink") \/ Goto("fail")
        BY <2>1, <2>2, <2>5, OnMoves, GotoMoves
    <2> QED BY <2>3, <2>4, <2>5 DEF Undo, Here
<1>2. /\ SameRecords /\ UNCHANGED <<path, backup>> /\ concurrent' \in [File -> Entry]
    BY <1>1 DEF Undo, SameRecords, IInv, TypeOK, git, store, user, faults
<1>3. journal # None /\ JournalAgrees'
    BY <1>1, <1>2 DEF IInv, SameRecords, JournalAgrees, Unpublished, Undoing, Restoring, Apply
<1>4. ASSUME NEW f \in File PROVE BackupSound(f)'
    BY <1>1, <1>2, <1>3 DEF IInv, SameRecords, BackupSound, Restoring, Clear, Held, File
<1>5. ASSUME NEW f \in Untouched PROVE FileSound(f)'
    <2>1. f \in File /\ FileSound(f)
        BY DEF Untouched, IInv
    <2>2. kind[f] \in {"Modified", "Added", "Deleted"}
        BY <2>1, DeliveryAssumption DEF IInv, TypeOK
    <2> QED BY <1>1, <1>2, <1>3, <2>1, <2>2 DEF SameRecords, FileSound, Undoing, Restoring, Apply,
               Base, Goal, Restorable, AsBase, AsGoal, File, IsSnapshot, IsApproved
<1> QED BY <1>1, <1>2, <1>3, <1>4, <1>5, FileStep DEF IInv, TypeOK

LEMMA RemoveStep ==
    ASSUME IInv, Remove
    PROVE  IInv'
<1>1. /\ worker' \in Worker /\ Pc \in {"discard", "unlink"} /\ Here \in File
      /\ \/ Here < Files /\ Pc' = "undo" /\ Here' = Here + 1
         \/ Here = Files /\ Pc' = "restore" /\ Here' = 1
    BY NextFileMoves, WorkerFields DEF Remove, IInv, TypeOK, Step, Rollback, At, Pc, Here
<1>2. /\ SameRecords /\ UNCHANGED <<backup, concurrent>> /\ path' \in [File -> Entry]
      /\ \A f \in File : path'[f] = IF f = Here THEN "absent" ELSE path[f]
    BY <1>1 DEF Remove, SameRecords, IInv, TypeOK, Entry, git, store, user, faults, Here
<1>3. journal # None /\ JournalAgrees'
    BY <1>1, <1>2 DEF IInv, SameRecords, JournalAgrees, Unpublished, Undoing, Restoring, Apply
<1>4. ASSUME NEW f \in File PROVE BackupSound(f)'
    BY <1>1, <1>2, <1>3 DEF IInv, SameRecords, BackupSound, Restoring, Clear, Held, File
<1>5. ASSUME NEW f \in Untouched PROVE FileSound(f)'
    <2>1. f \in File /\ FileSound(f)
        BY DEF Untouched, IInv
    <2> QED BY <1>1, <1>2, <1>3, <2>1 DEF SameRecords, FileSound, Undoing, Restoring, Apply, Base,
               Goal, Restorable, AsBase, AsGoal, File
<1> QED BY <1>1, <1>2, <1>3, <1>4, <1>5, FileStep DEF IInv, TypeOK

LEMMA RestoreStep ==
    ASSUME IInv, Restore
    PROVE  IInv'
<1>1. /\ worker' \in Worker /\ Pc = "restore" /\ Here \in File
      /\ \/ backup[Here] = "absent"
            /\ \/ Here < Files /\ Pc' = "restore" /\ Here' = Here + 1
               \/ Here = Files /\ Pc' = "undo_journal" /\ Here' = 1
         \/ /\ IsSnapshot(Here, backup[Here]) /\ IsSnapshot(Here, path'[Here])
            /\ Pc' = "drop" /\ Here' = Here
         \/ backup[Here] # "absent" /\ Pc' = "fail"
    <2>1. worker \in Worker /\ Pc = "restore" /\ Here \in File
        BY WorkerFields DEF Restore, IInv, TypeOK, At, Pc, Here
    <2>2. {"restore", "undo_journal", "drop", "fail"} \subseteq Step
        BY DEF Step, Rollback, Failure
    <2>3. CASE backup[Here] = "absent" /\ NextFile("restore", "undo_journal")
        BY <2>1, <2>2, <2>3, NextFileMoves
    <2>4. CASE IsSnapshot(Here, backup[Here]) /\ IsSnapshot(Here, path'[Here]) /\ On("drop")
        BY <2>1, <2>2, <2>4, OnMoves
    <2>5. CASE backup[Here] # "absent" /\ Goto("fail")
        BY <2>1, <2>2, <2>5, GotoMoves
    <2> QED BY <2>3, <2>4, <2>5 DEF Restore, Here
<1>2. /\ SameRecords /\ UNCHANGED <<backup, concurrent>> /\ path' \in [File -> Entry]
      /\ \A f \in File : path'[f] = IF f = Here /\ path[f] = "absent" THEN backup[f] ELSE path[f]
    BY <1>1 DEF Restore, SameRecords, IInv, TypeOK, Entry, git, store, user, faults, Here
<1>3. journal # None /\ JournalAgrees'
    BY <1>1, <1>2 DEF IInv, SameRecords, JournalAgrees, Unpublished, Undoing, Restoring, Apply
<1>4. ASSUME NEW f \in File PROVE BackupSound(f)'
    BY <1>1, <1>2, <1>3 DEF IInv, SameRecords, BackupSound, Restoring, Clear, Held, File,
       IsSnapshot
<1>5. ASSUME NEW f \in Untouched PROVE FileSound(f)'
    <2>1. f \in File /\ FileSound(f) /\ BackupSound(f)
        BY DEF Untouched, IInv
    <2> QED BY <1>1, <1>2, <1>3, <2>1 DEF SameRecords, FileSound, BackupSound, Clear, Undoing,
               Restoring, Apply, Base, Goal, Restorable, AsBase, AsGoal, File, IsSnapshot
<1> QED BY <1>1, <1>2, <1>3, <1>4, <1>5, FileStep DEF IInv, TypeOK

(* The user writes a file, which from then on is not one left alone.       *)
LEMMA EditStep ==
    ASSUME IInv, NEW g \in File, Edit(g)
    PROVE  IInv'
<1>1. PICK v \in Version \ written :
        /\ written' = written \union {v}
        /\ path' \in {[path EXCEPT ![g] = b] : b \in {v, Base(g), "absent"}}
        /\ live' = (live \ {path[g]}) \union ({path'[g]} \intersect Version)
    BY DEF Edit
<1>2. /\ UNCHANGED <<kind, backup, concurrent, aside, journal, marker, reservation, completed,
                     head, worker, crashes, errors>>
      /\ edit' = [edit EXCEPT ![g] = IF path'[g] = "absent" THEN "deleted" ELSE "written"]
    BY DEF Edit, git, store, faults
<1>3. /\ path'[g] \in {v, Base(g), "absent"}
      /\ path' \in [File -> Entry]
      /\ \A f \in File : f # g => path'[f] = path[f]
    BY <1>1 DEF IInv, TypeOK, Entry, Bytes, Base
<1>4. written' \subseteq Version /\ live' \subseteq written'
    BY <1>1, <1>3, DeliveryAssumption DEF IInv, TypeOK, Base
<1>5. TypeOK'
    BY <1>2, <1>3, <1>4 DEF IInv, TypeOK
<1>6. /\ RecoveryIsBound' /\ JournalAgrees'
      /\ \A f \in File : BackupSound(f)'
    BY <1>2 DEF IInv, RecoveryIsBound, JournalAgrees, BackupSound, Clear, Held, Pc, Here
<1>7. Untouched' \subseteq Untouched /\ g \notin Untouched'
    BY <1>2 DEF IInv, TypeOK, Untouched
<1>8. \A f \in Untouched' : f \in File /\ f \in Untouched /\ path'[f] = path[f]
    BY <1>3, <1>7 DEF Untouched
<1>9. \A f \in Untouched' : FileSound(f)'
    BY <1>2, <1>8 DEF IInv, FileSound, AsBase, AsGoal, Base, Goal, Restorable, Pc, Here
<1>10. TreeSound'
    BY <1>2, <1>8 DEF IInv, TreeSound, AsBase, AsGoal, Base, Goal
<1> QED BY <1>5, <1>6, <1>9, <1>10 DEF IInv

-----------------------------------------------------------------------------
(* The theorems.                                                           *)
LEMMA InitIInv == Init => IInv
<1> SUFFICES ASSUME Init PROVE IInv
    OBVIOUS
<1>1. Idle \in Worker /\ Pc = "idle"
    BY WorkerFields DEF Init, Idle, Step, Pc
<1>2. TypeOK
    <2>1. path \in [File -> Entry] /\ backup \in [File -> Entry] /\ concurrent \in [File -> Entry]
        BY DEF Init, Base, Entry, Bytes
    <2>2. crashes \in 0..MaxCrashes /\ errors \in 0..MaxErrors
        BY DeliveryAssumption DEF Init
    <2>3. edit \in [File -> {"none", "written", "deleted"}] /\ worker \in Worker
        BY <1>1 DEF Init
    <2> QED BY <2>1, <2>2, <2>3 DEF Init, TypeOK
<1>3. RecoveryIsBound /\ JournalAgrees
    BY <1>1 DEF Init, RecoveryIsBound, JournalAgrees, Unpublished, Undoing, Restoring, Apply
<1>4. ASSUME NEW f \in File PROVE BackupSound(f)
    BY <1>1 DEF Init, BackupSound, Restoring, Clear, Held
<1>5. ASSUME NEW f \in Untouched PROVE FileSound(f) /\ AsBase(f)
    BY <1>1 DEF Init, FileSound, AsBase, Untouched, Undoing, Restoring, Apply
<1>6. TreeSound
    BY <1>5 DEF Init, TreeSound
<1> QED BY <1>2, <1>3, <1>4, <1>5, <1>6 DEF IInv

LEMMA NextStep ==
    ASSUME IInv, [Next]_vars
    PROVE  IInv'
<1>1. CASE Promote
    BY <1>1, CheckHeadStep, RecoverStep, VerifyDeliveredStep, BindStep, CaptureJournalStep,
       WriteJournalStep, RecheckAndStageStep, MoveAwayStep, CheckMovedStep, PutBackStep,
       InstallStep, VerifyInstalledStep, WriteMarkerStep, ClearBackupStep, ForgetJournalStep,
       RemoveMarkerStep, UndoStep, RemoveStep, RestoreStep, FailStep, OutcomeStep DEF Promote
<1>2. CASE Reserve
    BY <1>2, ReserveStep
<1>3. CASE \E f \in File : Edit(f)
    BY <1>3, EditStep
<1>4. CASE MoveHead \/ Crash \/ FileError
    BY <1>4, FaultStep
<1>5. CASE WriteJournalError \/ WriteMarkerError \/ CleanMarkerError
    BY <1>5, WriteJournalStep, WriteMarkerStep, RemoveMarkerStep
<1>6. CASE UNCHANGED vars
    <2>1. Quiet /\ UNCHANGED <<head, worker, crashes, errors>>
        BY <1>6 DEF vars, tree, git, store, user, faults, Quiet
    <2>2. JournalAgrees' /\ \A f \in File : BackupSound(f)'
        BY <2>1 DEF IInv, Quiet, JournalAgrees, BackupSound, Clear, Held, Pc, Here
    <2>3. \A f \in Untouched : FileSound(f)'
        BY <2>1 DEF IInv, Quiet, FileSound, AsBase, AsGoal, Base, Goal, Restorable, Pc, Here
    <2> QED BY <2>1, <2>2, <2>3, QuietStep DEF IInv, TypeOK
<1> QED BY <1>1, <1>2, <1>3, <1>4, <1>5, <1>6 DEF Next

(* Every state the daemon and the user can reach satisfies the invariant.  *)
LEMMA Inductive == Spec => []IInv
<1>1. Init => IInv
    BY InitIInv
<1>2. IInv /\ [Next]_vars => IInv'
    BY NextStep
<1> QED BY <1>1, <1>2, PTL DEF Spec

(* Wherever a promotion is interrupted, and however often, the reservation *)
(* is bound to the journal that is left, and until the marker is written   *)
(* every original can be brought back (candidate.rs, lifecycle.rs).        *)
THEOREM InvCorrect == Spec => []Inv
<1>1. IInv => Inv
    BY DEF IInv, Inv, RollbackPossible, FileSound, Restorable
<1> QED BY <1>1, Inductive, PTL

(* A candidate is never half delivered and forgotten: without a            *)
(* reservation, what the user left alone is all as before or all as        *)
(* approved (candidate.rs, lifecycle.rs).                                  *)
THEOREM AllOrNothingCorrect == Spec => []AllOrNothing
<1>1. IInv => AllOrNothing
    BY DeliveryAssumption DEF IInv, TypeOK, AllOrNothing, RecoveryIsBound, TreeSound, AsBase, AsGoal
<1> QED BY <1>1, Inductive, PTL

(* Completed means delivered (candidate.rs, workflows.rs).                 *)
THEOREM CompletedCorrect == Spec => []CompletedIsDelivered
<1>1. IInv => CompletedIsDelivered
    BY DEF IInv, CompletedIsDelivered, TreeSound, AsGoal
<1> QED BY <1>1, Inductive, PTL

-----------------------------------------------------------------------------
(* The bytes the user wrote, if nobody writes between a check and an act.  *)
Located(v) == v \in aside \/ \E f \in File : v \in {path[f], backup[f], concurrent[f]}

LEMMA LiveBytes ==
    ASSUME IInv, UserBytesKept, NEW v \in live
    PROVE  Located(v) /\ v \notin {"original", "approved", "absent"}
BY DeliveryAssumption DEF IInv, TypeOK, UserBytesKept, Located

SameBytes == UNCHANGED <<path, backup, concurrent, aside, live>>

LEMMA SameBytesStep ==
    ASSUME IInv, WindowSound, UserBytesKept, SameBytes,
           Pc' \notin {"put_back", "discard", "unlink"} \/ worker' = worker
    PROVE  WindowSound' /\ UserBytesKept'
BY DEF WindowSound, UserBytesKept, SameBytes, Pc, Here

LEMMA CheckMovedKeeps ==
    ASSUME IInv, UserBytesKept, CheckMoved
    PROVE  WindowSound' /\ UserBytesKept'
<1>1. SameBytes
    BY DEF CheckMoved, SameBytes, tree, user
<1>2. worker \in Worker /\ {"put_back", "undo", "move", "install"} \subseteq Step
    BY DEF IInv, TypeOK, Step, Apply, Rollback
<1>3. \/ Pc' \in {"move", "install", "undo"}
      \/ path[Here] = "absent" /\ Pc' = "put_back" /\ Here' = Here
    BY <1>2, GotoMoves, OnMoves, NextFileMoves DEF CheckMoved, Here
<1> QED BY <1>1, <1>3 DEF SameBytes, WindowSound, UserBytesKept

LEMMA UndoKeeps ==
    ASSUME IInv, UserBytesKept, Undo
    PROVE  WindowSound' /\ UserBytesKept'
<1>1. UNCHANGED <<path, backup, aside, live>>
    BY DEF Undo, user
<1>2. worker \in Worker /\ Here \in File
      /\ {"undo", "restore", "discard", "unlink", "fail"} \subseteq Step
    BY WorkerFields DEF IInv, TypeOK, Step, Rollback, Failure, Here
<1>3. CASE concurrent' = concurrent
    <2>1. \/ Pc' \in {"undo", "restore", "fail"}
          \/ path[Here] = "approved" /\ Pc' = "discard" /\ Here' = Here
          \/ concurrent'[Here] = path[Here] /\ Pc' = "unlink" /\ Here' = Here
        <3>1. CASE NextFile("undo", "restore")
            BY <1>2, <3>1, NextFileMoves
        <3>2. CASE IsApproved(Here, path[Here]) /\ On("discard")
            BY <1>2, <3>2, OnMoves DEF IsApproved
        <3>3. CASE concurrent' = [concurrent EXCEPT ![Here] = path[Here]] /\ On("unlink")
            BY <1>2, <3>3, OnMoves DEF IInv, TypeOK
        <3>4. CASE Goto("fail")
            BY <1>2, <3>4, GotoMoves
        <3> QED BY <3>1, <3>2, <3>3, <3>4 DEF Undo, Here
    <2> QED BY <1>1, <1>3, <2>1 DEF WindowSound, UserBytesKept
<1>4. CASE concurrent' # concurrent
    <2>1. /\ concurrent[Here] = "absent" /\ On("unlink")
          /\ concurrent' = [concurrent EXCEPT ![Here] = path[Here]]
        BY <1>4 DEF Undo, Here
    <2>2. WindowSound'
        BY <1>1, <1>2, <2>1, OnMoves DEF WindowSound, IInv, TypeOK
    <2>3. ASSUME NEW v \in live PROVE Located(v)'
        BY <1>1, <1>2, <2>1, <2>3, LiveBytes DEF Located, IInv, TypeOK
    <2> QED BY <1>1, <2>2, <2>3 DEF UserBytesKept, Located
<1> QED BY <1>3, <1>4

LEMMA MoveAwayKeeps ==
    ASSUME IInv, UserBytesKept, MoveAway
    PROVE  WindowSound' /\ UserBytesKept'
<1>1. worker \in Worker /\ Pc = "move" /\ Here \in File /\ {"move", "install", "check_moved"} \subseteq Step
    BY WorkerFields DEF IInv, TypeOK, MoveAway, At, Step, Apply, Pc, Here
<1>2. Pc' \in {"move", "install", "check_moved"}
    BY <1>1, OnMoves, NextFileMoves DEF MoveAway
<1>3. backup[Here] = "absent"
    BY <1>1 DEF IInv, BackupSound, Clear, File
<1>4. ASSUME NEW v \in live PROVE Located(v)'
    BY <1>1, <1>3, LiveBytes DEF MoveAway, Located, IInv, TypeOK, Here
<1> QED BY <1>2, <1>4 DEF WindowSound, UserBytesKept, Located, MoveAway, user

LEMMA PutBackKeeps ==
    ASSUME IInv, WindowSound, UserBytesKept, PutBack
    PROVE  WindowSound' /\ UserBytesKept'
<1>1. worker \in Worker /\ Pc = "put_back" /\ Here \in File /\ "undo" \in Step
    BY WorkerFields DEF IInv, TypeOK, PutBack, At, Step, Rollback, Pc, Here
<1>2. Pc' = "undo"
    BY <1>1, GotoMoves DEF PutBack
<1>3. path[Here] = "absent"
    BY <1>1 DEF WindowSound
<1>4. ASSUME NEW v \in live PROVE Located(v)'
    BY <1>1, <1>3, LiveBytes DEF PutBack, Located, IInv, TypeOK, Here
<1> QED BY <1>2, <1>4 DEF WindowSound, UserBytesKept, Located, PutBack, user

LEMMA InstallKeeps ==
    ASSUME IInv, UserBytesKept, Install
    PROVE  WindowSound' /\ UserBytesKept'
<1>1. worker \in Worker /\ Here \in File /\ {"install", "verify_installed", "undo"} \subseteq Step
    BY WorkerFields DEF IInv, TypeOK, Step, Apply, Rollback, Here
<1>2. Pc' \in {"install", "verify_installed", "undo"}
    BY <1>1, GotoMoves, NextFileMoves DEF Install
<1>3. ASSUME NEW v \in live PROVE Located(v)'
    BY <1>1, LiveBytes DEF Install, Located, IInv, TypeOK, Here
<1> QED BY <1>2, <1>3 DEF WindowSound, UserBytesKept, Located, Install, user

LEMMA ClearBackupKeeps ==
    ASSUME IInv, UserBytesKept, CleanFile \/ DropBackup
    PROVE  WindowSound' /\ UserBytesKept'
<1>1. /\ worker \in Worker /\ Here \in File /\ Pc \in {"clean", "drop"}
      /\ {"clean", "clean_journal", "restore", "undo_journal"} \subseteq Step
    BY WorkerFields DEF IInv, TypeOK, CleanFile, DropBackup, At, Step, Commit, Rollback, Pc, Here
<1>2. Pc' \in {"clean", "clean_journal", "restore", "undo_journal"}
    BY <1>1, NextFileMoves DEF CleanFile, DropBackup
<1>3. Held(Here)
    BY <1>1 DEF IInv, BackupSound, JournalAgrees, Held
<1>4. ASSUME NEW v \in live PROVE Located(v)'
    BY <1>1, <1>3, LiveBytes DEF CleanFile, DropBackup, Located, Held, IInv, TypeOK, Here
<1> QED BY <1>2, <1>4 DEF WindowSound, UserBytesKept, Located, CleanFile, DropBackup, user

LEMMA RemoveKeeps ==
    ASSUME IInv, WindowSound, UserBytesKept, Remove
    PROVE  WindowSound' /\ UserBytesKept'
<1>1. /\ worker \in Worker /\ Here \in File /\ Pc \in {"discard", "unlink"}
      /\ {"undo", "restore"} \subseteq Step
    BY WorkerFields DEF IInv, TypeOK, Remove, At, Step, Rollback, Pc, Here
<1>2. Pc' \in {"undo", "restore"}
    BY <1>1, NextFileMoves DEF Remove
<1>3. path[Here] \in {"approved", concurrent[Here]}
    BY <1>1 DEF WindowSound
<1>4. ASSUME NEW v \in live PROVE Located(v)'
    BY <1>1, <1>3, LiveBytes DEF Remove, Located, IInv, TypeOK, Here
<1> QED BY <1>2, <1>4 DEF WindowSound, UserBytesKept, Located, Remove, user

LEMMA RestoreKeeps ==
    ASSUME IInv, UserBytesKept, Restore
    PROVE  WindowSound' /\ UserBytesKept'
<1>1. /\ worker \in Worker /\ Here \in File
      /\ {"restore", "undo_journal", "drop", "fail"} \subseteq Step
    BY WorkerFields DEF IInv, TypeOK, Step, Rollback, Failure, Here
<1>2. Pc' \in {"restore", "undo_journal", "drop", "fail"}
    BY <1>1, GotoMoves, OnMoves, NextFileMoves DEF Restore
<1>3. ASSUME NEW v \in live PROVE Located(v)'
    BY <1>1, LiveBytes DEF Restore, Located, IInv, TypeOK, Here
<1> QED BY <1>2, <1>3 DEF WindowSound, UserBytesKept, Located, Restore, user

LEMMA ForgetJournalKeeps ==
    ASSUME IInv, UserBytesKept, CleanJournal \/ UndoJournal
    PROVE  WindowSound' /\ UserBytesKept'
<1>1. worker \in Worker /\ {"clean_marker", "undo_marker"} \subseteq Step
    BY DEF IInv, TypeOK, Step, Commit, Rollback
<1>2. Pc' \in {"clean_marker", "undo_marker"}
    BY <1>1, GotoMoves DEF CleanJournal, UndoJournal
<1>3. ASSUME NEW v \in live PROVE Located(v)'
    BY <1>1, LiveBytes DEF CleanJournal, UndoJournal, ForgetJournal, Located
<1> QED BY <1>2, <1>3 DEF WindowSound, UserBytesKept, Located, CleanJournal, UndoJournal, user

LEMMA EditKeeps ==
    ASSUME IInv, ~RacingEdits, WindowSound, UserBytesKept, NEW g \in File, Edit(g)
    PROVE  WindowSound' /\ UserBytesKept'
<1>1. /\ ~InWindow(g) /\ worker' = worker
      /\ UNCHANGED <<backup, concurrent, aside>>
      /\ live' = (live \ {path[g]}) \union ({path'[g]} \intersect Version)
      /\ \A f \in File : f # g => path'[f] = path[f]
    BY DEF Edit, IInv, TypeOK
<1>2. WindowSound'
    BY <1>1, WorkerFields DEF WindowSound, InWindow, Pc, Here, IInv, TypeOK
<1>3. ASSUME NEW v \in live' PROVE Located(v)'
    BY <1>1, LiveBytes DEF Located
<1> QED BY <1>2, <1>3 DEF UserBytesKept, Located

(* Every other step leaves all bytes, and is not about to act on a file.   *)
LEMMA OtherKeeps ==
    ASSUME IInv, WindowSound, UserBytesKept,
           \/ Reserve \/ CheckHead \/ Recover \/ VerifyDelivered \/ BindDelivered
           \/ CaptureJournal \/ BindJournal \/ WriteJournal \/ RecheckAndStage \/ VerifyInstalled
           \/ WriteMarker \/ CleanMarker \/ UndoMarker \/ Fail \/ Release \/ Deliver
           \/ MoveHead \/ Crash \/ FileError
           \/ WriteJournalError \/ WriteMarkerError \/ CleanMarkerError \/ UNCHANGED vars
    PROVE  WindowSound' /\ UserBytesKept'
<1> DEFINE Calm == Step \ {"put_back", "discard", "unlink"}
<1>1. worker \in Worker
    BY DEF IInv, TypeOK
<1>2. /\ \A pc \in Calm : Goto(pc) => Pc' \in Calm
      /\ \A pc \in Calm, digest \in Digest :
           worker' = [worker EXCEPT !.pc = pc, !.digest = digest] => Pc' \in Calm
      /\ worker' = Idle => Pc' \in Calm
      /\ \A pc \in Calm : \A expected :
           worker' = [Idle EXCEPT !.pc = pc, !.expected = expected] => Pc' \in Calm
      /\ \A pc \in Calm : worker' = [Idle EXCEPT !.pc = pc] => Pc' \in Calm
    <2>1. \A pc \in Calm : Goto(pc) => Pc' \in Calm
        BY <1>1, GotoMoves
    <2>2. \A pc \in Calm, digest \in Digest :
            worker' = [worker EXCEPT !.pc = pc, !.digest = digest] => Pc' \in Calm
        BY <1>1, DigestMoves
    <2>3. "idle" \in Calm
        BY DEF Step
    <2> HIDE DEF Calm
    <2>4. worker' = Idle => Pc' \in Calm
        BY <2>3 DEF Idle, Pc
    <2>5. ASSUME NEW pc \in Calm, NEW expected,
                 worker' = [Idle EXCEPT !.pc = pc, !.expected = expected]
          PROVE  Pc' = pc
        BY <2>5 DEF Idle, Pc
    <2>6. ASSUME NEW pc \in Calm, worker' = [Idle EXCEPT !.pc = pc]
          PROVE  Pc' = pc
        BY <2>6 DEF Idle, Pc
    <2> QED BY <2>1, <2>2, <2>4, <2>5, <2>6
<1>3. {"idle", "head", "recover", "verify", "bind_delivered", "capture", "bind", "write", "recheck",
       "move", "mark", "undo", "clean", "clean_marker", "deliver", "fail", "release"} \subseteq Calm
    BY DEF Step, Stage, Apply, Commit, Rollback, Failure
<1>4. Calm \intersect {"put_back", "discard", "unlink"} = {}
    OBVIOUS
<1> HIDE DEF Calm
<1>5. CASE Reserve \/ CheckHead \/ Recover \/ VerifyDelivered \/ RecheckAndStage
    BY <1>2, <1>3, <1>4, <1>5, SameBytesStep DEF Reserve, CheckHead, Recover, VerifyDelivered,
       RecheckAndStage, SameBytes, tree, user
<1>6. CASE CaptureJournal
    BY <1>2, <1>3, <1>4, <1>6, SameBytesStep DEF CaptureJournal, Digest, SameBytes, tree, user
<1>7. CASE BindDelivered \/ BindJournal
    <2>1. Pc' \in Calm
        BY <1>1, <1>2, <1>3, <1>7, WorkerFields DEF BindDelivered, BindJournal, Bind, IInv,
           JournalAgrees, Digest, At, Pc
    <2> QED BY <1>4, <1>7, <2>1, SameBytesStep DEF BindDelivered, BindJournal, SameBytes, tree, user
<1>8. CASE WriteJournal \/ VerifyInstalled \/ WriteMarker \/ CleanMarker \/ UndoMarker
    BY <1>2, <1>3, <1>4, <1>8, SameBytesStep DEF WriteJournal, VerifyInstalled, WriteMarker,
       CleanMarker, UndoMarker, SameBytes, tree, user
<1>9. CASE Fail \/ Release \/ Deliver \/ Crash
    BY <1>2, <1>3, <1>4, <1>9, SameBytesStep DEF Fail, Release, Deliver, Crash, SameBytes, tree, user
<1>10. CASE FileError \/ WriteJournalError \/ WriteMarkerError \/ CleanMarkerError
    BY <1>2, <1>3, <1>4, <1>10, SameBytesStep DEF FileError, WriteJournalError, WriteMarkerError,
       CleanMarkerError, SameBytes, tree, user
<1>11. CASE MoveHead \/ UNCHANGED vars
    BY <1>11, SameBytesStep DEF MoveHead, vars, SameBytes, tree, user
<1> QED BY <1>5, <1>6, <1>7, <1>8, <1>9, <1>10, <1>11

LEMMA KeptStep ==
    ASSUME IInv, ~RacingEdits, WindowSound, UserBytesKept, [Next]_vars
    PROVE  WindowSound' /\ UserBytesKept'
<1>1. CASE Promote
    BY <1>1, OtherKeeps, CheckMovedKeeps, UndoKeeps, MoveAwayKeeps, PutBackKeeps, InstallKeeps,
       ClearBackupKeeps, RemoveKeeps, RestoreKeeps, ForgetJournalKeeps DEF Promote
<1>2. CASE \E f \in File : Edit(f)
    BY <1>2, EditKeeps
<1> QED BY <1>1, <1>2, OtherKeeps DEF Next

(* If the user does not write between a check of a file and the act on it, *)
(* no bytes the user wrote are lost to a promotion, its rollback or its    *)
(* recovery (candidate.rs).                                                *)
THEOREM UserBytesCorrect ==
    ASSUME ~RacingEdits
    PROVE  Spec => []UserBytesKept
<1> DEFINE Kept == WindowSound /\ UserBytesKept
<1>1. Init => Kept
    BY DEF Init, Idle, WindowSound, Pc, UserBytesKept
<1>2. IInv /\ Kept /\ [Next]_vars => Kept'
    BY KeptStep
<1>3. Kept => UserBytesKept
    OBVIOUS
<1> QED BY <1>1, <1>2, <1>3, Inductive, PTL DEF Spec
=============================================================================
