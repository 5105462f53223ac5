------------------------------- MODULE Ledger -------------------------------
(***************************************************************************)
(* The audit ledger: the hash chain of workflow-ledger, the rows of it in  *)
(* the store (ledger.rs), record of audit.rs, verify_store and the history *)
(* query of history.rs.                                                    *)
(*                                                                         *)
(* The rows outlive the daemon.  An event and the checkpoint over it are   *)
(* two transactions of one request, which holds the store; the daemon can  *)
(* stop between them, and at every start it verifies what it finds.  While *)
(* it is down the file may be damaged, MaxDamage times.  A hash is what it *)
(* is a hash of, so that two hashes are equal only if that is; a signature *)
(* is the pair it signs.                                                   *)
(***************************************************************************)
EXTENDS Naturals, SequencesExt, Retain

CONSTANTS
    None,
    Project,
    Reading,     \* the project whose history is read
    Interval,    \* entries from one checkpoint to the next: 100 in the code
    PageSize,    \* entries of a page
    MaxEntries,  \* recorded in a behaviour: a bound
    MaxDamage,   \* rows lost or changed: a bound
    MaxStops     \* of the daemon: a bound

ASSUME LedgerAssumption ==
    /\ Reading \in Project
    /\ None \notin Nat
    /\ {Interval, PageSize} \subseteq Nat \ {0}
    /\ {MaxEntries, MaxDamage, MaxStops} \subseteq Nat

VARIABLES
    rows,         \* ledger_entries, in the order of their sequence
    checkpoints,  \* ledger_checkpoints: what each of them signs
    daemon,       \* "down", "up", or "refused" by its verification
    unsigned,     \* the entry a request appended and has not signed yet
    reader,       \* who reads the history: the last sequence seen, what it got
    written,      \* history: the events recorded, those lost at a start left out
    damage,       \* rows lost or changed
    stops

ledger == <<rows, checkpoints, daemon, unsigned, reader, written, damage, stops>>

Event(project, revision, id) == [project |-> project, revision |-> revision, id |-> id]
Entry(sequence, previous, event) ==
    [sequence |-> sequence, previous |-> previous, event |-> event,
     hash |-> <<sequence, previous, event>>]

EventsOf(entries) == [i \in DOMAIN entries |-> entries[i].event]

\* LedgerChain::verify: sequence, previous hash and hash of every entry.
Intact(entries) ==
    \A i \in DOMAIN entries :
      entries[i] = Entry(i - 1, IF i = 1 THEN None ELSE entries[i - 1].hash, entries[i].event)

\* Checkpoint::verify, against the entry at its place.
Signed(entries) ==
    \A c \in checkpoints :
      /\ c.sequence < Len(entries)
      /\ LET e == entries[c.sequence + 1] IN
         e.sequence = c.sequence /\ e.hash = c.head

\* verify_store.
Verified == Intact(rows) /\ Signed(rows)

-----------------------------------------------------------------------------
\* append_ledger_event, in a request that holds the store; every Interval-th
\* entry is then signed.
NextEntry(event) ==
    IF rows = <<>> THEN Entry(0, None, event)
    ELSE Entry(Last(rows).sequence + 1, Last(rows).hash, event)

Checkpoint(entry) == [sequence |-> entry.sequence, head |-> entry.hash]

FaultyRecord(project, revision) ==
    LET entry == NextEntry(Event(project, revision, Len(written))) IN
    /\ daemon = "up" /\ unsigned = None
    /\ Len(written) < MaxEntries
    /\ IF entry.sequence % Interval = 0 /\ Checkpoint(entry) \notin checkpoints
       THEN /\ checkpoints' = {c \in checkpoints : c.sequence # entry.sequence}
                              \union {Checkpoint(entry)}
            /\ UNCHANGED <<rows, written>>
       ELSE /\ rows' = Append(rows, entry)
            /\ written' = Append(written, entry.event)
            /\ UNCHANGED checkpoints
    /\ UNCHANGED <<daemon, unsigned, reader, damage, stops>>
Record(project, revision) ==
    LET entry == NextEntry(Event(project, revision, Len(written))) IN
    /\ daemon = "up" /\ unsigned = None
    /\ Len(written) < MaxEntries
    /\ rows' = Append(rows, entry)
    /\ written' = Append(written, entry.event)
    /\ unsigned' = IF entry.sequence % Interval = 0 THEN entry ELSE None
    /\ UNCHANGED <<checkpoints, daemon, reader, damage, stops>>

\* save_checkpoint: a checkpoint that is there is replaced.
Sign ==
    /\ daemon = "up" /\ unsigned # None
    /\ checkpoints' = {c \in checkpoints : c.sequence # unsigned.sequence}
                      \union {Checkpoint(unsigned)}
    /\ unsigned' = None
    /\ UNCHANGED <<rows, daemon, reader, written, damage, stops>>

\* The daemon stops where it is; the transactions it committed stay.
Stop ==
    /\ daemon = "up" /\ stops < MaxStops
    /\ daemon' = "down"
    /\ unsigned' = None
    /\ stops' = stops + 1
    /\ UNCHANGED <<rows, checkpoints, reader, written, damage>>

Start ==
    /\ daemon = "down"
    /\ daemon' = IF Verified THEN "up" ELSE "refused"
    /\ written' = IF Verified THEN EventsOf(rows) ELSE written
    /\ UNCHANGED <<rows, checkpoints, unsigned, reader, damage, stops>>

\* A row is lost, or an event or a checkpoint reads differently.
Damage ==
    /\ daemon = "down" /\ damage < MaxDamage
    /\ damage' = damage + 1
    /\ \/ \E i \in DOMAIN rows : rows' = RemoveAt(rows, i) /\ UNCHANGED checkpoints
       \/ \E i \in DOMAIN rows, p \in Project :
            /\ rows[i].event.project # p
            /\ rows' = [rows EXCEPT ![i].event.project = p]
            /\ UNCHANGED checkpoints
       \/ \E c \in checkpoints :
            /\ checkpoints' = checkpoints \ {c}
            /\ UNCHANGED rows
    /\ UNCHANGED <<daemon, unsigned, reader, written, stops>>

-----------------------------------------------------------------------------
\* query: the entries of one project after a sequence, a page of them, and
\* where the next page starts if there is one.
Matching(after) ==
    Retained(rows, {e \in ToSet(rows) :
                      e.event.project = Reading /\ (after = None \/ e.sequence > after)})

FaultyPage(after) ==
    LET matching == Matching(after)
        entries  == SubSeq(matching, 1, Min({PageSize, Len(matching)}))
    IN [entries |-> entries,
        next |-> IF Len(matching) > PageSize THEN matching[PageSize + 1].sequence ELSE None]
Page(after) ==
    LET matching == Matching(after)
        entries  == SubSeq(matching, 1, Min({PageSize, Len(matching)}))
    IN [entries |-> entries,
        next |-> IF Len(matching) > PageSize THEN Last(entries).sequence ELSE None]

\* HistoryOperation::Query; the reader asks until no page is left.
Query ==
    /\ daemon = "up" /\ unsigned = None /\ ~reader.done
    /\ LET page == Page(reader.after) IN
       reader' = [after |-> page.next, got |-> reader.got \o page.entries,
                  done |-> page.next = None]
    /\ UNCHANGED <<rows, checkpoints, daemon, unsigned, written, damage, stops>>

LedgerInit ==
    /\ rows = <<>> /\ checkpoints = {} /\ daemon = "down" /\ unsigned = None
    /\ reader = [after |-> None, got |-> <<>>, done |-> FALSE]
    /\ written = <<>> /\ damage = 0 /\ stops = 0

-----------------------------------------------------------------------------
LedgerTypeOK ==
    /\ \A i \in DOMAIN rows : rows[i].sequence \in 0..(MaxEntries - 1)
    /\ \A c \in checkpoints : c.sequence % Interval = 0 /\ c.sequence < MaxEntries
    /\ daemon \in {"down", "up", "refused"}
    /\ unsigned # None => unsigned = Last(rows)
    /\ damage \in 0..MaxDamage /\ stops \in 0..MaxStops

\* record, in two transactions, and verify_store: the daemon starts exactly with
\* what was recorded, except for entries at the end that no checkpoint that is
\* left covers; no stop, in whichever transaction, makes it refuse.
StartsWithWhatWasWritten ==
    [][ daemon = "down" =>
          /\ daemon' = "up" => /\ IsPrefix(EventsOf(rows), written)
                              /\ \A c \in checkpoints : c.sequence < Len(rows)
          /\ daemon' = "refused" => damage > 0 ]_ledger

\* query: page after page a reader of an undamaged ledger gets all entries of
\* its project, each once and in order, those appended meanwhile too.
PagesAreComplete ==
    [][ ~reader.done /\ reader'.done /\ damage = 0 => reader'.got = Matching(None) ]_ledger
=============================================================================
