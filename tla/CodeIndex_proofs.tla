--------------------------- MODULE CodeIndex_proofs ---------------------------
(***************************************************************************)
(* Proofs about the code index, for all checkouts, paths, contents and     *)
(* changes of the user.  What the tables know of a file is one invariant,   *)
(* what the request that is served has read so far another; the two say    *)
(* together when an answer is of the files that are there.                 *)
(***************************************************************************)
EXTENDS CodeIndex, SequenceTheorems, TLAPS

-----------------------------------------------------------------------------
(* Paths and scopes.                                                       *)
Tracked(p) == ~InRoot(p) /\ ~Nested(p)

LEMMA OneOrMore ==
    ASSUME NEW n \in Nat, n > 0
    PROVE  n = 1 \/ n > 1
OBVIOUS

LEMMA PathFields ==
    ASSUME NEW p \in Path
    PROVE  /\ p \in Seq(Name) /\ Len(p) \in Nat /\ Len(p) > 0
           /\ Len(p) = 1 \/ Len(p) > 1
           /\ ScopeOf(p) \in Scopes
           /\ Len(p) > 1 => /\ Front(p) \in Seq(Name) /\ Len(Front(p)) = Len(p) - 1
                            /\ \A i \in 1..(Len(p) - 1) : Front(p)[i] = p[i]
<1>1. p \in Seq(Name) /\ p # <<>>
    BY ConstantsAssumption
<1>2. Len(p) \in Nat /\ Len(p) > 0
    BY <1>1, EmptySeq
<1>3. \A i \in 1..(Len(p) - 1) : p[i] \in Name
    BY <1>1, <1>2, ElementOfSeq
<1>4. ASSUME Len(p) > 1
      PROVE  /\ Front(p) \in Seq(Name) /\ Len(Front(p)) = Len(p) - 1
             /\ \A i \in 1..(Len(p) - 1) : Front(p)[i] = p[i]
    BY <1>2, <1>3, <1>4, SubSeqProperties DEF Front
<1>5. Len(p) = 1 \/ Len(p) > 1
    BY <1>2, OneOrMore
<1> QED BY <1>1, <1>2, <1>4, <1>5 DEF Scopes

LEMMA LoweredFields ==
    ASSUME NEW p \in Seq(Name)
    PROVE  /\ Lowered(p) \in Seq(Name) /\ Len(Lowered(p)) = Len(p) /\ Len(p) \in Nat
           /\ \A i \in 1..Len(p) : Lowered(p)[i] = Lower[p[i]]
<1>1. Len(p) \in Nat /\ DOMAIN p = 1..Len(p) /\ \A i \in 1..Len(p) : p[i] \in Name
    BY ElementOfSeq, LenProperties
<1>2. \A i \in 1..Len(p) : Lower[p[i]] \in Name
    BY <1>1, ConstantsAssumption
<1>3. Lowered(p) = [i \in 1..Len(p) |-> Lower[p[i]]]
    BY <1>1 DEF Lowered
<1>4. Lowered(p) \in Seq(Name) /\ Len(Lowered(p)) = Len(p)
    BY <1>1, <1>2, <1>3, IsASeq
<1> QED BY <1>1, <1>3, <1>4

LEMMA PrefixAgrees ==
    ASSUME NEW u \in Seq(Name), NEW v \in Seq(Name)
    PROVE  IsPrefix(u, v) <=> Len(u) <= Len(v) /\ \A i \in 1..Len(u) : u[i] = v[i]
<1>1. /\ Len(u) \in Nat /\ Len(v) \in Nat /\ SubSeq(u, 1, Len(u)) = u
      /\ \A i \in 1..Len(u) : u[i] \in Name
      /\ \A i \in 1..Len(v) : v[i] \in Name
    BY ElementOfSeq, LenProperties, SubSeqFull
<1>2. ASSUME Len(u) <= Len(v)
      PROVE  /\ SubSeq(v, 1, Len(u)) \in Seq(Name) /\ Len(SubSeq(v, 1, Len(u))) = Len(u)
             /\ \A i \in 1..Len(u) : SubSeq(v, 1, Len(u))[i] = v[i]
    <2>1. \A i \in 1..Len(u) : v[i] \in Name
        BY <1>1, <1>2
    <2> QED BY <1>1, <2>1, SubSeqProperties
<1>3. ASSUME Len(u) <= Len(v)
      PROVE  u = SubSeq(v, 1, Len(u)) <=> \A i \in 1..Len(u) : u[i] = v[i]
    BY <1>1, <1>2, <1>3, SeqEqual
<1> QED BY <1>1, <1>3 DEF IsPrefix

(* The rows that are deleted with a partition are those of its own files,  *)
(* and others only of files below a directory with source files, or below  *)
(* one that differs from it in case.                                       *)
LEMMA OwnScopeCleared ==
    ASSUME NEW p \in Path, ~InRoot(p)
    PROVE  p \in Cleared(ScopeOf(p))
<1>1. CASE Len(p) = 1
    <2>1. ScopeOf(p) = <<"root">>
        BY <1>1 DEF ScopeOf
    <2> QED BY <1>1, <2>1 DEF Cleared
<1>2. CASE Len(p) > 1
    <2> DEFINE s == Front(p)
    <2>1. ScopeOf(p) = s /\ ScopeOf(p) # <<"root">>
        BY <1>2, PathFields DEF InRoot, ScopeOf
    <2>2. /\ p \in Seq(Name) /\ s \in Seq(Name) /\ Len(p) \in Nat /\ Len(s) = Len(p) - 1
          /\ \A i \in 1..Len(s) : s[i] = p[i]
        BY <1>2, PathFields
    <2> HIDE DEF s
    <2>3. /\ Lowered(s) \in Seq(Name) /\ Lowered(p) \in Seq(Name)
          /\ Len(Lowered(s)) = Len(p) - 1 /\ Len(Lowered(p)) = Len(p)
          /\ \A i \in 1..(Len(p) - 1) : Lowered(s)[i] = Lowered(p)[i]
        BY <2>2, LoweredFields
    <2>4. IsPrefix(Lowered(s), Lowered(p)) /\ Lowered(s) # Lowered(p)
        BY <2>2, <2>3, PrefixAgrees
    <2> QED BY <2>1, <2>4 DEF Cleared, IsStrictPrefix
<1>3. Len(p) = 1 \/ Len(p) > 1
    BY PathFields
<1> QED BY <1>1, <1>2, <1>3

LEMMA OtherScopeCleared ==
    ASSUME NEW p \in Path, NEW q \in Path, Tracked(p), p \in Cleared(ScopeOf(q))
    PROVE  ScopeOf(q) = ScopeOf(p)
<1>1. CASE ScopeOf(q) = <<"root">>
    BY <1>1 DEF Cleared, ScopeOf
<1>2. CASE ScopeOf(q) # <<"root">>
    <2> DEFINE s == Front(q)
               t == Front(p)
    <2>1. Len(q) > 1 /\ ScopeOf(q) = s /\ IsStrictPrefix(Lowered(s), Lowered(p))
        BY <1>2, PathFields DEF Cleared, ScopeOf
    <2>2. s \in Seq(Name) /\ Len(s) \in Nat \ {0} /\ p \in Seq(Name) /\ Len(p) \in Nat
        BY <2>1, PathFields
    <2> HIDE DEF s
    <2>3. /\ Lowered(s) \in Seq(Name) /\ Len(Lowered(s)) = Len(s)
          /\ Lowered(p) \in Seq(Name) /\ Len(Lowered(p)) = Len(p)
          /\ \A i \in 1..Len(p) : Lowered(p)[i] = Lower[p[i]]
        BY <2>2, LoweredFields
    <2>4. /\ Len(s) <= Len(p) /\ Lowered(s) # Lowered(p)
          /\ \A i \in 1..Len(s) : Lowered(s)[i] = Lowered(p)[i]
        BY <2>1, <2>3, PrefixAgrees DEF IsStrictPrefix
    <2>5. Len(s) # Len(p)
        BY <2>3, <2>4, SeqEqual
    <2>6. Len(p) > 1 /\ ScopeOf(p) = t /\ Len(s) <= Len(p) - 1
        BY <2>2, <2>4, <2>5 DEF ScopeOf
    <2>7. t \in Seq(Name) /\ Len(t) = Len(p) - 1 /\ \A i \in 1..(Len(p) - 1) : t[i] = p[i]
        BY <2>6, PathFields
    <2> HIDE DEF t
    <2>8. /\ Lowered(t) \in Seq(Name) /\ Len(Lowered(t)) = Len(p) - 1
          /\ \A i \in 1..(Len(p) - 1) : Lowered(t)[i] = Lowered(p)[i]
        <3>1. /\ Lowered(t) \in Seq(Name) /\ Len(Lowered(t)) = Len(p) - 1
              /\ \A i \in 1..(Len(p) - 1) : Lowered(t)[i] = Lower[t[i]]
            BY <2>7, LoweredFields
        <3>2. \A i \in 1..(Len(p) - 1) : i \in 1..Len(p)
            BY <2>2
        <3> QED BY <2>3, <2>7, <3>1, <3>2
    <2>9. \A i \in 1..Len(s) : Lowered(s)[i] = Lowered(t)[i]
        BY <2>2, <2>4, <2>6, <2>8
    <2>10. IsPrefix(Lowered(s), Lowered(t))
        BY <2>3, <2>6, <2>8, <2>9, PrefixAgrees
    <2> QED BY <1>2, <2>1, <2>6, <2>10 DEF Tracked, Nested
<1> QED BY <1>1, <1>2

-----------------------------------------------------------------------------
(* The inductive invariant.                                                *)
Checkouts == [Path -> Files]
Prints == (0..MaxChanges) \X [Path -> FileStatus]
Requests ==
    [step : {"idle", "inventory", "parse", "save", "search", "reuse"},
     repo : Repo \union {None}, before : Prints \union {None},
     inventory : Checkouts \union {<<>>}, affected : SUBSET Scopes, todo : SUBSET Scopes,
     quiet : BOOLEAN]

Typed ==
    /\ TypeOK
    /\ request \in Requests
    /\ request.step = "idle" => request = Idle
    /\ request.step # "idle" => request.repo \in Repo
    /\ saved # None => saved \in [repo : Versioned, fingerprint : Prints]

(* The graph is that of these contents, of all files it keeps track of; and *)
(* the manifest has a row for each file that is tracked and exists.        *)
IsOf(contents) ==
    \A p \in Path : ~InRoot(p) /\ (contents[p] # None \/ ~Nested(p)) =>
      Nodes(p) = IF contents[p] = None THEN {} ELSE {contents[p]}
Lists(files) == \A p \in Path : Tracked(p) /\ files[p] # None => manifest[p] = files[p]

TablesSound ==
    /\ ManifestIsIndexed
    /\ \A p \in Path : Tracked(p) /\ manifest[p] = None => Nodes(p) = {}

(* A commit that is made later has another number than the one in a        *)
(* fingerprint; as long as it is the same one, and nothing differed from   *)
(* it, the batch that was made of it is of that commit.                    *)
OfCommit(print, r) ==
    /\ print[1] = head[r].commit
    /\ \A p \in Path : print[2][p] = "same"
SavedSound ==
    /\ \A r \in Repo : head[r].commit <= changes
    /\ saved # None =>
         /\ batch \in [repo : {saved.repo}, quiet : BOOLEAN, saved : BOOLEAN]
         /\ saved.fingerprint[1] <= changes
         /\ batch.saved /\ batch.quiet /\ OfCommit(saved.fingerprint, saved.repo) =>
              IsOf(head[saved.repo].contents)

(* What the request holds; of the files only as long as nobody edits them. *)
Awaited == request.step \in {"inventory", "parse"} /\ request.quiet
RequestSound ==
    /\ request.step # "idle" /\ saved # None => saved.repo = request.repo
    /\ request.step # "idle" /\ request.repo \in Versioned => request.before # None
    /\ request.before # None => request.before[1] <= changes
    /\ Awaited => request.before = Fingerprint(request.repo)
    /\ request.step = "parse" =>
         /\ request.inventory \in Checkouts
         /\ request.affected = Affected(request.inventory)
         /\ request.quiet => request.inventory = tree[request.repo]
    /\ request.step = "save" =>
         /\ batch \in [repo : {request.repo}, quiet : BOOLEAN, saved : {FALSE}]
         /\ batch.quiet /\ request.before # None /\ OfCommit(request.before, request.repo) =>
              IsOf(head[request.repo].contents)
    /\ request.step \in {"save", "search"} /\ request.quiet =>
         IsOf(Contents(tree[request.repo])) /\ Lists(tree[request.repo])
    /\ request.step = "reuse" =>
         /\ saved # None
         /\ request.quiet => saved.fingerprint = Fingerprint(request.repo)

IInv == Typed /\ TablesSound /\ SavedSound /\ RequestSound

-----------------------------------------------------------------------------
(* Fingerprints.                                                           *)
LEMMA FileFields ==
    ASSUME NEW f \in Files, f # None
    PROVE  f.content \in Content /\ f.content # None
BY NoneAssumption DEF Files, File

LEMMA ContentsType ==
    ASSUME NEW t \in Checkouts
    PROVE  /\ Contents(t) \in [Path -> Content \union {None}]
           /\ \A p \in Path : Contents(t)[p] = None <=> t[p] = None
           /\ \A p \in Path : t[p] # None => Contents(t)[p] = t[p].content
BY FileFields DEF Contents, Checkouts

LEMMA StatusType ==
    ASSUME NEW r \in Repo
    PROVE  /\ Status(r) \in [Path -> FileStatus]
           /\ \A p \in Path :
                Status(r)[p] = "same" <=> Contents(tree[r])[p] = head[r].contents[p]
<1> DEFINE now == Contents(tree[r])
           was == head[r].contents
           Of(p) == IF now[p] = was[p] THEN "same"
                    ELSE CASE now[p] = None -> "deleted"
                           [] was[p] = None -> "untracked"
                           [] OTHER -> "modified"
<1>1. Status(r) = [p \in Path |-> Of(p)]
    BY DEF Status
<1>2. \A p \in Path : Of(p) \in FileStatus /\ (Of(p) = "same" <=> now[p] = was[p])
    <2> SUFFICES ASSUME NEW p \in Path
                 PROVE  Of(p) \in FileStatus /\ (Of(p) = "same" <=> now[p] = was[p])
        OBVIOUS
    <2> HIDE DEF now, was
    <2>1. CASE now[p] = was[p]
        BY <2>1 DEF FileStatus
    <2>2. CASE now[p] # was[p] /\ now[p] = None
        BY <2>2 DEF FileStatus
    <2>3. CASE now[p] # was[p] /\ now[p] # None /\ was[p] = None
        BY <2>3 DEF FileStatus
    <2>4. CASE now[p] # was[p] /\ now[p] # None /\ was[p] # None
        BY <2>4 DEF FileStatus
    <2> QED BY <2>1, <2>2, <2>3, <2>4
<1> HIDE DEF Of
<1> QED BY <1>1, <1>2

LEMMA FingerprintType ==
    ASSUME Typed, NEW r \in Repo
    PROVE  IF r \in Versioned
           THEN /\ Fingerprint(r) = <<head[r].commit, Status(r)>>
                /\ Fingerprint(r) \in Prints /\ Fingerprint(r) # None
           ELSE Fingerprint(r) = None
<1>1. head[r].commit \in 0..MaxChanges
    BY DEF Typed, TypeOK
<1>2. <<head[r].commit, Status(r)>> \in Prints
    BY <1>1, StatusType DEF Prints
<1>3. Prints \subseteq Nat \X [Path -> FileStatus]
    BY ConstantsAssumption DEF Prints
<1> QED BY <1>2, <1>3, NoneAssumption DEF Fingerprint

(* What HasTheFiles says.                                                  *)
LEMMA HasTheFilesIsOf ==
    ASSUME Typed, request.repo \in Repo
    PROVE  HasTheFiles <=> IsOf(Contents(tree[request.repo]))
<1> DEFINE t == tree[request.repo]
<1>1. t \in Checkouts
    BY DEF Typed, TypeOK, Checkouts
<1>2. \A p \in Path : Current(p) = IF Contents(t)[p] = None THEN {} ELSE {Contents(t)[p]}
    BY <1>1, ContentsType DEF Current
<1> QED BY <1>2 DEF HasTheFiles, IsOf

(* When nothing differs from the commit, the files are those of it.        *)
LEMMA SameAsHead ==
    ASSUME Typed, NEW r \in Repo, \A p \in Path : Status(r)[p] = "same"
    PROVE  Contents(tree[r]) = head[r].contents
<1>1. tree[r] \in Checkouts /\ head[r].contents \in [Path -> Content \union {None}]
    BY DEF Typed, TypeOK, Checkouts
<1> QED BY <1>1, ContentsType, StatusType

-----------------------------------------------------------------------------
(* Steps that change nothing but the request.                              *)
LEMMA SameTables ==
    ASSUME IInv, UNCHANGED <<tree, head, changes, Tables>>, request' \in Requests,
           request'.todo \subseteq request'.affected,
           request'.step = "idle" => request' = Idle,
           request'.step # "idle" => request'.repo \in Repo
    PROVE  Typed' /\ TablesSound' /\ SavedSound'
<1>1. /\ tree' = tree /\ head' = head /\ changes' = changes /\ manifest' = manifest
      /\ graph' = graph /\ saved' = saved /\ batch' = batch
    BY DEF Tables
<1>2. \A p \in Path : Nodes(p)' = Nodes(p)
    BY <1>1 DEF Nodes
<1>3. Typed'
    <2>1. TypeOK'
        BY <1>1 DEF IInv, Typed, TypeOK, Requests
    <2> QED BY <1>1, <2>1 DEF IInv, Typed
<1>4. TablesSound'
    BY <1>1, <1>2 DEF IInv, TablesSound, ManifestIsIndexed
<1>5. SavedSound'
    <2>1. \A c : IsOf(c)' <=> IsOf(c)
        BY <1>2 DEF IsOf
    <2> QED BY <1>1, <2>1 DEF IInv, SavedSound, OfCommit
<1> QED BY <1>3, <1>4, <1>5

LEMMA IdleStep ==
    ASSUME IInv, UNCHANGED <<tree, head, changes, Tables>>, request' = Idle
    PROVE  IInv'
<1>1. /\ Idle \in Requests /\ Idle.step = "idle" /\ Idle.todo \subseteq Idle.affected
    BY DEF Idle, Requests
<1>2. Typed' /\ TablesSound' /\ SavedSound'
    BY <1>1, SameTables
<1>3. RequestSound'
    BY <1>1 DEF RequestSound, Awaited, Idle
<1> QED BY <1>2, <1>3 DEF IInv

LEMMA BeginStep ==
    ASSUME IInv, NEW r \in Repo, Begin(r)
    PROVE  IInv'
<1> DEFINE known == IF Reset(r) THEN None ELSE saved
           reusable == /\ known # None /\ Fingerprint(r) # None
                       /\ known.fingerprint = Fingerprint(r)
           step == IF reusable THEN "reuse" ELSE "inventory"
<1>1. /\ request' = [Idle EXCEPT !.step = step, !.repo = r, !.before = Fingerprint(r)]
      /\ saved' = known
      /\ tree' = tree /\ head' = head /\ changes' = changes
    BY DEF Begin
<1>2. step \in {"reuse", "inventory"} /\ Fingerprint(r) \in Prints \union {None}
    BY FingerprintType DEF IInv
<1>3. /\ request' \in Requests /\ request'.step = step /\ request'.repo = r
      /\ request'.todo = {} /\ request'.affected = {} /\ request'.before = Fingerprint(r)
    <2> HIDE DEF step
    <2> QED BY <1>1, <1>2 DEF Idle, Requests
<1>4. RequestSound'
    <2>1. step = "reuse" => known # None /\ known.fingerprint = Fingerprint(r)
        OBVIOUS
    <2>2. Fingerprint(r)' = Fingerprint(r)
        BY <1>1 DEF Fingerprint, Status
    <2>3. known # None => known.repo = r
        BY DEF Reset
    <2> HIDE DEF step, known
    <2>4. /\ step # "parse" /\ step # "save" /\ step # "search"
        BY <1>2
    <2>5. /\ Fingerprint(r) # None => Fingerprint(r)[1] <= changes
          /\ r \in Versioned => Fingerprint(r) # None
        BY FingerprintType DEF IInv, SavedSound
    <2>6. Fingerprint(request.repo)' = Fingerprint(r)
        BY <1>1, <1>3 DEF Fingerprint, Status
    <2> QED BY <1>1, <1>3, <2>1, <2>2, <2>3, <2>4, <2>5, <2>6 DEF RequestSound, Awaited
<1>5. CASE Reset(r)
    <2>1. /\ manifest' = [p \in Path |-> None] /\ graph' = [s \in Scopes |-> None]
          /\ batch' = None /\ saved' = None
        BY <1>1, <1>5 DEF Begin
    <2>2. \A p \in Path : Nodes(p)' = {} /\ manifest'[p] = None
        BY <2>1, PathFields DEF Nodes
    <2>3. TablesSound' /\ SavedSound'
        BY <1>1, <2>1, <2>2 DEF TablesSound, SavedSound, ManifestIsIndexed, IInv
    <2>4. Typed'
        <3>1. manifest' \in Checkouts
            BY <2>1 DEF Checkouts, Files
        <3>2. TypeOK'
            BY <1>1, <1>2, <1>3, <2>1, <3>1 DEF IInv, Typed, TypeOK, Checkouts
        <3> QED BY <1>2, <1>3, <2>1, <3>2 DEF Typed
    <2> QED BY <1>4, <2>3, <2>4 DEF IInv
<1>6. CASE ~Reset(r)
    <2>1. UNCHANGED <<tree, head, changes, Tables>>
        BY <1>1, <1>6 DEF Begin, Tables
    <2>2. Typed' /\ TablesSound' /\ SavedSound'
        BY <1>2, <1>3, <2>1, SameTables
    <2> QED BY <1>4, <2>2 DEF IInv
<1> QED BY <1>5, <1>6

LEMMA AffectedScopes ==
    ASSUME NEW files
    PROVE  Affected(files) \subseteq Scopes
BY DEF Affected, Scopes

LEMMA InventoryStep ==
    ASSUME IInv, Inventory
    PROVE  IInv'
<1> DEFINE files == tree[request.repo]
<1>1. request.step = "inventory" /\ request.repo \in Repo /\ request \in Requests
    BY DEF Inventory, IInv, Typed
<1>2. files \in Checkouts
    BY <1>1 DEF IInv, Typed, TypeOK, Checkouts
<1>3. /\ UNCHANGED <<tree, head, changes, Tables>>
      /\ request' = [request EXCEPT !.step = "parse", !.inventory = files,
                                    !.affected = Affected(files), !.todo = Affected(files)]
    BY DEF Inventory
<1>4. /\ request' \in Requests /\ request'.step = "parse" /\ request'.inventory = files
      /\ request'.affected = Affected(files) /\ request'.todo = Affected(files)
      /\ request'.repo = request.repo /\ request'.before = request.before
      /\ request'.quiet = request.quiet
    <2> HIDE DEF files
    <2> QED BY <1>1, <1>2, <1>3, AffectedScopes DEF Requests
<1>5. Typed' /\ TablesSound' /\ SavedSound'
    BY <1>1, <1>3, <1>4, SameTables
<1>6. Affected(files)' = Affected(files) /\ files' = files /\ saved' = saved
    BY <1>3, <1>4 DEF Affected, Tables
<1>7. RequestSound'
    <2>1. Affected(request.inventory)' = Affected(files)
        BY <1>3, <1>4 DEF Affected, Tables
    <2>2. /\ saved # None => saved.repo = request.repo
          /\ request.before # None => request.before[1] <= changes
          /\ request.repo \in Versioned => request.before # None
          /\ request.quiet => request.before = Fingerprint(request.repo)
        BY <1>1 DEF IInv, RequestSound, Awaited
    <2>3. Fingerprint(request.repo)' = Fingerprint(request.repo)
        BY <1>3, <1>4 DEF Fingerprint, Status
    <2> QED BY <1>2, <1>3, <1>4, <1>6, <2>1, <2>2, <2>3 DEF RequestSound, Awaited
<1> QED BY <1>5, <1>7 DEF IInv

LEMMA IndexScopeStep ==
    ASSUME IInv, NEW s \in Scopes, IndexScope(s)
    PROVE  IInv'
<1>1. CASE request' = Idle
    BY <1>1, IdleStep DEF IndexScope
<1>2. CASE request' = [request EXCEPT !.todo = @ \ {s}]
    <2>1. UNCHANGED <<tree, head, changes, Tables>> /\ request.step = "parse"
        BY DEF IndexScope
    <2>2. request \in Requests /\ request.todo \subseteq request.affected
        BY DEF IInv, Typed, TypeOK
    <2>3. /\ request' \in Requests /\ request'.step = "parse" /\ request'.repo = request.repo
          /\ request'.inventory = request.inventory /\ request'.affected = request.affected
          /\ request'.quiet = request.quiet /\ request'.todo \subseteq request'.affected
          /\ request'.before = request.before
        BY <1>2, <2>1, <2>2 DEF Requests
    <2>4. Typed' /\ TablesSound' /\ SavedSound'
        BY <2>1, <2>3, SameTables DEF IInv, Typed
    <2>5. Affected(request.inventory)' = Affected(request.inventory)
        BY <2>1, <2>3 DEF Affected, Tables
    <2>6. Fingerprint(request.repo)' = Fingerprint(request.repo)
        BY <2>1, <2>3 DEF Fingerprint, Status
    <2>7. RequestSound'
        BY <2>1, <2>3, <2>5, <2>6 DEF IInv, RequestSound, Awaited, Tables
    <2> QED BY <2>4, <2>7 DEF IInv
<1> QED BY <1>1, <1>2 DEF IndexScope

(* The batch that is committed: what the tables say of a file afterwards.  *)
LEMMA BatchRows ==
    ASSUME IInv, request.step = "parse",
           NEW entries, entries = UNION {Give(s) : s \in request.affected},
           NEW cleared, cleared = UNION {Cleared(s) : s \in request.affected},
           graph' = [s \in Scopes |->
             IF s \in request.affected
             THEN {<<p, request.inventory[p].content>> : p \in Give(s)} ELSE graph[s]],
           manifest' = NewRows(entries, cleared),
           NEW p \in Path
    PROVE  LET f == request.inventory[p] IN
           /\ ScopeOf(p) \in request.affected =>
                /\ Nodes(p)' = IF f = None THEN {} ELSE {f.content}
                /\ f # None => manifest'[p] = f
                /\ f = None /\ ~InRoot(p) => manifest'[p] = None
           /\ ScopeOf(p) \notin request.affected =>
                /\ Nodes(p)' = Nodes(p)
                /\ manifest[p] = f
                /\ Tracked(p) => manifest'[p] = manifest[p]
                /\ manifest'[p] \in {None, manifest[p]}
<1> DEFINE f == request.inventory[p]
           s == ScopeOf(p)
<1>1. /\ s \in Scopes /\ request.affected = Affected(request.inventory)
      /\ request.inventory \in Checkouts
    BY PathFields DEF IInv, RequestSound
<1>2. f \in Files
    BY <1>1 DEF Checkouts
<1>3. p \in entries <=> s \in request.affected /\ f # None
    BY DEF Give
<1>4. ~InRoot(p) /\ s \in request.affected => p \in cleared
    BY OwnScopeCleared
<1>5. Tracked(p) /\ p \in cleared => s \in request.affected
    <2> SUFFICES ASSUME Tracked(p), p \in cleared PROVE s \in request.affected
        OBVIOUS
    <2>1. PICK t \in request.affected : p \in Cleared(t)
        OBVIOUS
    <2>2. PICK q \in Path : t = ScopeOf(q)
        BY <1>1 DEF Affected
    <2> QED BY <2>1, <2>2, OtherScopeCleared
<1>6. manifest'[p] = IF p \in entries THEN f ELSE IF p \in cleared THEN None ELSE manifest[p]
    BY DEF NewRows
<1>7. ASSUME s \in request.affected
      PROVE  Nodes(p)' = IF f = None THEN {} ELSE {f.content}
    <2>1. graph'[s] = {<<q, request.inventory[q].content>> : q \in Give(s)}
        BY <1>1, <1>7
    <2>2. \A q \in Give(s) : q \in Path /\ request.inventory[q].content \in Content
        BY <1>1, FileFields DEF Give, Checkouts
    <2>3. graph'[s] # None
        <3>1. graph'[s] \in SUBSET (Path \X Content)
            BY <2>1, <2>2
        <3> QED BY <3>1, NoneAssumption
    <2>4. Nodes(p)' = {c \in Content : <<p, c>> \in graph'[s]}
        BY <2>3 DEF Nodes
    <2>5. \A c : <<p, c>> \in graph'[s] <=> p \in Give(s) /\ c = f.content
        BY <2>1
    <2>6. p \in Give(s) <=> f # None
        BY DEF Give
    <2>7. f # None => f.content \in Content
        BY <1>2, FileFields
    <2> HIDE DEF f, s
    <2>8. CASE f = None
        BY <2>4, <2>5, <2>6, <2>8
    <2>9. CASE f # None
        BY <2>4, <2>5, <2>6, <2>7, <2>9
    <2> QED BY <2>8, <2>9
<1>8. s \notin request.affected => Nodes(p)' = Nodes(p)
    BY <1>1 DEF Nodes
<1>9. s \notin request.affected => manifest[p] = f
    BY <1>1 DEF Affected
<1> HIDE DEF f, s
<1> QED BY <1>3, <1>4, <1>5, <1>6, <1>7, <1>8, <1>9 DEF f, s

LEMMA CommitBatchStep ==
    ASSUME IInv, CommitBatch
    PROVE  IInv'
<1> DEFINE entries == UNION {Give(s) : s \in request.affected}
           cleared == UNION {Cleared(s) : s \in request.affected}
<1>1. CASE \E p \in entries \ cleared : manifest[p] # None
    BY <1>1, IdleStep DEF CommitBatch
<1>2. CASE ~ \E p \in entries \ cleared : manifest[p] # None
    <2> DEFINE rows == [s \in Scopes |->
             IF s \in request.affected
             THEN {<<p, request.inventory[p].content>> : p \in Give(s)} ELSE graph[s]]
    <2>1. /\ request.step = "parse" /\ request.repo \in Repo /\ request \in Requests
          /\ graph' = rows
          /\ manifest' = NewRows(entries, cleared)
          /\ batch' = [repo |-> request.repo, quiet |-> request.quiet, saved |-> FALSE]
          /\ request' = [request EXCEPT !.step = "save"]
          /\ saved' = saved /\ tree' = tree /\ head' = head /\ changes' = changes
        BY <1>2 DEF CommitBatch, IInv, Typed
    <2>2. /\ request' \in Requests /\ request'.step = "save" /\ request'.repo = request.repo
          /\ request'.quiet = request.quiet /\ request'.todo = request.todo
          /\ request'.affected = request.affected /\ request'.before = request.before
          /\ request.quiet \in BOOLEAN
        BY <2>1 DEF Requests
    <2>3. /\ request.inventory \in Checkouts /\ request.affected = Affected(request.inventory)
          /\ request.quiet => request.inventory = tree[request.repo]
          /\ saved # None => saved.repo = request.repo
          /\ request.before # None => request.before[1] <= changes
          /\ request.repo \in Versioned => request.before # None
          /\ request.quiet => request.before = Fingerprint(request.repo)
        BY <2>1 DEF IInv, RequestSound, Awaited
    <2> DEFINE files == request.inventory
    <2>4. \A p \in Path :
            /\ ScopeOf(p) \in request.affected =>
                 /\ Nodes(p)' = IF files[p] = None THEN {} ELSE {files[p].content}
                 /\ files[p] # None => manifest'[p] = files[p]
                 /\ files[p] = None /\ ~InRoot(p) => manifest'[p] = None
            /\ ScopeOf(p) \notin request.affected =>
                 /\ Nodes(p)' = Nodes(p)
                 /\ manifest[p] = files[p]
                 /\ Tracked(p) => manifest'[p] = manifest[p]
                 /\ manifest'[p] \in {None, manifest[p]}
        BY <2>1, BatchRows
    <2>5. TablesSound'
        BY <2>4 DEF IInv, TablesSound, ManifestIsIndexed, Tracked
    <2>6. SavedSound'
        BY <2>1, <2>2, <2>3 DEF IInv, SavedSound
    <2>7. Typed'
        <3>1. manifest' \in Checkouts
            <4>1. manifest \in [Path -> Files] /\ files \in [Path -> Files] /\ None \in Files
                BY <2>3 DEF IInv, Typed, TypeOK, Checkouts, Files
            <4>2. \A p \in Path : manifest'[p] \in Files
                BY <4>1, <2>1 DEF NewRows
            <4>3. manifest' = [p \in Path |-> manifest'[p]]
                BY <2>1 DEF NewRows
            <4> QED BY <4>2, <4>3 DEF Checkouts
        <3>2. \A s \in Scopes : graph'[s] # None =>
                graph'[s] \subseteq {p \in Path : ScopeOf(p) = s} \X Content
            <4>1. \A s \in Scopes : \A p \in Give(s) :
                    p \in {q \in Path : ScopeOf(q) = s} /\ files[p].content \in Content
                BY <2>3, FileFields DEF Give, Checkouts
            <4>2. SUFFICES ASSUME NEW s \in Scopes, graph'[s] # None
                           PROVE  graph'[s] \subseteq {p \in Path : ScopeOf(p) = s} \X Content
                OBVIOUS
            <4>3. CASE s \in request.affected
                <5>1. graph'[s] = {<<p, files[p].content>> : p \in Give(s)}
                    BY <2>1, <4>3
                <5> QED BY <4>1, <5>1
            <4>4. CASE s \notin request.affected
                BY <2>1, <4>2, <4>4 DEF IInv, Typed, TypeOK
            <4> QED BY <4>3, <4>4
        <3>3. TypeOK'
            BY <2>1, <2>2, <3>1, <3>2 DEF IInv, Typed, TypeOK, Checkouts
        <3> QED BY <2>1, <2>2, <3>3 DEF IInv, Typed
    <2>8. RequestSound'
        <3>1. ASSUME request.quiet
              PROVE  IsOf(Contents(files))' /\ Lists(files)'
            <4>1. \A p \in Path : /\ Contents(files)[p] = None <=> files[p] = None
                                  /\ files[p] # None => Contents(files)[p] = files[p].content
                BY <2>3, ContentsType
            <4>2. \A p \in Path : ~InRoot(p) /\ (files[p] # None \/ ~Nested(p)) =>
                    Nodes(p)' = IF files[p] = None THEN {} ELSE {files[p].content}
                BY <2>4 DEF IInv, TablesSound, ManifestIsIndexed, Tracked
            <4>3. Contents(files)' = Contents(files)
                BY <2>1 DEF Contents, Requests
            <4>4. IsOf(Contents(files))'
                BY <2>1, <4>1, <4>2, <4>3 DEF IsOf
            <4>5. files' = files
                BY <2>1 DEF Requests
            <4>6. Lists(files)'
                BY <2>4, <4>5 DEF Lists
            <4> QED BY <4>4, <4>6
        <3>2. files' = files
            BY <2>1 DEF Requests
        <3>3. ASSUME request.quiet, request.before # None,
                     OfCommit(request.before, request.repo)
              PROVE  IsOf(head[request.repo].contents)'
            <4> DEFINE r == request.repo
            <4>1. request.before = <<head[r].commit, Status(r)>>
                BY <2>1, <2>3, <3>3, FingerprintType DEF IInv
            <4>2. \A p \in Path : Status(r)[p] = "same"
                BY <3>3, <4>1 DEF OfCommit
            <4>3. Contents(files) = head[r].contents
                BY <2>1, <2>3, <3>3, <4>2, SameAsHead DEF IInv
            <4>4. (Contents(files))' = Contents(files)
                BY <3>2 DEF Contents
            <4>5. IsOf(head[r].contents)' <=> IsOf(Contents(files))'
                BY <2>1, <2>2, <4>3, <4>4 DEF IsOf
            <4> QED BY <3>1, <3>3, <4>5
        <3>4. batch' \in [repo : {request.repo}, quiet : BOOLEAN, saved : {FALSE}]
              /\ batch'.quiet = request.quiet
            BY <2>1, <2>2
        <3>5. OfCommit(request.before, request.repo)' <=> OfCommit(request.before, request.repo)
            BY <2>1, <2>2 DEF OfCommit
        <3>6. ASSUME request.quiet
              PROVE  IsOf(Contents(tree[request.repo]))' /\ Lists(tree[request.repo])'
            BY <2>1, <2>2, <2>3, <3>1, <3>2, <3>6
        <3> QED BY <2>1, <2>2, <2>3, <3>2, <3>3, <3>4, <3>5, <3>6 DEF RequestSound, Awaited
    <2> QED BY <2>5, <2>6, <2>7, <2>8 DEF IInv
<1> QED BY <1>1, <1>2

LEMMA SaveStateStep ==
    ASSUME IInv, SaveState
    PROVE  IInv'
<1> DEFINE r == request.repo
           after == Fingerprint(r)
<1>1. /\ request.step = "save" /\ r \in Repo /\ request \in Requests
      /\ batch \in [repo : {r}, quiet : BOOLEAN, saved : {FALSE}]
      /\ saved # None => saved.repo = r
      /\ request.before # None => request.before[1] <= changes
      /\ r \in Versioned => request.before # None
    BY DEF SaveState, IInv, Typed, RequestSound
<1>2. CASE request.before # None /\ request.before # after
    <2>1. request' = Idle /\ UNCHANGED <<tree, head, changes, Tables>>
        BY <1>2 DEF SaveState, Tables
    <2> QED BY <2>1, IdleStep
<1>3. CASE ~ (request.before # None /\ request.before # after)
    <2>1. /\ request' = [request EXCEPT !.step = "search"]
          /\ saved' = IF after = None THEN saved ELSE [repo |-> r, fingerprint |-> after]
          /\ batch' = [batch EXCEPT !.saved = TRUE]
          /\ tree' = tree /\ head' = head /\ changes' = changes
          /\ manifest' = manifest /\ graph' = graph
        BY <1>3 DEF SaveState
    <2>2. /\ request' \in Requests /\ request'.step = "search" /\ request'.repo = r
          /\ request'.quiet = request.quiet /\ request'.todo = request.todo
          /\ request'.affected = request.affected /\ request'.before = request.before
          /\ request.quiet \in BOOLEAN
        BY <1>1, <2>1 DEF Requests
    <2>3. batch' \in [repo : {r}, quiet : BOOLEAN, saved : BOOLEAN] /\ batch'.quiet = batch.quiet
        BY <1>1, <2>1
    <2>4. /\ \A p \in Path : Nodes(p)' = Nodes(p)
          /\ \A c : IsOf(c)' <=> IsOf(c)
        BY <2>1 DEF Nodes, IsOf
    <2>5. TablesSound'
        BY <2>1, <2>4 DEF IInv, TablesSound, ManifestIsIndexed
    <2>6. after # None => /\ r \in Versioned /\ after \in Prints
                          /\ after = <<head[r].commit, Status(r)>>
        BY <1>1, FingerprintType DEF IInv
    <2>7. after = None => saved = None
        BY <1>1, FingerprintType DEF IInv, Typed, TypeOK
    <2>8. request.quiet => IsOf(Contents(tree[r])) /\ Lists(tree[r])
        BY <1>1 DEF IInv, RequestSound
    <2>9. ASSUME after # None, batch.quiet, OfCommit(after, r)
          PROVE  IsOf(head[r].contents)
        <3>1. request.before = after
            <4>1. r \in Versioned
                BY <2>6, <2>9
            <4>2. request.before # None
                BY <1>1, <4>1 DEF IInv, RequestSound
            <4> QED BY <1>3, <4>2
        <3> QED BY <1>1, <2>9, <3>1 DEF IInv, RequestSound
    <2> HIDE DEF after, r
    <2>10. SavedSound'
        <3>1. CASE after = None
            BY <2>1, <2>7, <3>1 DEF IInv, SavedSound
        <3>2. CASE after # None
            <4>1. saved' = [repo |-> r, fingerprint |-> <<head[r].commit, Status(r)>>]
                BY <2>1, <2>6, <3>2
            <4>2. saved'.fingerprint[1] = head[r].commit /\ saved'.fingerprint[2] = Status(r)
                  /\ saved'.repo = r
                BY <4>1
            <4>3. head[r].commit <= changes /\ \A q \in Repo : head[q].commit <= changes
                BY <1>1 DEF IInv, SavedSound
            <4>4. OfCommit(saved.fingerprint, saved.repo)' => OfCommit(after, r)
                BY <2>1, <2>6, <3>2, <4>2 DEF OfCommit
            <4> QED BY <2>1, <2>3, <2>4, <2>9, <3>2, <4>2, <4>3, <4>4 DEF SavedSound
        <3> QED BY <3>1, <3>2
    <2>11. Typed'
        <3>1. saved' # None => saved' \in [repo : Versioned, fingerprint : Prints]
            BY <2>1, <2>6 DEF IInv, Typed
        <3>2. saved' # None => saved'.repo \in Versioned /\ saved'.fingerprint # None
            BY <2>1, <2>6, NoneAssumption DEF IInv, Typed, TypeOK
        <3>3. batch' \in [repo : Repo, quiet : BOOLEAN, saved : BOOLEAN]
            BY <1>1, <2>3
        <3>4. TypeOK'
            BY <2>1, <2>2, <3>2, <3>3 DEF IInv, Typed, TypeOK
        <3> QED BY <1>1, <2>2, <3>1, <3>4 DEF Typed
    <2>12. RequestSound'
        <3>1. Lists(tree[r])' <=> Lists(tree[r])
            BY <2>1 DEF Lists, r, Requests
        <3>2. Contents(tree[r])' = Contents(tree[r])
            BY <2>1 DEF Contents, r, Requests
        <3>3. tree[request.repo]' = tree[r]
            BY <2>1, <2>2
        <3>4. saved' # None => saved'.repo = r
            BY <1>1, <2>1
        <3>5. request'.quiet => /\ IsOf(Contents(tree[request.repo]))'
                                /\ Lists(tree[request.repo])'
            <4>1. /\ Contents(tree[request.repo])' = Contents(tree[r])
                  /\ Lists(tree[request.repo])' <=> Lists(tree[r])
                BY <2>1, <3>3 DEF Contents, Lists
            <4> QED BY <2>2, <2>4, <2>8, <4>1
        <3> QED BY <1>1, <2>1, <2>2, <3>4, <3>5 DEF RequestSound, Awaited
    <2> QED BY <2>5, <2>10, <2>11, <2>12 DEF IInv
<1> QED BY <1>2, <1>3

-----------------------------------------------------------------------------
(* The user edits or commits in one checkout; a request that is about       *)
(* another one notices nothing, and one that is about this is not quiet.   *)
LEMMA EditStep ==
    ASSUME IInv, NEW r \in Repo, Changed(r),
           tree' \in [Repo -> Checkouts], \A q \in Repo \ {r} : tree'[q] = tree[q],
           \/ head' = head
           \/ \E c \in [Path -> Content \union {None}] :
                head' = [head EXCEPT ![r] = [commit |-> changes + 1, contents |-> c]]
    PROVE  IInv'
<1>1. /\ changes \in Nat /\ MaxChanges \in Nat /\ changes < MaxChanges
      /\ changes' = changes + 1 /\ changes' \in 0..MaxChanges
      /\ request' = [request EXCEPT !.quiet = @ /\ request.repo # r]
      /\ manifest' = manifest /\ graph' = graph /\ saved' = saved /\ batch' = batch
    BY ConstantsAssumption DEF Changed, Tables, IInv, Typed, TypeOK
<1>2. /\ request \in Requests /\ request.quiet \in BOOLEAN
      /\ request' \in Requests /\ request'.step = request.step /\ request'.repo = request.repo
      /\ request'.quiet = (request.quiet /\ request.repo # r)
      /\ request'.inventory = request.inventory /\ request'.affected = request.affected
      /\ request'.todo = request.todo /\ request'.before = request.before
    <2>1. request \in Requests /\ request.quiet \in BOOLEAN
        BY DEF IInv, Typed, Requests
    <2>2. (request.quiet /\ request.repo # r) \in BOOLEAN
        OBVIOUS
    <2> QED BY <1>1, <2>1, <2>2 DEF Requests
<1>3. request'.step = "idle" => request' = Idle
    <2> SUFFICES ASSUME request.step = "idle" PROVE request' = Idle
        BY <1>2
    <2>1. request = Idle
        BY DEF IInv, Typed
    <2>2. Idle.quiet = TRUE /\ Idle.repo = None /\ Idle.repo # r
        BY NoneAssumption DEF Idle
    <2> QED BY <1>1, <2>1, <2>2 DEF Idle
<1>4. /\ head' \in [Repo -> [commit : 0..MaxChanges, contents : [Path -> Content \union {None}]]]
      /\ \A q \in Repo \ {r} : head'[q] = head[q]
      /\ \A q \in Repo : head'[q].commit <= changes'
      /\ head'[r] = head[r] \/ head'[r].commit = changes + 1
    <2>1. /\ head \in [Repo -> [commit : 0..MaxChanges,
                                contents : [Path -> Content \union {None}]]]
          /\ \A q \in Repo : head[q].commit \in Nat /\ head[q].commit <= changes
        BY <1>1 DEF IInv, Typed, TypeOK, SavedSound
    <2>2. CASE head' = head
        BY <1>1, <2>1, <2>2
    <2>3. CASE \E c \in [Path -> Content \union {None}] :
                 head' = [head EXCEPT ![r] = [commit |-> changes + 1, contents |-> c]]
        <3>1. PICK c \in [Path -> Content \union {None}] :
                 head' = [head EXCEPT ![r] = [commit |-> changes + 1, contents |-> c]]
            BY <2>3
        <3> DEFINE new == [commit |-> changes + 1, contents |-> c]
        <3>2. /\ new \in [commit : 0..MaxChanges, contents : [Path -> Content \union {None}]]
              /\ new.commit = changes + 1
            BY <1>1
        <3> HIDE DEF new
        <3>3. head' = [head EXCEPT ![r] = new]
            BY <3>1 DEF new
        <3> QED BY <1>1, <2>1, <3>2, <3>3
    <2> QED BY <2>2, <2>3
<1>5. Typed'
    <2>1. TypeOK'
        BY <1>1, <1>2, <1>4 DEF IInv, Typed, TypeOK, Checkouts
    <2> QED BY <1>1, <1>2, <1>3, <2>1 DEF IInv, Typed
<1>6. /\ \A p \in Path : Nodes(p)' = Nodes(p)
      /\ \A c : IsOf(c)' <=> IsOf(c)
    BY <1>1 DEF Nodes, IsOf
<1>7. TablesSound'
    BY <1>1, <1>6 DEF IInv, TablesSound, ManifestIsIndexed
<1>8. SavedSound'
    <2>1. CASE saved = None
        BY <1>1, <1>4, <2>1 DEF SavedSound
    <2>2. CASE saved # None
        <3>1. /\ saved.repo \in Repo /\ saved.fingerprint[1] \in Nat
              /\ saved.fingerprint[1] <= changes
              /\ batch \in [repo : {saved.repo}, quiet : BOOLEAN, saved : BOOLEAN]
            BY <2>2, ConstantsAssumption DEF IInv, Typed, SavedSound, Prints
        <3>2. saved.fingerprint[1] # changes + 1 /\ saved.fingerprint[1] <= changes'
            BY <1>1, <3>1
        <3>3. saved.fingerprint[1] = head'[saved.repo].commit => head'[saved.repo] = head[saved.repo]
            BY <1>4, <3>1, <3>2
        <3> QED BY <1>1, <1>4, <1>6, <2>2, <3>1, <3>2, <3>3 DEF IInv, SavedSound, OfCommit
    <2> QED BY <2>1, <2>2
<1>9. RequestSound'
    <2>1. ASSUME request'.quiet, request.step # "idle"
          PROVE  /\ request.quiet /\ request.repo \in Repo \ {r}
                 /\ tree'[request.repo] = tree[request.repo]
                 /\ head'[request.repo] = head[request.repo]
        BY <1>2, <1>4, <2>1 DEF IInv, Typed
    <2>2. ASSUME request'.quiet, request.step # "idle"
          PROVE  /\ Fingerprint(request.repo)' = Fingerprint(request.repo)
                 /\ Contents(tree[request.repo])' = Contents(tree[request.repo])
                 /\ Lists(tree[request.repo])' <=> Lists(tree[request.repo])
        BY <1>1, <1>2, <2>1, <2>2 DEF Fingerprint, Status, Contents, Lists
    <2>3. Affected(request.inventory)' = Affected(request.inventory)
        BY <1>1, <1>2 DEF Affected
    <2>4. request'.step # "idle" /\ saved' # None => saved'.repo = request'.repo
        BY <1>1, <1>2 DEF IInv, RequestSound
    <2>5. request'.step = "parse" =>
            /\ request'.inventory \in Checkouts
            /\ request'.affected = Affected(request.inventory)'
            /\ request'.quiet => request'.inventory = tree'[request'.repo]
        BY <1>2, <2>1, <2>3 DEF IInv, RequestSound
    <2>6. request'.step = "save" =>
            /\ batch' \in [repo : {request'.repo}, quiet : BOOLEAN, saved : {FALSE}]
            /\ batch'.quiet /\ request'.before # None /\ OfCommit(request.before, request.repo)' =>
                 IsOf(head[request.repo].contents)'
        <3> SUFFICES ASSUME request.step = "save"
                     PROVE  /\ batch \in [repo : {request.repo}, quiet : BOOLEAN, saved : {FALSE}]
                            /\ batch.quiet /\ request.before # None
                                 /\ OfCommit(request.before, request.repo)' =>
                                 IsOf(head[request.repo].contents)'
            BY <1>1, <1>2
        <3>1. request.repo \in Repo
            BY DEF IInv, Typed
        <3>2. ASSUME request.before # None, OfCommit(request.before, request.repo)'
              PROVE  head'[request.repo] = head[request.repo]
            <4>1. request.before[1] \in Nat /\ request.before[1] <= changes
                BY <1>2, <3>2, ConstantsAssumption DEF IInv, RequestSound, Requests, Prints
            <4>2. request.before[1] = head'[request.repo].commit
                BY <1>2, <3>2 DEF OfCommit
            <4> QED BY <1>1, <1>4, <3>1, <4>1, <4>2
        <3>3. ASSUME head'[request.repo] = head[request.repo]
              PROVE  /\ OfCommit(request.before, request.repo)' =>
                          OfCommit(request.before, request.repo)
                     /\ IsOf(head[request.repo].contents)' <=> IsOf(head[request.repo].contents)
            <4>1. OfCommit(request.before, request.repo)' => OfCommit(request.before, request.repo)
                BY <1>2, <3>3 DEF OfCommit
            <4>2. IsOf(head[request.repo].contents)' <=> IsOf(head[request.repo].contents)
                BY <1>1, <1>2, <3>3 DEF IsOf, Nodes
            <4> QED BY <4>1, <4>2
        <3> QED BY <3>2, <3>3 DEF IInv, RequestSound
    <2>7. request'.step \in {"save", "search"} /\ request'.quiet =>
            IsOf(Contents(tree[request.repo]))' /\ Lists(tree[request.repo])'
        BY <1>2, <1>6, <2>1, <2>2 DEF IInv, RequestSound
    <2>8. request'.step = "reuse" =>
            /\ saved' # None
            /\ request'.quiet => saved'.fingerprint = Fingerprint(request.repo)'
        BY <1>1, <1>2, <2>1, <2>2 DEF IInv, RequestSound
    <2>9. /\ request'.step # "idle" /\ request'.repo \in Versioned => request'.before # None
          /\ request'.before # None => request'.before[1] <= changes'
        <3>1. ASSUME request.before # None
              PROVE  request.before[1] \in Nat /\ request.before[1] <= changes
            BY <1>2, <3>1, ConstantsAssumption DEF IInv, RequestSound, Requests, Prints
        <3> QED BY <1>1, <1>2, <3>1 DEF IInv, RequestSound
    <2>10. Awaited' => request'.before = Fingerprint(request.repo)'
        BY <1>2, <2>1, <2>2 DEF IInv, RequestSound, Awaited
    <2> QED BY <2>4, <2>5, <2>6, <2>7, <2>8, <2>9, <2>10 DEF RequestSound
<1> QED BY <1>5, <1>7, <1>8, <1>9 DEF IInv

LEMMA UserStep ==
    ASSUME IInv, NEW r \in Repo,
           \/ \E p \in Path : Write(r, p) \/ Delete(r, p)
           \/ \E p, q \in Path : Rename(r, p, q)
           \/ Commit(r)
    PROVE  IInv'
<1>1. tree \in [Repo -> Checkouts] /\ changes \in Nat
    BY ConstantsAssumption DEF IInv, Typed, TypeOK, Checkouts
<1>2. CASE \E p \in Path : Write(r, p)
    <2>1. PICK p \in Path, c \in Content : tree' = [tree EXCEPT ![r][p] = File(c, changes + 1)]
        BY <1>2 DEF Write
    <2>2. Changed(r) /\ head' = head /\ changes + 1 \in 0..MaxChanges
        BY <1>1, <1>2, ConstantsAssumption DEF Write, Changed
    <2>3. File(c, changes + 1) \in Files
        BY <2>2 DEF Files
    <2>4. tree' \in [Repo -> Checkouts] /\ \A q \in Repo \ {r} : tree'[q] = tree[q]
        BY <1>1, <2>1, <2>3 DEF Checkouts
    <2> QED BY <2>2, <2>4, EditStep
<1>3. CASE \E p \in Path : Delete(r, p)
    <2>1. PICK p \in Path : tree' = [tree EXCEPT ![r][p] = None]
        BY <1>3 DEF Delete
    <2>2. Changed(r) /\ head' = head /\ None \in Files
        BY <1>3 DEF Delete, Files
    <2>3. tree' \in [Repo -> Checkouts] /\ \A q \in Repo \ {r} : tree'[q] = tree[q]
        BY <1>1, <2>1, <2>2 DEF Checkouts
    <2> QED BY <2>2, <2>3, EditStep
<1>4. CASE \E p, q \in Path : Rename(r, p, q)
    <2>1. PICK p \in Path, q \in Path :
            tree' = [tree EXCEPT ![r][p] = None, ![r][q] = tree[r][p]]
        BY <1>4 DEF Rename
    <2>2. Changed(r) /\ head' = head /\ None \in Files /\ tree[r][p] \in Files
        BY <1>1, <1>4 DEF Rename, Files, Checkouts
    <2>3. tree' \in [Repo -> Checkouts] /\ \A s \in Repo \ {r} : tree'[s] = tree[s]
        BY <1>1, <2>1, <2>2 DEF Checkouts
    <2> QED BY <2>2, <2>3, EditStep
<1>5. CASE Commit(r)
    <2>1. Changed(r) /\ tree' = tree
          /\ head' = [head EXCEPT ![r] = [commit |-> changes + 1,
                                          contents |-> Contents(tree[r])]]
        BY <1>5 DEF Commit
    <2>2. Contents(tree[r]) \in [Path -> Content \union {None}]
        BY <1>1, ContentsType
    <2> QED BY <1>1, <2>1, <2>2, EditStep
<1> QED BY <1>2, <1>3, <1>4, <1>5

-----------------------------------------------------------------------------
LEMMA InitIInv == Init => IInv
<1> SUFFICES ASSUME Init PROVE IInv
    OBVIOUS
<1>1. PICK c \in Content :
        LET t == [p \in Path |-> File(c, 0)] IN
        /\ tree = [r \in Repo |-> t]
        /\ head = [r \in Repo |-> [commit |-> 0, contents |-> Contents(t)]]
    BY DEF Init
<1> DEFINE t == [p \in Path |-> File(c, 0)]
<1>2. t \in Checkouts /\ 0 \in 0..MaxChanges
    BY ConstantsAssumption DEF Checkouts, Files
<1>3. Contents(t) \in [Path -> Content \union {None}]
    BY <1>2, ContentsType
<1>4. /\ tree = [r \in Repo |-> t] /\ changes = 0
      /\ head = [r \in Repo |-> [commit |-> 0, contents |-> Contents(t)]]
      /\ manifest = [p \in Path |-> None] /\ graph = [s \in Scopes |-> None]
      /\ saved = None /\ request = Idle /\ batch = None
    BY <1>1 DEF Init
<1>5. request \in Requests /\ request.step = "idle" /\ request.todo = {} /\ request.affected = {}
    BY <1>4 DEF Idle, Requests
<1>6. manifest \in Checkouts
    BY <1>4 DEF Checkouts, Files
<1> HIDE DEF t
<1>7. Typed
    <2>1. head \in [Repo -> [commit : 0..MaxChanges, contents : [Path -> Content \union {None}]]]
        BY <1>2, <1>3, <1>4
    <2>2. tree \in [Repo -> Checkouts]
        BY <1>2, <1>4
    <2>3. TypeOK
        BY <1>2, <1>4, <1>5, <1>6, <2>1, <2>2 DEF TypeOK, Checkouts
    <2> QED BY <1>4, <1>5, <2>3 DEF Typed
<1>8. TablesSound
    <2>1. \A p \in Path : Nodes(p) = {} /\ manifest[p] = None
        BY <1>4, PathFields DEF Nodes
    <2> QED BY <2>1 DEF TablesSound, ManifestIsIndexed
<1>9. SavedSound /\ RequestSound
    BY <1>4, <1>5 DEF SavedSound, RequestSound, Awaited, Idle
<1> QED BY <1>7, <1>8, <1>9 DEF IInv

LEMMA NextIInv == IInv /\ [Next]_vars => IInv'
<1> SUFFICES ASSUME IInv, [Next]_vars PROVE IInv'
    OBVIOUS
<1>1. CASE \E r \in Repo : Begin(r)
    BY <1>1, BeginStep
<1>2. CASE Inventory
    BY <1>2, InventoryStep
<1>3. CASE \E s \in Scopes : IndexScope(s)
    BY <1>3, IndexScopeStep
<1>4. CASE CommitBatch
    BY <1>4, CommitBatchStep
<1>5. CASE SaveState
    BY <1>5, SaveStateStep
<1>6. CASE Answer \/ Fail
    BY <1>6, IdleStep DEF Answer, Fail
<1>7. CASE \E r \in Repo, p \in Path : Write(r, p) \/ Delete(r, p)
    BY <1>7, UserStep
<1>8. CASE \E r \in Repo, p, q \in Path : Rename(r, p, q)
    BY <1>8, UserStep
<1>9. CASE \E r \in Repo : Commit(r)
    BY <1>9, UserStep
<1>10. CASE UNCHANGED vars
    <2>1. UNCHANGED <<tree, head, changes, Tables>> /\ request' = request
        BY <1>10 DEF vars, Tables
    <2>2. /\ request' \in Requests /\ request'.todo \subseteq request'.affected
          /\ request'.step = "idle" => request' = Idle
          /\ request'.step # "idle" => request'.repo \in Repo
        BY <2>1 DEF IInv, Typed, TypeOK
    <2>3. Typed' /\ TablesSound' /\ SavedSound'
        BY <2>1, <2>2, SameTables
    <2>4. /\ Affected(request.inventory)' = Affected(request.inventory)
          /\ Contents(tree[request.repo])' = Contents(tree[request.repo])
          /\ \A c : IsOf(c)' <=> IsOf(c)
          /\ Lists(tree[request.repo])' <=> Lists(tree[request.repo])
          /\ Fingerprint(request.repo)' = Fingerprint(request.repo)
          /\ OfCommit(request.before, request.repo)' <=> OfCommit(request.before, request.repo)
          /\ Awaited' <=> Awaited
        BY <2>1 DEF Tables, Affected, Contents, IsOf, Nodes, Lists, Fingerprint, Status,
                    OfCommit, Awaited
    <2>5. RequestSound'
        BY <2>1, <2>4 DEF IInv, RequestSound, Tables
    <2> QED BY <2>3, <2>5 DEF IInv
<1> QED BY <1>1, <1>2, <1>3, <1>4, <1>5, <1>6, <1>7, <1>8, <1>9, <1>10 DEF Next

LEMMA Inductive == Spec => []IInv
BY InitIInv, NextIInv, PTL DEF Spec

-----------------------------------------------------------------------------
(* Whatever stops half-way, the tables agree with one another and with the *)
(* checkout they were filled from (graph/store.rs, code_intelligence.rs).  *)
THEOREM InvCorrect == Spec => []Inv
<1>1. IInv => Inv
    <2>1. IInv => SavedIsOfItsOwner
        BY DEF IInv, SavedSound, SavedIsOfItsOwner
    <2> QED BY <2>1 DEF IInv, Inv, Typed, TablesSound
<1> QED BY <1>1, Inductive, PTL

(* A request that made the index, or reused one with nothing uncommitted    *)
(* after its last batch was saved, answers from the files as they are,      *)
(* unless they were edited meanwhile (index_project, index_and_context).   *)
LEMMA IInvIsCurrent == IInv => IndexIsCurrent
<1> SUFFICES ASSUME IInv, Fresh \/ (ReusedClean /\ batch.saved) PROVE HasTheFiles
    BY DEF IndexIsCurrent
<1>1. request.repo \in Repo
    BY DEF IInv, Typed, Fresh, ReusedClean
<1>2. CASE Fresh
    BY <1>1, <1>2, HasTheFilesIsOf DEF Fresh, IInv, RequestSound
<1>3. CASE ReusedClean /\ batch.saved
    <2> DEFINE r == request.repo
    <2>1. /\ saved # None /\ saved.repo = r /\ saved.fingerprint = Fingerprint(r)
          /\ batch.quiet /\ batch.saved /\ \A p \in Path : Status(r)[p] = "same"
        BY <1>3 DEF ReusedClean, IInv, RequestSound
    <2>2. r \in Versioned
        BY <2>1 DEF IInv, Typed, TypeOK
    <2>3. Fingerprint(r) = <<head[r].commit, Status(r)>>
        BY <1>1, <2>2, FingerprintType DEF IInv
    <2>4. OfCommit(saved.fingerprint, r)
        BY <2>1, <2>3 DEF OfCommit
    <2>5. IsOf(head[r].contents)
        BY <2>1, <2>4 DEF IInv, SavedSound
    <2>6. Contents(tree[r]) = head[r].contents
        BY <1>1, <2>1, SameAsHead DEF IInv
    <2> QED BY <1>1, <2>5, <2>6, HasTheFilesIsOf DEF IInv
<1> QED BY <1>2, <1>3

THEOREM CurrentCorrect == Spec => []IndexIsCurrent
BY IInvIsCurrent, Inductive, PTL

(* What is taken of a set is all of it, or as many as the limit.            *)
LEMMA FirstOfTakes ==
    ASSUME NEW S, NEW n, NEW T \in FirstOf(S, n)
    PROVE  T \subseteq S /\ (T = S \/ Cardinality(T) = n)
BY DEF FirstOf

(* A request that made the index is given what is in every file its words  *)
(* match and the tables keep track of, unless exactly the limit that cut it *)
(* off is reached (search_paths, project_scopes, index_and_context).       *)
LEMMA IInvHasTheWanted == IInv => ContextHasTheWanted
<1> SUFFICES ASSUME IInv, Fresh, NEW paths \in Found, NEW scopes \in Searched(paths),
                    NEW nodes \in Context(paths, scopes),
                    NEW p \in Wanted, Tracked(p), NEW c \in Current(p)
             PROVE  <<p, c>> \in nodes \/ CutOff(p, paths, scopes, nodes)
    BY DEF ContextHasTheWanted, Tracked
<1> SUFFICES ASSUME <<p, c>> \notin nodes
             PROVE  CutOff(p, paths, scopes, nodes)
    OBVIOUS
<1> DEFINE files == tree[request.repo]
           rows == UNION {graph[s] : s \in scopes \cap Partitions}
<1>1. p \in Path /\ request.repo \in Repo
    BY ConstantsAssumption DEF IInv, Typed, Fresh
<1>2. IsOf(Contents(files)) /\ Lists(files) /\ files \in Checkouts
    BY <1>1 DEF IInv, RequestSound, Fresh, Typed, TypeOK, Checkouts
<1>3. files[p] # None /\ c = files[p].content
    BY DEF Current
<1>4. manifest[p] # None
    BY <1>1, <1>2, <1>3 DEF Lists
<1>5. Nodes(p) = {c}
    BY <1>1, <1>2, <1>3, ContentsType DEF IsOf, Tracked
<1>6. ScopeOf(p) \in Partitions /\ <<p, c>> \in graph[ScopeOf(p)]
    BY <1>1, <1>5, PathFields DEF Nodes, Partitions
<1>7. CASE p \notin paths
    BY <1>4, <1>7, FirstOfTakes DEF Found, CutOff
<1>8. CASE p \in paths /\ ScopeOf(p) \notin scopes
    <2>1. ScopeOf(p) \in {ScopeOf(q) : q \in paths} /\ paths # {}
        BY <1>8
    <2>2. scopes \in FirstOf({ScopeOf(q) : q \in paths}, MaxScopes)
        BY <2>1 DEF Searched
    <2> QED BY <1>8, <2>1, <2>2, FirstOfTakes DEF CutOff
<1>9. CASE p \in paths /\ ScopeOf(p) \in scopes
    <2>1. <<p, c>> \in rows
        BY <1>6, <1>9
    <2>2. /\ nodes \in FirstOf(rows, MaxNodes)
          /\ \A n \in nodes, m \in rows \ nodes :
               ScopeOf(n[1]) = ScopeOf(m[1]) /\ m[1] \in paths => n[1] \in paths
        BY DEF Context
    <2> HIDE DEF rows
    <2>3. Cardinality(nodes) = MaxNodes
        BY <2>1, <2>2, FirstOfTakes
    <2>4. <<p, c>> \in rows \ nodes /\ <<p, c>>[1] = p
        BY <2>1
    <2>5. \A n \in nodes : ScopeOf(n[1]) = ScopeOf(p) => n[1] \in paths
        BY <1>9, <2>2, <2>4
    <2> QED BY <1>9, <2>3, <2>5 DEF CutOff
<1> QED BY <1>7, <1>8, <1>9

THEOREM WantedCorrect == Spec => []ContextHasTheWanted
BY IInvHasTheWanted, Inductive, PTL
=============================================================================
