------------------------------ MODULE CodeIndex ------------------------------
(***************************************************************************)
(* The code index: index_and_context of workflowd (code_intelligence.rs),  *)
(* index_project and the tables it fills (workflow-code-intel index.rs,    *)
(* inventory.rs, manifest.rs, graph/store.rs).                             *)
(*                                                                         *)
(* One request at a time is served, under index_gate, while the user edits *)
(* the files.  A request indexes a checkout of the project again unless    *)
(* what git says of it is what was saved, and answers from the tables.     *)
(* A path is the sequence of its names; what a parser finds in a file is   *)
(* its content.  That every change of a file changes its length or its     *)
(* time is taken for granted.                                              *)
(***************************************************************************)
EXTENDS Naturals, FiniteSets, SequencesExt

CONSTANTS
    None,
    Repo,        \* checkouts of the one project
    Versioned,   \* those under git
    Name,        \* of files and directories
    Lower,       \* the name with its ASCII letters in lower case
    Path,        \* source files a language adapter exists for
    Content,
    Wanted,      \* paths the words of the requests match
    MaxPaths, MaxScopes, MaxNodes,   \* of an answer: 128, 20, 200
    MaxChanges   \* of the user: a bound

FileStatus == {"same", "deleted", "untracked", "modified"}

ASSUME ConstantsAssumption ==
    /\ Versioned \subseteq Repo
    /\ Wanted \subseteq Path
    /\ Lower \in [Name -> Name]
    /\ \A p \in Path : p \in Seq(Name) /\ p # <<>>
    /\ MaxPaths \in Nat \ {0} /\ MaxScopes \in Nat \ {0} /\ MaxNodes \in Nat \ {0}
    /\ MaxChanges \in Nat
ASSUME NoneAssumption ==
    /\ None \notin Repo \union Content
    /\ \A nodes \in SUBSET (Path \X Content) : nodes # None
    /\ None \notin Nat \X [Path -> FileStatus]

VARIABLES
    tree,      \* the files of each checkout: content and stamp (length, time)
    head,      \* the commit of each checkout: the contents, and which commit
    changes,   \* of the user so far, the clock of the stamps
    manifest,  \* code_manifest, and code_paths_fts with it
    graph,     \* code_partitions and their nodes
    saved,     \* code_index_state
    request,   \* the request that is served
    batch      \* history: the last batch committed, whether nobody had changed the
               \* checkout before that, and whether its state was saved

vars == <<tree, head, changes, manifest, graph, saved, request, batch>>
Tables == <<manifest, graph, saved, batch>>

\* scope_of: the directory of a file.
ScopeOf(p) == IF Len(p) = 1 THEN <<"root">> ELSE Front(p)
Scopes == {ScopeOf(p) : p \in Path}

File(content, stamp) == [content |-> content, stamp |-> stamp]
Contents(t) == [p \in Path |-> IF t[p] = None THEN None ELSE t[p].content]

\* git_fingerprint: the commit, and for each file whether it differs from it.
Status(r) ==
    LET now == Contents(tree[r]) IN
    [p \in Path |-> IF now[p] = head[r].contents[p] THEN "same"
                    ELSE CASE now[p] = None -> "deleted"
                           [] head[r].contents[p] = None -> "untracked"
                           [] OTHER -> "modified"]
Fingerprint(r) == IF r \in Versioned THEN <<head[r].commit, Status(r)>> ELSE None

-----------------------------------------------------------------------------
Idle == [step |-> "idle", repo |-> None, before |-> None, inventory |-> <<>>,
         affected |-> {}, todo |-> {}, quiet |-> TRUE]

Reset(r) == saved # None /\ saved.repo # r

\* index_and_context up to the choice to reuse the index.
Begin(r) ==
    /\ request = Idle
    /\ LET known == IF Reset(r) THEN None ELSE saved
           reusable == /\ known # None /\ Fingerprint(r) # None
                       /\ known.fingerprint = Fingerprint(r)
       IN /\ request' = [Idle EXCEPT !.step = IF reusable THEN "reuse" ELSE "inventory",
                                     !.repo = r, !.before = Fingerprint(r)]
          /\ saved' = known
    /\ IF Reset(r)
       THEN /\ manifest' = [p \in Path |-> None]
            /\ graph' = [s \in Scopes |-> None]
            /\ batch' = None
       ELSE UNCHANGED <<manifest, graph, batch>>
    /\ UNCHANGED <<tree, head, changes>>

\* The scopes of files that are new, differ or are gone; all, the first time.
FaultyAffected(inventory) ==
    {ScopeOf(p) : p \in {q \in Path : inventory[q] # None /\ manifest[q] # inventory[q]}}
Affected(inventory) == {ScopeOf(p) : p \in {q \in Path : manifest[q] # inventory[q]}}

Inventory ==
    /\ request.step = "inventory"
    /\ LET inventory == tree[request.repo] IN
       request' = [request EXCEPT !.step = "parse", !.inventory = inventory,
                                  !.affected = Affected(inventory), !.todo = Affected(inventory)]
    /\ UNCHANGED <<tree, head, changes, Tables>>

Give(s) == {p \in Path : ScopeOf(p) = s /\ request.inventory[p] # None}

\* index_scope: the metadata before and after the read are those of the
\* inventory.
Unchanged(s) == \A p \in Give(s) : tree[request.repo][p] = request.inventory[p]

\* A worker takes the next scope; the first error ends the request.
IndexScope(s) ==
    /\ request.step = "parse" /\ s \in request.todo
    /\ request' = IF Unchanged(s) THEN [request EXCEPT !.todo = @ \ {s}] ELSE Idle
    /\ UNCHANGED <<tree, head, changes, Tables>>

\* The rows that are deleted for a scope: of the files at the top for "root";
\* for a directory of all files at any depth below it, and, as LIKE has no
\* regard for case, below any whose name differs only in that.
Lowered(p) == [i \in DOMAIN p |-> Lower[p[i]]]
Cleared(s) ==
    {p \in Path : IF s = <<"root">> THEN Len(p) = 1
                  ELSE IsStrictPrefix(Lowered(s), Lowered(p))}

FaultyNewRows(entries, cleared) ==
    [p \in Path |-> IF p \in entries THEN request.inventory[p] ELSE manifest[p]]
NewRows(entries, cleared) ==
    [p \in Path |-> IF p \in entries THEN request.inventory[p]
                    ELSE IF p \in cleared THEN None ELSE manifest[p]]

\* The batch: the affected partitions and the rows of their files, or nothing
\* if a row is already there.
CommitBatch ==
    /\ request.step = "parse" /\ request.todo = {}
    /\ LET entries == UNION {Give(s) : s \in request.affected}
           cleared == UNION {Cleared(s) : s \in request.affected}
       IN IF \E p \in entries \ cleared : manifest[p] # None
          THEN /\ request' = Idle
               /\ UNCHANGED Tables
          ELSE /\ graph' = [s \in Scopes |->
                    IF s \in request.affected
                    THEN {<<p, request.inventory[p].content>> : p \in Give(s)} ELSE graph[s]]
               /\ manifest' = NewRows(entries, cleared)
               /\ batch' = [repo |-> request.repo, quiet |-> request.quiet, saved |-> FALSE]
               /\ request' = [request EXCEPT !.step = "save"]
               /\ UNCHANGED saved
    /\ UNCHANGED <<tree, head, changes>>

SaveState ==
    /\ request.step = "save"
    /\ LET after == Fingerprint(request.repo) IN
       IF request.before # None /\ request.before # after
       THEN request' = Idle /\ UNCHANGED <<saved, batch>>
       ELSE /\ request' = [request EXCEPT !.step = "search"]
            /\ saved' = IF after = None THEN saved
                        ELSE [repo |-> request.repo, fingerprint |-> after]
            /\ batch' = [batch EXCEPT !.saved = TRUE]
    /\ UNCHANGED <<tree, head, changes, manifest, graph>>

(* What a request is given: the paths its words match, scopes, and nodes of *)
(* those, each up to its limit.  Which come first, by rank, name or id, is  *)
(* data; a quantifier over the sets that may be given stands for it.        *)
FirstOf(S, n) ==
    {T \in SUBSET S : IF Cardinality(S) <= n THEN T = S ELSE Cardinality(T) = n}

\* search_paths.
Found == FirstOf({p \in Wanted : manifest[p] # None}, MaxPaths)

\* The scopes of the paths; those of project_scopes if there is none.
Partitions == {s \in Scopes : graph[s] # None}
FaultySearched(paths) ==
    FirstOf(IF paths = {} THEN Partitions ELSE {Front(p) : p \in paths} \cap Scopes, MaxScopes)
Searched(paths) ==
    FirstOf(IF paths = {} THEN Partitions ELSE {ScopeOf(p) : p \in paths}, MaxScopes)

\* One scope after the other, and in each the nodes of the paths found first.
Context(paths, scopes) ==
    LET rows == UNION {graph[s] : s \in scopes \cap Partitions}
        Of(s) == {n \in rows : ScopeOf(n[1]) = s}
    IN {nodes \in FirstOf(rows, MaxNodes) :
          /\ \A n \in nodes, m \in rows \ nodes :
               ScopeOf(n[1]) = ScopeOf(m[1]) /\ m[1] \in paths => n[1] \in paths
          /\ \A s, t \in scopes : s # t =>
               \E u \in {s, t} : Of(u) \subseteq nodes \/ Of(u) \cap nodes = {}}

Answer ==
    /\ request.step \in {"reuse", "search"}
    /\ request' = Idle
    /\ UNCHANGED <<tree, head, changes, Tables>>

\* A read, a parser or the database fails, or the daemon stops.
Fail ==
    /\ request # Idle
    /\ request' = Idle
    /\ UNCHANGED <<tree, head, changes, Tables>>

-----------------------------------------------------------------------------
(* The user.                                                               *)

Changed(r) ==
    /\ changes < MaxChanges
    /\ changes' = changes + 1
    /\ request' = [request EXCEPT !.quiet = @ /\ request.repo # r]
    /\ UNCHANGED Tables

Write(r, p) ==
    /\ Changed(r)
    /\ \E c \in Content : tree' = [tree EXCEPT ![r][p] = File(c, changes + 1)]
    /\ UNCHANGED head
Delete(r, p) ==
    /\ Changed(r)
    /\ tree[r][p] # None
    /\ tree' = [tree EXCEPT ![r][p] = None]
    /\ UNCHANGED head
\* A move keeps the length and the time.
Rename(r, p, q) ==
    /\ Changed(r)
    /\ tree[r][p] # None /\ p # q
    /\ tree' = [tree EXCEPT ![r][p] = None, ![r][q] = tree[r][p]]
    /\ UNCHANGED head
Commit(r) ==
    /\ Changed(r)
    /\ head' = [head EXCEPT ![r] = [commit |-> changes + 1, contents |-> Contents(tree[r])]]
    /\ UNCHANGED tree

Init ==
    /\ \E c \in Content :
         LET t == [p \in Path |-> File(c, 0)] IN
         /\ tree = [r \in Repo |-> t]
         /\ head = [r \in Repo |-> [commit |-> 0, contents |-> Contents(t)]]
    /\ changes = 0
    /\ manifest = [p \in Path |-> None]
    /\ graph = [s \in Scopes |-> None]
    /\ saved = None
    /\ request = Idle
    /\ batch = None

Next ==
    \/ \E r \in Repo : Begin(r)
    \/ Inventory
    \/ \E s \in Scopes : IndexScope(s)
    \/ CommitBatch \/ SaveState \/ Answer \/ Fail
    \/ \E r \in Repo, p \in Path : Write(r, p) \/ Delete(r, p)
    \/ \E r \in Repo, p, q \in Path : Rename(r, p, q)
    \/ \E r \in Repo : Commit(r)

Spec == Init /\ [][Next]_vars

-----------------------------------------------------------------------------
Files == {File(c, n) : c \in Content, n \in 0..MaxChanges} \union {None}
TypeOK ==
    /\ tree \in [Repo -> [Path -> Files]]
    /\ head \in [Repo -> [commit : 0..MaxChanges, contents : [Path -> Content \union {None}]]]
    /\ changes \in 0..MaxChanges
    /\ manifest \in [Path -> Files]
    /\ \A s \in Scopes : graph[s] # None =>
         graph[s] \subseteq {p \in Path : ScopeOf(p) = s} \X Content
    /\ saved # None => saved.repo \in Versioned /\ saved.fingerprint # None
    /\ request.step \in {"idle", "inventory", "parse", "save", "search", "reuse"}
    /\ request.todo \subseteq request.affected /\ request.affected \subseteq Scopes
    /\ batch # None => batch \in [repo : Repo, quiet : BOOLEAN, saved : BOOLEAN]

\* Two kinds of path the tables lose track of: below the directory of another
\* source file, or in one whose name differs from it only in case; and in a
\* directory that has the name of the top scope.
Nested(p) ==
    \E q \in Path : /\ ScopeOf(q) \notin {ScopeOf(p), <<"root">>}
                    /\ IsPrefix(Lowered(ScopeOf(q)), Lowered(ScopeOf(p)))
InRoot(p) == Len(p) > 1 /\ ScopeOf(p) = <<"root">>

Nodes(p) ==
    {c \in Content : graph[ScopeOf(p)] # None /\ <<p, c>> \in graph[ScopeOf(p)]}

\* replace_partition and replace_manifest_scopes: a row of the manifest, which
\* keeps a file from being read again, stands for what the partition of the
\* file holds; whatever was cleared, reset or rolled back in between.
ManifestIsIndexed ==
    \A p \in Path : manifest[p] # None /\ ~InRoot(p) => Nodes(p) = {manifest[p].content}

\* index_and_context: a saved state is of the checkout that the tables were
\* filled from; the index of one checkout is not reused for another.
SavedIsOfItsOwner == saved # None => batch.repo = saved.repo

Current(p) == LET f == tree[request.repo][p] IN IF f = None THEN {} ELSE {f.content}
HasTheFiles ==
    \A p \in Path : ~InRoot(p) /\ (Current(p) # {} \/ ~Nested(p)) => Nodes(p) = Current(p)
Fresh == request.step = "search" /\ request.quiet
\* The index is reused with nothing uncommitted, and nobody changed a file
\* while the last batch was made.
ReusedClean ==
    /\ request.step = "reuse" /\ request.quiet /\ batch.quiet
    /\ \A p \in Path : Status(request.repo)[p] = "same"

\* index_project and index_and_context: when the index was just made, or is
\* reused after its last batch was saved, each file that exists is in the graph
\* as it is, and of a file that does not exist nothing is left unless it was
\* nested, whatever was indexed, reset, committed, renamed or removed before.
IndexIsCurrent == Fresh \/ (ReusedClean /\ batch.saved) => HasTheFiles

\* docs/USER_MANUAL.md:501: what is reused is unchanged.  A batch stays in the
\* tables when the request that committed it is refused before it saves what
\* git says (code_intelligence.rs:65) or fails.
ReusedIsUnchanged == ReusedClean => HasTheFiles

\* The limit that cut a file off: of the paths, of the scopes, or of the nodes,
\* and then the others given of its scope match as well.
CutOff(p, paths, scopes, nodes) ==
    \/ p \notin paths /\ Cardinality(paths) = MaxPaths
    \/ p \in paths /\ ScopeOf(p) \notin scopes /\ Cardinality(scopes) = MaxScopes
    \/ /\ p \in paths /\ ScopeOf(p) \in scopes /\ Cardinality(nodes) = MaxNodes
       /\ \A n \in nodes : ScopeOf(n[1]) = ScopeOf(p) => n[1] \in paths

\* search_paths, project_scopes and index_and_context: a request that made the
\* index is given what is in every file its words match, unless the tables lose
\* track of the file, or exactly the limit that cut it off is reached.
ContextHasTheWanted ==
    Fresh =>
      \A paths \in Found : \A scopes \in Searched(paths) : \A nodes \in Context(paths, scopes) :
      \A p \in Wanted : \A c \in Current(p) :
        \/ Nested(p) \/ InRoot(p)
        \/ <<p, c>> \in nodes
        \/ CutOff(p, paths, scopes, nodes)

\* Whatever stops half-way, the tables agree with one another and with the
\* checkout they were filled from.
Inv == TypeOK /\ ManifestIsIndexed /\ SavedIsOfItsOwner
=============================================================================
