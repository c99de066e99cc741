------------------------------- MODULE GitRepo -------------------------------
(***************************************************************************)
(* A git repository as src/repo/gitcore.rs drives it: constant-level       *)
(* operators on a record of working tree, index and HEAD.  Contents are    *)
(* compared, never looked into; Absent is the content of a missing file.   *)
(***************************************************************************)
EXTENDS Naturals

CONSTANTS
  Path,      \* files git does not ignore
  Content,   \* what a file may hold
  Absent,    \* no file
  Quoted     \* files whose name `git status` prints escaped (non-ASCII)

ASSUME GitAssumption == Quoted \subseteq Path /\ Absent \notin Content

Blob == Content \cup {Absent}
Files == [Path -> Blob]
Repo == [tree : Files, index : Files, head : Files, commits : Nat]
Change == [path : Path, untracked : BOOLEAN]

\* A clone whose files are all committed.
CleanRepo(files) == [tree |-> files, index |-> files, head |-> files, commits |-> 0]

Dirtied(r, p) == r.tree[p] # r.index[p] \/ r.index[p] # r.head[p]

\* status_porcelain, the delta against HEAD: a line for what git tracks, one for
\* what it does not; a file whose removal is staged and that is there again has both.
Status(r) ==
  [path : {p \in Path : r.index[p] # r.head[p] \/ r.index[p] \notin {Absent, r.tree[p]}},
   untracked : {FALSE}] \cup
  [path : {p \in Path : r.index[p] = Absent /\ r.tree[p] # Absent}, untracked : {TRUE}]

\* Files whose removal is staged and that are there again.
Remade(r) == {p \in Path : r.index[p] = Absent /\ Absent \notin {r.tree[p], r.head[p]}}

\* A name that status escaped is unquoted but not unescaped: it names no file.
Named(p) == p \notin Quoted

\* restore_to_head: an untracked file is removed, any other checked out of HEAD.
CanRestore(r, ch) == /\ Named(ch.path)
                     /\ IF ch.untracked THEN r.tree[ch.path] # Absent
                                        ELSE r.head[ch.path] # Absent

\* Mutant of RestoreToHead: a tracked file is checked out of the index.
RestoreToHeadIndex(r, ch) ==
  [r EXCEPT !.tree[ch.path] = IF ch.untracked THEN Absent ELSE r.index[ch.path]]

\* The change is discarded; nothing is committed.
RestoreToHead(r, ch) ==
  IF ch.untracked THEN [r EXCEPT !.tree[ch.path] = Absent]
  ELSE [r EXCEPT !.tree[ch.path] = r.head[ch.path], !.index[ch.path] = r.head[ch.path]]

\* `git add -A -- ps` refuses the whole list when one entry names nothing.
CanAdd(r, ps) == \A p \in ps : Named(p) /\ ~(r.tree[p] = Absent /\ r.index[p] = Absent)

Add(r, ps) ==
  [r EXCEPT !.index = [p \in Path |-> IF p \in ps THEN r.tree[p] ELSE r.index[p]]]

\* Something is staged among ps: a commit will not be empty.
Staged(r, ps) == \E p \in ps : r.index[p] # r.head[p]

\* commit_paths after its add; nothing staged, no commit.
Commit(r, ps) ==
  IF Staged(r, ps)
  THEN [r EXCEPT !.head = [p \in Path |-> IF p \in ps THEN r.index[p] ELSE r.head[p]],
                 !.commits = @ + 1]
  ELSE r

\* Three processes of git, here one.  The last takes the paths from the tree again, so that
\* what another writer changes meanwhile is committed as if it had been there before.
CommitPaths(r, ps) == Commit(Add(r, ps), ps)
=============================================================================
