------------------------------- MODULE Patch -------------------------------
(***************************************************************************)
(* The pure core of packages patch, scope and gitrepo: how the changes of  *)
(* an attempt are captured as a bundle of entries against the base tree,   *)
(* and how the bundle is replayed onto that tree, within a write scope.    *)
(*                                                                         *)
(* A path is a sequence of segments, a segment stands for its NFC spelling *)
(* and Fold for Unicode case folding.  A file is a record of its mode and  *)
(* its content's hash, a tree a function from paths to files.              *)
(***************************************************************************)
EXTENDS Scopes

CONSTANTS
  Fold,       \* segment -> its case fold
  Ignored,    \* paths Git ignores when the base tree does not hold them
  Unsafe,     \* files that are symbolic links to a target outside the tree
  Protected,  \* xgoal.yaml and the files that configure validators
  Directories,  \* the trees a base tree and a directory may be
  Policies      \* the write scopes, of patterns to write and to deny

\* Where a file is, there is no directory; what has no path is no file.
IsTree(tree) ==
  /\ tree = [p \in DOMAIN tree |-> tree[p]]
  /\ \A p \in DOMAIN tree : p \in Seq(DOMAIN Fold) \ {<<>>}
  /\ \A p, q \in DOMAIN tree : ~IsStrictPrefix(p, q)

ASSUME PatchAssumption ==
  /\ <<>> \notin Protected
  /\ \A tree \in Directories : IsTree(tree)
  /\ \A policy \in Policies : \A w \in policy.write \cup policy.deny : IsSequence(w)

Differ(base, tree) ==
  {p \in DOMAIN base \cup DOMAIN tree :
     \/ p \notin DOMAIN base \/ p \notin DOMAIN tree
     \/ base[p] # tree[p]}

(***************************************************************************)
(* Scopes.                                                                 *)
(***************************************************************************)
Writable(policy, path) ==
  /\ \A d \in policy.deny : ~MatchSegments(d, path)
  /\ \E w \in policy.write : MatchSegments(w, path)

Parents(paths) == UNION {Prefixes(p) : p \in paths}
Folded(path) == [i \in DOMAIN path |-> Fold[path[i]]]

\* CanonicalizePaths: no two of the paths or their parents differ only in case.
Canonical(paths) ==
  \A p, q \in Parents(paths) : Folded(p) = Folded(q) => p = q

CheckWrite(policy, paths) ==
  Canonical(paths) /\ \A p \in paths : Writable(policy, p)

(***************************************************************************)
(* Reading the working directory and writing a tree.                       *)
(***************************************************************************)
Safe(tree) == Range(tree) \cap Unsafe = {}

\* SnapshotTree reads the paths of the base tree and whatever Git does not
\* ignore; a name of the base tree counts even when its file is gone.
Names(base, disk) == DOMAIN base \cup (DOMAIN disk \ Ignored)
Snapshot(base, disk) == Restrict(disk, Names(base, disk) \cap DOMAIN disk)
Readable(base, disk) ==
  Canonical(Names(base, disk)) /\ Safe(Snapshot(base, disk))

Buildable(tree) ==
  /\ Canonical(DOMAIN tree)
  /\ \A p, q \in DOMAIN tree : ~IsStrictPrefix(p, q)

(***************************************************************************)
(* Capture: the entries that turn the base tree into the snapshot.         *)
(***************************************************************************)
Entry(kind, path, from, before, after) ==
  [kind |-> kind, path |-> path, from |-> from,
   before |-> before, after |-> after]

\* A rename is a deletion and an addition of the same file, each the only
\* one of that file.
Renames(base, tree) ==
  LET deleted == DOMAIN base \ DOMAIN tree
      added   == DOMAIN tree \ DOMAIN base
  IN {r \in deleted \X added :
        /\ {e \in deleted : base[e] = tree[r[2]]} = {r[1]}
        /\ {e \in added : tree[e] = base[r[1]]} = {r[2]}}

CompareFiles(base, tree) ==
  LET renames == Renames(base, tree)
      gone    == DOMAIN base \ (DOMAIN tree \cup {r[1] : r \in renames})
      arrived == DOMAIN tree \ (DOMAIN base \cup {r[2] : r \in renames})
      changed == {p \in DOMAIN base \cap DOMAIN tree : base[p] # tree[p]}
  IN {Entry("modified", p, <<>>, base[p], tree[p]) : p \in changed}
     \cup {Entry("renamed", r[2], r[1], base[r[1]], tree[r[2]]) : r \in renames}
     \cup {Entry("deleted", p, <<>>, base[p], base[p]) : p \in gone}
     \cup {Entry("added", p, <<>>, tree[p], tree[p]) : p \in arrived}

Capture(base, disk) == CompareFiles(base, Snapshot(base, disk))
Capturable(base, disk) ==
  /\ Canonical(DOMAIN base) /\ Safe(base)
  /\ Readable(base, disk)
  /\ Capture(base, disk) # {}

ChangesValidatorConfig(entries) ==
  \E e \in entries : {e.path, e.from} \cap Protected # {}

(***************************************************************************)
(* Replay: the entries checked against the base tree and applied to it.    *)
(***************************************************************************)
\* Mutant: the path a file was renamed from is not checked.
ChangedTargets(entries) == {e.path : e \in entries}
Changed(entries) == ({e.path : e \in entries} \cup {e.from : e \in entries}) \ {<<>>}

Applies(base, e) ==
  CASE e.kind = "added" -> e.path \notin DOMAIN base
    [] e.kind \in {"modified", "deleted"} ->
         e.path \in DOMAIN base /\ base[e.path] = e.before
    [] e.kind = "renamed" ->
         /\ e.path \notin DOMAIN base
         /\ e.from \in DOMAIN base /\ base[e.from] = e.before

Reconstruct(base, entries) ==
  LET removed == {e.path : e \in {x \in entries : x.kind = "deleted"}}
                 \cup {e.from : e \in entries}
      written == {e \in entries : e.kind # "deleted"}
      kept    == DOMAIN base \ (removed \cup {e.path : e \in written})
  IN [p \in kept \cup {e.path : e \in written} |->
        IF p \in kept THEN base[p]
        ELSE (CHOOSE e \in written : e.path = p).after]

\* Replay accepts the bundle: its candidate is buildable, a change, and
\* what the directory holds now.
Replays(policy, base, entries, disk) ==
  LET candidate == Reconstruct(base, entries)
  IN /\ Readable(base, disk)
     /\ CheckWrite(policy, Changed(entries))
     /\ Canonical(DOMAIN base) /\ Safe(base)
     /\ \A e \in entries : Applies(base, e)
     /\ \A e \in entries : e.kind # "deleted" => e.after \notin Unsafe
     /\ Buildable(candidate)
     /\ candidate # base
     /\ candidate = Snapshot(base, disk)

\* What executeWork asks of an attempt's directory before it is validated.
Accepts(policy, base, disk) ==
  /\ Capturable(base, disk)
  /\ ~ChangesValidatorConfig(Capture(base, disk))
  /\ Replays(policy, base, Capture(base, disk), disk)

----------------------------------------------------------------------------
\* What a write scope means, by what its patterns cover.
InScope(policy, path) ==
  /\ \E w \in policy.write : Covers(w, path)
  /\ ~ \E d \in policy.deny : Covers(d, path)

\* A directory that can be captured is taken if and only if every path in
\* which it differs from the base tree is in the write scope and configures no
\* validator: its bundle, renames and deletions included, replayed onto the
\* base tree, is the directory (Capture, compareFiles, Replay, CheckWrite,
\* changesValidatorConfig).
Reproduces(policy, base, dir) ==
  Capturable(base, dir) =>
    (Accepts(policy, base, dir) <=>
       \A p \in Differ(base, Snapshot(base, dir)) :
         InScope(policy, p) /\ p \notin Protected)
=============================================================================
