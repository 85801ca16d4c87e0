---------------------------- MODULE InputsProofs ----------------------------
(***************************************************************************)
(* The pure modules hold for every input: what Reproduces, CycleTestsAgree *)
(* with Completes, and Agrees say, TLC evaluates on a few thousand inputs, *)
(* and the theorems at the end prove for all trees, plans and outputs.     *)
(***************************************************************************)
EXTENDS Inputs, Recursion, FiniteSetTheorems, SequenceTheorems

-----------------------------------------------------------------------------
(***************************************************************************)
(* Scopes.                                                                 *)
(***************************************************************************)
LEMMA SequenceFacts ==
  ASSUME NEW s, IsSequence(s)
  PROVE  /\ Len(s) \in Nat /\ DOMAIN s = 1 .. Len(s)
         /\ s = [i \in 1 .. Len(s) |-> s[i]]
  BY DEF IsSequence

\* What the definition of MatchedFrom says, one segment at a time.
LEMMA MatchedFromIs ==
  ASSUME NEW pattern, IsSequence(pattern), NEW path, IsSequence(path)
  PROVE  /\ MatchedFrom(pattern, path)[0] = {Len(path) + 1}
         /\ \A k \in 0 .. Len(pattern) - 1 :
              MatchedFrom(pattern, path)[k + 1] =
                Before(path, pattern[Len(pattern) - k], MatchedFrom(pattern, path)[k])
  <1> DEFINE N == Len(pattern)
             M == Len(path)
             T == SUBSET (1 .. M + 1)
             F == [x \in T \X Nat |-> Before(path, pattern[N - x[2]], x[1])]
  <1>1. N \in Nat /\ M \in Nat
    BY SequenceFacts
  <1>2. F \in [T \X Nat -> T]
    BY <1>1 DEF Before
  <1>3. {M + 1} \in T
    BY <1>1
  <1>4. PICK g \in [0 .. N -> T] : Solves({M + 1}, F, N, g)
    <2> HIDE DEF T, F, N, M
    <2> QED BY <1>1, <1>2, <1>3, Solvable
  <1>5. ASSUME NEW h, h = [k \in 0 .. N |-> IF k = 0 THEN {M + 1}
                            ELSE Before(path, pattern[N + 1 - k], h[k - 1])]
        PROVE  /\ h[0] = {M + 1}
               /\ \A k \in 0 .. N - 1 : h[k + 1] = Before(path, pattern[N - k], h[k])
    <2> HIDE DEF N, M
    <2>1. ASSUME NEW k \in 0 .. N - 1
          PROVE  h[k + 1] = Before(path, pattern[N - k], h[k])
      <3>1. k + 1 \in 0 .. N /\ k + 1 # 0 /\ (k + 1) - 1 = k /\ N + 1 - (k + 1) = N - k
        BY <1>1
      <3>2. h[k + 1] = Before(path, pattern[N + 1 - (k + 1)], h[(k + 1) - 1])
        BY <1>5, <3>1
      <3> QED BY <3>1, <3>2
    <2>2. 0 \in 0 .. N
      BY <1>1
    <2> QED BY <1>5, <2>1, <2>2
  <1>6. \E h : h = [k \in 0 .. N |-> IF k = 0 THEN {M + 1}
                      ELSE Before(path, pattern[N + 1 - k], h[k - 1])]
    <2>1. ASSUME NEW k \in 0 .. N, k # 0
          PROVE  F[<<g[k - 1], k - 1>>] = Before(path, pattern[N + 1 - k], g[k - 1])
      <3>1. k - 1 \in 0 .. N /\ k - 1 \in Nat /\ N - (k - 1) = N + 1 - k
        BY <1>1, <2>1
      <3>2. g[k - 1] \in T
        BY <3>1
      <3> HIDE DEF T, N
      <3> QED BY <3>1, <3>2
    <2> HIDE DEF F, N, M
    <2>2. g = [k \in 0 .. N |-> IF k = 0 THEN {M + 1}
                      ELSE Before(path, pattern[N + 1 - k], g[k - 1])]
      BY <1>4, <2>1 DEF Solves
    <2> QED BY <2>2
  <1>7. MatchedFrom(pattern, path) =
          [k \in 0 .. N |-> IF k = 0 THEN {M + 1}
             ELSE Before(path, pattern[N + 1 - k], MatchedFrom(pattern, path)[k - 1])]
    BY <1>6 DEF MatchedFrom
  <1> HIDE DEF N, M
  <1>8. MatchedFrom(pattern, path)[0] = {M + 1} /\
        \A k \in 0 .. N - 1 : MatchedFrom(pattern, path)[k + 1]
                               = Before(path, pattern[N - k], MatchedFrom(pattern, path)[k])
    <2> QED BY <1>5, <1>7
  <1> QED BY <1>8 DEF N, M

\* The matching of a pattern agrees with what the pattern means.
LEMMA MatchSegmentsIsCovers ==
  ASSUME NEW pattern, IsSequence(pattern), NEW path, IsSequence(path)
  PROVE  MatchSegments(pattern, path) <=> Covers(pattern, path)
  <1> DEFINE N == Len(pattern)
             M == Len(path)
             From(k) == MatchedFrom(pattern, path)[k]
             Fits(at, i) == IF pattern[i] = "**" THEN at[i - 1] <= at[i]
                            ELSE /\ at[i] = at[i - 1] + 1
                                 /\ SegMatches(pattern[i], path[at[i]])
  <1>1. N \in Nat /\ M \in Nat /\ DOMAIN pattern = 1 .. N
    BY SequenceFacts
  <1>2. /\ From(0) = {M + 1}
        /\ \A k \in 0 .. N - 1 :
             From(k + 1) = Before(path, pattern[N - k], From(k))
    BY MatchedFromIs
  <1> HIDE DEF N, M, From
  <1>3. ASSUME NEW at \in [0 .. N -> 0 .. M], at[0] = 0, at[N] = M,
               \A i \in 1 .. N : Fits(at, i)
        PROVE  1 \in From(N)
    <2> DEFINE S == {k \in 0 .. N : at[N - k] + 1 \in From(k)}
    <2>1. 0 \in S
      BY <1>1, <1>2, <1>3
    <2>2. ASSUME NEW k \in 0 .. N - 1, k \in S PROVE k + 1 \in S
      <3> DEFINE i == N - k
                 j == at[i - 1] + 1
      <3>1. i \in 1 .. N /\ i - 1 \in 0 .. N /\ N - (k + 1) = i - 1 /\ k + 1 \in 0 .. N
        BY <1>1
      <3>2. at[i] \in 0 .. M /\ at[i - 1] \in 0 .. M /\ Fits(at, i)
        BY <1>3, <3>1
      <3>3. at[i] + 1 \in From(k)
        BY <2>2
      <3>4. CASE pattern[i] = "**"
        <4>1. j \in 1 .. M + 1 /\ j <= at[i] + 1
          BY <1>1, <3>2, <3>4
        <4>2. From(k + 1) = {x \in 1 .. M + 1 : \E m \in From(k) : x <= m}
          BY <1>2, <3>4 DEF Before, M
        <4> HIDE DEF i, j
        <4>3. j \in From(k + 1)
          BY <3>3, <4>1, <4>2
        <4> QED BY <3>1, <4>3 DEF j
      <3>5. CASE pattern[i] # "**"
        <4>1. j = at[i] /\ j \in 1 .. M /\ SegMatches(pattern[i], path[j])
          BY <1>1, <3>2, <3>5
        <4>2. From(k + 1) = {x \in 1 .. M : /\ SegMatches(pattern[i], path[x])
                                            /\ x + 1 \in From(k)}
          BY <1>2, <3>5 DEF Before, M
        <4> HIDE DEF i, j
        <4>3. j \in From(k + 1)
          BY <3>3, <4>1, <4>2
        <4> QED BY <3>1, <4>3 DEF j
      <3> QED BY <3>4, <3>5
    <2> HIDE DEF S
    <2>3. \A k \in 0 .. N : k \in S
      BY <1>1, <2>1, <2>2, InductTo
    <2> QED BY <1>1, <1>3, <2>3 DEF S
  <1>4. ASSUME 1 \in From(N)
        PROVE  \E at \in [0 .. N -> 0 .. M] :
                  at[0] = 0 /\ at[N] = M /\ \A i \in 1 .. N : Fits(at, i)
    <2> DEFINE Cut(k, j, at) ==
                 /\ at \in [N - k .. N -> 0 .. M]
                 /\ at[N - k] = j - 1 /\ at[N] = M
                 /\ \A i \in N - k + 1 .. N : Fits(at, i)
               S == {k \in 0 .. N : \A j \in From(k) : \E at : Cut(k, j, at)}
    <2>1. 0 \in S
      <3>1. Cut(0, M + 1, [i \in N .. N |-> M])
        BY <1>1
      <3> HIDE DEF Cut
      <3>2. \A j \in From(0) : \E at : Cut(0, j, at)
        BY <1>2, <3>1
      <3> QED BY <1>1, <3>2
    <2>2. ASSUME NEW k \in 0 .. N - 1, k \in S PROVE k + 1 \in S
      <3> DEFINE i == N - k
      <3>1. i \in 1 .. N /\ i - 1 \in 0 .. N /\ N - (k + 1) = i - 1 /\ k + 1 \in 0 .. N
        BY <1>1
      <3>2. SUFFICES ASSUME NEW j \in From(k + 1) PROVE \E at : Cut(k + 1, j, at)
        BY <3>1
      <3>3. \E m \in From(k) : /\ j \in 1 .. M + 1
                               /\ IF pattern[i] = "**" THEN j <= m
                                  ELSE m = j + 1 /\ j <= M /\ SegMatches(pattern[i], path[j])
        <4>1. CASE pattern[i] = "**"
          <5>1. From(k + 1) = {x \in 1 .. M + 1 : \E m \in From(k) : x <= m}
            BY <1>2, <4>1 DEF Before, M
          <5> QED BY <3>2, <4>1, <5>1
        <4>2. CASE pattern[i] # "**"
          <5>1. From(k + 1) = {x \in 1 .. M : /\ SegMatches(pattern[i], path[x])
                                              /\ x + 1 \in From(k)}
            BY <1>2, <4>2 DEF Before, M
          <5>2. /\ j \in 1 .. M /\ j + 1 \in From(k)
                /\ SegMatches(pattern[i], path[j])
            BY <3>2, <5>1
          <5>3. j \in 1 .. M + 1 /\ j <= M
            BY <1>1, <5>2
          <5> QED BY <4>2, <5>2, <5>3
        <4> QED BY <4>1, <4>2
      <3>4. PICK m \in From(k) : /\ j \in 1 .. M + 1
                                /\ IF pattern[i] = "**" THEN j <= m
                                   ELSE m = j + 1 /\ j <= M /\ SegMatches(pattern[i], path[j])
        BY <3>3
      <3>5. PICK at : Cut(k, m, at)
        BY <2>2
      <3> DEFINE to == [x \in i - 1 .. N |-> IF x = i - 1 THEN j - 1 ELSE at[x]]
      <3>6. at[i] = m - 1 /\ at[i] \in 0 .. M /\ m \in Int
        <4>1. at[i] = m - 1 /\ at[i] \in 0 .. M
          BY <1>1, <3>1, <3>5
        <4>2. m \in Int
          <5>1. k = 0 => From(k) = {M + 1}
            BY <1>2
          <5>2. ASSUME k # 0 PROVE From(k) \subseteq Int
            <6>1. k - 1 \in 0 .. N - 1 /\ (k - 1) + 1 = k
              BY <1>1, <5>2
            <6>2. Before(path, pattern[N - (k - 1)], From(k - 1)) \subseteq Int
              BY DEF Before
            <6> QED BY <1>2, <6>1, <6>2
          <5> QED BY <1>1, <3>4, <5>1, <5>2
        <4> QED BY <4>1, <4>2
      <3>7. to \in [i - 1 .. N -> 0 .. M] /\ to[i - 1] = j - 1 /\ to[N] = M
        BY <1>1, <3>1, <3>4, <3>5
      <3>8. ASSUME NEW x \in i .. N PROVE Fits(to, x)
        <4>1. x \in i - 1 .. N /\ x - 1 \in i - 1 .. N /\ x # i - 1
          BY <1>1, <3>1
        <4>2. CASE x = i
          <5>1. to[x] = m - 1 /\ to[x - 1] = j - 1 /\ j \in Int
            BY <3>4, <3>6, <4>1, <4>2
          <5> HIDE DEF to
          <5> QED BY <3>4, <3>6, <4>2, <5>1
        <4>3. CASE x # i
          <5>1. x \in N - k + 1 .. N /\ x - 1 # i - 1
            BY <1>1, <4>3
          <5>2. to[x] = at[x] /\ to[x - 1] = at[x - 1]
            BY <4>1, <5>1
          <5> HIDE DEF to
          <5> QED BY <3>5, <5>1, <5>2
        <4> QED BY <4>2, <4>3
      <3> HIDE DEF to
      <3>9. Cut(k + 1, j, to)
        BY <1>1, <3>1, <3>7, <3>8
      <3> QED BY <3>9
    <2> HIDE DEF S
    <2>3. \A k \in 0 .. N : k \in S
      BY <1>1, <2>1, <2>2, InductTo
    <2>4. PICK at : Cut(N, 1, at)
      <3>1. N \in S
        BY <1>1, <2>3
      <3> QED BY <1>4, <3>1 DEF S
    <2>5. N - N = 0 /\ N - N + 1 = 1 /\ 1 - 1 = 0
      BY <1>1
    <2> QED BY <2>4, <2>5
  <1> QED BY <1>1, <1>3, <1>4 DEF MatchSegments, Covers, N, M, From

-----------------------------------------------------------------------------
(***************************************************************************)
(* Patch.  A bundle has one entry or two paths for each path that differs, *)
(* whatever is taken for a rename.                                         *)
(***************************************************************************)
LEMMA EntryIs ==
  ASSUME NEW base, NEW tree, NEW e \in CompareFiles(base, tree)
  PROVE  \/ /\ e.kind = "modified" /\ e.from = <<>>
            /\ e.path \in DOMAIN base \cap DOMAIN tree /\ base[e.path] # tree[e.path]
            /\ e.before = base[e.path] /\ e.after = tree[e.path]
         \/ /\ e.kind = "renamed"
            /\ e.path \in DOMAIN tree \ DOMAIN base /\ e.from \in DOMAIN base \ DOMAIN tree
            /\ e.before = base[e.from] /\ e.after = tree[e.path]
         \/ /\ e.kind = "deleted" /\ e.from = <<>>
            /\ e.path \in DOMAIN base \ DOMAIN tree /\ e.before = base[e.path]
         \/ /\ e.kind = "added" /\ e.from = <<>>
            /\ e.path \in DOMAIN tree \ DOMAIN base /\ e.after = tree[e.path]
  <1>1. \A r \in Renames(base, tree) :
           r[1] \in DOMAIN base \ DOMAIN tree /\ r[2] \in DOMAIN tree \ DOMAIN base
    BY DEF Renames
  <1> QED BY <1>1 DEF CompareFiles, Entry

LEMMA EntryFor ==
  ASSUME NEW base, NEW tree
  PROVE  /\ \A p \in DOMAIN base \cap DOMAIN tree : base[p] # tree[p] =>
              \E e \in CompareFiles(base, tree) : e.kind = "modified" /\ e.path = p
         /\ \A p \in DOMAIN base \ DOMAIN tree :
              \E e \in CompareFiles(base, tree) :
                 (e.kind = "deleted" /\ e.path = p) \/ (e.kind = "renamed" /\ e.from = p)
         /\ \A p \in DOMAIN tree \ DOMAIN base :
              \E e \in CompareFiles(base, tree) : e.kind \in {"added", "renamed"} /\ e.path = p
  <1>1. ASSUME NEW p \in DOMAIN base \cap DOMAIN tree, base[p] # tree[p]
        PROVE  \E e \in CompareFiles(base, tree) : e.kind = "modified" /\ e.path = p
    <2>1. Entry("modified", p, <<>>, base[p], tree[p]) \in CompareFiles(base, tree)
      BY <1>1 DEF CompareFiles
    <2> QED BY <2>1 DEF Entry
  <1>2. ASSUME NEW p \in DOMAIN base \ DOMAIN tree
        PROVE  \E e \in CompareFiles(base, tree) :
                 (e.kind = "deleted" /\ e.path = p) \/ (e.kind = "renamed" /\ e.from = p)
    <2>1. CASE \E r \in Renames(base, tree) : r[1] = p
      <3>1. PICK r \in Renames(base, tree) : r[1] = p
        BY <2>1
      <3>2. Entry("renamed", r[2], r[1], base[r[1]], tree[r[2]]) \in CompareFiles(base, tree)
        BY DEF CompareFiles
      <3> QED BY <3>1, <3>2 DEF Entry
    <2>2. CASE ~ \E r \in Renames(base, tree) : r[1] = p
      <3> DEFINE e == Entry("deleted", p, <<>>, base[p], base[p])
      <3>1. e \in CompareFiles(base, tree)
        BY <2>2 DEF CompareFiles
      <3>2. e.kind = "deleted" /\ e.path = p
        BY DEF Entry
      <3> HIDE DEF e
      <3> QED BY <3>1, <3>2
    <2> QED BY <2>1, <2>2
  <1>3. ASSUME NEW p \in DOMAIN tree \ DOMAIN base
        PROVE  \E e \in CompareFiles(base, tree) :
                  e.kind \in {"added", "renamed"} /\ e.path = p
    <2>1. CASE \E r \in Renames(base, tree) : r[2] = p
      <3>1. PICK r \in Renames(base, tree) : r[2] = p
        BY <2>1
      <3>2. Entry("renamed", r[2], r[1], base[r[1]], tree[r[2]]) \in CompareFiles(base, tree)
        BY DEF CompareFiles
      <3> QED BY <3>1, <3>2 DEF Entry
    <2>2. CASE ~ \E r \in Renames(base, tree) : r[2] = p
      <3>1. Entry("added", p, <<>>, tree[p], tree[p]) \in CompareFiles(base, tree)
        BY <2>2 DEF CompareFiles
      <3> QED BY <3>1 DEF Entry
    <2> QED BY <2>1, <2>2
  <1> QED BY <1>1, <1>2, <1>3

\* The paths a bundle names are those in which the trees differ.
LEMMA ChangedIsDiffer ==
  ASSUME NEW base, NEW tree, <<>> \notin DOMAIN base \cup DOMAIN tree
  PROVE  Changed(CompareFiles(base, tree)) = Differ(base, tree)
  <1> DEFINE E == CompareFiles(base, tree)
  <1>1. \A e \in E : /\ e.path \in Differ(base, tree)
                     /\ e.from # <<>> => e.from \in Differ(base, tree)
    BY EntryIs DEF Differ
  <1>2. \A p \in Differ(base, tree) : p # <<>> /\ \E e \in E : p \in {e.path, e.from}
    BY EntryFor DEF Differ
  <1> HIDE DEF E
  <1>3. Changed(E) = Differ(base, tree)
    BY <1>1, <1>2 DEF Changed
  <1> QED BY <1>3 DEF E

\* Applied to the base tree, the entries of a bundle give the tree.
LEMMA Reconstructed ==
  ASSUME NEW base, NEW tree, tree = [p \in DOMAIN tree |-> tree[p]],
         <<>> \notin DOMAIN base \cup DOMAIN tree
  PROVE  Reconstruct(base, CompareFiles(base, tree)) = tree
  <1> DEFINE E == CompareFiles(base, tree)
             removed == {e.path : e \in {x \in E : x.kind = "deleted"}}
                        \cup {e.from : e \in E}
             written == {e \in E : e.kind # "deleted"}
             paths == {e.path : e \in written}
             kept == DOMAIN base \ (removed \cup paths)
  <1>1. kept = {p \in DOMAIN base \cap DOMAIN tree : base[p] = tree[p]}
    <2>1. ASSUME NEW p \in kept PROVE p \in DOMAIN tree /\ base[p] = tree[p]
      <3>1. p \in DOMAIN base /\ \A e \in E : /\ e.kind = "deleted" => e.path # p
                                              /\ e.kind # "deleted" => e.path # p
                                              /\ e.from # p
        OBVIOUS
      <3> QED BY <3>1, EntryFor
    <2>2. ASSUME NEW p \in DOMAIN base \cap DOMAIN tree, base[p] = tree[p]
          PROVE  p \in kept
      <3>1. \A e \in E : e.path # p /\ e.from # p
        BY <2>2, EntryIs
      <3> HIDE DEF E
      <3> QED BY <3>1
    <2> QED BY <2>1, <2>2
  <1>2. paths = DOMAIN tree \ kept
    <2>1. \A p \in paths : p \in DOMAIN tree /\ p \notin kept
      BY EntryIs
    <2>2. ASSUME NEW p \in DOMAIN tree, p \notin kept PROVE p \in paths
      <3>1. p \notin DOMAIN base \/ base[p] # tree[p]
        BY <1>1, <2>2
      <3>2. \E e \in E : e.kind \in {"modified", "added", "renamed"} /\ e.path = p
        <4>1. CASE p \in DOMAIN base
          BY <2>2, <3>1, <4>1, EntryFor
        <4>2. CASE p \notin DOMAIN base
          BY <2>2, <4>2, EntryFor
        <4> QED BY <4>1, <4>2
      <3> QED BY <3>2
    <2> QED BY <2>1, <2>2
  <1>3. \A e \in written : e.after = tree[e.path]
    BY EntryIs
  <1> DEFINE at(p) == IF p \in kept THEN base[p] ELSE (CHOOSE e \in written : e.path = p).after
  <1>4. Reconstruct(base, E) = [p \in kept \cup paths |-> at(p)]
    BY DEF Reconstruct, Zenon
  <1>5. \A p \in paths : \E e \in written : e.path = p
    OBVIOUS
  <1> HIDE DEF E, written, kept, paths
  <1>6. ASSUME NEW p \in DOMAIN tree PROVE at(p) = tree[p]
    <2>1. CASE p \in kept
      BY <1>1, <2>1
    <2>2. CASE p \notin kept
      <3> DEFINE e == CHOOSE e \in written : e.path = p
      <3>1. e \in written /\ e.path = p
        BY <1>2, <1>5, <2>2
      <3> QED BY <1>3, <2>2, <3>1
    <2> QED BY <2>1, <2>2
  <1>7. kept \cup paths = DOMAIN tree
    BY <1>1, <1>2
  <1> HIDE DEF at
  <1> QED BY <1>4, <1>6, <1>7 DEF E

LEMMA EntriesApply ==
  ASSUME NEW base, NEW tree, NEW e \in CompareFiles(base, tree)
  PROVE  /\ Applies(base, e)
         /\ e.kind # "deleted" => e.after \in Range(tree)
         /\ tree # base
  <1>1. Applies(base, e)
    BY EntryIs DEF Applies
  <1>2. e.kind # "deleted" => e.after \in Range(tree)
    BY EntryIs DEF Range
  <1>3. tree # base
    BY EntryIs
  <1> QED BY <1>1, <1>2, <1>3

\* Fewer paths are no less canonical.
LEMMA CanonicalSubset ==
  ASSUME NEW A, NEW B, A \subseteq B, Canonical(B)
  PROVE  Canonical(A)
  <1>1. Parents(A) \subseteq Parents(B)
    BY DEF Parents
  <1> QED BY <1>1 DEF Canonical

LEMMA WritableIsInScope ==
  ASSUME NEW policy \in Policies, NEW p, IsSequence(p)
  PROVE  Writable(policy, p) <=> InScope(policy, p)
  <1>1. \A w \in policy.write \cup policy.deny :
           MatchSegments(w, p) <=> Covers(w, p)
    BY PatchAssumption, MatchSegmentsIsCovers DEF PatchAssumption
  <1> QED BY <1>1 DEF Writable, InScope

\* Any directory, over any base tree and under any policy.
LEMMA DirectoryReproduces ==
  ASSUME NEW base \in Directories, NEW dir \in Directories, NEW policy \in Policies
  PROVE  Reproduces(policy, base, dir)
  <1> DEFINE tree == Snapshot(base, dir)
             E == CompareFiles(base, tree)
  <1>1. SUFFICES ASSUME Capturable(base, dir)
        PROVE  Accepts(policy, base, dir) <=>
                 \A p \in Differ(base, tree) : InScope(policy, p) /\ p \notin Protected
    BY DEF Reproduces
  <1>2. IsTree(base) /\ IsTree(dir) /\ <<>> \notin Protected
    BY PatchAssumption DEF PatchAssumption
  <1>3. /\ DOMAIN tree = Names(base, dir) \cap DOMAIN dir
        /\ tree = [p \in DOMAIN tree |-> tree[p]]
    BY DEF Snapshot, Restrict
  <1>4. \A p \in DOMAIN base \cup DOMAIN tree : p # <<>> /\ IsSequence(p)
    BY <1>2, <1>3 DEF IsTree, IsSequence, Range
  <1>5. Changed(E) = Differ(base, tree) /\ Reconstruct(base, E) = tree
    <2> HIDE DEF tree
    <2> QED BY <1>3, <1>4, ChangedIsDiffer, Reconstructed
  <1>6. ChangesValidatorConfig(E) <=> Differ(base, tree) \cap Protected # {}
    BY <1>2, <1>5 DEF Changed, ChangesValidatorConfig
  <1>7. /\ Canonical(DOMAIN base) /\ Safe(base) /\ Readable(base, dir)
        /\ Safe(tree) /\ E # {}
    BY <1>1 DEF Capturable, Readable, Capture
  <1>8. Canonical(Differ(base, tree)) /\ Canonical(DOMAIN tree)
    <2>1. Canonical(Names(base, dir))
      BY <1>1 DEF Capturable, Readable
    <2>2. DOMAIN tree \subseteq Names(base, dir) /\ DOMAIN base \subseteq Names(base, dir)
      BY <1>3 DEF Names
    <2>3. Differ(base, tree) \subseteq Names(base, dir)
      BY <2>2 DEF Differ
    <2> HIDE DEF tree
    <2> QED BY <2>1, <2>2, <2>3, CanonicalSubset
  <1>9. Buildable(tree)
    BY <1>2, <1>3, <1>8 DEF Buildable, IsTree
  <1>10. /\ \A e \in E : Applies(base, e)
         /\ \A e \in E : e.kind # "deleted" => e.after \notin Unsafe
         /\ tree # base
    BY <1>7, EntriesApply DEF Safe
  <1>11. CheckWrite(policy, Changed(E)) <=> \A p \in Differ(base, tree) : InScope(policy, p)
    <2>1. \A p \in Differ(base, tree) : IsSequence(p)
      BY <1>4 DEF Differ
    <2> HIDE DEF tree, E
    <2> QED BY <1>5, <1>8, <2>1, WritableIsInScope DEF CheckWrite
  <1>12. Replays(policy, base, E, dir) <=> CheckWrite(policy, Changed(E))
    <2> HIDE DEF E
    <2> QED BY <1>5, <1>7, <1>9, <1>10 DEF Replays
  <1>13. Accepts(policy, base, dir) <=>
           ~ChangesValidatorConfig(E) /\ Replays(policy, base, E, dir)
    BY <1>1 DEF Accepts, Capture
  <1> HIDE DEF tree, E
  <1> QED BY <1>6, <1>11, <1>12, <1>13

-----------------------------------------------------------------------------
(***************************************************************************)
(* Compile.                                                                *)
(***************************************************************************)
\* A monotone operator on the subsets of a finite set, applied as often as the
\* set has members from a set that it only adds to, adds nothing more.
LEMMA Settles ==
  ASSUME NEW W, IsFiniteSet(W), NEW F \in [SUBSET W -> SUBSET W],
         \A X, Y \in SUBSET W : X \subseteq Y => F[X] \subseteq F[Y],
         NEW h, h[0] \in SUBSET W, h[0] \subseteq F[h[0]],
         \A k \in 0 .. Cardinality(W) - 1 : h[k + 1] = F[h[k]]
  PROVE  /\ F[h[Cardinality(W)]] = h[Cardinality(W)]
         /\ \A k \in 0 .. Cardinality(W) : h[k] \in SUBSET W /\ h[k] \subseteq F[h[k]]
  <1> DEFINE N == Cardinality(W)
             S == {k \in 0 .. N : /\ h[k] \in SUBSET W /\ h[k] \subseteq F[h[k]]
                                  /\ (F[h[k]] = h[k] \/ Cardinality(h[k]) >= k)}
  <1>1. N \in Nat /\ \A X \in SUBSET W : /\ IsFiniteSet(X) /\ Cardinality(X) \in Nat
                                         /\ Cardinality(X) <= N
                                         /\ Cardinality(X) = N => X = W
    BY FS_CardinalityType, FS_Subset
  <1> HIDE DEF N
  <1>2. 0 \in S
    BY <1>1
  <1>3. ASSUME NEW k \in 0 .. N - 1, k \in S PROVE k + 1 \in S
    <2>1. /\ h[k + 1] = F[h[k]] /\ h[k] \in SUBSET W /\ h[k] \subseteq F[h[k]]
          /\ k + 1 \in 0 .. N /\ k \in Nat
      BY <1>1, <1>3 DEF N
    <2>2. h[k + 1] \in SUBSET W
      BY <2>1
    <2>3. h[k + 1] \subseteq F[h[k + 1]]
      BY <2>1, <2>2
    <2>4. CASE F[h[k]] = h[k]
      BY <2>1, <2>2, <2>3, <2>4
    <2>5. CASE F[h[k]] # h[k]
      <3> DEFINE X == h[k]
                 Y == h[k + 1]
      <3>1. X \subseteq Y /\ X # Y /\ Cardinality(X) >= k
        BY <1>3, <2>1, <2>5
      <3>2. IsFiniteSet(Y) /\ Cardinality(Y) \in Nat /\ Cardinality(X) \in Nat
        BY <1>1, <2>1, <2>2
      <3> HIDE DEF X, Y
      <3>3. Cardinality(X) <= Cardinality(Y) /\ Cardinality(Y) # Cardinality(X)
        BY <3>1, <3>2, FS_Subset
      <3>4. Cardinality(Y) >= k + 1
        BY <2>1, <3>1, <3>2, <3>3
      <3> QED BY <2>1, <2>2, <2>3, <3>4 DEF Y
    <2> QED BY <2>4, <2>5
  <1> HIDE DEF S
  <1>4. \A k \in 0 .. N : k \in S
    BY <1>1, <1>2, <1>3, InductTo
  <1>5. \A k \in 0 .. N : h[k] \in SUBSET W /\ h[k] \subseteq F[h[k]]
    BY <1>4 DEF S
  <1>6. F[h[N]] = h[N]
    <2>1. N \in 0 .. N
      BY <1>1
    <2>2. /\ h[N] \in SUBSET W /\ h[N] \subseteq F[h[N]]
          /\ (F[h[N]] = h[N] \/ Cardinality(h[N]) >= N)
      BY <1>4, <2>1 DEF S
    <2>3. CASE Cardinality(h[N]) >= N
      <3> DEFINE X == h[N]
      <3>0. X \in SUBSET W /\ Cardinality(X) >= N
        BY <2>2, <2>3
      <3> HIDE DEF X
      <3>1. X = W
        <4>1. IsFiniteSet(X) /\ Cardinality(X) \in Nat
          BY <3>0, FS_Subset, FS_CardinalityType
        <4>2. Cardinality(X) <= N /\ (Cardinality(X) = N => X = W)
          BY <3>0, FS_Subset DEF N
        <4> QED BY <1>1, <3>0, <4>1, <4>2
      <3>2. F[h[N]] \in SUBSET W /\ h[N] \subseteq F[h[N]] /\ h[N] = W
        BY <2>2, <3>1 DEF X
      <3> QED BY <3>2
    <2> QED BY <2>2, <2>3
  <1> QED BY <1>5, <1>6 DEF N

\* What the definition of Taken says.
LEMMA TakenIs ==
  ASSUME NEW plan, IsFiniteSet(plan.works)
  PROVE  /\ Taken(plan)[0] = {}
         /\ \A k \in 0 .. Cardinality(plan.works) - 1 :
              Taken(plan)[k + 1] = Free(plan, Taken(plan)[k])
  <1> DEFINE N == Cardinality(plan.works)
             T == SUBSET plan.works
             F == [x \in T \X Nat |-> Free(plan, x[1])]
             Is(h) == h = [k \in 0 .. N |-> IF k = 0 THEN {} ELSE Free(plan, h[k - 1])]
  <1>1. N \in Nat
    BY FS_CardinalityType
  <1>2. F \in [T \X Nat -> T] /\ {} \in T
    BY DEF Free
  <1>3. PICK g \in [0 .. N -> T] : Solves({}, F, N, g)
    <2> HIDE DEF T, F, N
    <2> QED BY <1>1, <1>2, Solvable
  <1>4. Is(g)
    <2>1. ASSUME NEW k \in 0 .. N, k # 0
          PROVE  F[<<g[k - 1], k - 1>>] = Free(plan, g[k - 1])
      <3>1. k - 1 \in 0 .. N /\ k - 1 \in Nat
        BY <1>1, <2>1
      <3>2. g[k - 1] \in T
        BY <3>1
      <3> HIDE DEF T, N
      <3> QED BY <3>1, <3>2
    <2> HIDE DEF F, N, T
    <2> QED BY <1>3, <2>1 DEF Solves
  <1>5. Is(Taken(plan))
    BY <1>4 DEF Taken
  <1> DEFINE h == Taken(plan)
  <1> HIDE DEF N, h
  <1>6. 0 \in 0 .. N /\ \A k \in 0 .. N - 1 : /\ k + 1 \in 0 .. N /\ k + 1 # 0
                                              /\ (k + 1) - 1 = k
    BY <1>1
  <1>7. h[0] = {}
    BY <1>5, <1>6 DEF h
  <1>8. ASSUME NEW k \in 0 .. N - 1 PROVE h[k + 1] = Free(plan, h[k])
    <2>1. h[k + 1] = Free(plan, h[(k + 1) - 1])
      BY <1>5, <1>6 DEF h
    <2> QED BY <1>6, <2>1
  <1> QED BY <1>7, <1>8 DEF h, N

\* What is taken at the end is what has all its prerequisites taken.
LEMMA VisitedSettles ==
  ASSUME NEW plan, IsFiniteSet(plan.works)
  PROVE  /\ Free(plan, Visited(plan)) = Visited(plan)
         /\ Visited(plan) \subseteq plan.works
         /\ \A k \in 0 .. Cardinality(plan.works) - 1 :
              Taken(plan)[k] \subseteq Taken(plan)[k + 1]
  <1> DEFINE W == plan.works
             F == [X \in SUBSET W |-> Free(plan, X)]
             h == Taken(plan)
             N == Cardinality(W)
  <1>1. h[0] = {} /\ \A k \in 0 .. N - 1 : h[k + 1] = Free(plan, h[k])
    BY TakenIs
  <1>2. \A X : Free(plan, X) \in SUBSET W
    BY DEF Free
  <1>3. \A k \in 0 .. N : h[k] \in SUBSET W
    <2> DEFINE S == {k \in 0 .. N : h[k] \in SUBSET W}
    <2>1. N \in Nat
      BY FS_CardinalityType
    <2> HIDE DEF W, h, N
    <2>2. 0 \in S
      BY <1>1, <2>1
    <2>3. ASSUME NEW k \in 0 .. N - 1, k \in S PROVE k + 1 \in S
      <3>1. k + 1 \in 0 .. N
        BY <2>1
      <3> QED BY <1>1, <1>2, <3>1
    <2> HIDE DEF S
    <2>4. \A k \in 0 .. N : k \in S
      BY <2>1, <2>2, <2>3, InductTo
    <2> QED BY <2>4 DEF S
  <1>4. /\ F \in [SUBSET W -> SUBSET W]
        /\ \A X, Y \in SUBSET W : X \subseteq Y => F[X] \subseteq F[Y]
    BY <1>2 DEF Free
  <1>5. \A X \in SUBSET W : F[X] = Free(plan, X)
    OBVIOUS
  <1>6. N \in Nat
    BY FS_CardinalityType
  <1> HIDE DEF F, h
  <1>7. h[0] \in SUBSET W /\ h[0] \subseteq F[h[0]] /\ \A k \in 0 .. N - 1 : h[k + 1] = F[h[k]]
    <2>1. \A k \in 0 .. N - 1 : k \in 0 .. N
      BY <1>6
    <2> QED BY <1>1, <1>3, <1>5, <2>1
  <1>8. F[h[N]] = h[N] /\ \A k \in 0 .. N : h[k] \in SUBSET W /\ h[k] \subseteq F[h[k]]
    <2> HIDE DEF W
    <2>1. IsFiniteSet(W)
      BY DEF W
    <2> QED BY <1>4, <1>7, <2>1, Settles
  <1>9. N \in 0 .. N /\ \A k \in 0 .. N - 1 : k \in 0 .. N
    BY <1>6
  <1> QED BY <1>5, <1>7, <1>8, <1>9 DEF Visited, h

\* What the definition of Within says.
LEMMA WithinIs ==
  ASSUME NEW plan, IsFiniteSet(plan.works)
  PROVE  /\ Within(plan)[0] = {<<w, w>> : w \in plan.works}
         /\ \A k \in 0 .. Cardinality(plan.works) - 1 :
              Within(plan)[k + 1] = Longer(plan, Within(plan)[k])
         /\ \A k \in 0 .. Cardinality(plan.works) :
              Within(plan)[k] \subseteq plan.works \X plan.works
  <1> DEFINE N == Cardinality(plan.works)
             A == {<<w, w>> : w \in plan.works}
             T == SUBSET (plan.works \X plan.works)
             F == [x \in T \X Nat |-> Longer(plan, x[1])]
             Is(h) == h = [k \in 0 .. N |-> IF k = 0 THEN A ELSE Longer(plan, h[k - 1])]
  <1>1. N \in Nat
    BY FS_CardinalityType
  <1>2. F \in [T \X Nat -> T] /\ A \in T /\ \A X \in T : Longer(plan, X) \in T
    BY DEF Longer
  <1>3. PICK g \in [0 .. N -> T] : Solves(A, F, N, g)
    <2> HIDE DEF T, F, N, A
    <2> QED BY <1>1, <1>2, Solvable
  <1>4. Is(g)
    <2>1. ASSUME NEW k \in 0 .. N, k # 0
          PROVE  F[<<g[k - 1], k - 1>>] = Longer(plan, g[k - 1])
      <3>1. k - 1 \in 0 .. N /\ k - 1 \in Nat
        BY <1>1, <2>1
      <3>2. g[k - 1] \in T
        BY <3>1
      <3> HIDE DEF T, N
      <3> QED BY <3>1, <3>2
    <2> HIDE DEF F, N, T, A
    <2> QED BY <1>3, <2>1 DEF Solves
  <1>5. Is(Within(plan))
    BY <1>4 DEF Within
  <1> DEFINE h == Within(plan)
             S == {k \in 0 .. N : h[k] \in T}
  <1> HIDE DEF N, h, A, T
  <1>6. 0 \in 0 .. N /\ \A k \in 0 .. N - 1 : /\ k + 1 \in 0 .. N /\ k + 1 # 0
                                              /\ (k + 1) - 1 = k
    BY <1>1
  <1>7. h[0] = A
    BY <1>5, <1>6 DEF h
  <1>8. ASSUME NEW k \in 0 .. N - 1 PROVE h[k + 1] = Longer(plan, h[k])
    <2>1. h[k + 1] = Longer(plan, h[(k + 1) - 1])
      BY <1>5, <1>6 DEF h
    <2> QED BY <1>6, <2>1
  <1>9. 0 \in S /\ \A k \in 0 .. N - 1 : k \in S => k + 1 \in S
    BY <1>2, <1>6, <1>7, <1>8
  <1> HIDE DEF S
  <1>10. \A k \in 0 .. N : k \in S
    BY <1>1, <1>9, InductTo
  <1> QED BY <1>7, <1>8, <1>10 DEF h, N, A, S, T

\* Reachability starts with every work, follows every edge, and reaches
\* nothing else.
LEMMA ReachableSteps ==
  ASSUME NEW plan, IsFiniteSet(plan.works), NEW u \in plan.works
  PROVE  /\ <<u, u>> \in Reachable(plan)
         /\ \A e \in Edges(plan) :
              <<u, e[1]>> \in Reachable(plan) => <<u, e[2]>> \in Reachable(plan)
  <1> DEFINE W == plan.works
             N == Cardinality(W)
             h == [k \in 0 .. N |-> {x \in W : <<u, x>> \in Within(plan)[k]}]
             F == [X \in SUBSET W |-> X \cup {x \in W : \E w \in X : <<w, x>> \in Edges(plan)}]
  <1>1. N \in Nat /\ N \in 0 .. N /\ 0 \in 0 .. N
        /\ \A k \in 0 .. N - 1 : k \in 0 .. N /\ k + 1 \in 0 .. N
    BY FS_CardinalityType
  <1>2. \A k \in 0 .. N : h[k] \in SUBSET W
    OBVIOUS
  <1>3. /\ F \in [SUBSET W -> SUBSET W]
        /\ \A X \in SUBSET W : X \subseteq F[X]
        /\ \A X, Y \in SUBSET W : X \subseteq Y => F[X] \subseteq F[Y]
    OBVIOUS
  <1>4. h[0] = {u}
    BY <1>1, WithinIs
  <1>5. ASSUME NEW k \in 0 .. N - 1 PROVE h[k + 1] = F[h[k]]
    <2> DEFINE B == Within(plan)[k]
    <2>1. /\ Within(plan)[k + 1] = Longer(plan, B) /\ B \subseteq W \X W
          /\ k \in 0 .. N /\ k + 1 \in 0 .. N
      BY <1>1, WithinIs
    <2>2. h[k] = {x \in W : <<u, x>> \in B} /\ h[k + 1] = {x \in W : <<u, x>> \in Longer(plan, B)}
      BY <2>1
    <2> HIDE DEF B, h
    <2>3. \A x \in W : <<u, x>> \in Longer(plan, B) <=>
             <<u, x>> \in B \/ \E w \in W : <<u, w>> \in B /\ <<w, x>> \in Edges(plan)
      BY DEF Longer
    <2>4. F[h[k]] = h[k] \cup {x \in W : \E w \in h[k] : <<w, x>> \in Edges(plan)}
      BY <2>2
    <2> HIDE DEF F
    <2> QED BY <2>2, <2>3, <2>4
  <1> HIDE DEF F, h
  <1>6. F[h[N]] = h[N]
    <2>1. h[0] \in SUBSET W /\ h[0] \subseteq F[h[0]]
      BY <1>1, <1>2, <1>3
    <2> HIDE DEF W
    <2>2. IsFiniteSet(W)
      BY DEF W
    <2> QED BY <1>3, <1>5, <2>1, <2>2, Settles
  <1>7. \A k \in 0 .. N : u \in h[k]
    <2> DEFINE S == {k \in 0 .. N : u \in h[k]}
    <2>1. 0 \in S
      BY <1>1, <1>4
    <2>2. ASSUME NEW k \in 0 .. N - 1, k \in S PROVE k + 1 \in S
      BY <1>1, <1>2, <1>3, <1>5, <2>2
    <2> HIDE DEF S
    <2>3. \A k \in 0 .. N : k \in S
      BY <1>1, <2>1, <2>2, InductTo
    <2> QED BY <2>3 DEF S
  <1>8. h[N] = {x \in W : <<u, x>> \in Reachable(plan)}
    BY <1>1 DEF h, Reachable
  <1>9. ASSUME NEW e \in Edges(plan), <<u, e[1]>> \in Reachable(plan)
        PROVE  <<u, e[2]>> \in Reachable(plan)
    <2>1. e[1] \in W /\ e[2] \in W /\ e = <<e[1], e[2]>>
      BY DEF Edges
    <2>2. e[1] \in h[N]
      BY <1>8, <1>9, <2>1
    <2>3. e[2] \in F[h[N]]
      BY <1>1, <1>2, <2>1, <2>2 DEF F
    <2> QED BY <1>6, <1>8, <2>3
  <1> QED BY <1>1, <1>7, <1>8, <1>9

LEMMA ReachableStays ==
  ASSUME NEW plan, IsFiniteSet(plan.works), NEW C, NEW u \in C, NEW x,
         <<u, x>> \in Reachable(plan),
         \A e \in Edges(plan) : e[1] \in C => e[2] \in C
  PROVE  x \in C /\ x \in plan.works /\ u \in plan.works
  <1> DEFINE W == plan.works
             N == Cardinality(W)
             S == {k \in 0 .. N : \A y : <<u, y>> \in Within(plan)[k] => y \in C}
  <1>1. N \in Nat
    BY FS_CardinalityType
  <1>2. 0 \in S
    BY <1>1, WithinIs
  <1>3. ASSUME NEW k \in 0 .. N - 1, k \in S PROVE k + 1 \in S
    <2>1. Within(plan)[k + 1] = Longer(plan, Within(plan)[k]) /\ k + 1 \in 0 .. N
      BY <1>1, WithinIs
    <2>2. SUFFICES ASSUME NEW y, <<u, y>> \in Longer(plan, Within(plan)[k]) PROVE y \in C
      BY <2>1
    <2>3. CASE <<u, y>> \in Within(plan)[k]
      BY <1>3, <2>3
    <2>4. CASE <<u, y>> \notin Within(plan)[k]
      <3>1. PICK w \in W : <<u, w>> \in Within(plan)[k] /\ <<w, y>> \in Edges(plan)
        BY <2>2, <2>4 DEF Longer
      <3> QED BY <1>3, <3>1
    <2> QED BY <2>3, <2>4
  <1> HIDE DEF S
  <1>4. \A k \in 0 .. N : k \in S
    <2> HIDE DEF N
    <2> QED BY <1>1, <1>2, <1>3, InductTo
  <1>5. N \in S
    BY <1>1, <1>4
  <1>6. x \in C
    BY <1>5 DEF S, Reachable
  <1>7. Reachable(plan) \subseteq W \X W
    BY <1>1, WithinIs DEF Reachable
  <1> QED BY <1>6, <1>7

\* What is taken stays taken.
LEMMA TakenGrows ==
  ASSUME NEW plan, IsFiniteSet(plan.works),
         NEW m \in 0 .. Cardinality(plan.works), NEW k \in 0 .. m
  PROVE  Taken(plan)[k] \subseteq Taken(plan)[m]
  <1> DEFINE N == Cardinality(plan.works)
             S == {n \in 0 .. N : k <= n => Taken(plan)[k] \subseteq Taken(plan)[n]}
  <1>1. N \in Nat
    BY FS_CardinalityType
  <1>2. \A n \in 0 .. N - 1 : Taken(plan)[n] \subseteq Taken(plan)[n + 1]
    BY VisitedSettles
  <1> HIDE DEF N
  <1>3. 0 \in S
    BY <1>1
  <1>4. ASSUME NEW n \in 0 .. N - 1, n \in S PROVE n + 1 \in S
    <2>1. n + 1 \in 0 .. N /\ n \in 0 .. N /\ n \in Nat
      BY <1>1
    <2>2. CASE k <= n
      BY <1>2, <1>4, <2>1, <2>2
    <2>3. CASE k = n + 1
      BY <2>1, <2>3
    <2>4. CASE k > n + 1
      BY <2>1, <2>4
    <2> QED BY <2>1, <2>2, <2>3, <2>4
  <1> HIDE DEF S
  <1>5. \A n \in 0 .. N : n \in S
    BY <1>1, <1>3, <1>4, InductTo
  <1> QED BY <1>5 DEF S, N

\* The first time that something is taken, its prerequisites were before.
LEMMA TakenFirst ==
  ASSUME NEW plan, IsFiniteSet(plan.works), NEW Q, Visited(plan) \cap Q # {}
  PROVE  \E m \in 0 .. Cardinality(plan.works) :
            \E w \in Q : /\ w \in Free(plan, Taken(plan)[m])
                         /\ Taken(plan)[m] \cap Q = {}
  <1> DEFINE N == Cardinality(plan.works)
             D == {k \in 0 .. N : Taken(plan)[k] \cap Q # {}}
  <1>1. N \in Nat
    BY FS_CardinalityType
  <1>2. D \in SUBSET Nat /\ D # {}
    BY <1>1 DEF Visited
  <1> HIDE DEF D
  <1>3. PICK n \in D : \A k \in D : n <= k
    BY <1>2, Least
  <1>4. n \in 0 .. N /\ n # 0
    BY <1>1, <1>3, TakenIs DEF D
  <1>5. n - 1 \in 0 .. N - 1 /\ (n - 1) + 1 = n /\ n - 1 \in 0 .. N /\ ~ (n <= n - 1)
    BY <1>1, <1>4
  <1>6. Taken(plan)[n - 1] \cap Q = {}
    BY <1>3, <1>5 DEF D
  <1>7. PICK w \in Q : w \in Taken(plan)[n]
    BY <1>3 DEF D
  <1>8. Taken(plan)[(n - 1) + 1] = Free(plan, Taken(plan)[n - 1])
    <2> HIDE DEF N
    <2>1. \A k \in 0 .. N - 1 : Taken(plan)[k + 1] = Free(plan, Taken(plan)[k])
      BY TakenIs DEF N
    <2> QED BY <1>5, <2>1
  <1> QED BY <1>5, <1>6, <1>7, <1>8

\* The two tests for a cycle agree on every proposal whose prerequisites are
\* proposed (cyclic of compile.go, validateAndHashPlan).
LEMMA CycleTests ==
  ASSUME NEW plan, IsFiniteSet(plan.works)
  PROVE  CycleTestsAgree(plan)
  <1> DEFINE W == plan.works
  <1>0. SUFFICES ASSUME \A w \in W : Range(plan.depends[w]) \subseteq W
                 PROVE  Cyclic(plan) <=> Visited(plan) # W
    BY DEF CycleTestsAgree
  <1>1. ASSUME Cyclic(plan), Visited(plan) = W PROVE FALSE
    <2>1. PICK e \in Edges(plan) : <<e[2], e[1]>> \in Reachable(plan)
      BY <1>1 DEF Cyclic
    <2> DEFINE a == e[1]
               b == e[2]
               K == 0 .. Cardinality(W)
               C == {x \in W : \A k \in K : x \in Taken(plan)[k] => b \in Taken(plan)[k]}
    <2>2. b \in C /\ b \in W /\ a \in W /\ a \in Range(plan.depends[b])
      BY <2>1 DEF Edges
    <2>3. ASSUME NEW d \in Edges(plan), d[1] \in C PROVE d[2] \in C
      <3>1. d[2] \in W /\ d[1] \in Range(plan.depends[d[2]])
        BY DEF Edges
      <3>2. SUFFICES ASSUME NEW k \in K, d[2] \in Taken(plan)[k]
                     PROVE  b \in Taken(plan)[k]
        BY <3>1
      <3>3. Cardinality(W) \in Nat
        BY FS_CardinalityType
      <3>4. k # 0
        BY <3>2, TakenIs
      <3>5. k - 1 \in 0 .. Cardinality(W) - 1 /\ (k - 1) + 1 = k /\ k - 1 \in K /\ k - 1 \in 0 .. k
        BY <3>3, <3>4
      <3>6. Taken(plan)[(k - 1) + 1] = Free(plan, Taken(plan)[k - 1])
        BY <3>5, TakenIs
      <3>7. d[1] \in Taken(plan)[k - 1]
        BY <3>1, <3>2, <3>5, <3>6 DEF Free
      <3>8. b \in Taken(plan)[k - 1]
        BY <2>3, <3>5, <3>7
      <3> QED BY <3>5, <3>8, TakenGrows
    <2>4. a \in C
      <3> HIDE DEF C
      <3> QED BY <2>1, <2>2, <2>3, ReachableStays
    <2>5. PICK m \in K : b \in Free(plan, Taken(plan)[m]) /\ b \notin Taken(plan)[m]
      <3> DEFINE Q == {b}
      <3>1. Visited(plan) \cap Q # {}
        BY <1>1, <2>2
      <3> HIDE DEF Q, b
      <3>2. PICK m \in K, w \in Q : /\ w \in Free(plan, Taken(plan)[m])
                                    /\ Taken(plan)[m] \cap Q = {}
        BY <3>1, TakenFirst
      <3> QED BY <3>2 DEF Q
    <2>6. a \in Taken(plan)[m]
      BY <2>2, <2>5 DEF Free
    <2> QED BY <2>4, <2>5, <2>6
  <1>2. ASSUME Visited(plan) # W PROVE Cyclic(plan)
    <2> DEFINE U == W \ Visited(plan)
               Anc(u) == {x \in W : <<x, u>> \in Reachable(plan)}
               S == {n \in Nat : \E u \in U : n = Cardinality(Anc(u))}
    <2>1. U # {}
      BY <1>2, VisitedSettles
    <2>2. ASSUME NEW u PROVE IsFiniteSet(Anc(u)) /\ Cardinality(Anc(u)) \in Nat
      <3>1. Anc(u) \in SUBSET W
        OBVIOUS
      <3> HIDE DEF Anc
      <3> QED BY <3>1, FS_Subset, FS_CardinalityType
    <2>3. S \in SUBSET Nat /\ S # {}
      <3>1. PICK u \in U : TRUE
        BY <2>1
      <3>2. Cardinality(Anc(u)) \in S
        <4> HIDE DEF Anc, U
        <4> QED BY <2>2, <3>1
      <3> QED BY <3>2
    <2>4. PICK n \in S : \A m \in S : n <= m
      <3> HIDE DEF S
      <3> QED BY <2>3, Least
    <2>5. PICK u \in U : n = Cardinality(Anc(u))
      BY <2>4
    <2>6. PICK d \in U : <<d, u>> \in Edges(plan)
      <3>1. u \in W /\ u \notin Free(plan, Visited(plan))
        BY VisitedSettles
      <3>2. PICK d \in Range(plan.depends[u]) : d \notin Visited(plan)
        BY <3>1 DEF Free
      <3> QED BY <1>0, <3>1, <3>2 DEF Edges
    <2>7. Anc(d) \subseteq Anc(u)
      <3>1. ASSUME NEW x \in W, <<x, d>> \in Reachable(plan)
            PROVE  <<x, u>> \in Reachable(plan)
        <4> DEFINE e == <<d, u>>
        <4>1. e \in Edges(plan) /\ e[1] = d /\ e[2] = u
          BY <2>6
        <4> HIDE DEF e
        <4> QED BY <3>1, <4>1, ReachableSteps
      <3> QED BY <3>1
    <2>8. Cardinality(Anc(u)) <= Cardinality(Anc(d))
      <3>1. Cardinality(Anc(d)) \in S
        <4> HIDE DEF Anc, U
        <4> QED BY <2>2, <2>6
      <3> HIDE DEF S, Anc
      <3> QED BY <2>4, <2>5, <3>1
    <2>9. Anc(d) = Anc(u)
      <3>1. IsFiniteSet(Anc(u)) /\ Cardinality(Anc(u)) \in Nat /\ Cardinality(Anc(d)) \in Nat
        BY <2>2
      <3> HIDE DEF Anc
      <3>2. /\ Cardinality(Anc(d)) <= Cardinality(Anc(u))
            /\ Cardinality(Anc(u)) = Cardinality(Anc(d)) => Anc(u) = Anc(d)
        BY <2>7, <3>1, FS_Subset
      <3> QED BY <2>8, <3>1, <3>2
    <2>10. <<u, d>> \in Reachable(plan)
      <3>1. u \in Anc(u)
        BY ReachableSteps
      <3> QED BY <2>9, <3>1
    <2> DEFINE e == <<d, u>>
    <2>11. e \in Edges(plan) /\ <<e[2], e[1]>> \in Reachable(plan)
      BY <2>6, <2>10
    <2> HIDE DEF e
    <2> QED BY <2>11 DEF Cyclic
  <1> QED BY <1>1, <1>2

\* Of two works that are ready at once neither is a prerequisite of the other,
\* directly or not.
LEMMA ReadyUnreachable ==
  ASSUME NEW plan, IsFiniteSet(plan.works), NEW done \in Reached(plan),
         NEW v, NEW w, ReadyAt(plan, done, v), ReadyAt(plan, done, w),
         <<v, w>> \in Reachable(plan)
  PROVE  v = w
  <1> DEFINE W == plan.works
             C == {x \in W : x = v \/ \E y \in W \ done : <<y, x>> \in Edges(plan)}
  <1>1. v \in C /\ v \notin done /\ v \in W
    BY DEF ReadyAt, Free
  <1>2. ASSUME NEW e \in Edges(plan), e[1] \in C PROVE e[2] \in C
    <2>1. e = <<e[1], e[2]>> /\ e[1] \in W /\ e[2] \in W
      BY DEF Edges
    <2>2. e[1] \notin done
      <3>1. CASE e[1] = v
        BY <1>1, <3>1
      <3>2. CASE e[1] # v
        <4>1. PICK y \in W \ done : <<y, e[1]>> \in Edges(plan)
          BY <1>2, <3>2
        <4>2. y \in Range(plan.depends[e[1]])
          BY <4>1 DEF Edges
        <4> QED BY <4>1, <4>2 DEF Reached, Free
      <3> QED BY <3>1, <3>2
    <2> QED BY <2>1, <2>2
  <1>3. w \in C
    <2> HIDE DEF C
    <2> QED BY <1>1, <1>2, ReachableStays
  <1>4. SUFFICES ASSUME v # w PROVE FALSE
    OBVIOUS
  <1>5. PICK y \in W \ done : <<y, w>> \in Edges(plan)
    BY <1>3, <1>4
  <1>6. y \in Range(plan.depends[w]) /\ Range(plan.depends[w]) \subseteq done
    BY <1>5 DEF Edges, ReadyAt, Free
  <1> QED BY <1>5, <1>6

\* The literal prefix of a pattern begins every path that it matches, if its
\* segments stand for themselves.
LEMMA LiteralPrefixBegins ==
  ASSUME NEW a, IsSequence(a), NEW p, IsSequence(p), MatchSegments(a, p),
         \A s \in Range(LiteralPrefix(a)) : Exact(s)
  PROVE  \E n \in 0 .. Len(p) : LiteralPrefix(a) = SubSeq(p, 1, n)
  <1> DEFINE N == Len(a)
             M == Len(p)
             I == {i \in 1 .. N : a[i] \in Starred}
  <1>1. /\ N \in Nat /\ M \in Nat /\ DOMAIN a = 1 .. N /\ a = [i \in 1 .. N |-> a[i]]
        /\ DOMAIN p = 1 .. M
    BY SequenceFacts
  <1>2. PICK at \in [0 .. N -> 0 .. M] :
          /\ at[0] = 0
          /\ \A i \in 1 .. N :
               IF a[i] = "**" THEN at[i - 1] <= at[i]
               ELSE at[i] = at[i - 1] + 1 /\ SegMatches(a[i], p[at[i]])
    BY <1>1, MatchSegmentsIsCovers DEF Covers
  <1>3. \E n \in 0 .. N : /\ \A i \in 1 .. n : a[i] \notin Starred
                          /\ LiteralPrefix(a) = SubSeq(a, 1, n)
    <2>1. CASE I = {}
      <3>1. LiteralPrefix(a) = a
        BY <2>1 DEF LiteralPrefix, SelectInSeq
      <3>2. SubSeq(a, 1, N) = a
        BY SubSeqFull DEF IsSequence
      <3>3. N \in 0 .. N
        BY <1>1
      <3> QED BY <2>1, <3>1, <3>2, <3>3
    <2>2. CASE I # {}
      <3> DEFINE w == Min(I)
      <3>1. \E n \in I : \A m \in I : n <= m
        <4>1. I \in SUBSET Nat
          BY <1>1
        <4> HIDE DEF I
        <4> QED BY <2>2, <4>1, Least
      <3>2. w \in I /\ \A m \in I : w <= m
        <4> HIDE DEF I
        <4> QED BY <3>1 DEF Min
      <3>3. w \in 1 .. N /\ w # 0 /\ w - 1 \in 0 .. N
        BY <1>1, <3>2
      <3>4. LiteralPrefix(a) = SubSeq(a, 1, w - 1)
        BY <2>2, <3>3 DEF LiteralPrefix, SelectInSeq
      <3>5. ASSUME NEW i \in 1 .. w - 1 PROVE a[i] \notin Starred
        <4>1. i \in 1 .. N /\ ~ (w <= i)
          BY <1>1, <3>3
        <4>2. i \notin I
          BY <3>2, <4>1
        <4> QED BY <4>1, <4>2
      <3> HIDE DEF w
      <3> QED BY <3>3, <3>4, <3>5
    <2> QED BY <2>1, <2>2
  <1>4. PICK n \in 0 .. N : /\ \A i \in 1 .. n : a[i] \notin Starred
                            /\ LiteralPrefix(a) = SubSeq(a, 1, n)
    BY <1>3
  <1>5. n \in Nat /\ \A i \in 1 .. n : /\ i \in 1 .. N /\ i - 1 \in 0 .. N /\ i \in 0 .. N
                                       /\ i \in Int
    BY <1>1
  <1>6. ASSUME NEW i \in 1 .. n PROVE at[i] = at[i - 1] + 1 /\ a[i] = p[at[i]]
    <2>1. a[i] # "**" /\ i \in 1 .. N
      BY <1>4, <1>5, ScopesAssumption DEF ScopesAssumption
    <2>2. a[i] \in Range(LiteralPrefix(a))
      <3>1. SubSeq(a, 1, n) = [x \in 1 .. n |-> a[x]]
        BY <1>5
      <3> QED BY <1>4, <3>1 DEF Range
    <2> HIDE DEF N, M
    <2>3. at[i] = at[i - 1] + 1 /\ SegMatches(a[i], p[at[i]])
      BY <1>2, <2>1
    <2>4. \A m \in Matching : m[1] = a[i] => m[2] = a[i]
      BY <2>2 DEF Exact
    <2>5. <<a[i], p[at[i]]>> \in Matching
      BY <2>3 DEF SegMatches
    <2> QED BY <2>3, <2>4, <2>5
  <1>7. \A i \in 0 .. n : at[i] = i
    <2> DEFINE S == {i \in 0 .. n : at[i] = i}
    <2>1. 0 \in S
      BY <1>2, <1>5
    <2>2. ASSUME NEW i \in 0 .. n - 1, i \in S PROVE i + 1 \in S
      <3>1. i + 1 \in 1 .. n /\ (i + 1) - 1 = i /\ i + 1 \in 0 .. n
        BY <1>5
      <3>2. at[i + 1] = at[(i + 1) - 1] + 1
        BY <1>6, <3>1
      <3> QED BY <2>2, <3>1, <3>2
    <2> HIDE DEF S
    <2>3. \A i \in 0 .. n : i \in S
      BY <1>5, <2>1, <2>2, InductTo
    <2> QED BY <2>3 DEF S
  <1>8. n \in 0 .. M
    <2>1. n \in 0 .. n /\ n \in 0 .. N
      BY <1>5
    <2>2. at[n] \in 0 .. M
      BY <1>2, <2>1
    <2> QED BY <1>7, <2>1, <2>2
  <1>9. \A i \in 1 .. n : a[i] = p[i]
    <2>1. \A i \in 1 .. n : i \in 0 .. n
      BY <1>5
    <2> QED BY <1>6, <1>7, <2>1
  <1>10. SubSeq(a, 1, n) = SubSeq(p, 1, n)
    <2>1. SubSeq(a, 1, n) = [i \in 1 .. n |-> a[i]]
      BY <1>5
    <2>2. SubSeq(p, 1, n) = [i \in 1 .. n |-> p[i]]
      BY <1>5
    <2> QED BY <1>9, <2>1, <2>2
  <1> QED BY <1>4, <1>8, <1>10

\* Of two beginnings of one path, one begins the other.
LEMMA BeginningsCompare ==
  ASSUME NEW p, IsSequence(p), NEW n \in 0 .. Len(p), NEW m \in 0 .. Len(p), n <= m
  PROVE  IsPrefix(SubSeq(p, 1, n), SubSeq(p, 1, m))
  <1> DEFINE s == SubSeq(p, 1, n)
             t == SubSeq(p, 1, m)
  <1>1. n \in Nat /\ m \in Nat /\ Len(p) \in Nat
    BY SequenceFacts
  <1>2. s = [i \in 1 .. n |-> p[i]] /\ t = [i \in 1 .. m |-> p[i]]
    BY <1>1
  <1>3. Len(s) = n /\ Len(t) = m
    BY <1>1
  <1> HIDE DEF s, t
  <1>4. SubSeq(s, 1, n) = [i \in 1 .. n |-> p[i]] /\ SubSeq(t, 1, n) = [i \in 1 .. n |-> p[i]]
    <2>1. SubSeq(s, 1, n) = [i \in 1 .. n |-> s[i]] /\ SubSeq(t, 1, n) = [i \in 1 .. n |-> t[i]]
      BY <1>1
    <2>2. \A i \in 1 .. n : i \in 1 .. m /\ s[i] = p[i] /\ t[i] = p[i]
      BY <1>1, <1>2
    <2> QED BY <2>1, <2>2
  <1>5. IsPrefix(s, t)
    BY <1>3, <1>4 DEF IsPrefix
  <1> QED BY <1>5 DEF s, t

\* Two works that may write one path have scopes that may overlap.
LEMMA SharedPathOverlaps ==
  ASSUME NEW left, NEW right, NEW a \in left, NEW b \in right, NEW p,
         IsSequence(a), IsSequence(b), IsSequence(p),
         MatchSegments(a, p), MatchSegments(b, p),
         \A s \in Range(LiteralPrefix(a)) : Exact(s),
         \A s \in Range(LiteralPrefix(b)) : Exact(s)
  PROVE  ScopesMayOverlap(left, right)
  <1>1. PICK n \in 0 .. Len(p) : LiteralPrefix(a) = SubSeq(p, 1, n)
    BY LiteralPrefixBegins
  <1>2. PICK m \in 0 .. Len(p) : LiteralPrefix(b) = SubSeq(p, 1, m)
    BY LiteralPrefixBegins
  <1>3. CASE n <= m
    BY <1>1, <1>2, <1>3, BeginningsCompare DEF ScopesMayOverlap
  <1>4. CASE m <= n
    BY <1>1, <1>2, <1>4, BeginningsCompare DEF ScopesMayOverlap
  <1>5. n \in Int /\ m \in Int
    OBVIOUS
  <1> QED BY <1>3, <1>4, <1>5

\* A plan that is published is never stuck, and the ready works of a Literal one
\* write apart.
LEMMA PlanCompletes ==
  ASSUME NEW plan \in Plans
  PROVE  Completes(plan)
  <1> DEFINE W == plan.works
  <1>1. IsFiniteSet(W) /\ \A w \in W : \A a \in plan.scope[w] : IsSequence(a)
    BY CompileAssumption DEF CompileAssumption
  <1>2. \A p \in Paths : IsSequence(p)
    BY CompileAssumption DEF CompileAssumption
  <1>3. SUFFICES ASSUME Compiles(plan), Storable(plan), NEW done \in Reached(plan)
                 PROVE  /\ done # W => \E w \in W : ReadyAt(plan, done, w)
                        /\ Literal(plan) => \A v, w \in W :
                             v # w /\ ReadyAt(plan, done, v) /\ ReadyAt(plan, done, w) =>
                               ~ \E p \in Paths : MayWrite(plan, v, p) /\ MayWrite(plan, w, p)
    BY DEF Completes
  <1>4. ASSUME done # W PROVE \E w \in W : ReadyAt(plan, done, w)
    <2> DEFINE Q == W \ done
    <2>1. Visited(plan) \cap Q # {}
      BY <1>3, <1>4 DEF Storable, Reached
    <2>2. PICK m \in 0 .. Cardinality(W), w \in Q :
            w \in Free(plan, Taken(plan)[m]) /\ Taken(plan)[m] \cap Q = {}
      <3> HIDE DEF Q
      <3> QED BY <1>1, <2>1, TakenFirst
    <2>3. Taken(plan)[m] \subseteq W
      <3> DEFINE N == Cardinality(W)
      <3>1. N \in 0 .. N /\ m \in 0 .. N
        BY <1>1, FS_CardinalityType
      <3>2. Taken(plan)[m] \subseteq Taken(plan)[N]
        BY <1>1, <3>1, TakenGrows
      <3> QED BY <1>1, <3>2, VisitedSettles DEF Visited
    <2> QED BY <2>2, <2>3 DEF ReadyAt, Free
  <1>5. ASSUME Literal(plan), NEW v \in W, NEW w \in W, v # w,
               ReadyAt(plan, done, v), ReadyAt(plan, done, w),
               NEW p \in Paths, MayWrite(plan, v, p), MayWrite(plan, w, p)
        PROVE  FALSE
    <2>1. ScopesMayOverlap(plan.scope[v], plan.scope[w])
      <3>1. PICK a \in plan.scope[v] : MatchSegments(a, p)
        BY <1>5 DEF MayWrite
      <3>2. PICK b \in plan.scope[w] : MatchSegments(b, p)
        BY <1>5 DEF MayWrite
      <3>3. IsSequence(a) /\ IsSequence(b) /\ IsSequence(p)
        BY <1>1, <1>2, <3>1, <3>2
      <3>4. /\ \A s \in Range(LiteralPrefix(a)) : Exact(s)
            /\ \A s \in Range(LiteralPrefix(b)) : Exact(s)
        BY <1>5, <3>1, <3>2 DEF Literal
      <3> QED BY <3>1, <3>2, <3>3, <3>4, SharedPathOverlaps
    <2>2. <<v, w>> \in Reachable(plan) \/ <<w, v>> \in Reachable(plan)
      BY <1>3, <1>5, <2>1 DEF Compiles
    <2> QED BY <1>1, <1>5, <2>2, ReadyUnreachable
  <1> QED BY <1>4, <1>5

-----------------------------------------------------------------------------
(***************************************************************************)
(* Streams.                                                                *)
(***************************************************************************)
Parsers ==
    [pending : Seq(Words \cup {Close}), session : Sessions \cup {"none"},
     final : Answers \cup {"none"}, left : Nat, failed : BOOLEAN,
     stderr : {"open", "failed"}]

\* The words that end the stream, and the session that a word names.
Fatal(adapter) ==
    {"not JSON", "no session"} \cup (IF adapter = "claude" THEN {"failure"} ELSE {})
Name(adapter, word) ==
    IF adapter = "claude" \/ word \in Sessions THEN NamedBy(word) ELSE "none"

\* q is the parser p after a line with the word w.
Heard(adapter, p, w, q) ==
    /\ q \in Parsers /\ q.left = p.left /\ q.stderr = p.stderr /\ q.pending = p.pending
    /\ q.failed <=> \/ w \in Fatal(adapter)
                    \/ /\ Name(adapter, w) # "none"
                       /\ p.session \notin {"none", Name(adapter, w)}
    /\ ~q.failed =>
         /\ q.session = IF Name(adapter, w) = "none" THEN p.session ELSE Name(adapter, w)
         /\ q.final = IF w \in Answers THEN w ELSE p.final

LEMMA LineIs ==
  ASSUME NEW adapter \in Adapters, NEW p \in Parsers, ~p.failed, NEW body
  PROVE  Heard(adapter, p, Word(body), Line(adapter, p, body))
  <1> DEFINE w == Word(body)
             q == Line(adapter, p, body)
  <1>1. w \in Words \cup {"not JSON"}
    BY DEF Word
  <1> SUFFICES Heard(adapter, p, w, q)
    OBVIOUS
  <1> HIDE DEF w
  <1>2. NamedBy(w) \in Sessions \cup {"none"}
    BY DEF NamedBy, Sessions
  <1>3. ASSUME NEW s \in Sessions \cup {"none"}
        PROVE  /\ Named(p, s) \in Parsers /\ Named(p, s).left = p.left
               /\ Named(p, s).stderr = p.stderr /\ Named(p, s).pending = p.pending
               /\ Named(p, s).final = p.final
               /\ Named(p, s).failed <=> s # "none" /\ p.session \notin {"none", s}
               /\ ~Named(p, s).failed =>
                    Named(p, s).session = IF s = "none" THEN p.session ELSE s
    <2> USE DEF Parsers, Named, Failed
    <2>1. CASE s = "none"
      BY <2>1
    <2>2. CASE s # "none" /\ p.session \in {"none", s}
      BY <2>2
    <2>3. CASE s # "none" /\ p.session \notin {"none", s}
      BY <2>3
    <2> QED BY <2>1, <2>2, <2>3
  <1>4. CASE adapter = "codex"
    <2>1. q = CodexLine(p, w)
      BY <1>4 DEF Line, w
    <2> HIDE DEF q
    <2>2. Fatal(adapter) = {"not JSON", "no session"}
      BY <1>4 DEF Fatal
    <2>3. CASE w \in {"not JSON", "no session"}
      <3>1. q = [p EXCEPT !.failed = TRUE]
        <4>1. w \notin Sessions /\ w \notin Answers
          BY <2>3 DEF Sessions, Answers
        <4> QED BY <2>1, <2>3, <4>1 DEF CodexLine, Failed
      <3>2. q \in Parsers /\ q.left = p.left /\ q.stderr = p.stderr
            /\ q.pending = p.pending /\ q.failed
        BY <3>1 DEF Parsers
      <3> QED BY <2>2, <2>3, <3>2 DEF Heard
    <2>4. CASE w \in Sessions
      <3>1. Name(adapter, w) = w /\ w # "none" /\ w \notin Answers
            /\ w \notin {"not JSON", "no session"}
        BY <2>4 DEF Name, NamedBy, Sessions, Answers
      <3>2. q = Named(p, w)
        BY <2>1, <2>4, <3>1 DEF CodexLine
      <3>3. /\ q \in Parsers /\ q.left = p.left /\ q.stderr = p.stderr
            /\ q.pending = p.pending /\ q.final = p.final
            /\ q.failed <=> p.session \notin {"none", w}
            /\ ~q.failed => q.session = w
        BY <1>3, <2>4, <3>1, <3>2
      <3>4. Name(adapter, w) = w /\ Name(adapter, w) # "none"
            /\ w \notin Fatal(adapter) /\ w \notin Answers
        BY <2>2, <3>1
      <3> QED BY <3>3, <3>4 DEF Heard
    <2>5. CASE w \in Answers
      <3>1. w \notin {"not JSON", "no session"} \cup Sessions
        BY <2>5 DEF Answers, Sessions
      <3>2. Name(adapter, w) = "none"
        BY <1>4, <3>1 DEF Name
      <3>3. q = [p EXCEPT !.final = w]
        BY <2>1, <2>5, <3>1 DEF CodexLine
      <3> QED BY <2>2, <2>5, <3>1, <3>2, <3>3 DEF Parsers, Heard
    <2>6. CASE w \notin {"not JSON", "no session"} \cup Sessions \cup Answers
      <3>1. Name(adapter, w) = "none"
        BY <1>4, <2>6 DEF Name
      <3>2. q = p
        BY <2>1, <2>6 DEF CodexLine
      <3> QED BY <2>2, <2>6, <3>1, <3>2 DEF Heard
    <2> QED BY <2>3, <2>4, <2>5, <2>6
  <1>5. CASE adapter = "claude"
    <2>1. q = ClaudeLine(p, w)
      BY <1>5 DEF Line, w
    <2> HIDE DEF q
    <2>2. Fatal(adapter) = {"not JSON", "no session", "failure"}
      BY <1>5 DEF Fatal
    <2>3. Name(adapter, w) = NamedBy(w)
      BY <1>5 DEF Name
    <2>4. CASE w \in {"not JSON", "no session", "failure"}
      <3>1. q = [p EXCEPT !.failed = TRUE]
        <4>1. w \notin Sessions /\ w \notin Answers
          BY <2>4 DEF Sessions, Answers
        <4> QED BY <2>1, <2>4, <4>1 DEF ClaudeLine, Failed
      <3>2. q \in Parsers /\ q.left = p.left /\ q.stderr = p.stderr
            /\ q.pending = p.pending /\ q.failed
        BY <3>1 DEF Parsers
      <3> QED BY <2>2, <2>4, <3>2 DEF Heard
    <2>5. CASE w \in Sessions
      <3>1. NamedBy(w) = w /\ w # "none" /\ w \notin Answers
            /\ w \notin {"not JSON", "no session", "failure"}
        BY <2>5 DEF NamedBy, Sessions, Answers
      <3>2. q = Named(p, w)
        BY <2>1, <2>5, <3>1 DEF ClaudeLine
      <3>3. /\ q \in Parsers /\ q.left = p.left /\ q.stderr = p.stderr
            /\ q.pending = p.pending /\ q.final = p.final
            /\ q.failed <=> p.session \notin {"none", w}
            /\ ~q.failed => q.session = w
        BY <1>3, <2>5, <3>1, <3>2
      <3>4. Name(adapter, w) = w /\ Name(adapter, w) # "none"
            /\ w \notin Fatal(adapter) /\ w \notin Answers
        BY <2>2, <2>3, <3>1
      <3> QED BY <3>3, <3>4 DEF Heard
    <2>6. CASE w \in Answers
      <3>1. w \notin {"not JSON", "no session", "failure"} \cup Sessions
        BY <2>6 DEF Answers, Sessions
      <3> DEFINE n == Named(p, NamedBy(w))
      <3>2. q = IF n.failed THEN n ELSE [n EXCEPT !.final = w]
        BY <2>1, <2>6, <3>1 DEF ClaudeLine
      <3>3. /\ n \in Parsers /\ n.left = p.left /\ n.stderr = p.stderr
            /\ n.pending = p.pending
            /\ n.failed <=> NamedBy(w) # "none" /\ p.session \notin {"none", NamedBy(w)}
            /\ ~n.failed => n.session = IF NamedBy(w) = "none" THEN p.session ELSE NamedBy(w)
        BY <1>2, <1>3
      <3> HIDE DEF n
      <3>4. CASE n.failed
        BY <2>2, <2>3, <3>2, <3>3, <3>4 DEF Heard
      <3>5. CASE ~n.failed
        <4>1. q = [n EXCEPT !.final = w]
          BY <3>2, <3>5
        <4>2. q \in Parsers /\ q.left = n.left /\ q.stderr = n.stderr
              /\ q.pending = n.pending /\ q.failed = n.failed /\ q.session = n.session
              /\ q.final = w
          BY <2>6, <3>3, <4>1 DEF Parsers
        <4> QED BY <2>2, <2>3, <2>6, <3>1, <3>3, <3>5, <4>2 DEF Heard
      <3> QED BY <3>4, <3>5
    <2>7. CASE w \notin {"not JSON", "no session", "failure"} \cup Sessions \cup Answers
      <3>1. NamedBy(w) = "none"
        BY <2>7 DEF NamedBy, Answers
      <3>2. q = p
        BY <2>1, <2>7 DEF ClaudeLine
      <3> QED BY <2>2, <2>3, <2>7, <3>1, <3>2 DEF Heard
    <2> QED BY <2>4, <2>5, <2>6, <2>7
  <1> QED BY <1>4, <1>5 DEF Adapters

\* The first m words end no stream and name at most one session.
Fine(adapter, spoken, m) ==
    /\ \A i \in 1 .. m : spoken[i] \notin Fatal(adapter)
    /\ \A i, j \in 1 .. m :
         "none" \in {Name(adapter, spoken[i]), Name(adapter, spoken[j])}
           \/ Name(adapter, spoken[i]) = Name(adapter, spoken[j])

\* The parser p has heard the first m words, and remembers of them the session
\* and the last answer.
Said(adapter, spoken, m, p) ==
    /\ p \in Parsers
    /\ p.failed <=> ~Fine(adapter, spoken, m)
    /\ ~p.failed =>
         /\ \A i \in 1 .. m : Name(adapter, spoken[i]) \in {"none", p.session}
         /\ p.session = "none" \/ \E i \in 1 .. m : Name(adapter, spoken[i]) = p.session
         /\ p.final = "none" => \A i \in 1 .. m : spoken[i] \notin Answers
         /\ p.final # "none" =>
              \E i \in 1 .. m : /\ spoken[i] = p.final
                                /\ \A j \in i + 1 .. m : spoken[j] \notin Answers

LEMMA FailedStays ==
  ASSUME NEW adapter, NEW spoken, NEW m \in Nat, NEW n \in Nat, m <= n, NEW p,
         Said(adapter, spoken, m, p), p.failed
  PROVE  Said(adapter, spoken, n, p)
  <1>1. \A i \in 1 .. m : i \in 1 .. n
    OBVIOUS
  <1> QED BY <1>1 DEF Said, Fine

LEMMA SaidNext ==
  ASSUME NEW adapter, NEW spoken, NEW m \in Nat, NEW p, NEW q,
         Said(adapter, spoken, m, p), ~p.failed,
         Heard(adapter, p, spoken[m + 1], q)
  PROVE  Said(adapter, spoken, m + 1, q)
  <1> DEFINE w == spoken[m + 1]
             N(i) == Name(adapter, spoken[i])
             x == Name(adapter, w)
  <1>0. N(m + 1) = x
    OBVIOUS
  <1>1. /\ m + 1 \in 1 .. m + 1 /\ \A i \in 1 .. m : i \in 1 .. m + 1
        /\ \A i \in 1 .. m + 1 : i = m + 1 \/ i \in 1 .. m
    OBVIOUS
  <1>2. /\ p \in Parsers
        /\ \A i \in 1 .. m : spoken[i] \notin Fatal(adapter)
        /\ \A i, j \in 1 .. m : "none" \in {N(i), N(j)} \/ N(i) = N(j)
        /\ \A i \in 1 .. m : N(i) \in {"none", p.session}
        /\ p.session = "none" \/ \E i \in 1 .. m : N(i) = p.session
    BY DEF Said, Fine
  <1>3. /\ p.final = "none" => \A i \in 1 .. m : spoken[i] \notin Answers
        /\ p.final # "none" =>
             \E i \in 1 .. m : /\ spoken[i] = p.final
                               /\ \A j \in i + 1 .. m : spoken[j] \notin Answers
    BY DEF Said
  <1>4. /\ q \in Parsers
        /\ q.failed <=> w \in Fatal(adapter) \/ (x # "none" /\ p.session \notin {"none", x})
        /\ ~q.failed => /\ q.session = IF x = "none" THEN p.session ELSE x
                        /\ q.final = IF w \in Answers THEN w ELSE p.final
    BY DEF Heard
  <1>5. Fine(adapter, spoken, m + 1) <=>
          /\ \A i \in 1 .. m + 1 : spoken[i] \notin Fatal(adapter)
          /\ \A i, j \in 1 .. m + 1 : "none" \in {N(i), N(j)} \/ N(i) = N(j)
    BY DEF Fine
  <1> HIDE DEF N, x
  <1>6. ASSUME q.failed PROVE ~Fine(adapter, spoken, m + 1)
    <2>1. CASE w \in Fatal(adapter)
      BY <1>1, <1>5, <2>1
    <2>2. CASE x # "none" /\ p.session \notin {"none", x}
      <3>1. PICK i \in 1 .. m : N(i) = p.session
        BY <1>2, <2>2
      <3>2. N(i) # "none" /\ N(m + 1) # "none" /\ N(i) # N(m + 1) /\ i \in 1 .. m + 1
        BY <1>0, <1>1, <2>2, <3>1
      <3> QED BY <1>1, <1>5, <3>2
    <2> QED BY <1>4, <1>6, <2>1, <2>2
  <1>7. ASSUME ~q.failed
        PROVE  /\ Fine(adapter, spoken, m + 1)
               /\ \A i \in 1 .. m + 1 : N(i) \in {"none", q.session}
               /\ q.session = "none" \/ \E i \in 1 .. m + 1 : N(i) = q.session
    <2>1. w \notin Fatal(adapter) /\ (x = "none" \/ p.session \in {"none", x})
      BY <1>4, <1>7
    <2>2. \A i \in 1 .. m + 1 : spoken[i] \notin Fatal(adapter)
      BY <1>1, <1>2, <2>1
    <2>3. \A i \in 1 .. m + 1 : N(i) \in {"none", q.session}
      BY <1>0, <1>1, <1>2, <1>4, <1>7, <2>1
    <2>4. \A i, j \in 1 .. m + 1 : "none" \in {N(i), N(j)} \/ N(i) = N(j)
      BY <2>3
    <2>5. q.session = "none" \/ \E i \in 1 .. m + 1 : N(i) = q.session
      BY <1>0, <1>1, <1>2, <1>4, <1>7
    <2> QED BY <1>5, <2>2, <2>3, <2>4, <2>5
  <1>8. ASSUME ~q.failed
        PROVE  /\ q.final = "none" => \A i \in 1 .. m + 1 : spoken[i] \notin Answers
               /\ q.final # "none" =>
                    \E i \in 1 .. m + 1 : /\ spoken[i] = q.final
                                          /\ \A j \in i + 1 .. m + 1 : spoken[j] \notin Answers
    <2>1. CASE w \in Answers
      <3>1. q.final = w /\ w # "none"
        BY <1>4, <1>8, <2>1 DEF Answers
      <3>2. \A j \in (m + 1) + 1 .. m + 1 : FALSE
        OBVIOUS
      <3> QED BY <1>1, <3>1, <3>2
    <2>2. CASE w \notin Answers
      <3>1. q.final = p.final
        BY <1>4, <1>8, <2>2
      <3>2. CASE p.final = "none"
        BY <1>1, <1>3, <2>2, <3>1, <3>2
      <3>3. CASE p.final # "none"
        <4>1. PICK i \in 1 .. m : /\ spoken[i] = p.final
                                  /\ \A j \in i + 1 .. m : spoken[j] \notin Answers
          BY <1>3, <3>3
        <4>2. \A j \in i + 1 .. m + 1 : j = m + 1 \/ j \in i + 1 .. m
          OBVIOUS
        <4>3. \A j \in i + 1 .. m + 1 : spoken[j] \notin Answers
          BY <2>2, <4>1, <4>2
        <4> QED BY <1>1, <3>1, <3>3, <4>1, <4>3
      <3> QED BY <3>2, <3>3
    <2> QED BY <2>1, <2>2
  <1> QED BY <1>4, <1>6, <1>7, <1>8 DEF Said, N

\* What Sound says of the words.
SoundWords(adapter, spoken) ==
    /\ Range(spoken) \cap Fatal(adapter) = {}
    /\ Cardinality({Name(adapter, spoken[i]) : i \in DOMAIN spoken} \ {"none"}) = 1
    /\ \E i \in DOMAIN spoken :
         /\ spoken[i] \in Answers /\ spoken[i] # "junk"
         /\ \A j \in DOMAIN spoken : spoken[j] \in Answers => j <= i

LEMMA SoundIs ==
  ASSUME NEW adapter \in Adapters, NEW words, NEW rest
  PROVE  Sound(adapter, words, rest) <=>
           /\ adapter = "codex" => rest = <<>>
           /\ SoundWords(adapter, Spoken(adapter, words, rest))
  <1> DEFINE spoken == Spoken(adapter, words, rest)
             answers == {i \in DOMAIN spoken : spoken[i] \in Answers}
  <1> HIDE DEF spoken
  <1>1. (\E i \in answers : spoken[i] # "junk" /\ \A j \in answers : j <= i) <=>
        \E i \in DOMAIN spoken :
           /\ spoken[i] \in Answers /\ spoken[i] # "junk"
           /\ \A j \in DOMAIN spoken : spoken[j] \in Answers => j <= i
    OBVIOUS
  <1>2. {IF adapter = "claude" \/ spoken[i] \in Sessions THEN NamedBy(spoken[i]) ELSE "none" :
           i \in DOMAIN spoken} \ {"none"}
        = {Name(adapter, spoken[i]) : i \in DOMAIN spoken} \ {"none"}
    BY DEF Name
  <1>3. {"not JSON", "no session"} \cup (IF adapter = "claude" THEN {"failure"} ELSE {})
        = Fatal(adapter)
    BY DEF Fatal
  <1> QED BY <1>1, <1>2, <1>3, Zenon DEF Sound, SoundWords, spoken

\* The result of a parser that has heard all the words.
LEMMA SaidResult ==
  ASSUME NEW adapter \in Adapters, NEW spoken, NEW n \in Nat, DOMAIN spoken = 1 .. n,
         NEW q, Said(adapter, spoken, n, q), q.failed \/ q.pending = <<>>
  PROVE  Result(q) <=> SoundWords(adapter, spoken)
  <1> DEFINE N(i) == Name(adapter, spoken[i])
             named == {N(i) : i \in 1 .. n} \ {"none"}
  <1>1. q \in Parsers /\ (q.failed <=> ~Fine(adapter, spoken, n))
    BY DEF Said
  <1>2. ASSUME ~q.failed
        PROVE  /\ \A i \in 1 .. n : N(i) \in {"none", q.session}
               /\ q.session = "none" \/ \E i \in 1 .. n : N(i) = q.session
               /\ q.final = "none" => \A i \in 1 .. n : spoken[i] \notin Answers
               /\ q.final # "none" =>
                    \E i \in 1 .. n : /\ spoken[i] = q.final
                                      /\ \A j \in i + 1 .. n : spoken[j] \notin Answers
    BY <1>2 DEF Said
  <1>3. \A i \in 1 .. n : N(i) \in Sessions \cup {"none"}
    BY DEF Name, NamedBy, Sessions
  <1>4. SoundWords(adapter, spoken) <=>
          /\ \A i \in 1 .. n : spoken[i] \notin Fatal(adapter)
          /\ Cardinality(named) = 1
          /\ \E i \in 1 .. n :
               /\ spoken[i] \in Answers /\ spoken[i] # "junk"
               /\ \A j \in 1 .. n : spoken[j] \in Answers => j <= i
    BY DEF SoundWords, Range
  <1>5. ASSUME Result(q) PROVE SoundWords(adapter, spoken)
    <2>1. ~q.failed /\ q.session # "none" /\ q.final \in {"text", "text of s1"}
      BY <1>5 DEF Result
    <2>2. \A i \in 1 .. n : spoken[i] \notin Fatal(adapter)
      BY <1>1, <2>1 DEF Fine
    <2>3. Cardinality(named) = 1
      <3>1. named = {q.session}
        <4> HIDE DEF N
        <4> QED BY <1>2, <2>1
      <3> QED BY <3>1, FS_Singleton
    <2>4. PICK i \in 1 .. n : /\ spoken[i] = q.final
                              /\ \A j \in i + 1 .. n : spoken[j] \notin Answers
      BY <1>2, <2>1
    <2>5. spoken[i] \in Answers /\ spoken[i] # "junk"
      BY <2>1, <2>4 DEF Answers
    <2>6. ASSUME NEW j \in 1 .. n, spoken[j] \in Answers PROVE j <= i
      <3>1. j <= i \/ j \in i + 1 .. n
        OBVIOUS
      <3> QED BY <2>4, <2>6, <3>1
    <2> HIDE DEF named
    <2> QED BY <1>4, <2>2, <2>3, <2>5, <2>6
  <1>6. ASSUME SoundWords(adapter, spoken) PROVE Result(q)
    <2>1. IsFiniteSet(named)
      <3>1. IsFiniteSet({"s1", "s2"})
        <4>1. {"s1", "s2"} = {"s1"} \cup {"s2"}
          OBVIOUS
        <4>2. IsFiniteSet({"s1"}) /\ IsFiniteSet({"s2"})
          BY FS_Singleton
        <4>3. IsFiniteSet({"s1"} \cup {"s2"})
          BY <4>2, FS_Union
        <4> QED BY <4>1, <4>3
      <3>2. named \in SUBSET {"s1", "s2"}
        BY <1>3 DEF Sessions
      <3> HIDE DEF named
      <3> QED BY <3>1, <3>2, FS_Subset
    <2>2. PICK x : named = {x}
      <3>1. Cardinality(named) = 1
        BY <1>4, <1>6
      <3> HIDE DEF named
      <3> QED BY <2>1, <3>1, FS_Singleton
    <2>3. \A i \in 1 .. n : N(i) \in {"none", x}
      <3> HIDE DEF N
      <3> QED BY <2>2
    <2>4. \E i \in 1 .. n : N(i) = x /\ x # "none"
      <3> HIDE DEF N
      <3> QED BY <2>2
    <2>5. ~q.failed
      <3>1. \A i \in 1 .. n : spoken[i] \notin Fatal(adapter)
        <4> HIDE DEF named
        <4> QED BY <1>4, <1>6
      <3>2. \A i, j \in 1 .. n : "none" \in {N(i), N(j)} \/ N(i) = N(j)
        <4> HIDE DEF N
        <4> QED BY <2>3
      <3> QED BY <1>1, <3>1, <3>2 DEF Fine
    <2>6. q.session # "none"
      <3> HIDE DEF N
      <3> QED BY <1>2, <2>4, <2>5
    <2>7. PICK i \in 1 .. n : /\ spoken[i] \in Answers /\ spoken[i] # "junk"
                              /\ \A j \in 1 .. n : spoken[j] \in Answers => j <= i
      <3> HIDE DEF named
      <3> QED BY <1>4, <1>6
    <2>8. q.final # "none" /\ q.final \in Answers
      BY <1>1, <1>2, <2>5, <2>7 DEF Parsers
    <2>9. PICK k \in 1 .. n : /\ spoken[k] = q.final
                              /\ \A j \in k + 1 .. n : spoken[j] \notin Answers
      BY <1>2, <2>5, <2>8
    <2>10. k = i
      <3>1. k <= i
        BY <2>7, <2>8, <2>9
      <3>2. i <= k \/ i \in k + 1 .. n
        OBVIOUS
      <3> QED BY <2>7, <2>9, <3>1, <3>2
    <2>11. q.final \in {"text", "text of s1"}
      BY <2>7, <2>8, <2>9, <2>10 DEF Answers
    <2> QED BY <2>5, <2>6, <2>11 DEF Result
  <1> QED BY <1>5, <1>6

\* And the session of a result is one that the words name.
LEMMA SaidSession ==
  ASSUME NEW adapter \in Adapters, NEW spoken, NEW n \in Nat,
         NEW q, Said(adapter, spoken, n, q), Result(q)
  PROVE  q.session \in Sessions /\ \E i \in 1 .. n : NamedBy(spoken[i]) = q.session
  <1>1. q \in Parsers /\ ~q.failed /\ q.session # "none"
    BY DEF Said, Result
  <1>2. PICK i \in 1 .. n : Name(adapter, spoken[i]) = q.session
    BY <1>1 DEF Said
  <1> QED BY <1>1, <1>2 DEF Name, Parsers

\* The units of an output, one by one.
LEMMA OutputIs ==
  ASSUME NEW words \in Seq(Words), NEW rest \in Seq(Words \cup {Close})
  PROVE  LET n == Len(words)
             O == Output(words, rest)
         IN /\ O \in Seq(Words \cup {Close, NL})
            /\ Len(O) = 3 * n + Len(rest)
            /\ \A m \in 0 .. n - 1 : /\ O[3 * m + 1] = words[m + 1]
                                     /\ O[3 * m + 2] = Close
                                     /\ O[3 * m + 3] = NL
            /\ \A j \in 1 .. Len(rest) : O[3 * n + j] = rest[j]
  <1> DEFINE n == Len(words)
             U == Words \cup {Close, NL}
             A == [i \in 1 .. 3 * n |-> Piece(words, i)]
  <1>1. n \in Nat /\ 3 * n \in Nat /\ \A i \in 1 .. n : words[i] \in Words
    OBVIOUS
  <1>2. ASSUME NEW m \in 0 .. n - 1
        PROVE  /\ Piece(words, 3 * m + 1) = words[m + 1]
               /\ Piece(words, 3 * m + 2) = Close
               /\ Piece(words, 3 * m + 3) = NL
               /\ words[m + 1] \in Words
    <2>1. /\ (3 * m + 1) % 3 = 1 /\ ((3 * m + 1) + 2) \div 3 = m + 1
          /\ (3 * m + 2) % 3 = 2 /\ (3 * m + 3) % 3 = 0 /\ m + 1 \in 1 .. n
      BY <1>1
    <2> HIDE DEF n
    <2> QED BY <1>1, <2>1 DEF Piece
  <1>3. ASSUME NEW i \in 1 .. 3 * n
        PROVE  \E m \in 0 .. n - 1 : i \in {3 * m + 1, 3 * m + 2, 3 * m + 3}
    <2> DEFINE m == (i - 1) \div 3
    <2>1. m \in 0 .. n - 1 /\ i \in {3 * m + 1, 3 * m + 2, 3 * m + 3}
      <3> HIDE DEF n
      <3> QED BY <1>1
    <2> QED BY <2>1
  <1>4. \A i \in 1 .. 3 * n : Piece(words, i) \in U
    <2> HIDE DEF n
    <2> QED BY <1>2, <1>3
  <1>5. A \in Seq(U) /\ Len(A) = 3 * n
    <2> HIDE DEF U, n
    <2> QED BY <1>1, <1>4
  <1>6. rest \in Seq(U)
    OBVIOUS
  <1> DEFINE O == A \o rest
  <1>7. /\ O \in Seq(U) /\ Len(O) = 3 * n + Len(rest)
        /\ \A i \in 1 .. 3 * n : O[i] = A[i]
        /\ \A j \in 1 .. Len(rest) : O[3 * n + j] = rest[j]
    <2> HIDE DEF A, U, n
    <2>1. /\ O \in Seq(U) /\ Len(O) = Len(A) + Len(rest)
          /\ \A i \in 1 .. Len(A) + Len(rest) :
               O[i] = IF i <= Len(A) THEN A[i] ELSE rest[i - Len(A)]
      BY <1>5, <1>6, ConcatProperties
    <2>2. \A j \in 1 .. Len(rest) : /\ 3 * n + j \in 1 .. 3 * n + Len(rest)
                                    /\ ~ (3 * n + j <= 3 * n) /\ (3 * n + j) - 3 * n = j
      BY <1>1
    <2>3. \A i \in 1 .. 3 * n : i \in 1 .. 3 * n + Len(rest) /\ i <= 3 * n
      BY <1>1
    <2> HIDE DEF O
    <2> QED BY <1>5, <2>1, <2>2, <2>3
  <1>8. O = Output(words, rest)
    BY DEF Output
  <1>9. ASSUME NEW m \in 0 .. n - 1
        PROVE  O[3 * m + 1] = words[m + 1] /\ O[3 * m + 2] = Close /\ O[3 * m + 3] = NL
    <2>1. /\ 3 * m + 1 \in 1 .. 3 * n /\ 3 * m + 2 \in 1 .. 3 * n /\ 3 * m + 3 \in 1 .. 3 * n
      BY <1>1
    <2> HIDE DEF n, O
    <2> QED BY <1>2, <1>7, <2>1
  <1> HIDE DEF O
  <1> QED BY <1>7, <1>8, <1>9

LEMMA SaidSame ==
  ASSUME NEW adapter, NEW spoken, NEW m, NEW p, NEW q \in Parsers,
         Said(adapter, spoken, m, p),
         q.failed = p.failed, q.session = p.session, q.final = p.final
  PROVE  Said(adapter, spoken, m, q)
  BY DEF Said

\* After the first k units of an output the parser has heard the words of the
\* lines that end there, and holds the units after the last of these lines.
Read(adapter, words, rest, k, p) ==
    \E m \in 0 .. Len(words) :
       /\ 3 * m <= k /\ (m < Len(words) => k < 3 * m + 3)
       /\ Said(adapter, words, m, p)
       /\ ~p.failed =>
            /\ Len(p.pending) = k - 3 * m
            /\ \A j \in 1 .. k - 3 * m : p.pending[j] = Output(words, rest)[3 * m + j]

LEMMA UnitReads ==
  ASSUME NEW adapter \in Adapters, NEW words \in Seq(Words),
         NEW rest \in Seq(Words \cup {Close}),
         NEW k \in 0 .. Len(Output(words, rest)) - 1, NEW p,
         Read(adapter, words, rest, k, p)
  PROVE  LET q == Unit(adapter, p, Output(words, rest)[k + 1])
         IN Read(adapter, words, rest, k + 1, q) /\ q.left = p.left /\ q.stderr = p.stderr
  <1> DEFINE n == Len(words)
             O == Output(words, rest)
             u == O[k + 1]
             q == Unit(adapter, p, u)
  <1>1. /\ n \in Nat /\ Len(rest) \in Nat /\ Len(O) = 3 * n + Len(rest)
        /\ \A i \in 1 .. n : words[i] \in Words
        /\ \A j \in 1 .. Len(rest) : rest[j] \in Words \cup {Close}
    BY OutputIs
  <1>2. /\ \A m \in 0 .. n - 1 : /\ O[3 * m + 1] = words[m + 1]
                                 /\ O[3 * m + 2] = Close
                                 /\ O[3 * m + 3] = NL
        /\ \A j \in 1 .. Len(rest) : O[3 * n + j] = rest[j]
    BY OutputIs
  <1>3. NL \notin Words \cup {Close}
    BY DEF NL, Words, Close, Sessions, Answers
  <1> SUFFICES Read(adapter, words, rest, k + 1, q) /\ q.left = p.left /\ q.stderr = p.stderr
    OBVIOUS
  <1> HIDE DEF n, O, q
  <1>4. PICK m \in 0 .. n :
           /\ 3 * m <= k /\ (m < n => k < 3 * m + 3)
           /\ Said(adapter, words, m, p)
           /\ ~p.failed => /\ Len(p.pending) = k - 3 * m
                           /\ \A j \in 1 .. k - 3 * m : p.pending[j] = O[3 * m + j]
    BY DEF Read, n, O
  <1>5. m \in Nat /\ k \in Nat /\ k + 1 \in 1 .. Len(O) /\ p \in Parsers
    BY <1>1, <1>4 DEF Said, O
  <1>10. /\ n \in Nat /\ m \in Nat /\ k \in Nat /\ Len(rest) \in Nat
        /\ m <= n /\ 3 * m <= k /\ (m < n => k < 3 * m + 3) /\ k < 3 * n + Len(rest)
    <2>1. k < Len(O)
      BY <1>1 DEF O
    <2> QED BY <1>1, <1>4, <1>5, <2>1
  <1>6. ASSUME NEW h \in 0 .. n, 3 * h <= k + 1, h < n => k + 1 < 3 * h + 3,
               Said(adapter, words, h, q),
               ~q.failed => /\ Len(q.pending) = (k + 1) - 3 * h
                            /\ \A j \in 1 .. (k + 1) - 3 * h : q.pending[j] = O[3 * h + j]
        PROVE  Read(adapter, words, rest, k + 1, q)
    BY <1>6 DEF Read, n, O
  <1>7. CASE p.failed
    <2>1. q = p
      BY <1>7 DEF Unit, q
    <2>2. CASE m < n /\ k + 1 = 3 * m + 3
      <3>1. Said(adapter, words, m + 1, p)
        BY <1>4, <1>5, <1>7, FailedStays
      <3>2. m + 1 \in 0 .. n /\ 3 * (m + 1) <= k + 1 /\ k + 1 < 3 * (m + 1) + 3
        BY <1>1, <1>5, <2>2
      <3> QED BY <1>6, <1>7, <2>1, <3>1, <3>2
    <2>3. CASE ~ (m < n /\ k + 1 = 3 * m + 3)
      <3>1. 3 * m <= k + 1 /\ (m < n => k + 1 < 3 * m + 3)
        BY <1>1, <1>4, <1>5, <2>3
      <3> QED BY <1>4, <1>6, <1>7, <2>1, <3>1
    <2> QED BY <2>1, <2>2, <2>3
  <1>8. CASE ~p.failed /\ m < n /\ k = 3 * m + 2
    <2>1. u = NL /\ m \in 0 .. n - 1 /\ m + 1 \in 1 .. n
      <3>1. m \in 0 .. n - 1 /\ m + 1 \in 1 .. n /\ k + 1 = 3 * m + 3
        BY <1>10, <1>8
      <3> QED BY <1>2, <3>1
    <2>2. Len(p.pending) = 2 /\ p.pending[1] = words[m + 1] /\ p.pending[2] = Close
      <3>1. k - 3 * m = 2 /\ 1 \in 1 .. 2 /\ 2 \in 1 .. 2
        BY <1>5, <1>8
      <3> QED BY <1>2, <1>4, <1>8, <2>1, <3>1
    <2>3. Word(p.pending) = words[m + 1]
      BY <1>1, <2>1, <2>2 DEF Word
    <2> DEFINE r == [p EXCEPT !.pending = <<>>]
    <2>4. r \in Parsers /\ ~r.failed /\ r.pending = <<>> /\ r.failed = p.failed
          /\ r.session = p.session /\ r.final = p.final /\ r.left = p.left /\ r.stderr = p.stderr
      <3>1. <<>> \in Seq(Words \cup {Close})
        OBVIOUS
      <3> QED BY <1>5, <1>8, <3>1 DEF Parsers
    <2>5. q = Line(adapter, r, p.pending)
      BY <1>8, <2>1 DEF Unit, q
    <2> HIDE DEF r
    <2>6. Heard(adapter, r, words[m + 1], q)
      BY <2>3, <2>4, <2>5, LineIs
    <2>7. Said(adapter, words, m, r)
      BY <1>4, <2>4, SaidSame
    <2>8. Said(adapter, words, m + 1, q)
      BY <1>5, <2>4, <2>6, <2>7, SaidNext
    <2>9. q.left = p.left /\ q.stderr = p.stderr /\ q.pending = <<>>
      BY <2>4, <2>6 DEF Heard
    <2>10. /\ m + 1 \in 0 .. n /\ 3 * (m + 1) <= k + 1 /\ k + 1 < 3 * (m + 1) + 3
           /\ (k + 1) - 3 * (m + 1) = 0
      BY <1>1, <1>5, <1>8
    <2>11. Len(q.pending) = 0 /\ \A j \in 1 .. 0 : q.pending[j] = O[3 * (m + 1) + j]
      BY <2>9
    <2>12. Read(adapter, words, rest, k + 1, q)
      BY <1>6, <2>8, <2>10, <2>11
    <2> QED BY <2>9, <2>12
  <1>9. CASE ~p.failed /\ ~ (m < n /\ k = 3 * m + 2)
    <2>1. u \in Words \cup {Close}
      <3>1. CASE m < n
        <4>1. m \in 0 .. n - 1 /\ m + 1 \in 1 .. n /\ (k = 3 * m \/ k = 3 * m + 1)
          BY <1>10, <1>9, <3>1
        <4>2. CASE k = 3 * m
          BY <1>1, <1>2, <4>1, <4>2
        <4>3. CASE k = 3 * m + 1
          <5>1. k + 1 = 3 * m + 2
            BY <1>5, <4>3
          <5> QED BY <1>2, <4>1, <5>1
        <4> QED BY <4>1, <4>2, <4>3
      <3>2. CASE ~ (m < n)
        <4> DEFINE j == (k + 1) - 3 * n
        <4>1. m = n /\ j \in 1 .. Len(rest) /\ 3 * n + j = k + 1
          BY <1>1, <1>4, <1>5, <3>2
        <4> HIDE DEF j
        <4> QED BY <1>1, <1>2, <4>1
      <3> QED BY <3>1, <3>2
    <2>2. q = [p EXCEPT !.pending = Append(p.pending, u)]
      BY <1>3, <1>9, <2>1 DEF Unit, q
    <2> DEFINE T == Words \cup {Close}
    <2>3. p.pending \in Seq(T)
      BY <1>5 DEF Parsers
    <2>4. /\ Append(p.pending, u) \in Seq(T)
          /\ Len(Append(p.pending, u)) = Len(p.pending) + 1
          /\ \A j \in 1 .. Len(p.pending) : Append(p.pending, u)[j] = p.pending[j]
          /\ Append(p.pending, u)[Len(p.pending) + 1] = u
      <3> HIDE DEF T, u
      <3>1. u \in T
        BY <2>1 DEF T
      <3> QED BY <2>3, <3>1, AppendProperties
    <2>5. /\ q \in Parsers /\ q.failed = p.failed /\ q.session = p.session /\ q.final = p.final
          /\ q.left = p.left /\ q.stderr = p.stderr /\ q.pending = Append(p.pending, u)
      <3> HIDE DEF u
      <3> QED BY <1>5, <2>2, <2>4 DEF Parsers
    <2>6. Said(adapter, words, m, q)
      BY <1>4, <2>5, SaidSame
    <2>7. Len(q.pending) = (k + 1) - 3 * m
      <3>1. Len(p.pending) = k - 3 * m
        BY <1>4, <1>9
      <3>2. Len(q.pending) = Len(p.pending) + 1
        BY <2>4, <2>5
      <3> QED BY <1>10, <3>1, <3>2
    <2>8. ASSUME NEW j \in 1 .. (k + 1) - 3 * m PROVE q.pending[j] = O[3 * m + j]
      <3>1. CASE j \in 1 .. k - 3 * m
        <4> HIDE DEF u
        <4> QED BY <1>4, <1>9, <2>4, <2>5, <3>1
      <3>2. CASE j = (k + 1) - 3 * m
        <4>1. 3 * m + j = k + 1 /\ j = Len(p.pending) + 1
          <5>1. Len(p.pending) = k - 3 * m
            BY <1>4, <1>9
          <5> QED BY <1>10, <3>2, <5>1
        <4> QED BY <2>4, <2>5, <4>1
      <3>3. j \in 1 .. k - 3 * m \/ j = (k + 1) - 3 * m
        BY <1>5
      <3> QED BY <3>1, <3>2, <3>3
    <2>9. 3 * m <= k + 1 /\ (m < n => k + 1 < 3 * m + 3)
      BY <1>10, <1>9
    <2>10. Read(adapter, words, rest, k + 1, q)
      BY <1>4, <1>6, <2>6, <2>7, <2>8, <2>9
    <2> QED BY <2>5, <2>10
  <1> QED BY <1>7, <1>8, <1>9

\* What the definition of Parsed says.
LEMMA ParsedIs ==
  ASSUME NEW adapter \in Adapters, NEW p \in Parsers,
         NEW chunk \in Seq(Words \cup {Close, NL})
  PROVE  /\ Parsed(adapter, p, chunk)[0] = p
         /\ \A k \in 0 .. Len(chunk) - 1 :
              Parsed(adapter, p, chunk)[k + 1] =
                Unit(adapter, Parsed(adapter, p, chunk)[k], chunk[k + 1])
  <1> DEFINE N == Len(chunk)
             F == [x \in Parsers \X Nat |->
                     IF x[2] < N THEN Unit(adapter, x[1], chunk[x[2] + 1]) ELSE x[1]]
             Is(h) == h = [k \in 0 .. N |-> IF k = 0 THEN p
                                            ELSE Unit(adapter, h[k - 1], chunk[k])]
  <1>1. N \in Nat /\ \A k \in 1 .. N : chunk[k] \in Words \cup {Close, NL}
    OBVIOUS
  <1>2. ASSUME NEW r \in Parsers, NEW u \in Words \cup {Close, NL}
        PROVE  Unit(adapter, r, u) \in Parsers
    <2>1. CASE r.failed
      BY <2>1 DEF Unit
    <2>2. CASE ~r.failed /\ u = NL
      <3> DEFINE e == [r EXCEPT !.pending = <<>>]
      <3>1. <<>> \in Seq(Words \cup {Close})
        OBVIOUS
      <3>2. e \in Parsers /\ ~e.failed
        BY <2>2, <3>1 DEF Parsers
      <3>3. Unit(adapter, r, u) = Line(adapter, e, r.pending)
        BY <2>2 DEF Unit
      <3> HIDE DEF e
      <3> QED BY <3>2, <3>3, LineIs DEF Heard
    <2>3. CASE ~r.failed /\ u # NL
      <3> DEFINE T == Words \cup {Close}
      <3>1. r.pending \in Seq(T) /\ u \in T
        BY <2>3 DEF Parsers
      <3>2. Append(r.pending, u) \in Seq(T)
        <4> HIDE DEF T
        <4> QED BY <3>1
      <3>3. Unit(adapter, r, u) = [r EXCEPT !.pending = Append(r.pending, u)]
        BY <2>3 DEF Unit
      <3> QED BY <3>2, <3>3 DEF Parsers
    <2> QED BY <2>1, <2>2, <2>3
  <1>3. F \in [Parsers \X Nat -> Parsers]
    <2>1. ASSUME NEW x \in Parsers \X Nat
          PROVE  (IF x[2] < N THEN Unit(adapter, x[1], chunk[x[2] + 1]) ELSE x[1]) \in Parsers
      <3>1. x[1] \in Parsers /\ x[2] \in Nat
        OBVIOUS
      <3>2. CASE x[2] < N
        <4>1. x[2] + 1 \in 1 .. N
          BY <1>1, <3>1, <3>2
        <4> HIDE DEF N
        <4> QED BY <1>1, <1>2, <3>1, <3>2, <4>1
      <3>3. CASE ~ (x[2] < N)
        BY <3>1, <3>3
      <3> QED BY <3>2, <3>3
    <2> HIDE DEF N
    <2> QED BY <2>1
  <1>4. PICK g \in [0 .. N -> Parsers] : Solves(p, F, N, g)
    <2> HIDE DEF F, N
    <2> QED BY <1>1, <1>3, Solvable
  <1>5. Is(g)
    <2>1. ASSUME NEW k \in 0 .. N, k # 0
          PROVE  F[<<g[k - 1], k - 1>>] = Unit(adapter, g[k - 1], chunk[k])
      <3>1. k - 1 \in 0 .. N /\ k - 1 \in Nat /\ k - 1 < N /\ (k - 1) + 1 = k
        BY <1>1, <2>1
      <3>2. g[k - 1] \in Parsers
        BY <3>1
      <3> HIDE DEF N
      <3> QED BY <3>1, <3>2
    <2> HIDE DEF F, N
    <2> QED BY <1>4, <2>1 DEF Solves
  <1>6. Is(Parsed(adapter, p, chunk))
    BY <1>5 DEF Parsed
  <1> DEFINE h == Parsed(adapter, p, chunk)
  <1> HIDE DEF N, h
  <1>7. 0 \in 0 .. N /\ \A k \in 0 .. N - 1 : /\ k + 1 \in 0 .. N /\ k + 1 # 0
                                              /\ (k + 1) - 1 = k
    BY <1>1
  <1>8. h[0] = p
    BY <1>6, <1>7 DEF h
  <1>9. ASSUME NEW k \in 0 .. N - 1 PROVE h[k + 1] = Unit(adapter, h[k], chunk[k + 1])
    <2>1. h[k + 1] = Unit(adapter, h[(k + 1) - 1], chunk[k + 1])
      BY <1>6, <1>7 DEF h
    <2> QED BY <1>7, <2>1
  <1> QED BY <1>8, <1>9 DEF h, N

\* A parser that has failed stays one that has read.
LEMMA FailedReads ==
  ASSUME NEW adapter, NEW words \in Seq(Words), NEW rest, NEW a \in Nat, NEW b \in Nat,
         a <= b, NEW p, p.failed, Read(adapter, words, rest, a, p)
  PROVE  Read(adapter, words, rest, b, p)
  <1> DEFINE n == Len(words)
             h == IF b < 3 * n THEN b \div 3 ELSE n
  <1>1. n \in Nat
    OBVIOUS
  <1> HIDE DEF n
  <1>2. PICK m \in 0 .. n : 3 * m <= a /\ Said(adapter, words, m, p)
    BY DEF Read, n
  <1>3. h \in 0 .. n /\ m <= h /\ 3 * h <= b /\ (h < n => b < 3 * h + 3) /\ m \in Nat
    BY <1>1, <1>2
  <1> HIDE DEF h
  <1>4. Said(adapter, words, h, p)
    BY <1>2, <1>3, FailedStays
  <1> QED BY <1>3, <1>4 DEF Read, n

\* What Feed makes of the units from a on to b, if the limit lets them through.
LEMMA FeedReads ==
  ASSUME NEW adapter \in Adapters, NEW words \in Seq(Words),
         NEW rest \in Seq(Words \cup {Close}),
         NEW b \in 0 .. Len(Output(words, rest)), NEW a \in 0 .. b, NEW p,
         Read(adapter, words, rest, a, p), b - a <= p.left
  PROVE  LET q == Feed(adapter, p, SubSeq(Output(words, rest), a + 1, b))
         IN /\ Read(adapter, words, rest, b, q) /\ q.stderr = p.stderr
            /\ ~p.failed => q.left = p.left - (b - a)
  <1> DEFINE O == Output(words, rest)
             U == Words \cup {Close, NL}
             chunk == SubSeq(O, a + 1, b)
             q == Feed(adapter, p, chunk)
             N == b - a
  <1>1. /\ O \in Seq(U) /\ Len(O) \in Nat /\ a \in Nat /\ b \in Nat /\ N \in Nat
        /\ a <= b /\ b <= Len(O)
    BY OutputIs
  <1>2. p \in Parsers
    BY DEF Read, Said
  <1>3. /\ chunk \in Seq(U) /\ Len(chunk) = N
        /\ \A j \in 0 .. N - 1 : chunk[j + 1] = O[(a + j) + 1]
    <2> HIDE DEF O, U
    <2>1. \A i \in a + 1 .. b : O[i] \in U
      <3>1. \A i \in a + 1 .. b : i \in 1 .. Len(O)
        BY <1>1
      <3> QED BY <1>1, <3>1
    <2>2. /\ chunk \in Seq(U) /\ Len(chunk) = IF a + 1 <= b THEN b - (a + 1) + 1 ELSE 0
          /\ \A i \in 1 .. b - (a + 1) + 1 : chunk[i] = O[(a + 1) + i - 1]
      <3>1. a + 1 \in Int /\ b \in Int
        BY <1>1
      <3> HIDE DEF N
      <3> QED BY <2>1, <3>1, SubSeqProperties DEF chunk
    <2>3. \A j \in 0 .. N - 1 : /\ j + 1 \in 1 .. b - (a + 1) + 1
                                /\ (a + 1) + (j + 1) - 1 = (a + j) + 1
      BY <1>1
    <2> HIDE DEF chunk
    <2> QED BY <1>1, <2>2, <2>3
  <1> SUFFICES /\ Read(adapter, words, rest, b, q) /\ q.stderr = p.stderr
               /\ ~p.failed => q.left = p.left - N
    OBVIOUS
  <1> HIDE DEF O, U, chunk, q, N
  <1>4. CASE p.failed
    <2>1. q = p
      BY <1>4 DEF Feed, q
    <2> QED BY <1>1, <1>4, <2>1, FailedReads
  <1>5. CASE ~p.failed
    <2> DEFINE r == [p EXCEPT !.left = Consumed(p, N)]
    <2>1. p.left \in Nat /\ N <= p.left
      BY <1>2 DEF Parsers, N
    <2>2. /\ r \in Parsers /\ r.left = p.left - N /\ r.stderr = p.stderr
          /\ r.failed = p.failed /\ r.session = p.session /\ r.final = p.final
          /\ r.pending = p.pending
      <3>1. Consumed(p, N) = p.left - N /\ Consumed(p, N) \in Nat
        BY <1>1, <2>1 DEF Consumed
      <3> QED BY <1>2, <3>1 DEF Parsers
    <2>3. q = Parsed(adapter, r, chunk)[N]
      BY <1>1, <1>3, <1>5, <2>1 DEF Feed, q
    <2> HIDE DEF r
    <2>4. Read(adapter, words, rest, a, r)
      BY <2>2, SaidSame DEF Read
    <2> DEFINE g == Parsed(adapter, r, chunk)
               S == {j \in 0 .. N : /\ Read(adapter, words, rest, a + j, g[j])
                                    /\ g[j].left = r.left /\ g[j].stderr = r.stderr}
    <2>5. g[0] = r /\ \A j \in 0 .. N - 1 : g[j + 1] = Unit(adapter, g[j], chunk[j + 1])
      BY <1>3, <2>2, ParsedIs DEF U
    <2> HIDE DEF g
    <2>6. 0 \in S
      BY <1>1, <2>4, <2>5
    <2>7. ASSUME NEW j \in 0 .. N - 1, j \in S PROVE j + 1 \in S
      <3>1. /\ a + j \in 0 .. Len(O) - 1 /\ j + 1 \in 0 .. N /\ (a + j) + 1 = a + (j + 1)
        BY <1>1 DEF N, O
      <3>2. g[j + 1] = Unit(adapter, g[j], O[(a + j) + 1])
        BY <1>3, <2>5
      <3>3. /\ Read(adapter, words, rest, (a + j) + 1, g[j + 1])
            /\ g[j + 1].left = g[j].left /\ g[j + 1].stderr = g[j].stderr
        BY <2>7, <3>1, <3>2, UnitReads DEF O
      <3> QED BY <2>7, <3>1, <3>3
    <2> HIDE DEF S
    <2>8. \A j \in 0 .. N : j \in S
      BY <1>1, <2>6, <2>7, InductTo
    <2>9. N \in S
      BY <1>1, <2>8
    <2>10. a + N = b
      BY <1>1 DEF N
    <2> QED BY <1>5, <2>2, <2>3, <2>9, <2>10 DEF S, g
  <1> QED BY <1>4, <1>5

\* At the end of an output the parser has heard all that counts of it.
LEMMA EndSays ==
  ASSUME NEW adapter \in Adapters, NEW words \in Seq(Words),
         NEW rest \in Seq(Words \cup {Close}), NEW p,
         Read(adapter, words, rest, Len(Output(words, rest)), p)
  PROVE  LET spoken == Spoken(adapter, words, rest)
             q == AtEnd(adapter, p)
         IN /\ Len(spoken) \in Nat /\ DOMAIN spoken = 1 .. Len(spoken)
            /\ \A i \in 1 .. Len(spoken) : spoken[i] \in Range(words \o <<Word(rest)>>)
            /\ Said(adapter, spoken, Len(spoken), q)
            /\ q.failed \/ q.pending = IF adapter = "claude" THEN <<>> ELSE rest
            /\ q.stderr = p.stderr
  <1> DEFINE n == Len(words)
             L == Len(Output(words, rest))
             T == Words \cup {Close}
             V == Words \cup {"not JSON"}
             spoken == Spoken(adapter, words, rest)
             q == AtEnd(adapter, p)
  <1>1. /\ n \in Nat /\ DOMAIN words = 1 .. n /\ Len(rest) \in Nat
        /\ L = 3 * n + Len(rest)
        /\ \A j \in 1 .. Len(rest) : Output(words, rest)[3 * n + j] = rest[j]
    BY OutputIs
  <1>2. Word(rest) \in V /\ words \in Seq(V)
    <2>1. Word(rest) \in V
      BY DEF Word
    <2>2. Words \subseteq V
      OBVIOUS
    <2> HIDE DEF V
    <2> QED BY <2>1, <2>2
  <1>3. /\ p \in Parsers /\ Said(adapter, words, n, p)
        /\ ~p.failed => p.pending = rest
    <2> HIDE DEF n, T, L
    <2>1. PICK m \in 0 .. n :
             /\ 3 * m <= L /\ (m < n => L < 3 * m + 3)
             /\ Said(adapter, words, m, p)
             /\ ~p.failed => /\ Len(p.pending) = L - 3 * m
                             /\ \A j \in 1 .. L - 3 * m :
                                  p.pending[j] = Output(words, rest)[3 * m + j]
      BY DEF Read, n, L
    <2>2. m = n /\ L - 3 * m = Len(rest)
      <3>1. /\ n \in Nat /\ Len(rest) \in Nat /\ L = 3 * n + Len(rest)
            /\ m \in 0 .. n /\ (m < n => L < 3 * m + 3)
        BY <1>1, <2>1
      <3> QED BY <3>1
    <2>3. p \in Parsers
      BY <2>1 DEF Said
    <2>4. ASSUME ~p.failed PROVE p.pending = rest
      <3>1. p.pending \in Seq(T) /\ rest \in Seq(T)
        BY <2>3 DEF Parsers, T
      <3>2. Len(p.pending) = Len(rest) /\ \A j \in 1 .. Len(rest) : p.pending[j] = rest[j]
        BY <1>1, <2>1, <2>2, <2>4
      <3> QED BY <3>1, <3>2, SeqEqual
    <2> QED BY <2>1, <2>2, <2>3, <2>4
  <1> DEFINE B == words \o <<Word(rest)>>
  <1>4. /\ B \in Seq(V) /\ Len(B) = n + 1 /\ DOMAIN B = 1 .. n + 1
        /\ \A i \in 1 .. n : B[i] = words[i]
        /\ B[n + 1] = Word(rest) /\ B = Append(words, Word(rest))
    <2> DEFINE w == Word(rest)
    <2> HIDE DEF w, V
    <2>1. w \in V
      BY <1>2 DEF w
    <2>2. words \o <<w>> = Append(words, w)
      BY <1>2, <2>1, AppendIsConcat
    <2>3. /\ Append(words, w) \in Seq(V) /\ Len(Append(words, w)) = Len(words) + 1
          /\ \A i \in 1 .. Len(words) : Append(words, w)[i] = words[i]
          /\ Append(words, w)[Len(words) + 1] = w
      BY <1>2, <2>1, AppendProperties
    <2> QED BY <2>2, <2>3 DEF w
  <1>5. \A i \in 1 .. n + 1 : B[i] \in Range(B)
    BY <1>4 DEF Range
  <1> SUFFICES /\ Len(spoken) \in Nat /\ DOMAIN spoken = 1 .. Len(spoken)
               /\ \A i \in 1 .. Len(spoken) : spoken[i] \in Range(B)
               /\ Said(adapter, spoken, Len(spoken), q)
               /\ q.failed \/ q.pending = IF adapter = "claude" THEN <<>> ELSE rest
               /\ q.stderr = p.stderr
    OBVIOUS
  <1>6. \A i \in 1 .. n : i \in 1 .. n + 1
    BY <1>1
  <1> HIDE DEF n, L, T, V, spoken, q, B
  <1>7. CASE rest = <<>> \/ adapter = "codex"
    <2>1. spoken = words
      BY <1>7 DEF Spoken, spoken
    <2>2. q = p
      BY <1>3, <1>7 DEF AtEnd, q
    <2>3. \A i \in 1 .. n : words[i] \in Range(B)
      BY <1>4, <1>5, <1>6
    <2>4. rest = IF adapter = "claude" THEN <<>> ELSE rest
      BY <1>7
    <2>5. Len(spoken) = n
      BY <2>1 DEF n
    <2> QED BY <1>1, <1>3, <2>1, <2>2, <2>3, <2>4, <2>5
  <1>8. CASE rest # <<>> /\ adapter = "claude"
    <2>1. spoken = B
      BY <1>4, <1>8 DEF Spoken, spoken
    <2>2. Said(adapter, B, n, p)
      <3>1. Fine(adapter, B, n) <=> Fine(adapter, words, n)
        BY <1>4 DEF Fine
      <3>2. ASSUME ~p.failed, p.final # "none"
            PROVE  \E i \in 1 .. n : /\ B[i] = p.final
                                     /\ \A j \in i + 1 .. n : B[j] \notin Answers
        <4>1. PICK i \in 1 .. n : /\ words[i] = p.final
                                  /\ \A j \in i + 1 .. n : words[j] \notin Answers
          BY <1>3, <3>2 DEF Said
        <4>2. \A j \in i + 1 .. n : j \in 1 .. n
          BY <1>1
        <4> QED BY <1>4, <4>1, <4>2
      <3> QED BY <1>3, <1>4, <3>1, <3>2 DEF Said
    <2>3. CASE p.failed
      <3>1. q = p
        BY <2>3 DEF AtEnd, q
      <3>2. Said(adapter, B, n + 1, p)
        BY <1>1, <2>2, <2>3, FailedStays
      <3> QED BY <1>1, <1>4, <1>5, <2>1, <2>3, <3>1, <3>2
    <2>4. CASE ~p.failed
      <3> DEFINE r == [p EXCEPT !.pending = <<>>]
      <3>1. r \in Parsers /\ r.failed = p.failed /\ r.session = p.session
            /\ r.final = p.final /\ r.stderr = p.stderr /\ r.pending = <<>>
        <4>1. <<>> \in Seq(Words \cup {Close})
          OBVIOUS
        <4> QED BY <1>3, <4>1 DEF Parsers
      <3>2. q = Line(adapter, r, p.pending) /\ p.pending = rest
        BY <1>3, <1>8, <2>4 DEF AtEnd, q
      <3> HIDE DEF r
      <3>3. Heard(adapter, r, B[n + 1], q)
        BY <1>4, <2>4, <3>1, <3>2, LineIs
      <3>4. Said(adapter, B, n, r)
        BY <2>2, <3>1, SaidSame
      <3>5. Said(adapter, B, n + 1, q)
        BY <1>1, <2>4, <3>1, <3>3, <3>4, SaidNext
      <3>6. q.pending = <<>> /\ q.stderr = p.stderr
        BY <3>1, <3>3 DEF Heard
      <3> QED BY <1>1, <1>4, <1>5, <1>8, <2>1, <3>5, <3>6
    <2> QED BY <2>3, <2>4
  <1> QED BY <1>7, <1>8 DEF Adapters

\* So its result is the one of the whole output.
LEMMA EndResult ==
  ASSUME NEW adapter \in Adapters, NEW words \in Seq(Words),
         NEW rest \in Seq(Words \cup {Close}), NEW p,
         Read(adapter, words, rest, Len(Output(words, rest)), p)
  PROVE  LET q == AtEnd(adapter, p)
         IN /\ q \in Parsers /\ q.stderr = p.stderr
            /\ Result(q) <=> Sound(adapter, words, rest)
            /\ Result(q) =>
                 /\ q.session \in Sessions
                 /\ q.session \in {NamedBy(w) : w \in Range(words \o <<Word(rest)>>)}
  <1> DEFINE spoken == Spoken(adapter, words, rest)
             q == AtEnd(adapter, p)
             s == Len(spoken)
  <1>1. /\ s \in Nat /\ DOMAIN spoken = 1 .. s
        /\ \A i \in 1 .. s : spoken[i] \in Range(words \o <<Word(rest)>>)
        /\ Said(adapter, spoken, s, q)
        /\ q.failed \/ q.pending = IF adapter = "claude" THEN <<>> ELSE rest
        /\ q.stderr = p.stderr
    BY EndSays
  <1>2. Sound(adapter, words, rest) <=>
          (adapter = "codex" => rest = <<>>) /\ SoundWords(adapter, spoken)
    BY SoundIs
  <1> SUFFICES /\ q \in Parsers /\ q.stderr = p.stderr
               /\ Result(q) <=> Sound(adapter, words, rest)
               /\ Result(q) =>
                    /\ q.session \in Sessions
                    /\ q.session \in {NamedBy(w) : w \in Range(words \o <<Word(rest)>>)}
    OBVIOUS
  <1> HIDE DEF spoken, q, s
  <1>3. q \in Parsers
    BY <1>1 DEF Said
  <1>4. Result(q) <=> Sound(adapter, words, rest)
    <2>1. CASE adapter = "claude" \/ rest = <<>>
      <3>1. q.failed \/ q.pending = <<>>
        BY <1>1, <2>1
      <3>2. Result(q) <=> SoundWords(adapter, spoken)
        BY <1>1, <3>1, SaidResult
      <3> QED BY <1>2, <2>1, <3>2
    <2>2. CASE adapter = "codex" /\ rest # <<>>
      <3>1. q.failed \/ q.pending # <<>>
        BY <1>1, <2>2
      <3> QED BY <1>2, <2>2, <3>1 DEF Result
    <2> QED BY <2>1, <2>2 DEF Adapters
  <1>5. ASSUME Result(q)
        PROVE  /\ q.session \in Sessions
               /\ q.session \in {NamedBy(w) : w \in Range(words \o <<Word(rest)>>)}
    <2>1. q.session \in Sessions /\ \E i \in 1 .. s : NamedBy(spoken[i]) = q.session
      BY <1>1, <1>5, SaidSession
    <2> QED BY <1>1, <2>1
  <1> QED BY <1>1, <1>3, <1>4, <1>5

\* Only a result has a session for its outcome.
LEMMA OutcomeIs ==
  ASSUME NEW adapter, NEW p, NEW end \in Ends,
         AtEnd(adapter, p) \in Parsers,
         Result(AtEnd(adapter, p)) => AtEnd(adapter, p).session \in Sessions
  PROVE  LET q == AtEnd(adapter, p)
             outcome == Outcome(adapter, p, end)
         IN /\ outcome \in Sessions <=> end = "exit" /\ q.stderr = "open" /\ Result(q)
            /\ outcome \in Sessions => outcome = q.session
  <1> DEFINE q == AtEnd(adapter, p)
             outcome == Outcome(adapter, p, end)
  <1>1. q \in Parsers /\ (Result(q) => q.session \in Sessions /\ ~q.failed)
    BY DEF Result
  <1>2. outcome =
          CASE end = "unconfirmed" -> "unconfirmed"
            [] end # "unconfirmed" /\ q.failed -> "stream"
            [] end # "unconfirmed" /\ ~q.failed /\ q.stderr = "failed" -> "stderr"
            [] end = "timeout" /\ ~q.failed /\ q.stderr # "failed" -> "context"
            [] end \in {"exit", "exit with error"} /\ ~q.failed /\ q.stderr # "failed" ->
                 IF ~Result(q) THEN "result" ELSE IF end = "exit" THEN q.session ELSE "status"
    BY DEF Outcome, Finalize
  <1>3. q.stderr \in {"open", "failed"} /\ q.failed \in BOOLEAN
    BY <1>1 DEF Parsers
  <1> SUFFICES /\ outcome \in Sessions <=> end = "exit" /\ q.stderr = "open" /\ Result(q)
               /\ outcome \in Sessions => outcome = q.session
    OBVIOUS
  <1> HIDE DEF q, outcome
  <1>4. /\ "unconfirmed" \notin Sessions /\ "stream" \notin Sessions /\ "stderr" \notin Sessions
        /\ "context" \notin Sessions /\ "result" \notin Sessions /\ "status" \notin Sessions
    BY DEF Sessions
  <1>5. CASE end = "unconfirmed"
    <2>1. outcome = "unconfirmed"
      BY <1>2, <1>5
    <2> QED BY <1>4, <1>5, <2>1
  <1>6. CASE end # "unconfirmed" /\ q.failed
    <2>1. outcome = "stream"
      BY <1>2, <1>6
    <2> QED BY <1>1, <1>4, <1>6, <2>1
  <1>7. CASE end # "unconfirmed" /\ ~q.failed /\ q.stderr = "failed"
    <2>1. outcome = "stderr"
      BY <1>2, <1>7
    <2> QED BY <1>4, <1>7, <2>1
  <1>8. CASE end = "timeout" /\ ~q.failed /\ q.stderr # "failed"
    <2>1. outcome = "context"
      BY <1>2, <1>8
    <2> QED BY <1>4, <1>8, <2>1
  <1>9. CASE end \in {"exit", "exit with error"} /\ ~q.failed /\ q.stderr # "failed"
    <2>1. outcome = IF ~Result(q) THEN "result"
                    ELSE IF end = "exit" THEN q.session ELSE "status"
      BY <1>2, <1>9
    <2> QED BY <1>1, <1>3, <1>4, <1>9, <2>1
  <1> QED BY <1>3, <1>5, <1>6, <1>7, <1>8, <1>9 DEF Ends

\* Nothing is a result after a failure, or if the other pipe has failed.
LEMMA NoOutcome ==
  ASSUME NEW adapter \in Adapters, NEW p \in Parsers, p.failed \/ p.stderr = "failed",
         NEW end \in Ends
  PROVE  Outcome(adapter, p, end) \notin Sessions
  <1> DEFINE q == AtEnd(adapter, p)
  <1>1. q \in Parsers /\ q.stderr = p.stderr /\ (p.failed => q.failed)
    <2>1. CASE adapter = "claude" /\ p.pending # <<>> /\ ~p.failed
      <3> DEFINE r == [p EXCEPT !.pending = <<>>]
      <3>1. r \in Parsers /\ ~r.failed /\ r.stderr = p.stderr
        <4>1. <<>> \in Seq(Words \cup {Close})
          OBVIOUS
        <4> QED BY <2>1, <4>1 DEF Parsers
      <3>2. q = Line(adapter, r, p.pending)
        BY <2>1 DEF AtEnd
      <3> HIDE DEF r, q
      <3> QED BY <2>1, <3>1, <3>2, LineIs DEF Heard
    <2>2. CASE ~ (adapter = "claude" /\ p.pending # <<>> /\ ~p.failed)
      <3>1. q = p
        BY <2>2 DEF AtEnd
      <3> QED BY <3>1
    <2> QED BY <2>1, <2>2
  <1>2. q.failed \/ q.stderr = "failed"
    BY <1>1
  <1>3. Result(q) => ~q.failed /\ q.session \in Sessions
    BY <1>1 DEF Result, Parsers
  <1>4. Outcome(adapter, p, end) \in Sessions =>
           end = "exit" /\ q.stderr = "open" /\ Result(q)
    BY <1>1, <1>3, OutcomeIs
  <1> HIDE DEF q
  <1> QED BY <1>2, <1>3, <1>4

LEMMA OutputAgrees ==
  ASSUME NEW adapter \in Adapters, NEW words \in Seq(Words),
         NEW rest \in Seq(Words \cup {Close})
  PROVE  Agrees(adapter, words, rest)
  <1> DEFINE output == Output(words, rest)
             L == Len(output)
             sound == Sound(adapter, words, rest)
             named == {NamedBy(w) : w \in Range(words \o <<Word(rest)>>)}
             first(cut) == Feed(adapter, Parser(L), SubSeq(output, 1, cut))
             second(cut, noise) == FeedStderr(first(cut), noise)
             last(cut, noise) == Feed(adapter, second(cut, noise), SubSeq(output, cut + 1, L))
  <1>1. SUFFICES ASSUME NEW cut \in 0 .. L, NEW noise \in {0, 1}, NEW end \in Ends
                 PROVE  LET outcome == Outcome(adapter, last(cut, noise), end)
                        IN /\ outcome \in Sessions <=> sound /\ noise = 0 /\ end = "exit"
                           /\ outcome \in Sessions => outcome \in named
    BY DEF Agrees
  <1>2. L \in Nat /\ Len(words) \in Nat
    BY OutputIs
  <1> DEFINE f == first(cut)
             g == second(cut, noise)
             h == last(cut, noise)
             outcome == Outcome(adapter, h, end)
             p == Parser(L)
  <1>3. /\ p \in Parsers /\ p.left = L /\ p.stderr = "open" /\ ~p.failed
        /\ p.session = "none" /\ p.final = "none" /\ p.pending = <<>>
    <2>1. <<>> \in Seq(Words \cup {Close})
      OBVIOUS
    <2> QED BY <1>2, <2>1 DEF Parser, Parsers
  <1>4. Read(adapter, words, rest, 0, p)
    <2> HIDE DEF p, L, output
    <2>1. Said(adapter, words, 0, p)
      BY <1>3 DEF Said, Fine
    <2>2. /\ 0 \in 0 .. Len(words) /\ 3 * 0 <= 0 /\ (0 < Len(words) => 0 < 3 * 0 + 3)
          /\ Len(p.pending) = 0 - 3 * 0
          /\ \A j \in 1 .. 0 - 3 * 0 : p.pending[j] = Output(words, rest)[3 * 0 + j]
      BY <1>2, <1>3
    <2> QED BY <2>1, <2>2 DEF Read
  <1> HIDE DEF p
  <1>5. /\ Read(adapter, words, rest, cut, f) /\ f.stderr = "open" /\ f.left = L - cut
        /\ f \in Parsers
    <2>1. /\ cut \in 0 .. Len(Output(words, rest)) /\ 0 \in 0 .. cut
          /\ cut - 0 <= p.left /\ 0 + 1 = 1 /\ L - (cut - 0) = L - cut
      BY <1>2, <1>3
    <2>2. f = Feed(adapter, p, SubSeq(Output(words, rest), 0 + 1, cut))
      BY <2>1 DEF p
    <2> HIDE DEF f, output, L
    <2>3. /\ Read(adapter, words, rest, cut, f) /\ f.stderr = p.stderr
          /\ ~p.failed => f.left = p.left - (cut - 0)
      BY <1>4, <2>1, <2>2, FeedReads
    <2>4. f \in Parsers
      BY <2>3 DEF Read, Said
    <2> QED BY <1>3, <2>1, <2>3, <2>4
  <1> HIDE DEF f, output, L
  <1>6. /\ g \in Parsers /\ g.failed = f.failed /\ g.session = f.session
        /\ g.final = f.final /\ g.pending = f.pending
        /\ g.left = IF noise > L - cut THEN 0 ELSE (L - cut) - noise
        /\ g.stderr = IF noise > L - cut THEN "failed" ELSE "open"
    <2>1. g = [f EXCEPT !.left = Consumed(f, noise),
                        !.stderr = IF noise > f.left THEN "failed" ELSE @]
      BY DEF FeedStderr, f
    <2>2. Consumed(f, noise) = (IF noise > L - cut THEN 0 ELSE (L - cut) - noise)
          /\ Consumed(f, noise) \in Nat
      BY <1>2, <1>5 DEF Consumed
    <2> HIDE DEF g
    <2> QED BY <1>5, <2>1, <2>2 DEF Parsers
  <1>7. Read(adapter, words, rest, cut, g)
    BY <1>5, <1>6, SaidSame DEF Read
  <1>8. h = Feed(adapter, g, SubSeq(Output(words, rest), cut + 1, L))
    BY DEF output
  <1> HIDE DEF g, h
  <1>9. L = Len(Output(words, rest)) /\ cut \in 0 .. L /\ L \in 0 .. L /\ L - cut \in Nat
    BY <1>2 DEF L, output
  <1> SUFFICES /\ outcome \in Sessions <=> sound /\ noise = 0 /\ end = "exit"
               /\ outcome \in Sessions => outcome \in named
    BY DEF h
  <1>10. ASSUME L - cut <= g.left
         PROVE  Read(adapter, words, rest, L, h) /\ h.stderr = g.stderr /\ h \in Parsers
    <2>1. Read(adapter, words, rest, L, h) /\ h.stderr = g.stderr
      <3>1. L \in 0 .. Len(Output(words, rest))
        BY <1>9
      <3>2. /\ Read(adapter, words, rest, L, Feed(adapter, g, SubSeq(Output(words, rest), cut + 1, L)))
            /\ Feed(adapter, g, SubSeq(Output(words, rest), cut + 1, L)).stderr = g.stderr
        BY <1>7, <1>9, <1>10, <3>1, FeedReads
      <3> QED BY <1>8, <3>2
    <2> QED BY <2>1 DEF Read, Said
  <1>11. CASE noise = 0
    <2>1. g.left = L - cut /\ g.stderr = "open"
      BY <1>6, <1>9, <1>11
    <2>2. Read(adapter, words, rest, L, h) /\ h.stderr = "open"
      BY <1>9, <1>10, <2>1
    <2> DEFINE q == AtEnd(adapter, h)
    <2>3. /\ q \in Parsers /\ q.stderr = "open"
          /\ Result(q) <=> sound
          /\ Result(q) => q.session \in Sessions /\ q.session \in named
      BY <1>9, <2>2, EndResult
    <2>4. /\ outcome \in Sessions <=> end = "exit" /\ q.stderr = "open" /\ Result(q)
          /\ outcome \in Sessions => outcome = q.session
      BY <2>3, OutcomeIs
    <2> HIDE DEF q, outcome, sound, named
    <2> QED BY <1>11, <2>3, <2>4
  <1>12. CASE noise = 1
    <2>1. h \in Parsers /\ (h.failed \/ h.stderr = "failed")
      <3>1. CASE L = cut
        <4>1. g.left = 0 /\ g.stderr = "failed" /\ L - cut = 0
          BY <1>6, <1>9, <1>12, <3>1
        <4> QED BY <1>10, <4>1
      <3>2. CASE L # cut
        <4>1. g.left = (L - cut) - 1 /\ L - cut > g.left
          BY <1>6, <1>9, <1>12, <3>2
        <4>2. CASE g.failed
          <5>1. h = g
            BY <1>8, <4>2 DEF Feed
          <5> QED BY <1>6, <4>2, <5>1
        <4>3. CASE ~g.failed
          <5> DEFINE chunk == SubSeq(Output(words, rest), cut + 1, L)
          <5>1. Len(chunk) = L - cut
            <6> DEFINE O == Output(words, rest)
            <6>1. O \in Seq(Words \cup {Close, NL})
              BY OutputIs
            <6>2. /\ L = Len(O) /\ cut \in 0 .. L /\ L \in Nat
                  /\ L - cut = (IF cut + 1 <= L THEN L - (cut + 1) + 1 ELSE 0)
              BY <1>2, <1>9
            <6>3. Len(SubSeq(O, cut + 1, L)) = IF cut + 1 <= L THEN L - (cut + 1) + 1 ELSE 0
              <7> HIDE DEF O
              <7> QED BY <6>1, <6>2
            <6> QED BY <6>2, <6>3
          <5> HIDE DEF chunk
          <5>2. h = Failed([g EXCEPT !.left = 0])
            BY <1>8, <4>1, <4>3, <5>1 DEF Feed, chunk
          <5> QED BY <1>6, <5>2 DEF Failed, Parsers
        <4> QED BY <4>2, <4>3
      <3> QED BY <3>1, <3>2
    <2>2. outcome \notin Sessions
      BY <2>1, NoOutcome
    <2> QED BY <1>12, <2>2
  <1> QED BY <1>11, <1>12

-----------------------------------------------------------------------------
(***************************************************************************)
(* The theorems: an input never changes, so each is about an initial one.  *)
(***************************************************************************)
\* The matching of a path against a pattern, segment by segment from the end,
\* finds a way to cut the path into pieces if and only if there is one
\* (matchSegments).
THEOREM MatchSegmentsCorrect ==
  \A pattern, path :
     IsSequence(pattern) /\ IsSequence(path) =>
       (MatchSegments(pattern, path) <=> Covers(pattern, path))
  BY MatchSegmentsIsCovers

\* The two tests for a cycle, by reachability and by taking what is free, agree
\* on every finite graph whose edges are between its nodes (cyclic,
\* validateAndHashPlan).
THEOREM CycleTestsCorrect ==
  \A plan : IsFiniteSet(plan.works) => CycleTestsAgree(plan)
  BY CycleTests

\* A capture of any directory replays to that directory, and is taken exactly
\* if what it changes is in scope (Capture, Replay, CheckWrite).
THEOREM ReplayReproducesHolds == InputSpec => []ReplayReproduces
  <1>1. InputInit => ReplayReproduces
    BY DirectoryReproduces DEF InputInit, ReplayReproduces, NoInput
  <1>2. ReplayReproduces /\ [UNCHANGED input]_input => ReplayReproduces'
    BY DEF ReplayReproduces
  <1> QED BY <1>1, <1>2, PTL DEF InputSpec

\* The restriction to Literal plans cannot be dropped: for two scopes of a single
\* segment, one of which matches the other without a * in it (/a? and /ab), the
\* compiler's test sees no overlap although both allow the path that the second
\* one names (scopesMayOverlap, literalPrefix against matchSegments).
THEOREM InexactScopesMissed ==
  ASSUME NEW s, NEW t, s \notin Starred, t \notin Starred, s # t,
         SegMatches(s, t), SegMatches(t, t)
  PROVE  /\ MatchSegments(<<s>>, <<t>>) /\ MatchSegments(<<t>>, <<t>>)
         /\ ~ ScopesMayOverlap({<<s>>}, {<<t>>})
  <1>1. ASSUME NEW x, x \notin Starred, SegMatches(x, t)
        PROVE  MatchSegments(<<x>>, <<t>>) /\ LiteralPrefix(<<x>>) = <<x>>
    <2>1. x # "**"
      BY <1>1, ScopesAssumption DEF ScopesAssumption
    <2>2. IsSequence(<<x>>) /\ IsSequence(<<t>>)
      BY DEF IsSequence, Range
    <2> DEFINE at == [i \in 0 .. 1 |-> i]
    <2>3. Covers(<<x>>, <<t>>)
      <3>1. at \in [0 .. Len(<<x>>) -> 0 .. Len(<<t>>)]
        OBVIOUS
      <3>2. at[0] = 0 /\ at[1] = 1 /\ Len(<<x>>) = 1 /\ Len(<<t>>) = 1
        OBVIOUS
      <3>3. \A i \in DOMAIN <<x>> : i = 1
        OBVIOUS
      <3> HIDE DEF at
      <3> QED BY <1>1, <2>1, <3>1, <3>2, <3>3 DEF Covers
    <2>4. LiteralPrefix(<<x>>) = <<x>>
      <3>1. {i \in 1 .. Len(<<x>>) : <<x>>[i] \in Starred} = {}
        BY <1>1
      <3> QED BY <3>1 DEF LiteralPrefix, SelectInSeq
    <2> QED BY <2>2, <2>3, <2>4, MatchSegmentsIsCovers
  <1>2. ~ IsPrefix(<<s>>, <<t>>) /\ ~ IsPrefix(<<t>>, <<s>>)
    BY DEF IsPrefix
  <1>3. LiteralPrefix(<<s>>) = <<s>> /\ LiteralPrefix(<<t>>) = <<t>>
    BY <1>1
  <1>4. ~ ScopesMayOverlap({<<s>>}, {<<t>>})
    BY <1>2, <1>3, Zenon DEF ScopesMayOverlap
  <1> QED BY <1>1, <1>4

\* Every plan that compiles and can be stored can be worked off to the end, and
\* if its scopes have no ? and no [ before their first * (Literal), two of its
\* ready works never may write the same path (compilePlan, scopesMayOverlap,
\* validateAndHashPlan).
THEOREM PublishedPlanCompletesHolds == InputSpec => []PublishedPlanCompletes
  <1>1. InputInit => PublishedPlanCompletes
    <2> SUFFICES ASSUME InputInit, input.kind = "plan"
                 PROVE  CycleTestsAgree(input.plan) /\ Completes(input.plan)
      BY DEF PublishedPlanCompletes
    <2>1. input.plan \in Plans
      BY DEF InputInit, NoInput
    <2>2. IsFiniteSet(input.plan.works)
      BY <2>1, CompileAssumption DEF CompileAssumption
    <2> QED BY <2>1, <2>2, CycleTests, PlanCompletes
  <1>2. PublishedPlanCompletes /\ [UNCHANGED input]_input => PublishedPlanCompletes'
    BY DEF PublishedPlanCompletes
  <1> QED BY <1>1, <1>2, PTL DEF InputSpec

\* Every output, cut anywhere, has the outcome of the output as a whole
\* (jsonlStream.Write, stream.Write, boundedStderr.Write, observeExecution).
THEOREM StreamsAgreeHolds == InputSpec => []StreamsAgree
  <1>1. InputInit => StreamsAgree
    <2> SUFFICES ASSUME InputInit, input.kind = "output"
                 PROVE  Agrees(input.adapter, input.words, input.rest)
      BY DEF StreamsAgree
    <2>1. input.adapter \in Adapters /\ input.words \in Outputs /\ input.rest \in Rests
      BY DEF InputInit, NoInput
    <2>2. input.words \in Seq(Words) /\ input.rest \in Seq(Words \cup {Close})
      BY <2>1, StreamsAssumption DEF StreamsAssumption
    <2> QED BY <2>1, <2>2, OutputAgrees
  <1>2. StreamsAgree /\ [UNCHANGED input]_input => StreamsAgree'
    BY DEF StreamsAgree
  <1> QED BY <1>1, <1>2, PTL DEF InputSpec
=============================================================================
