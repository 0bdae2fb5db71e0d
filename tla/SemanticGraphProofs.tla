------------------------- MODULE SemanticGraphProofs -------------------------
(***************************************************************************)
(* What holds of the semantic graph of every tree, of every view of it and *)
(* of its acts: the operators of SemanticGraph and ActGraph, proved.       *)
(***************************************************************************)
EXTENDS ActGraph, FiniteSetTheorems, WellFoundedInduction, TLAPS

-----------------------------------------------------------------------------
(* Numbers and finite sets. *)

(* A set of naturals that is not empty has a least element. *)
LEMMA Least ==
  ASSUME NEW S, S \subseteq Nat, S # {}
  PROVE  \E m \in S : \A n \in S : m <= n
<1>1. PICK R : R = OpToRel(<, Nat)
  OBVIOUS
<1>2. IsWellFoundedOn(R, Nat)
  BY <1>1, NatLessThanWellFounded, Zenon
<1>3. PICK m \in S : \A n \in S : ~ (<<n, m>> \in R)
  BY <1>2, WFMin, Zenon
<1>4. R = {pair \in Nat \X Nat : pair[1] < pair[2]}
  BY <1>1, Zenon DEF OpToRel
<1>5. \A n \in S : m \in Nat /\ n \in Nat /\ ~ (n < m)
  BY <1>3, <1>4
<1> QED
  BY <1>3, <1>5

(* A set that holds 0 and the successor of each of its naturals holds all  *)
(* of them.                                                                *)
LEMMA Inductive ==
  ASSUME NEW S, 0 \in S, \A n \in Nat : n \in S => n + 1 \in S
  PROVE  Nat \subseteq S
<1> SUFFICES ASSUME Nat \ S # {} PROVE FALSE
  OBVIOUS
<1>1. PICK m \in Nat \ S : \A n \in Nat \ S : m <= n
  BY Least
<1>2. m # 0 /\ m \in Nat
  BY <1>1
<1>3. m - 1 \in Nat /\ m - 1 \in S
  BY <1>1, <1>2
<1>4. (m - 1) + 1 \in S
  BY <1>3
<1> QED
  BY <1>1, <1>2, <1>4

(* The values a function takes on a finite set are finitely many. *)
LEMMA ImageIsFinite ==
  ASSUME NEW S, IsFiniteSet(S), NEW f, DOMAIN f = S, f = [x \in S |-> f[x]]
  PROVE  IsFiniteSet({f[x] : x \in S})
<1> DEFINE T == {f[x] : x \in S}
<1>1. f \in Surjection(S, T)
  BY DEF Surjection
<1> HIDE DEF T
<1>2. IsFiniteSet(T)
  BY <1>1, FS_Surjection
<1> QED
  BY <1>2 DEF T

(* A value and a step from each value to the next define a function on     *)
(* 0..m, however the recursion is written.                                 *)
Follows(f, a, step, m) ==
  f[0] = a /\ \A n \in 1..m : f[n] = step[<<n, f[n - 1]>>]

LEMMA Recursion ==
  ASSUME NEW D, NEW a \in D, NEW step \in [Nat \X D -> D], NEW m \in Nat
  PROVE  \E f \in [0..m -> D] : Follows(f, a, step, m)
<1> DEFINE Upto(f, k) == f = [n \in 0..k |-> IF n = 0 THEN a ELSE step[<<n, f[n - 1]>>]]
           S == {k \in Nat : \E f \in [0..k -> D] : Upto(f, k)}
<1>1. 0 \in S
  <2> DEFINE f == [n \in 0..0 |-> a]
  <2>1. f \in [0..0 -> D] /\ Upto(f, 0)
    OBVIOUS
  <2> QED
    BY <2>1
<1>2. ASSUME NEW k \in Nat, k \in S PROVE k + 1 \in S
  <2>1. PICK f \in [0..k -> D] : Upto(f, k)
    BY <1>2
  <2> DEFINE g == [n \in 0..(k + 1) |-> IF n = k + 1 THEN step[<<n, f[k]>>] ELSE f[n]]
  <2>2. g \in [0..(k + 1) -> D]
    OBVIOUS
  <2>3. ASSUME NEW n \in 0..(k + 1)
        PROVE  g[n] = IF n = 0 THEN a ELSE step[<<n, g[n - 1]>>]
    <3>1. CASE n = k + 1
      <4>1. n - 1 = k /\ n # 0 /\ n - 1 \in 0..(k + 1) /\ n - 1 # k + 1
        BY <3>1
      <4> QED
        BY <3>1, <4>1
    <3>2. CASE n # k + 1
      <4>1. n \in 0..k /\ (n # 0 => n - 1 \in 0..k)
        BY <3>2
      <4>2. f[n] = IF n = 0 THEN a ELSE step[<<n, f[n - 1]>>]
        BY <2>1, <4>1
      <4>3. g[n] = f[n] /\ (n # 0 => g[n - 1] = f[n - 1])
        BY <3>2, <4>1
      <4> QED
        BY <4>2, <4>3
    <3> QED
      BY <3>1, <3>2
  <2>4. Upto(g, k + 1)
    <3>1. g = [n \in 0..(k + 1) |-> g[n]]
      OBVIOUS
    <3> HIDE DEF g
    <3> QED
      BY <2>3, <3>1
  <2> HIDE DEF g, Upto
  <2> QED
    BY <2>2, <2>4
<1>3. m \in S
  <2> HIDE DEF S
  <2> QED
    BY <1>1, <1>2, Inductive
<1>4. PICK f \in [0..m -> D] : Upto(f, m)
  BY <1>3
<1>5. f[0] = a
  BY <1>4
<1>6. ASSUME NEW n \in 1..m PROVE f[n] = step[<<n, f[n - 1]>>]
  <2>1. n \in 0..m /\ n # 0
    OBVIOUS
  <2> QED
    BY <1>4, <2>1
<1> HIDE DEF Upto
<1> QED
  BY <1>5, <1>6 DEF Follows

-----------------------------------------------------------------------------
(* Build. *)

LEMMA TextTyped ==
  ASSUME NEW t \in Trees, NEW i \in Sources(t)
  PROVE  /\ i \in DOMAIN GoFiles /\ i \in Nat /\ GoFiles[i] \in Paths
         /\ t[GoFiles[i]] \in Seq(Tokens)
<1>1. i \in DOMAIN GoFiles /\ t[GoFiles[i]] # Absent
  BY DEF Sources
<1>2. GoFiles[i] \in Paths /\ i \in Nat
  BY <1>1, GraphAssumption DEF Paths
<1> QED
  BY <1>1, <1>2 DEF Trees, Texts

LEMMA DeclarationsTyped ==
  ASSUME NEW t \in Trees, NEW d \in Declarations(t)
  PROVE  /\ d.file \in Sources(t) /\ d.file \in Nat /\ d.line \in Nat
         /\ d.name \in Names /\ d.calls \subseteq Names \cup Symbols
<1>1. PICK i \in Sources(t) : \E k \in DOMAIN t[GoFiles[i]] : d = Declaration(t, i, k)
  BY DEF Declarations
<1>2. PICK k \in DOMAIN t[GoFiles[i]] : d = Declaration(t, i, k)
  BY <1>1
<1>3. k \in Nat /\ t[GoFiles[i]][k] \in Tokens /\ i \in Nat
  BY TextTyped
<1>4. /\ d.file = i /\ d.line = k /\ d.name = Declares[t[GoFiles[i]][k]]
      /\ d.calls = Calls[t[GoFiles[i]][k]]
  BY <1>2 DEF Declaration
<1>5. d.name # NoName
  BY DEF Declarations
<1> QED
  BY <1>3, <1>4, <1>5, GraphAssumption

(* Every name declared has a first declaration. *)
LEMMA FirstExists ==
  ASSUME NEW t \in Trees, NEW d \in Declarations(t)
  PROVE  \E e \in FirstOf(Declarations(t)) : e.name = d.name
<1> DEFINE decls == Declarations(t)
           same == {e \in decls : e.name = d.name}
           files == {e.file : e \in same}
<1>1. \A e \in decls : e.file \in Nat /\ e.line \in Nat
  BY DeclarationsTyped
<1>2. d \in decls
  OBVIOUS
<1> HIDE DEF decls
<1>3. files \subseteq Nat /\ files # {}
  BY <1>1, <1>2
<1>4. PICK m \in files : \A n \in files : m <= n
  <2> HIDE DEF files
  <2> QED BY <1>3, Least
<1> DEFINE inFirst == {e \in same : e.file = m}
           lines == {e.line : e \in inFirst}
<1>5. lines \subseteq Nat /\ lines # {}
  BY <1>1, <1>4
<1>6. PICK l \in lines : \A n \in lines : l <= n
  <2> HIDE DEF lines
  <2> QED BY <1>5, Least
<1>7. PICK e \in inFirst : e.line = l
  BY <1>6
<1>8. ASSUME NEW x \in decls, x.name = e.name PROVE Earlier(e, x)
  <2>1. x \in same /\ e \in same /\ e.file = m
    BY <1>7, <1>8
  <2>2. m <= x.file /\ m \in Nat /\ x.file \in Nat
    BY <1>1, <1>4, <2>1
  <2>3. CASE x.file = m
    <3>1. x.line \in lines
      BY <2>1, <2>3
    <3> QED
      BY <1>6, <1>7, <2>1, <2>3, <3>1 DEF Earlier
  <2> QED
    BY <2>1, <2>2, <2>3 DEF Earlier
<1> QED
  BY <1>7, <1>8 DEF FirstOf, decls

(* Both passes leave their nodes in the graph, under their identifiers. *)
LEMMA AddedIDs ==
  ASSUME NEW N, NEW more
  PROVE  {n.id : n \in AddNodes(N, more)} = {n.id : n \in N} \cup {n.id : n \in more}
BY DEF AddNodes

LEMMA BuiltIDs ==
  ASSUME NEW t
  PROVE  NodeIDs(Build(t)) = {n.id : n \in CollectNodes(Sources(t), Declarations(t))}
                               \cup {n.id : n \in DomainNodes(t)}
                               \cup {n.id : n \in RelationNodes(Declarations(t))}
<1> DEFINE N == CollectNodes(Sources(t), Declarations(t))
<1>1. Build(t).nodes = AddNodes(N \cup DomainNodes(t), RelationNodes(Declarations(t)))
  BY DEF Build
<1> HIDE DEF N
<1>2. {n.id : n \in N \cup DomainNodes(t)} = {n.id : n \in N} \cup {n.id : n \in DomainNodes(t)}
  OBVIOUS
<1>3. NodeIDs(Build(t)) = {n.id : n \in N \cup DomainNodes(t)}
                            \cup {n.id : n \in RelationNodes(Declarations(t))}
  BY <1>1, AddedIDs DEF NodeIDs
<1> QED
  BY <1>2, <1>3 DEF N

LEMMA RepoIsNode ==
  ASSUME NEW t
  PROVE  Repo \in NodeIDs(Build(t))
<1>1. NodeOf(Repo, NoSource, 0) \in CollectNodes(Sources(t), Declarations(t))
  BY DEF CollectNodes
<1>2. NodeOf(Repo, NoSource, 0).id = Repo
  BY DEF NodeOf
<1> QED
  BY <1>1, <1>2, BuiltIDs

(* What the first pass names: the package, the files, what they declare. *)
LEMMA CollectedIDs ==
  ASSUME NEW t \in Trees
  PROVE  LET ids == {n.id : n \in CollectNodes(Sources(t), Declarations(t))}
         IN /\ Repo \in ids
            /\ \A i \in Sources(t) : Package \in ids /\ File(GoFiles[i]) \in ids
            /\ \A d \in Declarations(t) : Function(d.name) \in ids
<1> DEFINE N == CollectNodes(Sources(t), Declarations(t))
<1>1. NodeOf(Repo, NoSource, 0) \in N
  BY DEF CollectNodes
<1>2. \A i \in Sources(t) : NodeOf(Package, NoSource, 0) \in N
                              /\ NodeOf(File(GoFiles[i]), GoFiles[i], 0) \in N
  BY DEF CollectNodes
<1>3. \A d \in Declarations(t) : \E e \in FirstOf(Declarations(t)) :
         e.name = d.name /\ NodeOf(Function(e.name), GoFiles[e.file], e.line) \in N
  BY FirstExists DEF CollectNodes
<1>4. \A id, source, line : NodeOf(id, source, line).id = id
  BY DEF NodeOf
<1> HIDE DEF N
<1> QED
  BY <1>1, <1>2, <1>3, <1>4 DEF N

(* What the domain projection names: the documents, the bundles they       *)
(* compile to and their steps.                                             *)
LEMMA DomainIDs ==
  ASSUME NEW t
  PROVE  LET ids == {n.id : n \in DomainNodes(t)}
         IN /\ \A w \in Documents(t) : Workflow(w) \in ids
            /\ \A w \in Compiled(t) :
                 /\ Workflow(w) \in ids /\ Bundle(w, t[w]) \in ids
                 /\ \A k \in DOMAIN t[w] : BundleStep(w, t[w], k) \in ids
<1> DEFINE N == DomainNodes(t)
<1>1. \A w \in Documents(t) : NodeOf(Workflow(w), w, 0) \in N
  BY DEF DomainNodes
<1>2. \A w \in Compiled(t) :
         /\ NodeOf(Bundle(w, t[w]), w, 0) \in N
         /\ \A k \in DOMAIN t[w] : NodeOf(BundleStep(w, t[w], k), w, 0) \in N
  BY DEF DomainNodes
<1>3. \A w \in Compiled(t) : w \in Documents(t)
  BY DEF Compiled
<1>4. \A id, source, line : NodeOf(id, source, line).id = id
  BY DEF NodeOf
<1> HIDE DEF N
<1> QED
  BY <1>1, <1>2, <1>3, <1>4 DEF N

LEMMA DomainEnds ==
  ASSUME NEW t, NEW e \in DomainEdges(t)
  PROVE  {e.from, e.to} \subseteq {n.id : n \in DomainNodes(t)}
<1>1. PICK w \in Compiled(t) :
         \/ e = EdgeOf("compiles_to", Workflow(w), Bundle(w, t[w]), w, 0, "exact")
         \/ \E k \in DOMAIN t[w] :
              e = EdgeOf("contains_step", Bundle(w, t[w]), BundleStep(w, t[w], k), w, 0, "exact")
  BY DEF DomainEdges
<1>2. \A kind, from, to, source, line, c :
         EdgeOf(kind, from, to, source, line, c).from = from
         /\ EdgeOf(kind, from, to, source, line, c).to = to
  BY DEF EdgeOf
<1> QED
  BY <1>1, <1>2, DomainIDs

(* Both ends of every edge that Build adds are nodes of the graph.         *)
LEMMA EndsAreNodes ==
  ASSUME NEW t \in Trees
  PROVE  IsGraph(Build(t))
<1> DEFINE sources == Sources(t)
           decls == Declarations(t)
           ids == NodeIDs(Build(t))
           E == CollectEdges(sources, decls) \cup DomainEdges(t) \cup RelationEdges(decls)
<1>1. /\ {n.id : n \in CollectNodes(sources, decls)} \subseteq ids
      /\ {n.id : n \in DomainNodes(t)} \subseteq ids
      /\ {n.id : n \in RelationNodes(decls)} \subseteq ids
  BY BuiltIDs
<1>2. /\ Repo \in ids
      /\ \A i \in sources : Package \in ids /\ File(GoFiles[i]) \in ids
      /\ \A d \in decls : Function(d.name) \in ids
  BY <1>1, CollectedIDs
<1>3. \A d \in decls : d.file \in sources
  BY DeclarationsTyped
<1>4. \A kind, from, to, source, line, c :
         EdgeOf(kind, from, to, source, line, c).from = from
         /\ EdgeOf(kind, from, to, source, line, c).to = to
  BY DEF EdgeOf
<1>5. \A d \in decls : \A x \in ResolveCalls(decls, d.calls) : x \in ids
  <2> SUFFICES ASSUME NEW d \in decls, NEW x \in ResolveCalls(decls, d.calls)
               PROVE  x \in ids
    OBVIOUS
  <2>1. NodeOf(x, NoSource, 0) \in RelationNodes(decls)
    BY DEF RelationNodes
  <2>2. NodeOf(x, NoSource, 0).id = x
    BY DEF NodeOf
  <2> QED
    BY <1>1, <2>1, <2>2
<1> HIDE DEF sources, decls, ids
<1>6. ASSUME NEW e \in CollectEdges(sources, decls) PROVE {e.from, e.to} \subseteq ids
  <2>1. CASE \E i \in sources : e = EdgeOf("contains", Repo, Package, GoFiles[i], 0, "exact")
    BY <1>2, <1>4, <2>1
  <2>2. CASE \E i \in sources :
               e = EdgeOf("contains", Package, File(GoFiles[i]), GoFiles[i], 0, "exact")
    BY <1>2, <1>4, <2>2
  <2>3. CASE \E d \in decls : e = EdgeOf("defines", File(GoFiles[d.file]), Function(d.name),
                                         GoFiles[d.file], d.line, "exact")
    BY <1>2, <1>3, <1>4, <2>3
  <2> QED
    BY <1>6, <2>1, <2>2, <2>3 DEF CollectEdges
<1>7. ASSUME NEW e \in RelationEdges(decls) PROVE {e.from, e.to} \subseteq ids
  <2>1. PICK d \in decls : \E x \in ResolveCalls(decls, d.calls) :
           e = EdgeOf("calls", Function(d.name), x, GoFiles[d.file], d.line, "static")
    BY <1>7 DEF RelationEdges
  <2> QED
    BY <1>2, <1>4, <1>5, <2>1
<1>8. Build(t).edges \subseteq E
  BY DEF Build, AddEdges, sources, decls
<1>9. \A e \in Build(t).edges : {e.from, e.to} \subseteq ids
  <2>1. \A e \in DomainEdges(t) : {e.from, e.to} \subseteq ids
    BY <1>1, DomainEnds
  <2> QED
    BY <1>6, <1>7, <1>8, <2>1
<1> QED
  BY <1>9 DEF IsGraph, ids

LEMMA DomainIsFinite ==
  ASSUME NEW t \in Trees
  PROVE  IsFiniteSet({n.id : n \in DomainNodes(t)})
<1> DEFINE steps(w) == {BundleStep(w, t[w], k) : k \in DOMAIN t[w]}
           of == [w \in Compiled(t) |-> {Workflow(w), Bundle(w, t[w])} \cup steps(w)]
           workflow == [w \in Documents(t) |-> Workflow(w)]
           groups == {of[w] : w \in Compiled(t)}
           workflows == {workflow[w] : w \in Documents(t)}
<1>1. IsFiniteSet(Documents(t)) /\ IsFiniteSet(Compiled(t))
  <2>1. IsFiniteSet(Workflows) /\ Documents(t) \subseteq Workflows /\ Compiled(t) \subseteq Documents(t)
    BY GraphAssumption DEF Documents, Compiled
  <2> QED
    BY <2>1, FS_Subset
<1>2. ASSUME NEW w \in Compiled(t) PROVE IsFiniteSet(of[w])
  <2> DEFINE step == [k \in DOMAIN t[w] |-> BundleStep(w, t[w], k)]
  <2>1. t[w] \in Seq(Tokens)
    <3>1. w \in Paths /\ t[w] # Absent
      BY GraphAssumption DEF Compiled, Documents, Paths
    <3> QED
      BY <3>1 DEF Trees, Texts
  <2>2. IsFiniteSet(DOMAIN t[w])
    BY <2>1, FS_Interval
  <2>3. IsFiniteSet({step[k] : k \in DOMAIN t[w]})
    <3>1. DOMAIN step = DOMAIN t[w] /\ step = [k \in DOMAIN t[w] |-> step[k]]
      OBVIOUS
    <3> HIDE DEF step
    <3> QED
      BY <2>2, <3>1, ImageIsFinite
  <2>4. {step[k] : k \in DOMAIN t[w]} = steps(w)
    OBVIOUS
  <2>5. IsFiniteSet({Workflow(w), Bundle(w, t[w])})
    <3>1. IsFiniteSet({Workflow(w)})
           /\ {Workflow(w), Bundle(w, t[w])} = {Workflow(w)} \cup {Bundle(w, t[w])}
      BY FS_Singleton
    <3> QED
      BY <3>1, FS_AddElement
  <2>6. of[w] = {Workflow(w), Bundle(w, t[w])} \cup steps(w)
    OBVIOUS
  <2>7. IsFiniteSet(steps(w))
    BY <2>3, <2>4, Zenon
  <2> DEFINE pair == {Workflow(w), Bundle(w, t[w])}
             rest == steps(w)
  <2>8. IsFiniteSet(pair) /\ IsFiniteSet(rest)
    BY <2>5, <2>7, Zenon
  <2>9. of[w] = pair \cup rest
    BY <2>6, Zenon
  <2> HIDE DEF of, pair, rest
  <2> QED
    BY <2>8, <2>9, FS_Union
<1>3. IsFiniteSet(groups)
  <2>1. DOMAIN of = Compiled(t) /\ of = [w \in Compiled(t) |-> of[w]]
    OBVIOUS
  <2> HIDE DEF of
  <2> QED
    BY <1>1, <2>1, ImageIsFinite
<1>4. IsFiniteSet(UNION groups)
  <2> HIDE DEF of
  <2> QED
    BY <1>2, <1>3, FS_UNION
<1>5. IsFiniteSet(workflows)
  <2>1. DOMAIN workflow = Documents(t) /\ workflow = [w \in Documents(t) |-> workflow[w]]
    OBVIOUS
  <2> HIDE DEF workflow
  <2> QED
    BY <1>1, <2>1, ImageIsFinite
<1>6. {n.id : n \in DomainNodes(t)} \in SUBSET (workflows \cup UNION groups)
  <2> SUFFICES ASSUME NEW n \in DomainNodes(t) PROVE n.id \in workflows \cup UNION groups
    OBVIOUS
  <2>1. \A id, source, line : NodeOf(id, source, line).id = id
    BY DEF NodeOf
  <2>2. \/ \E w \in Documents(t) : n = NodeOf(Workflow(w), w, 0)
        \/ \E w \in Compiled(t) :
             \/ n = NodeOf(Bundle(w, t[w]), w, 0)
             \/ \E k \in DOMAIN t[w] : n = NodeOf(BundleStep(w, t[w], k), w, 0)
    BY DEF DomainNodes
  <2>3. CASE \E w \in Documents(t) : n = NodeOf(Workflow(w), w, 0)
    <3>1. PICK w \in Documents(t) : n = NodeOf(Workflow(w), w, 0)
      BY <2>3
    <3>2. n.id = workflow[w]
      BY <2>1, <3>1
    <3> QED
      BY <3>2
  <2>4. CASE \E w \in Compiled(t) :
               \/ n = NodeOf(Bundle(w, t[w]), w, 0)
               \/ \E k \in DOMAIN t[w] : n = NodeOf(BundleStep(w, t[w], k), w, 0)
    <3>1. PICK w \in Compiled(t) :
             \/ n = NodeOf(Bundle(w, t[w]), w, 0)
             \/ \E k \in DOMAIN t[w] : n = NodeOf(BundleStep(w, t[w], k), w, 0)
      BY <2>4
    <3>2. n.id \in {Workflow(w), Bundle(w, t[w])} \cup steps(w)
      BY <2>1, <3>1
    <3>3. n.id \in of[w]
      BY <3>2
    <3> HIDE DEF of
    <3> QED
      BY <3>3
  <2> QED
    BY <2>2, <2>3, <2>4
<1> HIDE DEF groups, workflows
<1> QED
  BY <1>4, <1>5, <1>6, FS_Union, FS_Subset

LEMMA NodesAreFinite ==
  ASSUME NEW t \in Trees
  PROVE  IsFiniteSet(NodeIDs(Build(t)))
<1> DEFINE things == Names \cup Symbols
           file == [i \in DOMAIN GoFiles |-> File(GoFiles[i])]
           function == [x \in things |-> Function(x)]
           symbol == [x \in things |-> Symbol(x)]
           files == {file[i] : i \in DOMAIN GoFiles}
           functions == {function[x] : x \in things}
           symbols == {symbol[x] : x \in things}
<1>0. IsFiniteSet(things)
  BY GraphAssumption
<1>1. IsFiniteSet(files)
  <2>1. IsFiniteSet(DOMAIN GoFiles)
    BY GraphAssumption, FS_Interval
  <2>2. DOMAIN file = DOMAIN GoFiles /\ file = [i \in DOMAIN GoFiles |-> file[i]]
    OBVIOUS
  <2> HIDE DEF file
  <2> QED
    BY <2>1, <2>2, ImageIsFinite
<1>2. IsFiniteSet(functions)
  <2>1. DOMAIN function = things /\ function = [x \in things |-> function[x]]
    OBVIOUS
  <2> HIDE DEF function, things
  <2> QED
    BY <1>0, <2>1, ImageIsFinite
<1>3. IsFiniteSet(symbols)
  <2>1. DOMAIN symbol = things /\ symbol = [x \in things |-> symbol[x]]
    OBVIOUS
  <2> HIDE DEF symbol, things
  <2> QED
    BY <1>0, <2>1, ImageIsFinite
<1>4. IsFiniteSet({Repo, Package})
  <2>1. IsFiniteSet({Repo}) /\ {Repo, Package} = {Repo} \cup {Package}
    BY FS_Singleton
  <2> QED
    BY <2>1, FS_AddElement
<1>5. {n.id : n \in CollectNodes(Sources(t), Declarations(t))}
        \subseteq {Repo, Package} \cup files \cup functions
  <2> SUFFICES ASSUME NEW n \in CollectNodes(Sources(t), Declarations(t))
               PROVE  n.id \in {Repo, Package} \cup files \cup functions
    OBVIOUS
  <2>1. \A i \in Sources(t) : i \in DOMAIN GoFiles
    BY DEF Sources
  <2>2. \A d \in FirstOf(Declarations(t)) : d.name \in things
    BY DeclarationsTyped DEF FirstOf
  <2>3. \A id, source, line : NodeOf(id, source, line).id = id
    BY DEF NodeOf
  <2>4. \/ n = NodeOf(Repo, NoSource, 0) \/ n = NodeOf(Package, NoSource, 0)
        \/ \E i \in Sources(t) : n = NodeOf(File(GoFiles[i]), GoFiles[i], 0)
        \/ \E d \in FirstOf(Declarations(t)) :
              n = NodeOf(Function(d.name), GoFiles[d.file], d.line)
    BY DEF CollectNodes
  <2>5. CASE n = NodeOf(Repo, NoSource, 0) \/ n = NodeOf(Package, NoSource, 0)
    BY <2>3, <2>5
  <2>6. CASE \E i \in Sources(t) : n = NodeOf(File(GoFiles[i]), GoFiles[i], 0)
    <3>1. PICK i \in Sources(t) : n = NodeOf(File(GoFiles[i]), GoFiles[i], 0)
      BY <2>6
    <3>2. n.id = file[i] /\ i \in DOMAIN GoFiles
      BY <2>1, <2>3, <3>1
    <3> QED
      BY <3>2
  <2>7. CASE \E d \in FirstOf(Declarations(t)) :
               n = NodeOf(Function(d.name), GoFiles[d.file], d.line)
    <3>1. PICK d \in FirstOf(Declarations(t)) :
             n = NodeOf(Function(d.name), GoFiles[d.file], d.line)
      BY <2>7
    <3>2. n.id = function[d.name] /\ d.name \in things
      BY <2>2, <2>3, <3>1
    <3> QED
      BY <3>2
  <2> QED
    BY <2>4, <2>5, <2>6, <2>7
<1>6. {n.id : n \in RelationNodes(Declarations(t))} \subseteq functions \cup symbols
  <2> SUFFICES ASSUME NEW n \in RelationNodes(Declarations(t))
               PROVE  n.id \in functions \cup symbols
    OBVIOUS
  <2>1. PICK d \in Declarations(t) : \E x \in ResolveCalls(Declarations(t), d.calls) :
           n = NodeOf(x, NoSource, 0)
    BY DEF RelationNodes
  <2>2. n.id \in ResolveCalls(Declarations(t), d.calls)
    BY <2>1 DEF NodeOf
  <2>3. d.calls \subseteq things
    BY DeclarationsTyped
  <2>4. CASE \E c \in d.calls : n.id = Symbol(c)
    <3>1. PICK c \in d.calls : n.id = Symbol(c)
      BY <2>4
    <3>2. n.id = symbol[c] /\ c \in things
      BY <2>3, <3>1
    <3> QED
      BY <3>2
  <2>5. CASE \E c \in d.calls : n.id = Function(c)
    <3>1. PICK c \in d.calls : n.id = Function(c)
      BY <2>5
    <3>2. n.id = function[c] /\ c \in things
      BY <2>3, <3>1
    <3> QED
      BY <3>2
  <2> QED
    BY <2>2, <2>4, <2>5 DEF ResolveCalls
<1> HIDE DEF files, functions, symbols
<1> DEFINE domain == {n.id : n \in DomainNodes(t)}
           scanned == ({Repo, Package} \cup files \cup functions) \cup (functions \cup symbols)
<1>7. IsFiniteSet(scanned \cup domain)
  <2>1. IsFiniteSet(scanned)
    BY <1>1, <1>2, <1>3, <1>4, FS_Union
  <2>2. IsFiniteSet(domain)
    BY DomainIsFinite
  <2> HIDE DEF scanned, domain
  <2> QED
    BY <2>1, <2>2, FS_Union
<1>8. NodeIDs(Build(t)) \in SUBSET (scanned \cup domain)
  BY <1>5, <1>6, BuiltIDs
<1> HIDE DEF scanned, domain
<1> QED
  BY <1>7, <1>8, FS_Subset

-----------------------------------------------------------------------------
(* Compare. *)

(* The diff of any two graphs tells all of their difference, and of what   *)
(* they share no more than steps of bundles (diff.go:27).                  *)
THEOREM CompareTells ==
  ASSUME NEW before, NEW after
  PROVE  DiffTells(Compare(before, after), before, after)
<1> DEFINE d == Compare(before, after)
<1>1. /\ d.nodes_added = {n \in after.nodes : n.id \notin NodeIDs(before)}
      /\ d.nodes_removed = {n \in before.nodes : n.id \notin NodeIDs(after)}
      /\ d.nodes_changed = {pair \in before.nodes \X after.nodes :
                              pair[1].id = pair[2].id /\ ~sameNode(pair[1], pair[2])}
      /\ d.edges_added = {e \in after.edges : EdgeID(e) \notin EdgeIDs(before)}
      /\ d.edges_removed = {e \in before.edges : EdgeID(e) \notin EdgeIDs(after)}
      /\ d.edges_changed = {pair \in before.edges \X after.edges :
                              EdgeID(pair[1]) = EdgeID(pair[2]) /\ pair[1] # pair[2]}
  BY DEF Compare
<1> HIDE DEF d
<1>2. Tells(d.nodes_removed, d.nodes_changed, d.nodes_added, before.nodes, after.nodes)
  <2>1. ASSUME NEW n \in before.nodes \ after.nodes, n.id \in NodeIDs(after)
        PROVE  n \in {pair[1] : pair \in d.nodes_changed}
    <3>1. PICK m \in after.nodes : m.id = n.id
      BY <2>1 DEF NodeIDs
    <3>2. <<n, m>> \in d.nodes_changed
      BY <1>1, <3>1 DEF sameNode
    <3> QED
      BY <3>2
  <2>2. ASSUME NEW n \in after.nodes \ before.nodes, n.id \in NodeIDs(before)
        PROVE  n \in {pair[2] : pair \in d.nodes_changed}
    <3>1. PICK m \in before.nodes : m.id = n.id
      BY <2>2 DEF NodeIDs
    <3>2. <<m, n>> \in d.nodes_changed
      BY <1>1, <3>1 DEF sameNode
    <3> QED
      BY <3>2
  <2>3. /\ \A n \in d.nodes_removed : n \in before.nodes /\ n \notin after.nodes
        /\ \A n \in d.nodes_added : n \in after.nodes /\ n \notin before.nodes
        /\ d.nodes_changed \subseteq before.nodes \X after.nodes
    BY <1>1 DEF NodeIDs
  <2> QED
    BY <1>1, <2>1, <2>2, <2>3 DEF Tells
<1>3. Tells(d.edges_removed, d.edges_changed, d.edges_added, before.edges, after.edges)
  <2>1. ASSUME NEW e \in before.edges \ after.edges, EdgeID(e) \in EdgeIDs(after)
        PROVE  e \in {pair[1] : pair \in d.edges_changed}
    <3>1. PICK f \in after.edges : EdgeID(f) = EdgeID(e)
      BY <2>1 DEF EdgeIDs
    <3>2. <<e, f>> \in d.edges_changed
      BY <1>1, <3>1
    <3> QED
      BY <3>2
  <2>2. ASSUME NEW e \in after.edges \ before.edges, EdgeID(e) \in EdgeIDs(before)
        PROVE  e \in {pair[2] : pair \in d.edges_changed}
    <3>1. PICK f \in before.edges : EdgeID(f) = EdgeID(e)
      BY <2>2 DEF EdgeIDs
    <3>2. <<f, e>> \in d.edges_changed
      BY <1>1, <3>1
    <3> QED
      BY <3>2
  <2>3. /\ \A e \in d.edges_removed : e \in before.edges /\ e \notin after.edges
        /\ \A e \in d.edges_added : e \in after.edges /\ e \notin before.edges
        /\ d.edges_changed \subseteq before.edges \X after.edges
    BY <1>1 DEF EdgeIDs
  <2> QED
    BY <1>1, <2>1, <2>2, <2>3 DEF Tells
<1>4. /\ \A pair \in d.nodes_changed : pair[1] # pair[2] \/ Opaque(pair[1].id)
      /\ \A pair \in d.edges_changed : pair[1] # pair[2]
  BY <1>1 DEF sameNode
<1> QED
  BY <1>2, <1>3, <1>4 DEF DiffTells, d

-----------------------------------------------------------------------------
(* Neighborhood. *)

LEMMA NeighboursAreNodes ==
  ASSUME NEW g, IsGraph(g), NEW ids
  PROVE  Neighbours(g, ids) \subseteq NodeIDs(g)
BY DEF IsGraph, Neighbours

(* The ball about a node grows by the neighbours of what it holds. *)
Growing(ball, g, id, m) ==
  /\ ball \in [0..m -> SUBSET NodeIDs(g)]
  /\ \A d \in 0..m :
       ball[d] = IF d = 0 THEN {id} ELSE ball[d - 1] \cup Neighbours(g, ball[d - 1])

LEMMA Balls ==
  ASSUME NEW g, IsGraph(g), NEW id \in NodeIDs(g), NEW m \in Nat
  PROVE  Growing(Ball(g, id, m), g, id, m)
<1> DEFINE D == SUBSET NodeIDs(g)
           step == [x \in Nat \X D |-> x[2] \cup Neighbours(g, x[2])]
<1>1. step \in [Nat \X D -> D]
  BY NeighboursAreNodes
<1>2. {id} \in D
  OBVIOUS
<1>3. PICK f \in [0..m -> D] : Follows(f, {id}, step, m)
  <2> HIDE DEF D, step
  <2> QED
    BY <1>1, <1>2, Recursion
<1>4. \A d \in Nat, b \in D : step[<<d, b>>] = b \cup Neighbours(g, b)
  OBVIOUS
<1> HIDE DEF step
<1>5. \A d \in 0..m :
         f[d] = IF d = 0 THEN {id} ELSE f[d - 1] \cup Neighbours(g, f[d - 1])
  <2> TAKE d \in 0..m
  <2>1. d # 0 => d - 1 \in 0..m /\ d \in Nat /\ d \in 1..m
    OBVIOUS
  <2>2. d # 0 => f[d - 1] \in D
    BY <2>1
  <2> QED
    BY <1>3, <1>4, <2>1, <2>2 DEF Follows
<1> DEFINE Equation(b) ==
      b = [d \in 0..m |-> IF d = 0 THEN {id} ELSE b[d - 1] \cup Neighbours(g, b[d - 1])]
           ball == Ball(g, id, m)
<1>6. Equation(f)
  <2>1. f = [d \in 0..m |-> f[d]]
    OBVIOUS
  <2> QED
    BY <1>5, <2>1, Zenon
<1>7. Equation(ball)
  <2>1. ball = CHOOSE b : Equation(b)
    BY DEF Ball
  <2> HIDE DEF Equation, ball
  <2> QED
    BY <1>6, <2>1, Zenon
<1>8. ball \in [0..m -> SUBSET NodeIDs(g)]
  <2> HIDE DEF ball
  <2> DEFINE S == {d \in Nat : d <= m => ball[d] \in D}
  <2>1. 0 \in S
    BY <1>2, <1>7
  <2>2. ASSUME NEW d \in Nat, d \in S PROVE d + 1 \in S
    <3> SUFFICES ASSUME d + 1 <= m PROVE ball[d + 1] \in D
      OBVIOUS
    <3>1. d + 1 \in 0..m /\ d + 1 # 0 /\ (d + 1) - 1 = d
      OBVIOUS
    <3>2. ball[d + 1] = ball[d] \cup Neighbours(g, ball[d])
      BY <1>7, <3>1
    <3>3. ball[d] \in D
      BY <2>2
    <3> QED
      BY <3>2, <3>3, NeighboursAreNodes
  <2>3. Nat \subseteq S
    <3> HIDE DEF S
    <3> QED
      BY <2>1, <2>2, Inductive
  <2>4. \A d \in 0..m : ball[d] \in D
    BY <2>3
  <2> QED
    BY <1>7, <2>4
<1>9. \A d \in 0..m :
        ball[d] = IF d = 0 THEN {id} ELSE ball[d - 1] \cup Neighbours(g, ball[d - 1])
  <2> HIDE DEF ball
  <2> QED
    BY <1>7
<1> QED
  BY <1>8, <1>9 DEF Growing

(* What a search has seen at some distance, b being the ball there: it     *)
(* keeps to the limit, and either is at it or has seen the ball and has    *)
(* the neighbours of all but its frontier.                                 *)
Searches(g) == [seen : SUBSET NodeIDs(g), frontier : SUBSET NodeIDs(g)]

Reaching(g, limit, b, v) ==
  /\ v.frontier \subseteq v.seen /\ v.seen \subseteq b
  /\ Cardinality(v.seen) <= limit
  /\ \/ Cardinality(v.seen) = limit
     \/ v.seen = b /\ Neighbours(g, v.seen \ v.frontier) \subseteq v.seen

LEMMA NeighboursOfBoth ==
  ASSUME NEW g, NEW A, NEW B
  PROVE  /\ Neighbours(g, A \cup B) = Neighbours(g, A) \cup Neighbours(g, B)
         /\ A \subseteq B => Neighbours(g, A) \subseteq Neighbours(g, B)
BY DEF Neighbours

LEMMA DisjointUnion ==
  ASSUME NEW A, NEW B, IsFiniteSet(A), IsFiniteSet(B), A \cap B = {}
  PROVE  /\ Cardinality(A \cup B) = Cardinality(A) + Cardinality(B)
         /\ Cardinality(A) \in Nat /\ Cardinality(B) \in Nat
<1>1. Cardinality(A \cap B) = 0
  BY FS_EmptySet
<1>2. Cardinality(A) \in Nat /\ Cardinality(B) \in Nat
  BY FS_CardinalityType
<1>3. Cardinality(A \cup B) = Cardinality(A) + Cardinality(B) - Cardinality(A \cap B)
  BY FS_Union
<1> QED
  BY <1>1, <1>2, <1>3

LEMMA HopKeeps ==
  ASSUME NEW g, IsGraph(g), IsFiniteSet(NodeIDs(g)), NEW limit \in Nat,
         NEW b, NEW v \in Searches(g), Reaching(g, limit, b, v), NEW w \in Hop(g, limit, v)
  PROVE  w \in Searches(g) /\ Reaching(g, limit, b \cup Neighbours(g, b), w)
<1> DEFINE next == Neighbours(g, v.frontier) \ v.seen
           room == IF limit > Cardinality(v.seen) THEN limit - Cardinality(v.seen) ELSE 0
           taken == IF Cardinality(next) <= room THEN {next}
                    ELSE {S \in SUBSET next : Cardinality(S) = room}
<1>0. PICK S \in taken : w = [seen |-> v.seen \cup S, frontier |-> S]
  <2>1. Hop(g, limit, v) = {[seen |-> v.seen \cup S, frontier |-> S] : S \in taken}
    BY DEF Hop
  <2> HIDE DEF taken
  <2> QED
    BY <2>1
<1>1. /\ w = [seen |-> v.seen \cup S, frontier |-> S]
      /\ S \subseteq next
      /\ \/ Cardinality(next) <= room /\ S = next
         \/ ~ (Cardinality(next) <= room) /\ Cardinality(S) = room
  <2> HIDE DEF next, room
  <2>1. CASE Cardinality(next) <= room
    BY <1>0, <2>1
  <2>2. CASE ~ (Cardinality(next) <= room)
    BY <1>0, <2>2
  <2> QED
    BY <2>1, <2>2
<1> HIDE DEF taken
<1>2. v.seen \subseteq NodeIDs(g) /\ v.frontier \subseteq v.seen /\ v.seen \subseteq b
  BY DEF Searches, Reaching
<1>3. next \subseteq NodeIDs(g)
  BY NeighboursAreNodes
<1>4. w \in Searches(g)
  BY <1>1, <1>2, <1>3 DEF Searches
<1>5. IsFiniteSet(v.seen) /\ IsFiniteSet(S) /\ IsFiniteSet(next)
  BY <1>1, <1>2, <1>3, FS_Subset
<1>6. v.seen \cap S = {}
  BY <1>1
<1>7. /\ Cardinality(v.seen \cup S) = Cardinality(v.seen) + Cardinality(S)
      /\ Cardinality(v.seen) \in Nat /\ Cardinality(S) \in Nat /\ Cardinality(next) \in Nat
  BY <1>5, <1>6, DisjointUnion, FS_CardinalityType
<1>8. Cardinality(v.seen) <= limit
  BY DEF Reaching
<1>9. w.seen = v.seen \cup S /\ w.frontier = S
  BY <1>1
<1>10. Cardinality(S) <= room
  <2>1. room \in Nat
    BY <1>7
  <2> HIDE DEF next, room
  <2> QED
    BY <1>1, <1>7, <2>1
<1>11. Cardinality(w.seen) <= limit
  <2> HIDE DEF next
  <2> QED
    BY <1>7, <1>8, <1>9, <1>10
<1>12. w.seen \subseteq b \cup Neighbours(g, b)
  <2>1. Neighbours(g, v.frontier) \subseteq Neighbours(g, b)
    BY <1>2, NeighboursOfBoth
  <2> QED
    BY <1>1, <1>2, <1>9, <2>1
<1>13. \/ Cardinality(w.seen) = limit
       \/ /\ w.seen = b \cup Neighbours(g, b)
          /\ Neighbours(g, w.seen \ w.frontier) \subseteq w.seen
  <2>1. CASE Cardinality(v.seen) = limit
    <3>1. room = 0
      BY <1>7, <2>1
    <3>2. Cardinality(S) = 0
      <4> HIDE DEF next, room
      <4> QED
        BY <1>7, <1>10, <3>1
    <3> QED
      BY <1>7, <1>9, <2>1, <3>2
  <2>2. CASE ~ (Cardinality(next) <= room)
    <3>1. Cardinality(S) = room
      BY <1>1, <2>2
    <3> HIDE DEF next
    <3> QED
      BY <1>7, <1>8, <1>9, <3>1
  <2>3. CASE Cardinality(v.seen) # limit /\ Cardinality(next) <= room
    <3>1. S = next
      BY <1>1, <2>3
    <3>2. v.seen = b /\ Neighbours(g, v.seen \ v.frontier) \subseteq v.seen
      BY <2>3 DEF Reaching
    <3>3. Neighbours(g, v.seen)
            = Neighbours(g, v.seen \ v.frontier) \cup Neighbours(g, v.frontier)
      <4>1. v.seen = (v.seen \ v.frontier) \cup v.frontier
        BY <1>2
      <4> QED
        BY <4>1, NeighboursOfBoth
    <3>4. w.seen = b \cup Neighbours(g, b)
      BY <1>9, <3>1, <3>2, <3>3
    <3>5. w.seen \ w.frontier = v.seen
      BY <1>6, <1>9
    <3> QED
      BY <3>2, <3>4, <3>5
  <2> QED
    BY <2>1, <2>2, <2>3
<1> QED
  BY <1>4, <1>9, <1>11, <1>12, <1>13 DEF Reaching

LEMMA HopTyped ==
  ASSUME NEW g, IsGraph(g), NEW limit, NEW v \in Searches(g)
  PROVE  Hop(g, limit, v) \subseteq Searches(g)
<1> SUFFICES ASSUME NEW w \in Hop(g, limit, v) PROVE w \in Searches(g)
  OBVIOUS
<1>1. PICK S : w = [seen |-> v.seen \cup S, frontier |-> S]
                 /\ S \subseteq Neighbours(g, v.frontier) \ v.seen
  BY DEF Hop
<1>2. S \subseteq NodeIDs(g) /\ v.seen \subseteq NodeIDs(g)
  BY <1>1, NeighboursAreNodes DEF Searches
<1> QED
  BY <1>1, <1>2 DEF Searches

(* The searches of each distance hop on from those before. *)
Hopping(reached, g, start, limit, m) ==
  \A d \in 0..m :
    reached[d] = IF d = 0 THEN {start} ELSE UNION {Hop(g, limit, v) : v \in reached[d - 1]}

LEMMA ReachedDefined ==
  ASSUME NEW g, IsGraph(g), NEW start \in Searches(g), start.frontier = start.seen,
         NEW limit, NEW m \in Nat
  PROVE  Hopping(Reached(g, start.seen, limit, m), g, start, limit, m)
<1> DEFINE D == SUBSET Searches(g)
           step == [x \in Nat \X D |-> UNION {Hop(g, limit, v) : v \in x[2]}]
<1>1. step \in [Nat \X D -> D]
  <2> SUFFICES ASSUME NEW n \in Nat, NEW V \in D
               PROVE  UNION {Hop(g, limit, v) : v \in V} \in D
    OBVIOUS
  <2> QED
    BY HopTyped
<1>2. {start} \in D
  OBVIOUS
<1>3. PICK f \in [0..m -> D] : Follows(f, {start}, step, m)
  <2> HIDE DEF D, step
  <2> QED
    BY <1>1, <1>2, Recursion
<1>4. \A d \in Nat, V \in D : step[<<d, V>>] = UNION {Hop(g, limit, v) : v \in V}
  OBVIOUS
<1> HIDE DEF step
<1>5. \A d \in 0..m :
         f[d] = IF d = 0 THEN {start} ELSE UNION {Hop(g, limit, v) : v \in f[d - 1]}
  <2> TAKE d \in 0..m
  <2>1. d # 0 => d - 1 \in 0..m /\ d \in Nat /\ d \in 1..m
    OBVIOUS
  <2>2. d # 0 => f[d - 1] \in D
    BY <2>1
  <2>3. d # 0 => f[d] = step[<<d, f[d - 1]>>]
    BY <1>3, <2>1 DEF Follows
  <2>4. f[0] = {start}
    BY <1>3 DEF Follows
  <2> QED
    BY <1>4, <2>1, <2>2, <2>3, <2>4
<1> DEFINE Equation(r) ==
      r = [d \in 0..m |-> IF d = 0 THEN {start} ELSE UNION {Hop(g, limit, v) : v \in r[d - 1]}]
           reached == Reached(g, start.seen, limit, m)
<1>6. Equation(f)
  <2>1. f = [d \in 0..m |-> f[d]]
    OBVIOUS
  <2> QED
    BY <1>5, <2>1, Zenon
<1>7. Equation(reached)
  <2>1. [seen |-> start.seen, frontier |-> start.seen] = start
    BY DEF Searches
  <2>2. reached = CHOOSE r : Equation(r)
    BY <2>1, Zenon DEF Reached
  <2> HIDE DEF Equation, reached
  <2> QED
    BY <1>6, <2>2, Zenon
<1>8. \A d \in 0..m :
        reached[d] = IF d = 0 THEN {start} ELSE UNION {Hop(g, limit, v) : v \in reached[d - 1]}
  <2> HIDE DEF reached
  <2> QED
    BY <1>7
<1> QED
  BY <1>8 DEF Hopping

(* At every distance a search has reached what the ball there lets it.     *)
LEMMA ReachedReaching ==
  ASSUME NEW g, IsGraph(g), IsFiniteSet(NodeIDs(g)), NEW id \in NodeIDs(g),
         NEW limit \in Nat \ {0}, NEW m \in Nat,
         NEW ball, Growing(ball, g, id, m),
         NEW reached, Hopping(reached, g, [seen |-> {id}, frontier |-> {id}], limit, m)
  PROVE  \A v \in reached[m] : v \in Searches(g) /\ Reaching(g, limit, ball[m], v)
<1> DEFINE start == [seen |-> {id}, frontier |-> {id}]
           Right(d) == \A v \in reached[d] : v \in Searches(g) /\ Reaching(g, limit, ball[d], v)
           S == {d \in Nat : d <= m => Right(d)}
<1>1. 0 \in S
  <2>1. ball[0] = {id} /\ reached[0] = {start}
    <3>1. 0 \in 0..m
      OBVIOUS
    <3> QED
      BY <3>1 DEF Growing, Hopping
  <2>2. start \in Searches(g)
    BY DEF Searches
  <2>3. start.seen = {id} /\ start.frontier = {id}
    OBVIOUS
  <2>4. Cardinality({id}) = 1
    BY FS_Singleton
  <2>5. Neighbours(g, {id} \ {id}) = {}
    BY DEF Neighbours
  <2>6. Reaching(g, limit, {id}, start)
    <3> HIDE DEF start
    <3> QED
      BY <2>3, <2>4, <2>5 DEF Reaching
  <2> QED
    BY <2>1, <2>2, <2>6
<1>2. ASSUME NEW d \in Nat, d \in S PROVE d + 1 \in S
  <2> SUFFICES ASSUME d + 1 <= m PROVE Right(d + 1)
    OBVIOUS
  <2>1. d + 1 \in 0..m /\ d + 1 # 0 /\ (d + 1) - 1 = d /\ d <= m
    OBVIOUS
  <2>2. Right(d)
    BY <1>2, <2>1
  <2>3. ball[d + 1] = ball[d] \cup Neighbours(g, ball[d])
    BY <2>1 DEF Growing
  <2>4. reached[d + 1] = UNION {Hop(g, limit, v) : v \in reached[d]}
    BY <2>1 DEF Hopping
  <2>5. ASSUME NEW w \in reached[d + 1]
        PROVE  w \in Searches(g) /\ Reaching(g, limit, ball[d + 1], w)
    <3>1. PICK v \in reached[d] : w \in Hop(g, limit, v)
      BY <2>4
    <3>2. v \in Searches(g) /\ Reaching(g, limit, ball[d], v) /\ limit \in Nat
      BY <2>2
    <3> HIDE DEF Right
    <3>3. w \in Searches(g) /\ Reaching(g, limit, ball[d] \cup Neighbours(g, ball[d]), w)
      BY <3>1, <3>2, HopKeeps
    <3> QED
      BY <2>3, <3>3
  <2> QED
    BY <2>5
<1>3. m \in S
  <2> HIDE DEF S
  <2> QED
    BY <1>1, <1>2, Inductive
<1> QED
  BY <1>3

(* Every view of a graph is near the node it was asked about: it holds no  *)
(* more than the ball and the limit allow, and all of the ball if the      *)
(* limit allows it; and it is a graph, of the nodes and edges of the one   *)
(* it is cut from (query.go:33).                                           *)
THEOREM ViewsAreNear ==
  ASSUME NEW g, IsGraph(g), IsFiniteSet(NodeIDs(g)), NEW id \in NodeIDs(g),
         NEW query, query.depth \in Nat, query.limit \in Nat \ {0},
         NEW v \in Neighborhoods(g, {id}, query.depth, query.limit)
  PROVE  /\ ViewIsNear(g, id, query, v)
         /\ v.nodes \subseteq g.nodes /\ v.edges \subseteq g.edges /\ IsGraph(v)
<1> DEFINE m == query.depth
           limit == query.limit
           start == [seen |-> {id}, frontier |-> {id}]
           ball == Ball(g, id, m)
           reached == Reached(g, {id}, limit, m)
<1>1. Growing(ball, g, id, m)
  BY Balls
<1>2. start \in Searches(g) /\ start.seen = {id} /\ start.frontier = start.seen
  BY DEF Searches
<1>3. Hopping(reached, g, start, limit, m)
  <2> HIDE DEF start
  <2>1. Hopping(Reached(g, start.seen, limit, m), g, start, limit, m)
    BY <1>2, ReachedDefined
  <2> QED
    BY <1>2, <2>1
<1>4. PICK u \in reached[m] :
         v = [nodes |-> {n \in g.nodes : n.id \in u.seen},
              edges |-> {e \in g.edges : e.from \in u.seen /\ e.to \in u.seen}]
  <2>1. {id} \cap NodeIDs(g) = {id}
    OBVIOUS
  <2> HIDE DEF reached
  <2> QED
    BY <2>1, Zenon DEF Neighborhoods, reached
<1> HIDE DEF ball, reached
<1>5. u \in Searches(g) /\ Reaching(g, limit, ball[m], u)
  BY <1>1, <1>3, <1>4, ReachedReaching
<1>6. ball[m] \subseteq NodeIDs(g) /\ ball[m] \cap NodeIDs(g) = ball[m]
  BY <1>1 DEF Growing
<1>7. v.nodes = {n \in g.nodes : n.id \in u.seen}
       /\ v.edges = {e \in g.edges : e.from \in u.seen /\ e.to \in u.seen}
  BY <1>4
<1>8. NodeIDs(v) = u.seen
  <2>1. u.seen \subseteq NodeIDs(g)
    BY <1>5 DEF Searches
  <2> QED
    BY <1>7, <2>1 DEF NodeIDs
<1>9. v.nodes \subseteq g.nodes /\ v.edges \subseteq g.edges /\ IsGraph(v)
  BY <1>7, <1>8 DEF IsGraph
<1>10. /\ NodeIDs(v) \subseteq ball[m] \cap NodeIDs(g)
       /\ Cardinality(NodeIDs(v)) <= limit
       /\ NodeIDs(v) = ball[m] \cap NodeIDs(g) \/ Cardinality(NodeIDs(v)) = limit
  BY <1>5, <1>6, <1>8 DEF Reaching
<1>11. ViewIsNear(g, id, query, v)
  BY <1>10 DEF ViewIsNear, ball
<1> QED
  BY <1>9, <1>11

-----------------------------------------------------------------------------
(* The acts. *)

(* Receipts and evidence carry the graph they were made of. *)
LEMMA ActsName ==
  ASSUME NEW g
  PROVE  /\ \A r \in Project(g).receipts : r.graph = g
         /\ \A e \in Project(g).evidence : e.graph = g
         /\ RootReceipt(g).graph = g /\ RootEvidence(g).graph = g
         /\ RootReceipt(g).confirmed_by = RootEvidence(g)
         /\ RootReceipt(g) \in Project(g).receipts
<1>1. /\ RootReceipt(g).graph = g /\ RootEvidence(g).graph = g
      /\ RootReceipt(g).confirmed_by = RootEvidence(g)
  BY DEF RootReceipt, RootEvidence
<1>2. \A r \in Assertions(g) : r.graph = g /\ r.confirmed_by.graph = g
  BY DEF Assertions, NodeReceipt, EdgeReceipt, EvidenceOf
<1>3. /\ Project(g).receipts = {RootReceipt(g)} \cup Assertions(g)
      /\ Project(g).evidence = {RootEvidence(g)} \cup {r.confirmed_by : r \in Assertions(g)}
  BY DEF Project
<1> QED
  BY <1>1, <1>2, <1>3

(* So does the first receipt of every link.                                *)
LEMMA LinksName ==
  ASSUME NEW g, NEW x \in Project(g).links
  PROVE  x[1].graph = g
<1>1. \/ \E r \in Assertions(g) : x = <<RootReceipt(g), r>>
      \/ \E e \in g.edges : x = <<EdgeReceipt(g, e), EdgeReceipt(g, e).from>>
                           \/ x = <<EdgeReceipt(g, e), EdgeReceipt(g, e).to>>
  BY DEF Project
<1>2. \A e : EdgeReceipt(g, e).graph = g
  BY DEF EdgeReceipt
<1>3. \A a, b : <<a, b>>[1] = a
  OBVIOUS
<1> QED
  BY <1>1, <1>2, <1>3, ActsName

(* Acts put together from files of several graphs, each with all of its    *)
(* lines or some, do not verify: root receipt, receipts, evidence and      *)
(* links that verify are of one graph.  Links that are whole come with all *)
(* receipts and those with all evidence; but nothing asks for the index,   *)
(* nor whether lines are missing (project.go:304).                         *)
THEOREM VerifiedIsOneGraph ==
  ASSUME NEW acts, NEW m, NEW r, NEW e, NEW l,
         VerifyProjection(acts), acts.root = RootReceipt(m),
         acts.receipts \subseteq Project(r).receipts,
         acts.evidence \subseteq Project(e).evidence,
         acts.links \subseteq Project(l).links
  PROVE  /\ r = m /\ e = m /\ (acts.links # {} => l = m)
         /\ acts.links = Project(l).links /\ Repo \in NodeIDs(l) =>
              l = m /\ acts.receipts = Project(m).receipts
         /\ acts.receipts = Project(m).receipts => acts.evidence = Project(m).evidence
<1> DEFINE receipts == acts.receipts
           evidence == acts.evidence
           links == acts.links
<1>1. /\ \A x \in receipts : x.confirmed_by \in evidence
      /\ RootReceipt(m) \in receipts
      /\ \A x \in links : x[1] \in receipts /\ x[2] \in receipts
      /\ receipts \subseteq Project(r).receipts
      /\ evidence \subseteq Project(e).evidence
      /\ links \subseteq Project(l).links
  BY DEF VerifyProjection
<1> HIDE DEF receipts, evidence, links
<1>2. r = m
  BY <1>1, ActsName
<1>3. e = m
  BY <1>1, ActsName
<1>4. ASSUME NEW x \in links PROVE l = m
  <2>1. x[1].graph = l
    BY <1>1, LinksName
  <2>2. x[1].graph = r
    BY <1>1, ActsName
  <2> QED
    BY <1>2, <2>1, <2>2
<1>5. ASSUME links = Project(l).links, Repo \in NodeIDs(l)
      PROVE  l = m /\ receipts = Project(m).receipts
  <2>1. NodeReceipt(l, Repo) \in Assertions(l)
    BY <1>5 DEF Assertions
  <2>2. \A x \in Assertions(l) : <<RootReceipt(l), x>> \in links
    BY <1>5 DEF Project
  <2>3. l = m
    BY <1>4, <2>1, <2>2
  <2>4. \A x \in Assertions(l) : x \in receipts
    <3>1. \A a, b : <<a, b>>[2] = b
      OBVIOUS
    <3> QED
      BY <1>1, <2>2, <3>1
  <2>5. Project(m).receipts = {RootReceipt(m)} \cup Assertions(m)
    BY DEF Project
  <2> QED
    BY <1>1, <1>2, <2>3, <2>4, <2>5
<1>6. ASSUME receipts = Project(m).receipts PROVE evidence = Project(m).evidence
  <2>1. /\ Project(m).receipts = {RootReceipt(m)} \cup Assertions(m)
        /\ Project(m).evidence = {RootEvidence(m)} \cup {x.confirmed_by : x \in Assertions(m)}
    BY DEF Project
  <2> QED
    BY <1>1, <1>3, <1>6, <2>1, ActsName
<1> QED
  BY <1>2, <1>3, <1>4, <1>5, <1>6 DEF receipts, evidence, links

(* With the index of the graph every receipt of a context comes with its   *)
(* evidence (context.go:10).                                               *)
THEOREM ContextEvidenced ==
  ASSUME NEW g, NEW v, NEW acts,
         acts.root = RootReceipt(g), acts.index = Project(g).index,
         \A r \in acts.receipts : r.confirmed_by \in acts.evidence
  PROVE  \A r \in BuildContext(v, acts).receipts :
            r.confirmed_by \in BuildContext(v, acts).evidence
<1> DEFINE context == BuildContext(v, acts)
           entries == {x \in acts.index : x.id \in NodeIDs(v) \cup EdgeIDs(v)}
<1> SUFFICES ASSUME NEW r \in context.receipts PROVE r.confirmed_by \in context.evidence
  OBVIOUS
<1>1. /\ r \in acts.receipts /\ r \in {acts.root} \cup {x.receipt : x \in entries}
      /\ context.evidence = {y \in acts.evidence :
                               y.of = Repo \/ y \in {x.evidence : x \in entries}}
  BY DEF BuildContext
<1>2. r.confirmed_by \in acts.evidence
  BY <1>1
<1>3. \A x \in acts.index : x.evidence = x.receipt.confirmed_by
  BY DEF Project
<1>4. RootReceipt(g).confirmed_by.of = Repo
  BY DEF RootReceipt, RootEvidence
<1> HIDE DEF context
<1> QED
  BY <1>1, <1>2, <1>3, <1>4

(* What a context says of a node or edge of the view; bare, when links are *)
(* missing.                                                                *)
Supported(x, context, root, bare) ==
  \E r \in context.receipts :
     /\ r.this = x
     /\ bare \/ x = Repo \/ <<root, r>> \in context.links
     /\ r.kind = "edge" => {r.from, r.to} \subseteq context.receipts

(* From the receipts of its own graph every view is supported              *)
(* (context.go:10), and if links are missing by all but links.             *)
THEOREM ContextSupports ==
  ASSUME NEW g, NEW v, v.nodes \subseteq g.nodes, v.edges \subseteq g.edges, IsGraph(v),
         NEW bare \in BOOLEAN, NEW acts,
         acts.root = RootReceipt(g), acts.receipts = Project(g).receipts,
         acts.index = Project(g).index, bare \/ acts.links = Project(g).links
  PROVE  \A x \in NodeIDs(v) \cup EdgeIDs(v) :
            Supported(x, BuildContext(v, acts), acts.root, bare)
<1> DEFINE context == BuildContext(v, acts)
           Entry(r) == [id |-> r.this, receipt |-> r, evidence |-> r.confirmed_by]
           wanted == NodeIDs(v) \cup EdgeIDs(v)
<1>1. /\ acts.root = RootReceipt(g)
      /\ acts.receipts = {RootReceipt(g)} \cup Assertions(g)
      /\ acts.index = {Entry(r) : r \in {RootReceipt(g)} \cup Assertions(g)}
      /\ bare \/ \A r \in Assertions(g) : <<RootReceipt(g), r>> \in acts.links
  BY DEF Project
<1>2. ASSUME NEW r \in Assertions(g), r.this \in wanted
      PROVE  /\ r \in context.receipts
             /\ bare \/ <<acts.root, r>> \in context.links
  <2> DEFINE entries == {x \in acts.index : x.id \in wanted}
             ids == {acts.root} \cup {x.receipt : x \in entries}
  <2>1. Entry(r) \in acts.index /\ Entry(r).id = r.this
        /\ Entry(r).receipt = r
    BY <1>1
  <2>2. r \in ids /\ acts.root \in ids
    BY <1>2, <2>1
  <2>3. /\ context.receipts = {x \in acts.receipts : x \in ids}
        /\ context.links = {x \in acts.links : x[1] \in ids /\ x[2] \in ids}
    BY DEF BuildContext
  <2> HIDE DEF ids, entries, context
  <2>4. r \in acts.receipts
    BY <1>1
  <2>5. bare \/ <<acts.root, r>> \in acts.links
    BY <1>1
  <2>6. <<acts.root, r>>[1] = acts.root /\ <<acts.root, r>>[2] = r
    OBVIOUS
  <2> QED
    BY <2>2, <2>3, <2>4, <2>5, <2>6
<1> HIDE DEF context
<1>3. ASSUME NEW x \in NodeIDs(v)
      PROVE  /\ NodeReceipt(g, x) \in Assertions(g) /\ NodeReceipt(g, x) \in context.receipts
             /\ ReceiptOfEnd(g, x) = NodeReceipt(g, x)
             /\ Supported(x, context, acts.root, bare)
  <2>1. x \in NodeIDs(g)
    BY <1>3 DEF NodeIDs
  <2>2. NodeReceipt(g, x) \in Assertions(g)
    BY <2>1 DEF Assertions
  <2>3. NodeReceipt(g, x).this = x /\ NodeReceipt(g, x).kind = "node"
    BY DEF NodeReceipt
  <2>4. ReceiptOfEnd(g, x) = NodeReceipt(g, x)
    BY <2>1 DEF ReceiptOfEnd
  <2>5. /\ NodeReceipt(g, x) \in context.receipts
        /\ bare \/ <<acts.root, NodeReceipt(g, x)>> \in context.links
    BY <1>2, <1>3, <2>2, <2>3
  <2>6. Supported(x, context, acts.root, bare)
    BY <2>3, <2>5 DEF Supported
  <2> QED
    BY <2>2, <2>4, <2>5, <2>6
<1>4. ASSUME NEW x \in EdgeIDs(v)
      PROVE  Supported(x, context, acts.root, bare)
  <2>1. PICK e \in v.edges : x = EdgeID(e)
    BY <1>4 DEF EdgeIDs
  <2>2. e.from \in NodeIDs(v) /\ e.to \in NodeIDs(v)
    BY <2>1 DEF IsGraph
  <2>3. EdgeReceipt(g, e) \in Assertions(g)
    BY <2>1 DEF Assertions
  <2>4. /\ EdgeReceipt(g, e).this = x
        /\ EdgeReceipt(g, e).from = ReceiptOfEnd(g, e.from)
        /\ EdgeReceipt(g, e).to = ReceiptOfEnd(g, e.to)
    BY <2>1 DEF EdgeReceipt
  <2>5. {EdgeReceipt(g, e).from, EdgeReceipt(g, e).to} \subseteq context.receipts
    BY <1>3, <2>2, <2>4
  <2>6. /\ EdgeReceipt(g, e) \in context.receipts
        /\ bare \/ <<acts.root, EdgeReceipt(g, e)>> \in context.links
    BY <1>2, <1>4, <2>3, <2>4
  <2> QED
    BY <2>4, <2>5, <2>6 DEF Supported
<1> QED
  BY <1>3, <1>4 DEF context

===============================================================================
