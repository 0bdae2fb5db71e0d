---------------------------- MODULE SemanticGraph ----------------------------
(***************************************************************************)
(* The semantic graph of the repository (internal/semanticgraph): the      *)
(* nodes and edges that Build scans out of a source tree, the difference   *)
(* Compare reports between two graphs and the views Neighborhood cuts out  *)
(* of one.                                                                 *)
(*                                                                         *)
(* A file holds a sequence of tokens, one per line; a token declares at    *)
(* most one function and calls functions of its own package (Names) or of  *)
(* another one (Symbols).  The package is one; types and imports are left  *)
(* out.  Of the domain projection there are the workflow documents and the *)
(* bundles they compile to, because Compare never finds two steps of a     *)
(* bundle equal; capabilities, tasks and the effect and engine projections *)
(* are left out, of which a placement with a selector, and a task or a     *)
(* verification without arguments, are to Compare what a step is.  A       *)
(* content hash is the content, so GraphDigest is the graph.               *)
(***************************************************************************)
EXTENDS Naturals, Sequences, FiniteSets

CONSTANTS GoFiles,     \* the paths of the Go sources, in the order of their names
          OtherFiles,  \* the paths the scanner does not read
          Workflows,   \* those of them that are workflow documents
          Tokens, Names, Symbols,
          Declares,    \* what each token declares, NoName for a comment
          Calls,       \* the names and symbols each token calls
          Garbled,     \* the tokens that do not parse
          NoName, NoSource, Absent

Paths == {GoFiles[i] : i \in DOMAIN GoFiles} \cup OtherFiles

(* A tree gives every path a text, or none. *)
Texts == {Absent} \cup Seq(Tokens)
Trees == [Paths -> Texts]

ASSUME GraphAssumption ==
  /\ Declares \in [Tokens -> Names \cup {NoName}]
  /\ Calls \in [Tokens -> SUBSET (Names \cup Symbols)]
  /\ Garbled \subseteq Tokens
  /\ GoFiles \in Seq(Paths)
  /\ \A i, j \in DOMAIN GoFiles : GoFiles[i] = GoFiles[j] => i = j
  /\ Workflows \subseteq OtherFiles
  /\ IsFiniteSet(Names \cup Symbols) /\ IsFiniteSet(Workflows)

-----------------------------------------------------------------------------
(* The identifiers of nodes. *)

Repo == <<"repo">>
Package == <<"package">>
File(p) == <<"file", p>>
Function(n) == <<"function", n>>
Symbol(x) == <<"symbol", x>>
Workflow(w) == <<"workflow", w>>
Bundle(w, text) == <<"execution_bundle", w, text>>
BundleStep(w, text, k) == <<"bundle_step", w, text, k>>

NodeOf(id, source, line) == [id |-> id, source |-> source, line |-> line]
EdgeOf(kind, from, to, source, line, confidence) ==
  [kind |-> kind, from |-> from, to |-> to, source |-> source, line |-> line,
   confidence |-> confidence]

(* AddEdge derives the identifier from everything but the line. *)
EdgeID(e) == <<e.kind, e.from, e.to, e.source>>

(* Of two edges with one identifier the one added last, further down the   *)
(* file, stays.                                                            *)
AddEdges(E) ==
  {e \in E : \A f \in E : EdgeID(f) = EdgeID(e) => f.line <= e.line}

(* Of two nodes with one identifier the one added first stays. *)
AddNodes(N, more) ==
  LET ids == {n.id : n \in N} IN N \cup {n \in more : n.id \notin ids}

-----------------------------------------------------------------------------
(* The scan of a tree: what each declaration found declares and calls, and *)
(* where.                                                                  *)

Sources(tree) == {i \in DOMAIN GoFiles : tree[GoFiles[i]] # Absent}

Documents(tree) == {w \in Workflows : tree[w] # Absent}

Readable(text) == \A k \in DOMAIN text : text[k] \notin Garbled

(* A workflow document that cannot be decoded fails the build like a       *)
(* source that cannot be parsed.                                           *)
Parses(tree) ==
  /\ \A i \in Sources(tree) : Readable(tree[GoFiles[i]])
  /\ \A w \in Documents(tree) : Readable(tree[w])

Declaration(tree, i, k) ==
  LET token == tree[GoFiles[i]][k]
  IN [file |-> i, line |-> k, name |-> Declares[token], calls |-> Calls[token]]

Declarations(tree) ==
  {d \in UNION {{Declaration(tree, i, k) : k \in DOMAIN tree[GoFiles[i]]} : i \in Sources(tree)} :
     d.name # NoName}

NamesIn(decls) == {d.name : d \in decls}

Earlier(d, e) == d.file < e.file \/ (d.file = e.file /\ d.line <= e.line)

(* AddNode keeps the source and the span of the first declaration. *)
FirstOf(decls) ==
  {d \in decls : \A e \in decls : e.name = d.name => Earlier(d, e)}

CollectNodes(sources, decls) ==
  {NodeOf(Repo, NoSource, 0)}
    \cup (IF sources = {} THEN {} ELSE {NodeOf(Package, NoSource, 0)})
    \cup {NodeOf(File(GoFiles[i]), GoFiles[i], 0) : i \in sources}
    \cup {NodeOf(Function(d.name), GoFiles[d.file], d.line) : d \in FirstOf(decls)}

CollectEdges(sources, decls) ==
  {EdgeOf("contains", Repo, Package, GoFiles[i], 0, "exact")
     : i \in {i \in sources : \A j \in sources : i <= j}}
    \cup {EdgeOf("contains", Package, File(GoFiles[i]), GoFiles[i], 0, "exact")
            : i \in sources}
    \cup {EdgeOf("defines", File(GoFiles[d.file]), Function(d.name),
                 GoFiles[d.file], d.line, "exact") : d \in decls}

(* A plain call is resolved among the functions the package declares; a    *)
(* qualified one always is.                                                *)
ResolveCalls(decls, calls) ==
  {Symbol(c) : c \in calls \cap Symbols}
    \cup {Function(c) : c \in calls \cap NamesIn(decls)}

(* Mutant: no node for what another package declares. *)
RelationNodesOwn(decls) ==
  {NodeOf(Function(c), NoSource, 0) : c \in UNION {d.calls \cap NamesIn(decls) : d \in decls}}

RelationNodes(decls) ==
  {NodeOf(t, NoSource, 0) : t \in UNION {ResolveCalls(decls, d.calls) : d \in decls}}

RelationEdges(decls) ==
  UNION {{EdgeOf("calls", Function(d.name), t, GoFiles[d.file], d.line, "static")
            : t \in ResolveCalls(decls, d.calls)} : d \in decls}

(* A document with steps compiles to a bundle, whose identifier is its     *)
(* content; one without does not compile and is a workflow and no more.    *)
Compiled(tree) == {w \in Documents(tree) : tree[w] # <<>>}

DomainNodes(tree) ==
  {NodeOf(Workflow(w), w, 0) : w \in Documents(tree)}
    \cup UNION {{NodeOf(Bundle(w, tree[w]), w, 0)}
                  \cup {NodeOf(BundleStep(w, tree[w], k), w, 0) : k \in DOMAIN tree[w]}
                : w \in Compiled(tree)}

DomainEdges(tree) ==
  UNION {{EdgeOf("compiles_to", Workflow(w), Bundle(w, tree[w]), w, 0, "exact")}
           \cup {EdgeOf("contains_step", Bundle(w, tree[w]), BundleStep(w, tree[w], k),
                         w, 0, "exact") : k \in DOMAIN tree[w]}
         : w \in Compiled(tree)}

Build(tree) ==
  LET sources == Sources(tree)
      decls == Declarations(tree)
  IN [nodes |-> AddNodes(CollectNodes(sources, decls) \cup DomainNodes(tree),
                         RelationNodes(decls)),
      edges |-> AddEdges(CollectEdges(sources, decls) \cup DomainEdges(tree)
                           \cup RelationEdges(decls))]

(* What `go run` needs of a tree before the graph command of the tree can  *)
(* run: every file parses, no name is declared twice and every plain call  *)
(* is declared.                                                            *)
Compiles(tree) ==
  LET decls == Declarations(tree)
  IN /\ Parses(tree)
     /\ \A d, e \in decls : d.name = e.name => d = e
     /\ \A d \in decls : d.calls \cap Names \subseteq NamesIn(decls)

-----------------------------------------------------------------------------
(* Compare: nodes and edges are matched by identifier. *)

(* The attributes of a step are structs, which deepEqual finds equal to    *)
(* nothing, themselves included.                                           *)
Opaque(id) == id[1] = "bundle_step"
sameNode(a, b) == a = b /\ ~Opaque(a.id)

NodeIDs(g) == {n.id : n \in g.nodes}
EdgeIDs(g) == {EdgeID(e) : e \in g.edges}

(* Both ends of every edge are nodes. *)
IsGraph(g) ==
  LET ids == NodeIDs(g) IN \A e \in g.edges : {e.from, e.to} \subseteq ids

Compare(before, after) ==
  [nodes_added   |-> {n \in after.nodes : n.id \notin NodeIDs(before)},
   nodes_removed |-> {n \in before.nodes : n.id \notin NodeIDs(after)},
   nodes_changed |-> {pair \in before.nodes \X after.nodes :
                        pair[1].id = pair[2].id /\ ~sameNode(pair[1], pair[2])},
   edges_added   |-> {e \in after.edges : EdgeID(e) \notin EdgeIDs(before)},
   edges_removed |-> {e \in before.edges : EdgeID(e) \notin EdgeIDs(after)},
   edges_changed |-> {pair \in before.edges \X after.edges :
                        EdgeID(pair[1]) = EdgeID(pair[2]) /\ pair[1] # pair[2]}]

(* What a diff says of the things removed, changed and added: every thing  *)
(* that only one of the graphs has is told, and nothing that was not there *)
(* or is still there is told of as gone or new.                            *)
Tells(removed, changed, added, before, after) ==
  /\ before \ after \subseteq removed \cup {pair[1] : pair \in changed}
  /\ after \ before \subseteq added \cup {pair[2] : pair \in changed}
  /\ removed \subseteq before \ after /\ added \subseteq after \ before
  /\ changed \subseteq before \X after

DiffTells(diff, before, after) ==
  /\ Tells(diff.nodes_removed, diff.nodes_changed, diff.nodes_added, before.nodes, after.nodes)
  /\ Tells(diff.edges_removed, diff.edges_changed, diff.edges_added, before.edges, after.edges)
  /\ \A pair \in diff.nodes_changed : pair[1] # pair[2] \/ Opaque(pair[1].id)
  /\ \A pair \in diff.edges_changed : pair[1] # pair[2]

-----------------------------------------------------------------------------
(* Neighborhood: breadth first from the roots, depth hops far, until limit *)
(* nodes are seen.  Which neighbours a reached limit leaves out depends on *)
(* the order of the edges, so a hop has a set of possible results.         *)

Neighbours(g, ids) ==
  {e.to : e \in {e \in g.edges : e.from \in ids}}
    \cup {e.from : e \in {e \in g.edges : e.to \in ids}}

Hop(g, limit, v) ==
  LET next == Neighbours(g, v.frontier) \ v.seen
      room == IF limit > Cardinality(v.seen) THEN limit - Cardinality(v.seen) ELSE 0
      taken == IF Cardinality(next) <= room THEN {next}
               ELSE {S \in SUBSET next : Cardinality(S) = room}
  IN {[seen |-> v.seen \cup S, frontier |-> S] : S \in taken}

Reached(g, start, limit, depth) ==
  LET reached[d \in 0..depth] ==
        IF d = 0 THEN {[seen |-> start, frontier |-> start]}
        ELSE UNION {Hop(g, limit, v) : v \in reached[d - 1]}
  IN reached

Neighborhoods(g, roots, depth, limit) ==
  {[nodes |-> {n \in g.nodes : n.id \in v.seen},
    edges |-> {e \in g.edges : e.from \in v.seen /\ e.to \in v.seen}]
     : v \in Reached(g, roots \cap NodeIDs(g), limit, depth)[depth]}

(* A view reaches no farther than it was asked to, misses nothing within   *)
(* reach unless the limit cut it, and keeps to the limit.                  *)
Ball(g, id, depth) ==
  LET ball[d \in 0..depth] ==
        IF d = 0 THEN {id} ELSE ball[d - 1] \cup Neighbours(g, ball[d - 1])
  IN ball

ViewIsNear(g, id, query, v) ==
  LET near == Ball(g, id, query.depth)[query.depth] \cap NodeIDs(g)
  IN /\ NodeIDs(v) \subseteq near
     /\ Cardinality(NodeIDs(v)) <= query.limit
     /\ NodeIDs(v) = near \/ Cardinality(NodeIDs(v)) = query.limit

=============================================================================
