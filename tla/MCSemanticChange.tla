--------------------------- MODULE MCSemanticChange ---------------------------
(* A package of two files, F calling G and a foreign function, and a        *)
(* workflow document.                                                       *)
EXTENDS SemanticChange

CONSTANTS fileA, fileB, fileC, flow, declF, declFX, declG, declH, note, F, G, H, X, P1, P2, P3

TheGoFiles == <<fileA, fileB, fileC>>
TheDeclares == (declF :> F) @@ (declFX :> F) @@ (declG :> G) @@ (declH :> H) @@ (note :> NoName)
TheCalls == (declF :> {G, X}) @@ (declFX :> {X}) @@ (declG :> {}) @@ (declH :> {F}) @@ (note :> {})

SomeTree == (fileA :> <<declF>>) @@ (fileB :> <<declG>>) @@ (fileC :> Absent) @@ (flow :> <<note>>)
SmallTree == (fileA :> Absent) @@ (fileB :> <<declFX>>) @@ (fileC :> Absent) @@ (flow :> Absent)

Replace(path, expected, old, new) ==
  [kind |-> "replace_text", path |-> path, expected |-> expected, old |-> old, new |-> new]
Add(path, content) == [kind |-> "add_file", path |-> path, content |-> content]
Delete(path, expected) == [kind |-> "delete_file", path |-> path, expected |-> expected]

(* P1 changes one file twice and deletes one; P2 adds a file and hides a    *)
(* comment where no graph sees it; P3 does not do what it promises.         *)
BaseGraph == Build(SomeTree)

ThePlan ==
  (P1 :> [base |-> BaseGraph,
          changes |-> <<Replace(fileA, NoHash, declF, <<declFX, note>>), Replace(fileA, NoHash, note, <<>>),
                        Delete(fileB, <<declG>>)>>,
          expectations |-> {[kind |-> "node_absent", id |-> Function(G)],
                            [kind |-> "edge_absent", relation |-> "calls",
                             from |-> Function(F), to |-> Function(G)]}])
  @@
  (P2 :> [base |-> BaseGraph,
          changes |-> <<Add(fileC, <<declH>>), Replace(fileA, <<declF>>, declF, <<declF, note>>)>>,
          expectations |-> {[kind |-> "node_exists", id |-> Function(H)],
                            [kind |-> "edge_exists", relation |-> "calls",
                             from |-> Function(H), to |-> Function(F)]}])
  @@
  (P3 :> [base |-> BaseGraph,
          changes |-> <<Replace(flow, NoHash, note, <<>>)>>,
          expectations |-> {[kind |-> "node_exists", id |-> Function(H)]}])

TheEdits ==
  {[path |-> fileA, text |-> <<declF, note>>], [path |-> fileB, text |-> <<declF, declG>>]}
OtherEdits == {[path |-> fileB, text |-> <<declG, declH>>]}

(* A file of lines breaks off after those on nodes, the links before the    *)
(* first line as well.                                                      *)
NodeLines(kind) == {<<kind, id>> : id \in NodeIDs(Build(SmallTree))}
TheCuts ==
  [receipts |-> {{<<"graph_build", Repo>>} \cup NodeLines("node")},
   evidence |-> {{<<"build", Repo>>} \cup NodeLines("provenance")},
   links    |-> {{}, NodeLines(Repo)}]

TheQueries == {[depth |-> 1, limit |-> 3], [depth |-> 2, limit |-> 100]}

(* TLC evaluates a definition once, and a substituted constant every time. *)
MCGoFiles == TheGoFiles
MCDeclares == TheDeclares
MCCalls == TheCalls
MCPlan == ThePlan
MCEdits == TheEdits \cup OtherEdits
MCQueries == TheQueries
MCCuts == TheCuts

TheSessions ==
  {[commands |-> {"stage", "accept"}, tree |-> SomeTree, edits |-> TheEdits],
   [commands |-> {"graph"}, tree |-> SmallTree, edits |-> OtherEdits]}
MCSessions == TheSessions

Symmetry == Permutations(Procs)
===============================================================================
