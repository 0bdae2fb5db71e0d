------------------------------ MODULE ActGraph ------------------------------
(***************************************************************************)
(* The act graph (internal/actgraph): the projection of a semantic graph   *)
(* into receipts and evidence, its verification, and the context that is   *)
(* cut out of it for a view of the graph.                                  *)
(*                                                                         *)
(* A receipt is identified by its content, so the record stands for its    *)
(* identifier; so is an evidence record.                                   *)
(***************************************************************************)
EXTENDS SemanticGraph

CONSTANT NoReceipt    \* the missing entry of the map from nodes to receipts

RootEvidence(g) == [of |-> Repo, graph |-> g, kind |-> "build"]
EvidenceOf(g, id) == [of |-> id, graph |-> g, kind |-> "provenance"]

RootReceipt(g) ==
  [kind |-> "graph_build", this |-> Repo, graph |-> g, status |-> "compiled",
   confirmed_by |-> RootEvidence(g), from |-> NoReceipt, to |-> NoReceipt]

NodeReceipt(g, id) ==
  [kind |-> "node", this |-> id, graph |-> g, status |-> "declared",
   confirmed_by |-> EvidenceOf(g, id), from |-> NoReceipt, to |-> NoReceipt]

ReceiptOfEnd(g, id) == IF id \in NodeIDs(g) THEN NodeReceipt(g, id) ELSE NoReceipt

EdgeReceipt(g, e) ==
  [kind |-> "edge", this |-> EdgeID(e), graph |-> g,
   status |-> IF e.confidence = "unresolved" THEN "doubt" ELSE "confirmed",
   confirmed_by |-> EvidenceOf(g, EdgeID(e)),
   from |-> ReceiptOfEnd(g, e.from), to |-> ReceiptOfEnd(g, e.to)]

Assertions(g) ==
  {NodeReceipt(g, id) : id \in NodeIDs(g)} \cup {EdgeReceipt(g, e) : e \in g.edges}

Project(g) ==
  [graph    |-> g,
   root     |-> RootReceipt(g),
   receipts |-> {RootReceipt(g)} \cup Assertions(g),
   evidence |-> {RootEvidence(g)} \cup {r.confirmed_by : r \in Assertions(g)},
   index    |-> {[id |-> r.this, receipt |-> r, evidence |-> r.confirmed_by]
                   : r \in {RootReceipt(g)} \cup Assertions(g)},
   links    |-> {<<RootReceipt(g), r>> : r \in Assertions(g)}
                  \cup {<<r, r.from>> : r \in {EdgeReceipt(g, e) : e \in g.edges}}
                  \cup {<<r, r.to>> : r \in {EdgeReceipt(g, e) : e \in g.edges}}]

VerifyProfile(r) ==
  r.kind = "edge" => r.from # NoReceipt /\ r.to # NoReceipt

(* The index is not verified. *)
VerifyProjection(p) ==
  /\ \A r \in p.receipts : VerifyProfile(r) /\ r.confirmed_by \in p.evidence
  /\ p.root \in p.receipts
  /\ \A l \in p.links : l[1] \in p.receipts /\ l[2] \in p.receipts

(* Mutant: the acts are taken for the graph's when they have its size. *)
CheckGraphSize(g, p) == Cardinality(p.graph.nodes) = Cardinality(g.nodes)

CheckGraphDigest(g, p) == p.graph = g

(* The receipts, evidence and links of what a view holds, with the root's. *)
BuildContext(view, p) ==
  LET wanted == NodeIDs(view) \cup EdgeIDs(view)
      entries == {x \in p.index : x.id \in wanted}
      ids == {p.root} \cup {x.receipt : x \in entries}
  IN [receipts |-> {r \in p.receipts : r \in ids},
      evidence |-> {e \in p.evidence : e.of = Repo \/ e \in {x.evidence : x \in entries}},
      links    |-> {l \in p.links : l[1] \in ids /\ l[2] \in ids}]

=============================================================================
