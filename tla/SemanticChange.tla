---------------------------- MODULE SemanticChange ----------------------------
(***************************************************************************)
(* The receipted semantic change loop (internal/semanticchange and the     *)
(* graph, change-stage, change-verify and change-accept commands of        *)
(* cmd/continuity) over one live source tree: proposals are staged into    *)
(* the candidate directory, a reviewed candidate is accepted by applying   *)
(* its changes to the tree file by file, and the graph command writes the  *)
(* graph and its acts.  Commands take no lock: they run at the same time,  *)
(* beside an editor, and may be killed at any point.                       *)
(*                                                                         *)
(* All stagings use the default directory, var/candidates/latest.  A copy  *)
(* of the tree and each read of a whole directory is one step; the two     *)
(* readings of change-accept before it accepts are one as well.  A file    *)
(* whose write broke off cannot be read, like a missing one; only a file   *)
(* of lines that broke off at the end of a line can, as the lines it has.  *)
(***************************************************************************)
EXTENDS ActGraph, SequencesExt

CONSTANTS Procs, Proposals,
          Plan,        \* each proposal's base graph, changes and expectations
          Edits,
          NoHash,      \* a replacement without expected_sha256
          None,
          Queries,     \* the depths and limits of the views asked for
          Whole,       \* of a file of lines: it did not break off
          Cuts,        \* bound: for each file of lines, the sets of lines that a
                       \* write that breaks off at the end of a line leaves
          Sessions,    \* bound: the commands that run beside each other, the tree
                       \* they find first and the edits made meanwhile
          MaxRuns, MaxEdits, MaxFaults   \* bounds: commands, edits, failed writes

VARIABLES tree,       \* the live tree
          dir,        \* the candidate directory
          out,        \* the graph directory: the graph each file was written from
          kept,       \* of which each file of lines has these lines
          session,    \* the session that is run
          job,        \* what each process is doing
          accepted,   \* the proposals with an acceptance.json
          runs, edits, faults,
          origin,     \* ghost: the tree each process started on
          disturbed,  \* ghost: the tree was written by another since then
          restaged,   \* ghost: the candidate directory was, since the verification
          overlap,    \* ghost: the graph commands at work began beside each other
          mixed       \* ghost: two were at work at one time, or one stopped between its
                      \* index and its manifest, and none has ended by itself since

files == <<tree, dir, out, kept, accepted>>
bounds == <<runs, edits, faults>>
ghosts == <<origin, disturbed, restaged, overlap, mixed>>
vars == <<files, session, job, bounds, ghosts>>

GraphFiles == <<"graph", "receipts", "evidence", "links", "index", "manifest">>
LineFiles == {"receipts", "evidence", "links"}

ValidateProposal(p) ==
  /\ p.changes # <<>>
  /\ \A c \in ToSet(p.changes) :
       /\ c.path \in Paths /\ c.kind \in {"replace_text", "add_file", "delete_file"}
       /\ c.kind = "replace_text" => c.old \in Tokens
       /\ c.kind = "delete_file" => c.expected # NoHash
  /\ \A e \in p.expectations :
       e.kind \in {"node_exists", "node_absent", "edge_exists", "edge_absent"}

ASSUME ChangeAssumption ==
  /\ \A p \in Proposals : ValidateProposal(Plan[p])
  /\ \A p \in Proposals : \A c \in ToSet(Plan[p].changes) :
       /\ c.kind = "replace_text" => c.new \in Seq(Tokens)
       /\ c.kind = "add_file" => c.content \in Seq(Tokens)
  /\ \A p \in Proposals : Plan[p].changes \in Seq(ToSet(Plan[p].changes))
  /\ \A s \in Sessions : s.tree \in Trees
  /\ \A e \in Edits : e.path \in Paths /\ e.text \in Texts

(* A change that does not apply leaves no tree; nobody is the editor. *)
ASSUME SentinelAssumption ==
  /\ Absent \notin Trees /\ None \notin Procs
  /\ \A f \in LineFiles : Whole \notin Cuts[f]

ASSUME BoundAssumption ==
  /\ {MaxRuns, MaxEdits, MaxFaults} \subseteq Nat
  /\ \A s \in Sessions : s.edits \subseteq Edits
  /\ \A query \in Queries :   \* as Neighborhood clamps them (query.go:34-45)
       query.depth \in 0..6 /\ query.limit \in 1..2000

-----------------------------------------------------------------------------
(* ApplyChanges, one change at a time. *)

Occurrences(text, old) == {i \in DOMAIN text : text[i] = old}

Applicable(t, c) ==
  CASE c.kind = "replace_text" ->
         /\ t[c.path] # Absent
         /\ c.expected \in {NoHash, t[c.path]}
         /\ Cardinality(Occurrences(t[c.path], c.old)) = 1
    [] c.kind = "add_file"     -> t[c.path] = Absent
    [] c.kind = "delete_file"  -> t[c.path] # Absent /\ t[c.path] = c.expected

Replaced(text, old, new) ==
  LET i == CHOOSE i \in DOMAIN text : text[i] = old
  IN SubSeq(text, 1, i - 1) \o new \o SubSeq(text, i + 1, Len(text))

Mutated(t, c) ==
  [t EXCEPT ![c.path] =
     CASE c.kind = "replace_text" -> Replaced(@, c.old, c.new)
       [] c.kind = "add_file"     -> c.content
       [] c.kind = "delete_file"  -> Absent]

(* The tree after the first n changes, Absent when one does not apply. *)
ApplyChanges(t, changes) ==
  LET upTo[n \in 0..Len(changes)] ==
        IF n = 0 THEN t
        ELSE LET before == upTo[n-1]
             IN IF before # Absent /\ Applicable(before, changes[n])
                THEN Mutated(before, changes[n]) ELSE Absent
  IN upTo

Applied(t, changes) == ApplyChanges(t, changes)[Len(changes)]

Satisfied(g, e) ==
  LET edge == \E x \in g.edges : x.kind = e.relation /\ x.from = e.from /\ x.to = e.to
  IN CASE e.kind = "node_exists" -> e.id \in NodeIDs(g)
       [] e.kind = "node_absent" -> e.id \notin NodeIDs(g)
       [] e.kind = "edge_exists" -> edge
       [] e.kind = "edge_absent" -> ~edge

checkExpectations(g, p) == \A e \in Plan[p].expectations : Satisfied(g, e)

CandidateOf(p, g) ==
  [proposal |-> p, base |-> Plan[p].base, graph |-> g,
   eligible |-> checkExpectations(g, p), diff |-> Compare(Plan[p].base, g)]

-----------------------------------------------------------------------------
(* The candidate directory. *)

LoadCandidate ==
  /\ None \notin {dir.proposal, dir.candidate, dir.graph}
  /\ dir.candidate.proposal = dir.proposal

VerifyCandidate ==
  /\ LoadCandidate
  /\ dir.candidate.graph = dir.graph

(* The graph directory, as graph-context loads it.  A line is known by     *)
(* what it is about.                                                       *)
Keeps(file, line) == kept[file] = Whole \/ line \in kept[file]

LoadedActs ==
  [graph |-> out.manifest, root |-> RootReceipt(out.manifest),
   receipts |-> {r \in Project(out.receipts).receipts : Keeps("receipts", <<r.kind, r.this>>)},
   evidence |-> {e \in Project(out.evidence).evidence : Keeps("evidence", <<e.kind, e.of>>)},
   links |-> {l \in Project(out.links).links : Keeps("links", <<l[1].this, l[2].this>>)},
   index |-> Project(out.index).index]

Serves(acts) ==
  /\ CheckGraphDigest(out.graph, acts)
  /\ VerifyProjection(acts)

-----------------------------------------------------------------------------
(* Processes. *)

Idle == [at |-> "idle", p |-> None, token |-> None, c |-> None, n |-> 0,
         saved |-> None, end |-> "none"]

Init ==
  /\ session \in Sessions
  /\ tree = session.tree
  /\ dir = [proposal |-> None, candidate |-> None, graph |-> None]
  /\ out = [f \in ToSet(GraphFiles) |-> None] /\ kept = [f \in LineFiles |-> Whole]
  /\ job = [q \in Procs |-> Idle]
  /\ accepted = {}
  /\ runs = 0 /\ edits = 0 /\ faults = 0
  /\ origin = [q \in Procs |-> tree]
  /\ disturbed = [q \in Procs |-> FALSE]
  /\ restaged = [q \in Procs |-> FALSE]
  /\ overlap = FALSE /\ mixed = FALSE

At(q, at) == job[q].at = at
Enter(q, state) == job' = [job EXCEPT ![q] = state]
Goto(q, at) == Enter(q, [job[q] EXCEPT !.at = at, !.n = 0])
Next1(q) == Enter(q, [job[q] EXCEPT !.n = @ + 1])
End(q, end) == Enter(q, [job[q] EXCEPT !.at = "idle", !.n = 0, !.saved = None, !.end = end])

(* A command is started by a process that runs none. *)
Begin(command, q, state) ==
  /\ command \in session.commands
  /\ At(q, "idle")
  /\ runs < MaxRuns
  /\ runs' = runs + 1
  /\ Enter(q, state)
  /\ origin' = [origin EXCEPT ![q] = tree]
  /\ disturbed' = [disturbed EXCEPT ![q] = FALSE]
  /\ UNCHANGED <<tree, accepted, edits, faults>>

(* The live tree becomes t by the hand of process q, or of no process. *)
WriteTree(t, q) ==
  /\ tree' = t
  /\ disturbed' = [r \in Procs |-> disturbed[r] \/ (r # q /\ t # tree)]
  /\ UNCHANGED <<origin, restaged, overlap, mixed>>

Fault == faults < MaxFaults /\ faults' = faults + 1

-----------------------------------------------------------------------------
(* Stage: the directory is cleared once the live graph is the proposal's   *)
(* base; copy, apply, build and check; then the files are written.         *)

StageBegin(q, p) ==
  /\ Begin("stage", q, [Idle EXCEPT !.at = "copy", !.p = p])
  /\ Parses(tree)
  /\ Build(tree) = Plan[p].base
  /\ dir' = [f \in DOMAIN dir |-> None]
  /\ restaged' = [r \in Procs |-> r # q]
  /\ UNCHANGED <<out, kept, overlap, mixed>>

StageCopy(q) ==
  LET after == Applied(tree, Plan[job[q].p].changes)
  IN /\ At(q, "copy")
     /\ IF after # Absent /\ Compiles(after)
        THEN Enter(q, [job[q] EXCEPT !.at = "write",
                                     !.c = CandidateOf(job[q].p, Build(after))])
        ELSE End(q, "refused")
     /\ UNCHANGED <<files, bounds, ghosts>>

(* WriteCandidate: the files that are read again, in their order. *)
StageWrite(q) ==
  /\ At(q, "write")
  /\ dir' = CASE job[q].n = 0 -> [dir EXCEPT !.proposal = job[q].p]
              [] job[q].n = 1 -> [dir EXCEPT !.candidate = job[q].c]
              [] job[q].n = 2 -> [dir EXCEPT !.graph = job[q].c.graph]
  /\ restaged' = [r \in Procs |-> restaged[r] \/ r # q]
  /\ IF job[q].n = 2 THEN End(q, "staged") ELSE Next1(q)
  /\ UNCHANGED <<tree, out, kept, accepted, bounds, origin, disturbed, overlap, mixed>>

-----------------------------------------------------------------------------
(* Accept. *)

(* Mutant: the token is not compared. *)
AcceptBeginUncompared(q, token) ==
  /\ VerifyCandidate
  /\ Begin("accept", q, [Idle EXCEPT !.at = "load", !.token = token])
  /\ restaged' = [restaged EXCEPT ![q] = FALSE]
  /\ UNCHANGED <<dir, out, kept, overlap, mixed>>

(* change-accept verifies the directory and compares the token with the    *)
(* proposal it holds (main.go:290, 293: two readings of the directory).    *)
AcceptBegin(q, token) ==
  /\ VerifyCandidate
  /\ token = dir.candidate.proposal
  /\ Begin("accept", q, [Idle EXCEPT !.at = "load", !.token = token])
  /\ restaged' = [restaged EXCEPT ![q] = FALSE]
  /\ UNCHANGED <<dir, out, kept, overlap, mixed>>

(* Accept loads the directory again. *)
AcceptLoad(q) ==
  /\ At(q, "load")
  /\ IF LoadCandidate /\ dir.candidate.eligible
          /\ Parses(tree) /\ Build(tree) = dir.candidate.base
     THEN Enter(q, [job[q] EXCEPT !.at = "restage", !.p = dir.proposal, !.c = dir.candidate])
     ELSE End(q, "refused")
  /\ UNCHANGED <<files, bounds, ghosts>>

(* The same changes on a copy of the live tree give the reviewed graph. *)
Reproduces(t, q) == t # Absent /\ Compiles(t) /\ Build(t) = job[q].c.graph

AcceptRestage(q) ==
  /\ At(q, "restage")
  /\ IF Reproduces(Applied(tree, Plan[job[q].p].changes), q)
     THEN Goto(q, "snapshot") ELSE End(q, "refused")
  /\ UNCHANGED <<files, bounds, ghosts>>

(* Each path the changes name, once, in their order, with what it holds. *)
SnapshotsOf(t, changes) ==
  LET upTo[n \in 0..Len(changes)] ==
        IF n = 0 THEN <<>>
        ELSE LET f == changes[n].path
             IN IF \E i \in 1..(n-1) : changes[i].path = f THEN upTo[n-1]
                ELSE Append(upTo[n-1], [path |-> f, text |-> t[f]])
  IN upTo

(* Mutant: paths that do not exist yet are not saved. *)
snapshotExisting(p) ==
  SelectSeq(SnapshotsOf(tree, Plan[p].changes)[Len(Plan[p].changes)],
            LAMBDA s : s.text # Absent)

snapshotPaths(p) == SnapshotsOf(tree, Plan[p].changes)[Len(Plan[p].changes)]

AcceptSnapshot(q) ==
  /\ At(q, "snapshot")
  /\ Enter(q, [job[q] EXCEPT !.at = "apply", !.saved = snapshotPaths(job[q].p)])
  /\ UNCHANGED <<files, bounds, ghosts>>

(* One change after the other, on the live tree; the first that fails, for *)
(* what it finds or for the disk, sends the process to the snapshots, and  *)
(* so does a graph that is not the reviewed one or cannot be built.        *)
AcceptApply(q) ==
  LET changes == Plan[job[q].p].changes
      c == changes[job[q].n + 1]
  IN /\ At(q, "apply")
     /\ IF job[q].n = Len(changes)
        THEN /\ \/ Reproduces(tree, q) /\ Goto(q, "record") /\ UNCHANGED faults
                \/ /\ IF Reproduces(tree, q) THEN Fault ELSE UNCHANGED faults
                   /\ Goto(q, "restore")
             /\ UNCHANGED <<tree, ghosts>>
        ELSE \/ /\ Applicable(tree, c)
                /\ WriteTree(Mutated(tree, c), q)
                /\ Next1(q)
                /\ UNCHANGED faults
             \/ /\ IF Applicable(tree, c) THEN Fault ELSE UNCHANGED faults
                /\ Goto(q, "restore")
                /\ UNCHANGED <<tree, ghosts>>
     /\ UNCHANGED <<dir, out, kept, accepted, runs, edits>>

(* restoreSnapshots puts one path back after the other and looks at no     *)
(* error.                                                                  *)
AcceptRestore(q) ==
  LET s == job[q].saved[job[q].n + 1]
  IN /\ At(q, "restore")
     /\ IF job[q].n = Len(job[q].saved)
        THEN End(q, "restored") /\ UNCHANGED <<tree, faults, ghosts>>
        ELSE /\ Next1(q)
             /\ \/ /\ WriteTree([tree EXCEPT ![s.path] = s.text], q)
                   /\ UNCHANGED faults
                \/ /\ tree[s.path] # s.text
                   /\ Fault
                   /\ disturbed' = [disturbed EXCEPT ![q] = TRUE]
                   /\ UNCHANGED <<tree, origin, restaged, overlap, mixed>>
     /\ UNCHANGED <<dir, out, kept, accepted, runs, edits>>

(* writeAcceptance: three files in any order, of which one is the          *)
(* acceptance; an error after some of them leaves the tree as it is.       *)
AcceptRecord(q) ==
  /\ At(q, "record")
  /\ \/ accepted' = accepted \cup {job[q].p} /\ End(q, "accepted") /\ UNCHANGED faults
     \/ accepted' \in {accepted, accepted \cup {job[q].p}} /\ End(q, "unrecorded") /\ Fault
  /\ UNCHANGED <<tree, dir, out, kept, runs, edits, ghosts>>

-----------------------------------------------------------------------------
(* The graph command: graph.json, then the acts if they verify. *)

GraphFile(q) == GraphFiles[job[q].n + 1]

GraphBegin(q) ==
  /\ Begin("graph", q, [Idle EXCEPT !.at = "graph", !.c = Build(tree)])
  /\ Parses(tree)
  /\ overlap' = \E r \in Procs : At(r, "graph")
  /\ mixed' = (mixed \/ overlap')
  /\ UNCHANGED <<dir, out, kept, restaged>>

(* A write that breaks off, and one that does not. *)
Torn(q) ==
  \/ out' = [out EXCEPT ![GraphFile(q)] = None] /\ UNCHANGED kept
  \/ /\ GraphFile(q) \in LineFiles
     /\ out' = [out EXCEPT ![GraphFile(q)] = job[q].c]
     /\ \E cut \in Cuts[GraphFile(q)] : kept' = [kept EXCEPT ![GraphFile(q)] = cut]

Written(q) ==
  /\ out' = [out EXCEPT ![GraphFile(q)] = job[q].c]
  /\ kept' = [f \in LineFiles |-> IF f = GraphFile(q) THEN Whole ELSE kept[f]]

(* The error of the last flush is dropped: when the disk refuses lines the *)
(* command may go on to the next file.                                     *)
GraphWrite(q) ==
  LET f == GraphFile(q)
  IN /\ At(q, "graph")
     /\ IF f # "receipts" \/ VerifyProjection(Project(job[q].c))
        THEN \/ /\ Written(q)
                /\ IF f = "manifest" THEN End(q, "written") /\ mixed' = overlap
                   ELSE Next1(q) /\ UNCHANGED mixed
                /\ UNCHANGED faults
             \/ /\ Fault /\ Torn(q)
                /\ f \in LineFiles /\ Next1(q)
                /\ UNCHANGED mixed
             \/ /\ Fault /\ (Torn(q) \/ UNCHANGED <<out, kept>>)
                /\ End(q, "refused")
                /\ mixed' = (mixed \/ f = "manifest")
        ELSE End(q, "refused") /\ UNCHANGED <<out, kept, mixed, faults>>
     /\ UNCHANGED <<tree, dir, accepted, runs, edits, origin, disturbed, restaged, overlap>>

-----------------------------------------------------------------------------
(* The world. *)

Edit(e) ==
  /\ e \in session.edits
  /\ edits < MaxEdits
  /\ tree[e.path] # e.text
  /\ edits' = edits + 1
  /\ WriteTree([tree EXCEPT ![e.path] = e.text], None)
  /\ UNCHANGED <<dir, out, kept, accepted, job, runs, faults>>

(* A kill leaves the file a graph command is at as it was, or torn. *)
Crash(q) ==
  /\ ~At(q, "idle")
  /\ End(q, "killed")
  /\ \/ UNCHANGED <<out, kept>>
     \/ At(q, "graph") /\ Torn(q)
  /\ mixed' = (mixed \/ (At(q, "graph") /\ GraphFile(q) = "manifest"))
  /\ UNCHANGED <<tree, dir, accepted, bounds, origin, disturbed, restaged, overlap>>

Step ==
  \/ \E q \in Procs :
       \/ \E p \in Proposals : StageBegin(q, p) \/ AcceptBegin(q, p)
       \/ StageCopy(q) \/ StageWrite(q)
       \/ AcceptLoad(q) \/ AcceptRestage(q) \/ AcceptSnapshot(q)
       \/ AcceptApply(q) \/ AcceptRestore(q) \/ AcceptRecord(q)
       \/ GraphBegin(q) \/ GraphWrite(q) \/ Crash(q)
  \/ \E e \in Edits : Edit(e)

Next == Step /\ UNCHANGED session

Spec == Init /\ [][Next]_vars

-----------------------------------------------------------------------------
(* Properties. *)

(* Every variable has its type, and every graph a command writes has the   *)
(* two ends of each of its edges: collectRelations adds the node of every  *)
(* call it adds an edge for (scan.go:265).                                 *)
TypeOK ==
  /\ tree \in Trees
  /\ dir.proposal \in {None} \cup Proposals
  /\ dir.graph # None => IsGraph(dir.graph)
  /\ \A q \in Procs :
       /\ job[q].at \in {"idle", "copy", "write", "load", "restage", "snapshot", "apply",
                         "record", "restore", "graph"}
       /\ job[q].end \in {"none", "staged", "written", "refused", "restored",
                          "unrecorded", "accepted", "killed"}
       /\ {job[q].p, job[q].token} \subseteq {None} \cup Proposals
       /\ At(q, "graph") => IsGraph(job[q].c)
       /\ disturbed[q] \in BOOLEAN /\ restaged[q] \in BOOLEAN
  /\ accepted \subseteq Proposals
  /\ runs \in 0..MaxRuns /\ edits \in 0..MaxEdits /\ faults \in 0..MaxFaults
  /\ \A f \in LineFiles : kept[f] \in {Whole} \cup Cuts[f]
  /\ overlap \in BOOLEAN /\ mixed \in BOOLEAN
  /\ session \in Sessions

(* While nobody else writes the tree and no write of the rollback fails,   *)
(* an acceptance takes the tree from where it found it to where all the    *)
(* changes lead, the reviewed graph, or leaves it where it was: refused or *)
(* rolled back, no change is left behind; an error after that, in writing  *)
(* the acceptance, leaves all of them; a kill leaves each file as one of   *)
(* the changes left it (change.go:190-219).                                *)
AcceptIsAtomic ==
  \A q \in Procs :
    LET steps == ApplyChanges(origin[q], Plan[job[q].p].changes)
        whole == steps[Len(Plan[job[q].p].changes)]
    IN job[q].p # None /\ ~disturbed[q] =>
         /\ job[q].end \in {"accepted", "unrecorded"} \/ At(q, "record") =>
              tree = whole /\ Reproduces(tree, q)
         /\ job[q].end \in {"refused", "restored"} \/ job[q].at \in {"restage", "snapshot"} =>
              tree = origin[q]
         /\ job[q].end = "killed" =>
              \A f \in Paths : \E n \in DOMAIN steps :
                 steps[n] # Absent /\ tree[f] = steps[n][f]

(* What is accepted is what was reviewed: an eligible candidate of the     *)
(* proposal that is applied, whose graph satisfies the proposal's          *)
(* expectations; the diff shown leaves out no node or edge in which the    *)
(* graph and its base differ, and shows no other but the steps of bundles, *)
(* which it shows as changed when both have them (diff.go:85-149); the     *)
(* live tree had the base graph; and the proposal is the one the token     *)
(* named, unless the candidate directory was staged into after the token   *)
(* was compared (main.go:294-300, change.go:144-163).                      *)
AcceptedIsReviewed ==
  \A q \in Procs :
    LET c == job[q].c
        p == job[q].p
    IN job[q].end = "accepted" \/ At(q, "record") =>
         /\ c.proposal = p /\ c.eligible /\ checkExpectations(c.graph, p)
         /\ c.base = Plan[p].base /\ DiffTells(c.diff, c.base, c.graph)
         /\ p = job[q].token \/ restaged[q]
         /\ Build(origin[q]) = c.base \/ disturbed[q]

(* Whatever the graph commands that died, failed, or ran at one time left  *)
(* in the graph directory, and however the tree moved on: when             *)
(* graph-context does serve from it, the receipts, evidence and links are  *)
(* of the graph served; nothing counts them, so that some may be missing   *)
(* from a file that broke off at the end of a line, but whole links need   *)
(* all receipts, and all receipts need all evidence.  Nothing verifies     *)
(* index.json either.  Unless two commands were at work at one time or one *)
(* stopped between its index and its manifest, and none has ended by       *)
(* itself since, the index is of that graph: every receipt that comes with *)
(* a view comes with its evidence, and if the receipts are all there every *)
(* node and edge of the view comes with its receipt, the receipts of its   *)
(* ends and, if the links are whole, the link from the root.               *)
ContextIsWhole ==
  LET acts == LoadedActs
      g == out.graph
      whole == Project(g)
      complete == kept["receipts"] = Whole \/ kept["links"] = Whole
  IN (\A f \in DOMAIN out : out[f] # None) /\ Serves(acts) =>
       /\ acts.receipts \subseteq whole.receipts
       /\ acts.evidence \subseteq whole.evidence
       /\ acts.links \subseteq whole.links
       /\ complete => acts.receipts = whole.receipts /\ acts.evidence = whole.evidence
       /\ kept["links"] = Whole => acts.links = whole.links
       /\ mixed \/ \A id \in NodeIDs(g), query \in Queries :
            \A v \in Neighborhoods(g, {id}, query.depth, query.limit) :
              LET context == BuildContext(v, acts)
              IN /\ ViewIsNear(g, id, query, v)
                 /\ \A r \in context.receipts : r.confirmed_by \in context.evidence
                 /\ complete => \A x \in NodeIDs(v) \cup EdgeIDs(v) : \E r \in context.receipts :
                      /\ r.this = x
                      /\ kept["links"] # Whole \/ x = Repo \/ <<acts.root, r>> \in context.links
                      /\ r.kind = "edge" => {r.from, r.to} \subseteq context.receipts

===============================================================================
